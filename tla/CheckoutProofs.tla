--------------------------- MODULE CheckoutProofs ---------------------------
(***************************************************************************)
(* Proofs about Checkout for any calls, quantities, stocks and bounds.      *)
(* The row alone is not inductive: an operator may save a row that was read *)
(* any number of steps ago, so the invariants cover the rows being edited,  *)
(* and sold_count is bounded by the calls that got as far as counting, a    *)
(* number that only grows.  What left the stock is bounded in the same way  *)
(* by the units of the calls that got past taking it.                       *)
(***************************************************************************)
EXTENDS Checkout, FiniteSetTheorems, TLAPS

Limited ==
    entered > 0 => /\ stock >= 0
                   /\ \A row \in edits : row.stock >= 0

Done == {r \in Requests : request[r] = "done"}

Counted ==
    /\ \A r \in Requests :
          request[r] \in {"decrease", "count", "done"} => r \in placed
    /\ sold <= Cardinality(Done)
    /\ \A row \in edits : row.sold <= Cardinality(Done)

\* The calls that got past the UPDATE of the stock.
Past == {r \in Requests : request[r] \in {"count", "done"}}

\* A row that was read before a restock is saved over it, so the two bounds hold
\* together only while one of them has not happened.
Taken ==
    entered > 0 =>
        /\ edited = 0 \/ restocked = 0 => entered + restocked - stock <= Units(Past)
        /\ restocked = 0 => \A row \in edits : entered - row.stock <= Units(Past)
        /\ edited = 0 => edits = {}

IInv == TypeOK /\ Limited /\ Counted /\ Taken

-----------------------------------------------------------------------------
(* What left the stock.                                                    *)

\* The calls are finitely many, and so are the units of each.
LEMMA UnitsFinite ==
    ASSUME NEW S \in SUBSET Requests
    PROVE  IsFiniteSet(UnitsOf(S))
<1> DEFINE own(r) == {r} \X (1 .. Quantity[r])
           owns == {own(r) : r \in S}
           f == [r \in S |-> own(r)]
<1>1. IsFiniteSet(S)
  BY CheckoutAssumption, FS_Subset
<1>2. f \in Surjection(S, owns)
  BY DEF Surjection
<1>3. IsFiniteSet(owns)
  BY <1>1, <1>2, FS_Surjection
<1>4. ASSUME NEW r \in S
      PROVE  IsFiniteSet(own(r))
  <2>1. Quantity[r] \in Int /\ 1 \in Int
    BY CheckoutAssumption
  <2>2. IsFiniteSet(1 .. Quantity[r])
    BY <2>1, FS_Interval
  <2>3. IsFiniteSet({r})
    BY FS_Singleton
  <2> QED
    BY <2>2, <2>3, FS_Product
<1>5. IsFiniteSet(UNION owns)
  BY <1>3, <1>4, FS_UNION
<1> QED
  BY <1>5 DEF UnitsOf


\* One call more adds the units it asks for.
LEMMA UnitsAdd ==
    ASSUME NEW S \in SUBSET Requests, NEW r \in Requests \ S
    PROVE  /\ Units(S) \in Nat
           /\ Units(S \cup {r}) = Units(S) + Quantity[r]
<1> DEFINE own == {r} \X (1 .. Quantity[r])
<1>1. Quantity[r] \in Nat \ {0}
  BY CheckoutAssumption
<1>2. IsFiniteSet({r}) /\ Cardinality({r}) = 1
  BY FS_Singleton
<1>3. IsFiniteSet(1 .. Quantity[r]) /\ Cardinality(1 .. Quantity[r]) = Quantity[r]
  BY <1>1, FS_Interval, SMTT(30)
<1>4. IsFiniteSet(own) /\ Cardinality(own) = Quantity[r]
  <2>1. /\ IsFiniteSet(own)
        /\ Cardinality(own) = Cardinality({r}) * Cardinality(1 .. Quantity[r])
    BY <1>2, <1>3, FS_Product
  <2> QED
    BY <1>1, <1>2, <1>3, <2>1
<1>5. IsFiniteSet(UnitsOf(S))
  BY UnitsFinite
<1>6. UnitsOf(S \cup {r}) = UnitsOf(S) \cup own /\ UnitsOf(S) \cap own = {}
  BY DEF UnitsOf
<1>7. Cardinality(UnitsOf(S)) \in Nat
  BY <1>5, FS_CardinalityType
<1>8. /\ Cardinality(UnitsOf(S) \cup own)
             = Cardinality(UnitsOf(S)) + Cardinality(own) - Cardinality({})
      /\ Cardinality({}) = 0
  BY <1>4, <1>5, <1>6, FS_Union, FS_EmptySet
<1> HIDE DEF own
<1>9. /\ Units(S) = Cardinality(UnitsOf(S))
      /\ Units(S \cup {r}) = Cardinality(UnitsOf(S) \cup own)
  BY <1>6 DEF Units
<1> QED
  BY <1>1, <1>4, <1>7, <1>8, <1>9

LEMMA UnitsGrow ==
    ASSUME NEW T \in SUBSET Requests, NEW S \in SUBSET T
    PROVE  Units(S) <= Units(T) /\ Units(S) \in Nat /\ Units(T) \in Nat
<1>1. UnitsOf(S) \in SUBSET UnitsOf(T)
  BY DEF UnitsOf
<1>2. IsFiniteSet(UnitsOf(T)) /\ IsFiniteSet(UnitsOf(S))
  BY UnitsFinite
<1> QED
  BY <1>1, <1>2, FS_Subset, FS_CardinalityType DEF Units

-----------------------------------------------------------------------------
LEMMA InitHolds == Init => IInv
<1> SUFFICES ASSUME Init PROVE IInv
    OBVIOUS
<1>1. TypeOK
  BY CheckoutAssumption DEF Init, TypeOK, Column, Unlimited, Progress
<1>2. Limited
  BY CheckoutAssumption DEF Init, Limited, Column, Unlimited
<1>3. Done = {}
  BY DEF Init, Done
<1>4. Counted
  BY <1>3, FS_EmptySet DEF Init, Counted
<1>5. Taken
  <2>1. Past \in SUBSET Requests
    BY DEF Past
  <2>2. Units(Past) \in Nat
    BY <2>1, UnitsGrow
  <2> QED
    BY <2>2, CheckoutAssumption DEF Init, Taken, Column, Unlimited
<1> QED
  BY <1>1, <1>2, <1>4, <1>5 DEF IInv

LEMMA TypeStep ==
    ASSUME TypeOK, [Next]_vars
    PROVE  TypeOK'
<1> USE CheckoutAssumption DEF TypeOK, Progress
<1>1. ASSUME NEW r \in Requests,
             \/ CreateOrder(r) \/ InsertOrder(r) \/ IncrementSoldCount(r)
      PROVE  TypeOK'
  BY <1>1 DEF CreateOrder, InsertOrder, IncrementSoldCount, Moves
<1>2. ASSUME NEW r \in Requests, DecreaseStock(r)
      PROVE  TypeOK'
  <2>1. stock' \in Nat \cup {Unlimited}
    BY <1>2 DEF DecreaseStock, Matches, Unlimited
  <2> QED
    BY <1>2, <2>1 DEF DecreaseStock, Moves
<1>3. ASSUME NEW r \in Requests, CallFails(r)
      PROVE  TypeOK'
  BY <1>3 DEF CallFails, AfterFailure
<1>4. CASE IncreaseStock
  BY <1>4 DEF IncreaseStock, Unlimited
<1>5. CASE DeleteProduct
  BY <1>5 DEF DeleteProduct
<1>6. CASE ReadProduct
  BY <1>6 DEF ReadProduct, Row
<1>7. ASSUME NEW row \in edits, UpdateProduct(row)
      PROVE  TypeOK'
  BY <1>7 DEF UpdateProduct, Row
<1>8. CASE UNCHANGED vars
  BY <1>8 DEF vars
<1> QED
  BY <1>1, <1>2, <1>3, <1>4, <1>5, <1>6, <1>7, <1>8 DEF Next

LEMMA LimitedStep ==
    ASSUME IInv, [Next]_vars
    PROVE  Limited'
<1> USE CheckoutAssumption DEF IInv, TypeOK, Limited
<1>1. ASSUME NEW r \in Requests,
             \/ CreateOrder(r) \/ InsertOrder(r) \/ IncrementSoldCount(r)
             \/ CallFails(r)
      PROVE  Limited'
  BY <1>1 DEF CreateOrder, InsertOrder, IncrementSoldCount, CallFails
<1>2. ASSUME NEW r \in Requests, DecreaseStock(r)
      PROVE  Limited'
  BY <1>2 DEF DecreaseStock, Matches, Unlimited
<1>3. CASE IncreaseStock
  BY <1>3 DEF IncreaseStock, Unlimited
<1>4. CASE DeleteProduct
  BY <1>4 DEF DeleteProduct
<1>5. CASE ReadProduct
  BY <1>5 DEF ReadProduct
<1>6. ASSUME NEW row \in edits, UpdateProduct(row)
      PROVE  Limited'
  BY <1>6 DEF UpdateProduct
<1>7. CASE UNCHANGED vars
  BY <1>7 DEF vars
<1> QED
  BY <1>1, <1>2, <1>3, <1>4, <1>5, <1>6, <1>7 DEF Next

LEMMA CountedStep ==
    ASSUME IInv, [Next]_vars
    PROVE  Counted'
<1>0. /\ request \in [Requests -> Progress] /\ sold \in Nat /\ edits \subseteq Row
      /\ IsFiniteSet(Done) /\ Cardinality(Done) \in Nat
      /\ IsFiniteSet(Requests)
  <2>1. Done \in SUBSET Requests
    BY DEF Done
  <2>2. IsFiniteSet(Done)
    BY <2>1, CheckoutAssumption, FS_Subset
  <2> QED
    BY <2>2, FS_CardinalityType, CheckoutAssumption DEF IInv, TypeOK
<1>1. ASSUME Done' = Done, sold' = sold \/ \E row \in edits : sold' = row.sold,
             \A row \in edits' : row \in edits \/ row.sold = sold
      PROVE  /\ sold' <= Cardinality(Done')
             /\ \A row \in edits' : row.sold <= Cardinality(Done')
  BY <1>1 DEF IInv, Counted
<1>2. ASSUME NEW r \in Requests, CreateOrder(r)
      PROVE  Counted'
  <2>1. Done' = Done
    BY <1>0, <1>2 DEF CreateOrder, Moves, Done
  <2> QED
    BY <1>0, <1>1, <1>2, <2>1 DEF CreateOrder, Moves, IInv, Counted
<1>3. ASSUME NEW r \in Requests, InsertOrder(r)
      PROVE  Counted'
  <2>1. Done' = Done
    BY <1>0, <1>3 DEF InsertOrder, Moves, Done
  <2> QED
    BY <1>0, <1>1, <1>3, <2>1 DEF InsertOrder, Moves, IInv, Counted
<1>4. ASSUME NEW r \in Requests, DecreaseStock(r)
      PROVE  Counted'
  <2>1. Done' = Done
    BY <1>0, <1>4 DEF DecreaseStock, Moves, Done
  <2> QED
    BY <1>0, <1>1, <1>4, <2>1 DEF DecreaseStock, Moves, IInv, Counted
<1>5. ASSUME NEW r \in Requests, r \notin Done, Done' = Done \cup {r},
             sold' \in {sold, sold + 1}, UNCHANGED edits
      PROVE  /\ sold' <= Cardinality(Done')
             /\ \A row \in edits' : row.sold <= Cardinality(Done')
  <2>1. Cardinality(Done') = Cardinality(Done) + 1
    BY <1>0, <1>5, FS_AddElement
  <2>2. \A row \in edits : row.sold \in Nat
    BY <1>0 DEF Row
  <2> QED
    BY <1>0, <1>5, <2>1, <2>2, SMTT(30) DEF IInv, Counted
<1>6. ASSUME NEW r \in Requests, IncrementSoldCount(r)
      PROVE  Counted'
  <2>1. r \notin Done /\ Done' = Done \cup {r}
    BY <1>0, <1>6 DEF IncrementSoldCount, Moves, Done
  <2> QED
    BY <1>0, <1>5, <1>6, <2>1 DEF IncrementSoldCount, Moves, IInv, Counted
<1>7. ASSUME NEW r \in Requests, CallFails(r)
      PROVE  Counted'
  <2>1. CASE request[r] = "count"
    <3>1. r \notin Done /\ Done' = Done \cup {r}
      BY <1>0, <1>7, <2>1 DEF CallFails, AfterFailure, Done
    <3> QED
      BY <1>0, <1>5, <1>7, <2>1, <3>1
         DEF CallFails, AfterFailure, IInv, Counted
  <2>2. CASE request[r] # "count"
    <3>1. Done' = Done
      BY <1>0, <1>7, <2>2 DEF CallFails, AfterFailure, Done
    <3> QED
      BY <1>0, <1>1, <1>7, <2>2, <3>1
         DEF CallFails, AfterFailure, IInv, Counted
  <2> QED
    BY <2>1, <2>2
<1>8. CASE IncreaseStock \/ DeleteProduct
  BY <1>8 DEF IncreaseStock, DeleteProduct, IInv, Counted, Done
<1>9. CASE ReadProduct
  <2>1. Done' = Done
    BY <1>9 DEF ReadProduct, Done
  <2>2. \A row \in edits' : row \in edits \/ row.sold = sold
    BY <1>9 DEF ReadProduct
  <2>3. UNCHANGED <<request, placed, sold>>
    BY <1>9 DEF ReadProduct
  <2> QED
    BY <1>1, <2>1, <2>2, <2>3 DEF IInv, Counted
<1>10. ASSUME NEW row \in edits, UpdateProduct(row)
       PROVE  Counted'
  <2>1. Done' = Done
    BY <1>10 DEF UpdateProduct, Done
  <2>2. /\ \A other \in edits' : other \in edits
        /\ sold' = row.sold
        /\ UNCHANGED <<request, placed>>
    BY <1>10 DEF UpdateProduct
  <2> QED
    BY <1>1, <2>1, <2>2 DEF IInv, Counted
<1>11. CASE UNCHANGED vars
  BY <1>11 DEF vars, IInv, Counted, Done
<1> QED
  BY <1>2, <1>3, <1>4, <1>6, <1>7, <1>8, <1>9, <1>10, <1>11 DEF Next

LEMMA TakenStep ==
    ASSUME IInv, [Next]_vars
    PROVE  Taken'
<1>0. /\ request \in [Requests -> Progress] /\ edits \subseteq Row
      /\ stock \in Nat \cup {Unlimited} /\ entered \in Nat \cup {Unlimited}
      /\ restocked \in Nat /\ edited \in Nat
      /\ entered > 0 => stock \in Nat
      /\ Past \in SUBSET Requests /\ Units(Past) \in Nat
  <2>1. Past \in SUBSET Requests
    BY DEF Past
  <2> QED
    BY <2>1, UnitsGrow, CheckoutAssumption DEF IInv, TypeOK, Limited, Unlimited
\* Nothing is said of the units beyond how many there may be.
<1>1. ASSUME Units(Past') \in Nat, Units(Past) <= Units(Past'),
             UNCHANGED <<entered, stock, edits, restocked, edited>>
      PROVE  Taken'
  BY <1>0, <1>1 DEF IInv, Taken, Limited, Row, Unlimited
<1>2. ASSUME NEW r \in Requests, CreateOrder(r) \/ InsertOrder(r) \/ IncrementSoldCount(r)
      PROVE  Taken'
  <2>1. Past' = Past
    BY <1>0, <1>2 DEF CreateOrder, InsertOrder, IncrementSoldCount, Moves, Past
  <2> QED
    BY <1>0, <1>1, <1>2, <2>1 DEF CreateOrder, InsertOrder, IncrementSoldCount
<1>3. ASSUME NEW r \in Requests, DecreaseStock(r)
      PROVE  Taken'
  <2>1. r \notin Past /\ Past' = Past \cup {r}
    BY <1>0, <1>3 DEF DecreaseStock, Moves, Past
  <2>2. Units(Past') = Units(Past) + Quantity[r] /\ Quantity[r] \in Nat
    BY <1>0, <2>1, UnitsAdd, CheckoutAssumption
  <2>3. /\ UNCHANGED <<entered, edits, restocked, edited>>
        /\ entered > 0 => stock - stock' <= Quantity[r] /\ stock' \in Nat
    BY <1>0, <1>3, <2>2 DEF DecreaseStock, Matches, Unlimited
  <2> QED
    BY <1>0, <2>2, <2>3 DEF IInv, Taken, Limited, Row, Unlimited
<1>4. ASSUME NEW r \in Requests, CallFails(r)
      PROVE  Taken'
  <2>1. Past' = Past
    BY <1>0, <1>4 DEF CallFails, AfterFailure, Past
  <2> QED
    BY <1>0, <1>1, <1>4, <2>1 DEF CallFails
<1>5. CASE IncreaseStock
  <2>1. /\ Past' = Past /\ restocked' = restocked + 1
        /\ entered > 0 => stock' = stock + 1
        /\ UNCHANGED <<entered, edits, edited>>
    BY <1>0, <1>5 DEF IncreaseStock, Past, Unlimited
  <2> QED
    BY <1>0, <2>1 DEF IInv, Taken
<1>6. CASE DeleteProduct
  <2>1. Past' = Past
    BY <1>6 DEF DeleteProduct, Past
  <2> QED
    BY <1>0, <1>1, <1>6, <2>1 DEF DeleteProduct
<1>7. CASE ReadProduct
  <2>1. /\ Past' = Past /\ edited' = edited + 1
        /\ edits' = edits \cup {[stock |-> stock, sold |-> sold]}
        /\ UNCHANGED <<entered, stock, restocked>>
    BY <1>7 DEF ReadProduct, Past
  <2> QED
    BY <1>0, <2>1 DEF IInv, Taken
<1>8. ASSUME NEW row \in edits, UpdateProduct(row)
      PROVE  Taken'
  <2>1. /\ Past' = Past /\ stock' = row.stock /\ edits' = edits \ {row}
        /\ UNCHANGED <<entered, restocked, edited>>
    BY <1>8 DEF UpdateProduct, Past
  <2> QED
    BY <1>0, <1>8, <2>1 DEF IInv, Taken, Limited, Row, Unlimited
<1>9. CASE UNCHANGED vars
  <2>1. Past' = Past
    BY <1>9 DEF vars, Past
  <2> QED
    BY <1>0, <1>1, <1>9, <2>1 DEF vars
<1> QED
  BY <1>2, <1>3, <1>4, <1>5, <1>6, <1>7, <1>8, <1>9 DEF Next

\* The strengthened invariant, over the row and the rows being edited.
THEOREM Invariance == Spec => []IInv
<1>1. IInv /\ [Next]_vars => IInv'
  BY TypeStep, LimitedStep, CountedStep, TakenStep DEF IInv
<1> QED
  BY <1>1, InitHolds, PTL DEF Spec

\* The row, the calls and the edits keep their types; in particular the stock
\* column never holds a number below the mark for an unlimited product.
THEOREM TypeCorrect == Spec => []TypeOK
<1>1. IInv => TypeOK
  BY DEF IInv
<1> QED
  BY <1>1, Invariance, PTL

\* A limited product never runs into the mark for an unlimited one.
THEOREM StaysLimited == Spec => []LimitedStaysLimited
<1>1. IInv => LimitedStaysLimited
  BY DEF IInv, Limited, LimitedStaysLimited
<1> QED
  BY <1>1, Invariance, PTL

\* sold_count never exceeds the number of orders.
THEOREM SoldIsOrdered == Spec => []SoldWasOrdered
<1>1. ASSUME IInv PROVE SoldWasOrdered
  <2>1. Done \subseteq placed /\ placed \in SUBSET Requests /\ sold \in Nat
    BY <1>1 DEF IInv, TypeOK, Counted, Done
  <2>2. IsFiniteSet(placed)
    BY <2>1, CheckoutAssumption, FS_Subset
  <2>3. /\ Cardinality(Done) <= Cardinality(placed)
        /\ Cardinality(Done) \in Nat /\ Cardinality(placed) \in Nat
    BY <2>1, <2>2, FS_Subset, FS_CardinalityType
  <2> QED
    BY <1>1, <2>1, <2>3 DEF IInv, Counted, SoldWasOrdered
<1> QED
  BY <1>1, Invariance, PTL

\* No unit leaves the stock of a limited product without an order for it, but
\* for a product that was both edited and restocked.
THEOREM StockIsOrdered == Spec => []StockWasOrdered
<1>1. ASSUME IInv PROVE StockWasOrdered
  <2>1. Past \in SUBSET placed /\ placed \in SUBSET Requests
    BY <1>1 DEF IInv, TypeOK, Counted, Past
  <2>2. Units(Past) <= Units(placed) /\ Units(Past) \in Nat /\ Units(placed) \in Nat
    BY <2>1, UnitsGrow
  <2>3. entered > 0 => stock \in Nat /\ entered \in Nat /\ restocked \in Nat
    BY <1>1, CheckoutAssumption DEF IInv, TypeOK, Limited, Unlimited
  <2> QED
    BY <1>1, <2>2, <2>3 DEF IInv, Taken, StockWasOrdered
<1> QED
  BY <1>1, Invariance, PTL
=============================================================================
