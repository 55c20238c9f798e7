--------------------------- MODULE RequestsProofs ---------------------------
(***************************************************************************)
(* What the steps of any handler do to the requests that are served: facts  *)
(* that the proofs about the services around stories share.                 *)
(***************************************************************************)
EXTENDS Requests, FiniteSetTheorems, WellFoundedInduction, TLAPS

-----------------------------------------------------------------------------
(* Requests: what the steps of any handler do to the requests.             *)

\* No two requests of a user are in flight.
Alone == \A v, w \in Busy : worker[v].user = worker[w].user => v = w

AloneInv == ~ overlapped => Alone

\* Every request but w is where it was.
OnlyMoves(w) == \A v \in Workers \ {w} : worker'[v] = worker[v]

LEMMA CallMoves ==
    ASSUME DOMAIN worker = Workers, AloneInv,
           NEW w \in Workers, worker[w] # Idle, NEW pc, NEW got,
           GoesWith(w, pc, got)
    PROVE  /\ worker' = [worker EXCEPT ![w] = After(w, pc, got)]
           /\ worker'[w] = After(w, pc, got) /\ OnlyMoves(w) /\ AloneInv'
           /\ DOMAIN worker' = Workers
           /\ UNCHANGED <<served, faults, overlapped>>
<1>1. /\ worker' = [worker EXCEPT ![w] = After(w, pc, got)]
      /\ UNCHANGED <<served, faults, overlapped>>
  BY DEF GoesWith
<1>2. worker'[w] = After(w, pc, got) /\ OnlyMoves(w) /\ DOMAIN worker' = Workers
  BY <1>1 DEF OnlyMoves
<1>3. \A v \in Busy' : v \in Busy /\ worker'[v].user = worker[v].user
  <2> SUFFICES ASSUME NEW v \in Workers, worker'[v] # Idle
               PROVE  worker[v] # Idle /\ worker'[v].user = worker[v].user
    BY DEF Busy
  <2>1. CASE v = w
    <3>1. After(w, pc, got) = [worker[w] EXCEPT !.pc = pc, !.got = got]
      BY <1>2, <2>1 DEF After
    <3>2. After(w, pc, got).user = worker[w].user
      BY <3>1
    <3> QED
      BY <1>2, <2>1, <3>2
  <2>2. CASE v # w
    BY <1>2, <2>2 DEF OnlyMoves
  <2> QED
    BY <2>1, <2>2
<1>4. AloneInv'
  BY <1>1, <1>3 DEF AloneInv, Alone
<1> QED
  BY <1>1, <1>2, <1>4

\* A call that fails; whether its request goes on or not.
LEMMA FailureMoves ==
    ASSUME DOMAIN worker = Workers, AloneInv, faults \in Nat,
           NEW w \in Workers, worker[w] # Idle, NEW pc, Logs(w, pc)
    PROVE  /\ worker' = [worker EXCEPT ![w] = After(w, pc, worker[w].got)]
           /\ worker'[w] = After(w, pc, worker[w].got) /\ OnlyMoves(w) /\ AloneInv'
           /\ DOMAIN worker' = Workers
           /\ faults' \in Nat /\ faults' # 0 /\ ~ Undisturbed'
           /\ UNCHANGED <<served, overlapped>>
<1>1. /\ worker' = [worker EXCEPT ![w] = After(w, pc, worker[w].got)]
      /\ faults' = faults + 1 /\ UNCHANGED <<served, overlapped>>
  BY DEF Logs
<1>2. worker'[w] = After(w, pc, worker[w].got) /\ OnlyMoves(w) /\ DOMAIN worker' = Workers
  BY <1>1 DEF OnlyMoves
<1>3. \A v \in Busy' : v \in Busy /\ worker'[v].user = worker[v].user
  <2> SUFFICES ASSUME NEW v \in Workers, worker'[v] # Idle
               PROVE  worker[v] # Idle /\ worker'[v].user = worker[v].user
    BY DEF Busy
  <2>1. CASE v = w
    <3>1. After(w, pc, worker[w].got) = [worker[w] EXCEPT !.pc = pc, !.got = worker[w].got]
      BY <1>2, <2>1 DEF After
    <3>2. After(w, pc, worker[w].got).user = worker[w].user
      BY <3>1
    <3> QED
      BY <1>2, <2>1, <3>2
  <2>2. CASE v # w
    BY <1>2, <2>2 DEF OnlyMoves
  <2> QED
    BY <2>1, <2>2
<1>4. AloneInv'
  BY <1>1, <1>3 DEF AloneInv, Alone
<1>5. faults' \in Nat /\ faults' # 0
  BY <1>1
<1> QED
  BY <1>1, <1>2, <1>4, <1>5 DEF Undisturbed

LEMMA RequestArrives ==
    ASSUME DOMAIN worker = Workers, AloneInv,
           NEW w \in Workers, NEW u \in Users, NEW op, NEW x, NEW pc, NEW got,
           Takes(w, u, op, x, pc, got)
    PROVE  /\ worker[w] = Idle
           /\ worker' = [worker EXCEPT ![w] = [pc |-> pc, user |-> u, op |-> op,
                                               on |-> x, got |-> got]]
           /\ worker'[w] = [pc |-> pc, user |-> u, op |-> op, on |-> x, got |-> got]
           /\ OnlyMoves(w) /\ AloneInv' /\ DOMAIN worker' = Workers
           /\ (Undisturbed' => Undisturbed) /\ (~ overlapped' => ~ overlapped)
           /\ UNCHANGED faults
<1> DEFINE l == [pc |-> pc, user |-> u, op |-> op, on |-> x, got |-> got]
<1>1. /\ worker[w] = Idle /\ worker' = [worker EXCEPT ![w] = l]
      /\ overlapped' = (overlapped \/ \E other \in Busy : worker[other].user = u)
      /\ UNCHANGED faults
  BY DEF Takes
<1>2. worker'[w] = l /\ OnlyMoves(w) /\ DOMAIN worker' = Workers
  BY <1>1 DEF OnlyMoves
<1>3. ASSUME ~ overlapped'
      PROVE  Alone'
  <2>1. ~ overlapped /\ \A v \in Busy : worker[v].user # u
    BY <1>1, <1>3
  <2>2. Alone
    BY <2>1 DEF AloneInv
  <2>3. l.user = u
    OBVIOUS
  <2> HIDE DEF l
  <2>4. \A v \in Busy' : v # w => v \in Busy /\ worker'[v] = worker[v]
    BY <1>2 DEF Busy, OnlyMoves
  <2> QED
    BY <1>2, <2>1, <2>2, <2>3, <2>4 DEF Alone
<1>4. (Undisturbed' => Undisturbed) /\ (~ overlapped' => ~ overlapped)
  BY <1>1 DEF Undisturbed
<1> QED
  BY <1>1, <1>2, <1>3, <1>4 DEF AloneInv

-----------------------------------------------------------------------------
(* Requests whose locals differ in kind.                                   *)

Shaped ==
    \A w \in Workers :
        worker[w] = [pc |-> worker[w].pc, user |-> worker[w].user, op |-> worker[w].op,
                     on |-> worker[w].on, got |-> worker[w].got]

\* A record that goes on to another call keeps the rest.
LEMMA CallStaysShaped ==
    ASSUME Shaped, NEW w \in Workers, OnlyMoves(w), NEW pc, NEW got,
           worker'[w] = After(w, pc, got)
    PROVE  /\ Shaped'
           /\ pc = "idle" => worker'[w] = Idle
           /\ pc # "idle" =>
                worker'[w] = [pc |-> pc, user |-> worker[w].user, op |-> worker[w].op,
                              on |-> worker[w].on, got |-> got]
<1>1. worker[w] = [pc |-> worker[w].pc, user |-> worker[w].user, op |-> worker[w].op,
                   on |-> worker[w].on, got |-> worker[w].got]
  BY DEF Shaped
<1>2. pc = "idle" => worker'[w] = Idle
  BY DEF After
<1>3. pc # "idle" =>
        worker'[w] = [pc |-> pc, user |-> worker[w].user, op |-> worker[w].op,
                      on |-> worker[w].on, got |-> got]
  <2>1. SUFFICES ASSUME pc # "idle"
                 PROVE  worker'[w] = [pc |-> pc, user |-> worker[w].user, op |-> worker[w].op,
                                      on |-> worker[w].on, got |-> got]
    OBVIOUS
  <2>2. worker'[w] = [worker[w] EXCEPT !.pc = pc, !.got = got]
    BY <2>1 DEF After
  <2> QED
    BY <1>1, <2>2
<1>4. ASSUME NEW v \in Workers
      PROVE  worker'[v] = [pc |-> worker'[v].pc, user |-> worker'[v].user,
                           op |-> worker'[v].op, on |-> worker'[v].on,
                           got |-> worker'[v].got]
  <2>1. CASE v # w
    BY <2>1 DEF OnlyMoves, Shaped
  <2>2. CASE v = w /\ pc = "idle"
    <3>1. worker'[v] = Idle
      BY <1>2, <2>2
    <3> QED
      BY <3>1 DEF Idle
  <2>3. CASE v = w /\ pc # "idle"
    BY <1>3, <2>3
  <2> QED
    BY <2>1, <2>2, <2>3
<1> QED
  BY <1>2, <1>3, <1>4 DEF Shaped

LEMMA RequestIsShaped ==
    ASSUME Shaped, NEW w \in Workers, OnlyMoves(w), NEW u, NEW op, NEW x, NEW pc, NEW got,
           worker'[w] = [pc |-> pc, user |-> u, op |-> op, on |-> x, got |-> got]
    PROVE  Shaped'
<1>1. ASSUME NEW v \in Workers
      PROVE  worker'[v] = [pc |-> worker'[v].pc, user |-> worker'[v].user,
                           op |-> worker'[v].op, on |-> worker'[v].on,
                           got |-> worker'[v].got]
  <2>1. CASE v # w
    BY <2>1 DEF OnlyMoves, Shaped
  <2>2. CASE v = w
    BY <2>2
  <2> QED
    BY <2>1, <2>2
<1> QED
  BY <1>1 DEF Shaped

\* A set that gains or loses one element at most.
LEMMA OneMoves ==
    ASSUME NEW A, NEW B, NEW e, IsFiniteSet(A), B \ {e} = A \ {e}
    PROVE  /\ IsFiniteSet(B) /\ Cardinality(A) \in Nat /\ Cardinality(B) \in Nat
           /\ (e \in A <=> e \in B) => B = A
           /\ e \notin A /\ e \in B => Cardinality(B) = Cardinality(A) + 1
           /\ e \in A /\ e \notin B => Cardinality(B) = Cardinality(A) - 1
           /\ Cardinality(B) <= Cardinality(A) + 1
<1>1. Cardinality(A) \in Nat
  BY FS_CardinalityType
<1>2. CASE e \in A <=> e \in B
  <2>1. B = A
    BY <1>2
  <2> QED
    BY <1>1, <1>2, <2>1
<1>3. CASE e \notin A /\ e \in B
  <2>1. B = A \cup {e}
    BY <1>3
  <2>2. IsFiniteSet(B) /\ Cardinality(B) = Cardinality(A) + 1
    BY <1>3, <2>1, FS_AddElement
  <2> QED
    BY <1>1, <1>3, <2>2
<1>4. CASE e \in A /\ e \notin B
  <2>1. B = A \ {e}
    BY <1>4
  <2>2. IsFiniteSet(B) /\ Cardinality(B) = Cardinality(A) - 1
    BY <1>4, <2>1, FS_RemoveElement
  <2>3. Cardinality(B) \in Nat
    BY <2>2, FS_CardinalityType
  <2> QED
    BY <1>1, <1>4, <2>2, <2>3
<1> QED
  BY <1>2, <1>3, <1>4

\* The requests that are served stay finitely many.
LEMMA BusyStaysFinite ==
    ASSUME IsFiniteSet(Busy), NEW w \in Workers, OnlyMoves(w)
    PROVE  IsFiniteSet(Busy')
<1>1. Busy' \ {w} = Busy \ {w}
  BY DEF Busy, OnlyMoves
<1> QED
  BY <1>1, OneMoves

\* Numbers have a lowest one.
LEMMA SomeIsLowest ==
    ASSUME NEW S \in SUBSET Nat, S # {}
    PROVE  \E g \in S : \A other \in S : g <= other
<1> DEFINE R == {ss \in Nat \X Nat : ss[1] < ss[2]}
<1>1. IsWellFoundedOn(R, Nat)
  BY NatLessThanWellFounded, Zenon DEF OpToRel
<1>2. \A x, y \in Nat : x < y => <<x, y>> \in R
  OBVIOUS
<1> HIDE DEF R
<1>3. PICK g \in S : \A other \in S : ~ (<<other, g>> \in R)
  BY <1>1, WFMin
<1>4. ASSUME NEW other \in S
      PROVE  g <= other
  <2>1. g \in Nat /\ other \in Nat
    OBVIOUS
  <2>2. ~ (other < g)
    BY <1>2, <1>3, <2>1, Zenon
  <2> QED
    BY <2>1, <2>2
<1> QED
  BY <1>4

=============================================================================
