------------------------------ MODULE Requests ------------------------------
(***************************************************************************)
(* How a request of the service is served: a goroutine makes the calls of   *)
(* its handler one by one, each of them a step that others may come         *)
(* between; any call may fail, and the process may stop between two.        *)
(* worker[w].pc names the call that is made next.  The modules of the       *)
(* services around stories extend this one.                                 *)
(***************************************************************************)
EXTENDS Integers

CONSTANTS
    Users,        \* the users that send requests
    Workers,      \* the request goroutines that may run at once
    None,         \* no user, no request, nothing read
    MaxFaults,    \* bound on failed calls and stops of the process
    MaxWork       \* bound on these and the requests that create nothing

ASSUME RequestsAssumption ==
    /\ None \notin Users \cup Workers
    /\ MaxFaults \in Nat /\ MaxWork \in Nat

VARIABLES
    worker,      \* the locals of each goroutine
    served,      \* requests so far that MaxWork bounds
    faults,      \* calls that failed and requests that were cut off
    overlapped   \* two requests of one user were in flight at once

requestVars == <<worker, served, faults, overlapped>>

-----------------------------------------------------------------------------
Idle == [pc |-> "idle", user |-> None, op |-> "none", on |-> None, got |-> None]

RequestsInit ==
    /\ worker = [w \in Workers |-> Idle]
    /\ served = 0
    /\ faults = 0
    /\ overlapped = FALSE

Busy == {w \in Workers : worker[w] # Idle}

AtRest == Busy = {}

\* No call has failed and no user sent a request before the last was answered.
Undisturbed == faults = 0 /\ ~ overlapped

\* Request op of user u on object x begins with the call pc.
Takes(w, u, op, x, pc, got) ==
    /\ worker[w] = Idle
    /\ worker' = [worker EXCEPT ![w] = [pc |-> pc, user |-> u, op |-> op,
                                        on |-> x, got |-> got]]
    /\ overlapped' = (overlapped \/ \E other \in Busy : worker[other].user = u)
    /\ UNCHANGED faults

\* The bound is on requests that can be repeated without end.
Begins(w, u, op, x, pc, got) ==
    /\ Takes(w, u, op, x, pc, got)
    /\ served + faults < MaxWork
    /\ served' = served + 1

\* A request of a single call that changes something, or nothing at all.
Serves ==
    /\ served + faults < MaxWork
    /\ served' = served + 1
    /\ UNCHANGED <<worker, faults, overlapped>>

\* The next call of the handler is pc; it returns when pc is "idle".
After(w, pc, got) ==
    IF pc = "idle" THEN Idle ELSE [worker[w] EXCEPT !.pc = pc, !.got = got]

GoesWith(w, pc, got) ==
    /\ worker' = [worker EXCEPT ![w] = After(w, pc, got)]
    /\ UNCHANGED <<served, faults, overlapped>>

Goes(w, pc) == GoesWith(w, pc, worker[w].got)

Ends(w) == Goes(w, "idle")

\* A call fails, the handler logs the error and makes the next call.
Logs(w, pc) ==
    /\ faults < MaxFaults
    /\ served + faults < MaxWork
    /\ faults' = faults + 1
    /\ worker' = [worker EXCEPT ![w] = After(w, pc, worker[w].got)]
    /\ UNCHANGED <<served, overlapped>>

\* A call fails, or the process stops: the handler returns or is cut off.
CutOff(w) == w \in Busy /\ Logs(w, "idle")
=============================================================================
