------------------------------ MODULE RunQueue ------------------------------
(***************************************************************************)
(* The bounded in-memory job queue of the HTTP server (apps/server,        *)
(* run-queue.ts): at most Concurrency jobs run and at most MaxQueued wait. *)
(* A place is reserved before the work is registered, so that a full queue *)
(* refuses early; the reservation is then used, or given back.  Closing    *)
(* the server drains the queue before the store is disposed.               *)
(*                                                                         *)
(* A job stands for the request that brings it and for the slot it gets.   *)
(* JavaScript runs every method to its end, so each is a single step.      *)
(***************************************************************************)
EXTENDS Integers, Sequences, FiniteSets

CONSTANTS
    Jobs,          \* the requests that want a run executed
    Concurrency,   \* OPENBLOG_API_CONCURRENCY
    MaxQueued      \* OPENBLOG_API_QUEUE_SIZE

ASSUME QueueAssumption == Concurrency \in Nat \ {0} /\ MaxQueued \in Nat

VARIABLES
    slot,      \* the slot of each job: none, held, or used (run or released)
    reserved,  \* how many slots are held
    running,   \* how many jobs run
    active,    \* the jobs whose promise has not settled
    waiting,   \* the jobs that wait for a worker, in order
    closing,   \* how far close() has come: no, draining, returned
    awaited    \* the promises close() is waiting for

vars == <<slot, reserved, running, active, waiting, closing, awaited>>

Waiting == {waiting[i] : i \in 1..Len(waiting)}

TypeOK ==
    /\ slot \in [Jobs -> {"none", "held", "used"}]
    /\ reserved \in Nat
    /\ running \in Nat
    /\ active \in SUBSET Jobs
    /\ waiting \in Seq(Jobs)
    /\ closing \in {"no", "draining", "returned"}
    /\ awaited \in SUBSET Jobs

Init ==
    /\ slot = [j \in Jobs |-> "none"]
    /\ reserved = 0
    /\ running = 0
    /\ active = {}
    /\ waiting = <<>>
    /\ closing = "no"
    /\ awaited = {}

(* Slip: the places held are not counted.                                  *)
SizeWithoutHeld == running + Len(waiting)

Size == running + Len(waiting) + reserved

Reserve(j) ==
    /\ slot[j] = "none"
    /\ closing = "no"
    /\ Size < Concurrency + MaxQueued
    /\ slot' = [slot EXCEPT ![j] = "held"]
    /\ reserved' = reserved + 1
    /\ UNCHANGED <<running, active, waiting, closing, awaited>>

(* Slip: the last to come is the first in line.                            *)
StartAtFront(j) ==
    IF running < Concurrency
    THEN running' = running + 1 /\ active' = active \cup {j} /\ UNCHANGED waiting
    ELSE waiting' = <<j>> \o waiting /\ UNCHANGED <<running, active>>

(* A worker takes the job at once, or it joins the end of the queue.       *)
Start(j) ==
    IF running < Concurrency
    THEN /\ running' = running + 1
         /\ active' = active \cup {j}
         /\ UNCHANGED waiting
    ELSE /\ waiting' = Append(waiting, j)
         /\ UNCHANGED <<running, active>>

(* A slot is good for one call of run or release; the handler of POST      *)
(* /runs releases it after anything that throws, a reply included.         *)
Run(j) ==
    /\ slot[j] = "held"
    /\ slot' = [slot EXCEPT ![j] = "used"]
    /\ reserved' = reserved - 1
    /\ Start(j)
    /\ UNCHANGED <<closing, awaited>>

Release(j) ==
    /\ slot[j] = "held"
    /\ slot' = [slot EXCEPT ![j] = "used"]
    /\ reserved' = reserved - 1
    /\ UNCHANGED <<running, active, waiting, closing, awaited>>

(* Slips: the worker of the last job is never free again; a free worker    *)
(* looks for no other job.                                                 *)
FinishKeepingWorker(j) ==
    /\ j \in active
    /\ active' = (active \ {j}) \cup {waiting[i] : i \in 1..Len(waiting) \cap {1}}
    /\ waiting' = IF waiting = <<>> THEN waiting ELSE Tail(waiting)
    /\ UNCHANGED <<slot, reserved, running, closing, awaited>>

FinishAlone(j) ==
    /\ j \in active
    /\ running' = running - 1
    /\ active' = active \ {j}
    /\ UNCHANGED <<slot, reserved, waiting, closing, awaited>>

(* A job that ends, well or not, hands its worker to the first one that    *)
(* waits.                                                                  *)
Finish(j) ==
    /\ j \in active
    /\ IF waiting = <<>>
       THEN /\ running' = running - 1
            /\ active' = active \ {j}
            /\ UNCHANGED waiting
       ELSE /\ active' = (active \ {j}) \cup {Head(waiting)}
            /\ waiting' = Tail(waiting)
            /\ UNCHANGED running
    /\ UNCHANGED <<slot, reserved, closing, awaited>>

(* The HTTP server runs the close hook once every request is answered, so  *)
(* no handler holds a slot.                                                *)
RequestsAnswered == \A j \in Jobs : slot[j] # "held"

Close ==
    /\ closing = "no"
    /\ RequestsAnswered
    /\ closing' = "draining"
    /\ awaited' = active
    /\ UNCHANGED <<slot, reserved, running, active, waiting>>

(* Slip: what has appeared while close() waited is not waited for.         *)
DrainOnce ==
    /\ closing = "draining"
    /\ awaited \cap active = {}
    /\ closing' = "returned"
    /\ UNCHANGED <<slot, reserved, running, active, waiting, awaited>>

(* allSettled waits for the promises it was given, then the loop looks     *)
(* whether others have appeared.                                           *)
Drain ==
    /\ closing = "draining"
    /\ awaited \cap active = {}
    /\ IF active = {} /\ waiting = <<>>
       THEN closing' = "returned" /\ UNCHANGED awaited
       ELSE awaited' = active /\ UNCHANGED closing
    /\ UNCHANGED <<slot, reserved, running, active, waiting>>

Next ==
    \/ \E j \in Jobs : Reserve(j) \/ Run(j) \/ Release(j) \/ Finish(j)
    \/ Close
    \/ Drain

Spec == Init /\ [][Next]_vars

(* Every run comes to an end, and allSettled is answered.  Requests and    *)
(* the closing of the server come or do not come.                          *)
FairSpec == Spec /\ (\A j \in Jobs : WF_vars(Finish(j))) /\ WF_vars(Drain)

-----------------------------------------------------------------------------
(* The counters the refusals are decided on count what they stand for:     *)
(* no interleaving of requests, failures and ends makes the queue lose a   *)
(* worker or a place (reserve, run, release, execute).                     *)
CountersAgree ==
    /\ running = Cardinality(active)
    /\ reserved = Cardinality({j \in Jobs : slot[j] = "held"})

(* Never more than Concurrency jobs at work nor more than MaxQueued in     *)
(* line, whatever was reserved when the line was shorter (reserve, start). *)
WithinLimits ==
    /\ Cardinality(active) <= Concurrency
    /\ Len(waiting) <= MaxQueued

(* No worker is idle while a job waits (start, the finally of execute).    *)
WorkConserving == waiting # <<>> => Cardinality(active) = Concurrency

(* Once close() has returned, and the store is disposed, no job of the     *)
(* queue is running or will be (close, onClose hook of buildServer).       *)
DrainedOnClose ==
    closing = "returned" => active = {} /\ waiting = <<>> /\ reserved = 0

(* Jobs start in the order in which they were submitted: nobody starts     *)
(* before those who wait, and nobody is put in front of one who waits      *)
(* (start, execute).                                                       *)
InOrder ==
    /\ \A j \in active' \ active : waiting = <<>> \/ j = Head(waiting)
    /\ \A i \in 1..Len(waiting) :
         \/ waiting[i] \in active'
         \/ \E k \in 1..i : k <= Len(waiting') /\ waiting'[k] = waiting[i]

NoOvertaking == [][InOrder]_vars

(* A job that waits gets its turn, and close() returns.                    *)
EveryJobRuns == \A j \in Jobs : (j \in Waiting) ~> (j \in active)

CloseReturns == closing = "draining" ~> closing = "returned"
=============================================================================
