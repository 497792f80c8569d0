--------------------------- MODULE RunQueueProofs ---------------------------
(***************************************************************************)
(* The safety of the run queue for every set of jobs, every concurrency    *)
(* and every length of the line.  The counters are related to the sets     *)
(* they count; a job is in one place at most; and the line is empty unless *)
(* all workers are busy, which is what bounds its length.                  *)
(***************************************************************************)
EXTENDS RunQueue, TLAPS, FiniteSetTheorems

Held == {j \in Jobs : slot[j] = "held"}

FiniteCounts ==
    /\ IsFiniteSet(active)
    /\ IsFiniteSet(Held)
    /\ running = Cardinality(active)
    /\ reserved = Cardinality(Held)

(* A job that runs or waits has used its slot, waits once at most, and     *)
(* does not do both.                                                       *)
OnePlace ==
    /\ \A j \in active : slot[j] = "used"
    /\ \A i \in 1..Len(waiting) : slot[waiting[i]] = "used" /\ waiting[i] \notin active
    /\ \A i, k \in 1..Len(waiting) : waiting[i] = waiting[k] => i = k

Capacity ==
    /\ Size <= Concurrency + MaxQueued
    /\ running <= Concurrency
    /\ waiting # <<>> => running = Concurrency

ClosedIsQuiet ==
    /\ closing # "no" => RequestsAnswered
    /\ closing = "returned" => active = {} /\ waiting = <<>>

IInv == TypeOK /\ FiniteCounts /\ OnePlace /\ Capacity /\ ClosedIsQuiet

-----------------------------------------------------------------------------
(* The invariant holds of a queue that was just made.                      *)
LEMMA InitEstablishes == Init => IInv
<1> SUFFICES ASSUME Init PROVE IInv
  OBVIOUS
<1>1. TypeOK
  BY DEF Init, TypeOK
<1>2. Held = {}
  BY DEF Init, Held
<1>3. FiniteCounts
  BY <1>2, FS_EmptySet DEF Init, FiniteCounts
<1>4. OnePlace /\ Capacity /\ ClosedIsQuiet
  BY QueueAssumption DEF Init, OnePlace, Capacity, Size, ClosedIsQuiet
<1> QED BY <1>1, <1>3, <1>4 DEF IInv

(* Reserving counts one more held slot.                                    *)
LEMMA ReserveKeeps ==
    ASSUME IInv, NEW j \in Jobs, Reserve(j)
    PROVE  IInv'
<1> USE DEF IInv
<1>1. TypeOK'
  BY DEF TypeOK, Reserve
<1>2. Held' = Held \cup {j} /\ j \notin Held
  BY DEF TypeOK, Reserve, Held
<1>3. FiniteCounts'
  <2>1. IsFiniteSet(Held') /\ Cardinality(Held') = Cardinality(Held) + 1
    BY <1>2, FS_AddElement DEF FiniteCounts
  <2> QED BY <2>1 DEF FiniteCounts, Reserve
<1>4. OnePlace'
  BY DEF OnePlace, Reserve, TypeOK
<1>5. Capacity'
  BY QueueAssumption DEF Capacity, Size, Reserve, TypeOK
<1>6. ClosedIsQuiet'
  BY DEF ClosedIsQuiet, Reserve
<1> QED BY <1>1, <1>3, <1>4, <1>5, <1>6

(* Giving back or using a slot counts one held slot less.                  *)
LEMMA HeldShrinks ==
    ASSUME IInv, NEW j \in Jobs, slot[j] = "held",
           slot' = [slot EXCEPT ![j] = "used"], reserved' = reserved - 1
    PROVE  /\ slot' \in [Jobs -> {"none", "held", "used"}]
           /\ reserved' \in Nat
           /\ IsFiniteSet(Held')
           /\ reserved' = Cardinality(Held')
<1>1. Held' = Held \ {j} /\ j \in Held
  BY DEF IInv, TypeOK, Held
<1>2. IsFiniteSet(Held') /\ Cardinality(Held') = Cardinality(Held) - 1
  BY <1>1, FS_RemoveElement DEF IInv, FiniteCounts
<1>3. Cardinality(Held') \in Nat
  BY <1>2, FS_CardinalityType
<1> QED BY <1>2, <1>3 DEF IInv, TypeOK, FiniteCounts

LEMMA ReleaseKeeps ==
    ASSUME IInv, NEW j \in Jobs, Release(j)
    PROVE  IInv'
<1>1. /\ slot' \in [Jobs -> {"none", "held", "used"}]
      /\ reserved' \in Nat
      /\ IsFiniteSet(Held')
      /\ reserved' = Cardinality(Held')
  BY HeldShrinks DEF Release
<1> USE DEF IInv
<1>2. TypeOK'
  BY <1>1 DEF TypeOK, Release
<1>3. FiniteCounts'
  BY <1>1 DEF FiniteCounts, Release
<1>4. OnePlace'
  BY DEF OnePlace, Release, TypeOK
<1>5. Capacity'
  BY QueueAssumption DEF Capacity, Size, Release, TypeOK
<1>6. ClosedIsQuiet'
  BY DEF ClosedIsQuiet, Release, RequestsAnswered
<1> QED BY <1>2, <1>3, <1>4, <1>5, <1>6

(* A job that starts takes the place its reservation counted.              *)
LEMMA RunKeeps ==
    ASSUME IInv, NEW j \in Jobs, Run(j)
    PROVE  IInv'
<1>1. /\ slot' \in [Jobs -> {"none", "held", "used"}]
      /\ reserved' \in Nat
      /\ IsFiniteSet(Held')
      /\ reserved' = Cardinality(Held')
  BY HeldShrinks DEF Run
<1>2. j \notin active /\ \A i \in 1..Len(waiting) : waiting[i] # j
  BY DEF IInv, OnePlace, Run
<1>3. closing = "no" /\ closing' = "no"
  BY DEF IInv, TypeOK, ClosedIsQuiet, RequestsAnswered, Run
<1>4. CASE running < Concurrency
  <2>1. running' = running + 1 /\ active' = active \cup {j} /\ waiting' = waiting
    BY <1>4 DEF Run, Start
  <2>2. waiting = <<>>
    BY <1>4, QueueAssumption DEF IInv, TypeOK, Capacity
  <2>3. TypeOK'
    BY <1>1, <2>1 DEF IInv, TypeOK, Run
  <2>4. IsFiniteSet(active') /\ Cardinality(active') = Cardinality(active) + 1
    BY <1>2, <2>1, FS_AddElement DEF IInv, FiniteCounts
  <2>5. FiniteCounts'
    BY <1>1, <2>1, <2>4 DEF IInv, FiniteCounts
  <2>6. OnePlace'
    BY <2>1, <2>2 DEF IInv, OnePlace, Run, TypeOK
  <2>7. Capacity'
    BY <1>4, <2>1, <2>2, QueueAssumption DEF IInv, Capacity, Size, Run, TypeOK
  <2>8. ClosedIsQuiet'
    BY <1>3 DEF ClosedIsQuiet
  <2> QED BY <2>3, <2>5, <2>6, <2>7, <2>8 DEF IInv
<1>5. CASE ~(running < Concurrency)
  <2>1. waiting' = Append(waiting, j) /\ running' = running /\ active' = active
    BY <1>5 DEF Run, Start
  <2>2. /\ Len(waiting') = Len(waiting) + 1
        /\ waiting' \in Seq(Jobs)
        /\ \A i \in 1..Len(waiting) : waiting'[i] = waiting[i]
        /\ waiting'[Len(waiting) + 1] = j
    BY <2>1 DEF IInv, TypeOK
  <2>3. TypeOK'
    BY <1>1, <2>1, <2>2 DEF IInv, TypeOK, Run
  <2>4. FiniteCounts'
    BY <1>1, <2>1 DEF IInv, FiniteCounts
  <2>5. OnePlace'
    BY <1>2, <2>1, <2>2 DEF IInv, OnePlace, Run, TypeOK
  <2>6. Capacity'
    BY <1>5, <2>1, <2>2, QueueAssumption DEF IInv, Capacity, Size, Run, TypeOK
  <2>7. ClosedIsQuiet'
    BY <1>3 DEF ClosedIsQuiet
  <2> QED BY <2>3, <2>4, <2>5, <2>6, <2>7 DEF IInv
<1> QED BY <1>4, <1>5

(* A worker that becomes free goes to the head of the line, if there is    *)
(* one, and so the number of busy workers changes only when there is none. *)
LEMMA FinishKeeps ==
    ASSUME IInv, NEW j \in Jobs, Finish(j)
    PROVE  IInv'
<1>1. Held' = Held /\ j \in active
  BY DEF Finish, Held
<1>2. closing # "returned"
  BY <1>1 DEF IInv, ClosedIsQuiet
<1>3. ClosedIsQuiet'
  BY <1>2 DEF IInv, ClosedIsQuiet, RequestsAnswered, Finish
<1>4. IsFiniteSet(active \ {j}) /\ Cardinality(active \ {j}) = running - 1
  BY <1>1, FS_RemoveElement DEF IInv, FiniteCounts
<1>5. running - 1 \in Nat
  BY <1>4, FS_CardinalityType
<1>6. CASE waiting = <<>>
  <2>1. running' = running - 1 /\ active' = active \ {j} /\ waiting' = waiting
    BY <1>6 DEF Finish
  <2>2. TypeOK'
    BY <1>5, <2>1 DEF IInv, TypeOK, Finish
  <2>3. FiniteCounts'
    BY <1>1, <1>4, <2>1 DEF IInv, FiniteCounts, Finish
  <2>4. OnePlace'
    BY <1>6, <2>1 DEF IInv, OnePlace, Finish, TypeOK
  <2>5. Capacity'
    BY <1>6, <2>1, QueueAssumption DEF IInv, Capacity, Size, Finish, TypeOK
  <2> QED BY <1>3, <2>2, <2>3, <2>4, <2>5 DEF IInv
<1>7. CASE waiting # <<>>
  <2>1. /\ active' = (active \ {j}) \cup {Head(waiting)}
        /\ waiting' = Tail(waiting) /\ running' = running
    BY <1>7 DEF Finish
  <2>2. /\ Len(waiting) \in Nat /\ Len(waiting) > 0
        /\ Head(waiting) = waiting[1] /\ Head(waiting) \in Jobs
        /\ Len(waiting') = Len(waiting) - 1 /\ waiting' \in Seq(Jobs)
        /\ \A i \in 1..Len(waiting') : waiting'[i] = waiting[i + 1] /\ i + 1 \in 1..Len(waiting)
    BY <1>7, <2>1 DEF IInv, TypeOK
  <2>3. Head(waiting) \notin active /\ slot[Head(waiting)] = "used"
    BY <2>2 DEF IInv, OnePlace
  <2>4. TypeOK'
    BY <2>1, <2>2 DEF IInv, TypeOK, Finish
  <2>5. IsFiniteSet(active') /\ Cardinality(active') = running - 1 + 1
    BY <1>4, <2>1, <2>3, FS_AddElement
  <2>6. FiniteCounts'
    BY <1>1, <2>1, <2>5 DEF IInv, TypeOK, FiniteCounts, Finish
  <2>7. OnePlace'
    BY <2>1, <2>2, <2>3 DEF IInv, OnePlace, Finish, TypeOK
  <2>8. Capacity'
    BY <1>7, <2>1, <2>2, QueueAssumption DEF IInv, Capacity, Size, Finish, TypeOK
  <2> QED BY <1>3, <2>4, <2>6, <2>7, <2>8 DEF IInv
<1> QED BY <1>6, <1>7

(* Closing changes nothing but how far it has come.                        *)
LEMMA CloseKeeps == IInv /\ (Close \/ Drain) => IInv'
<1> SUFFICES ASSUME IInv, Close \/ Drain PROVE IInv'
  OBVIOUS
<1>1. UNCHANGED <<slot, reserved, running, active, waiting>>
  BY DEF Close, Drain
<1>2. TypeOK'
  BY <1>1 DEF IInv, TypeOK, Close, Drain
<1>3. FiniteCounts' /\ OnePlace' /\ Capacity'
  BY <1>1 DEF IInv, FiniteCounts, Held, OnePlace, Capacity, Size
<1>4. ClosedIsQuiet'
  BY <1>1 DEF IInv, ClosedIsQuiet, RequestsAnswered, Close, Drain
<1> QED BY <1>2, <1>3, <1>4 DEF IInv

LEMMA NextKeeps == IInv /\ [Next]_vars => IInv'
<1> SUFFICES ASSUME IInv, [Next]_vars PROVE IInv'
  OBVIOUS
<1>1. CASE \E j \in Jobs : Reserve(j) \/ Run(j) \/ Release(j) \/ Finish(j)
  BY <1>1, ReserveKeeps, RunKeeps, ReleaseKeeps, FinishKeeps
<1>2. CASE Close \/ Drain
  BY <1>2, CloseKeeps
<1>3. CASE UNCHANGED vars
  BY <1>3 DEF vars, IInv, TypeOK, FiniteCounts, Held, OnePlace, Capacity, Size,
              ClosedIsQuiet, RequestsAnswered
<1> QED BY <1>1, <1>2, <1>3 DEF Next

(* The counters, the slots and the line of the queue agree at all times.   *)
THEOREM Invariance == Spec => []IInv
  BY InitEstablishes, NextKeeps, PTL DEF Spec

-----------------------------------------------------------------------------
(* The variables of the queue have their types in every reachable state.   *)
THEOREM TypeCorrect == Spec => []TypeOK
  BY Invariance, PTL DEF IInv

(* The counters of reserve() are the numbers of jobs they stand for.       *)
THEOREM CountersCorrect == Spec => []CountersAgree
<1>1. IInv => CountersAgree
  BY DEF IInv, FiniteCounts, Held, CountersAgree
<1> QED BY <1>1, Invariance, PTL

(* At most Concurrency jobs run and at most MaxQueued wait.                *)
THEOREM LimitsHold == Spec => []WithinLimits
<1>1. IInv => WithinLimits
  <2> SUFFICES ASSUME IInv PROVE WithinLimits
    OBVIOUS
  <2>1. Cardinality(active) <= Concurrency
    BY DEF IInv, FiniteCounts, Capacity
  <2>2. Len(waiting) <= MaxQueued
    <3>1. CASE waiting = <<>>
      BY <3>1, QueueAssumption
    <3>2. CASE waiting # <<>>
      BY <3>2, QueueAssumption DEF IInv, TypeOK, Capacity, Size
    <3> QED BY <3>1, <3>2
  <2> QED BY <2>1, <2>2 DEF WithinLimits
<1> QED BY <1>1, Invariance, PTL

(* No worker is idle while a job waits.                                    *)
THEOREM WorkConserved == Spec => []WorkConserving
<1>1. IInv => WorkConserving
  BY DEF IInv, FiniteCounts, Capacity, WorkConserving
<1> QED BY <1>1, Invariance, PTL

(* When close() has returned nothing runs, waits or holds a place, and it  *)
(* stays so, since the invariant holds forever.                            *)
THEOREM ClosedIsDrained == Spec => []DrainedOnClose
<1>1. IInv => DrainedOnClose
  <2> SUFFICES ASSUME IInv, closing = "returned"
               PROVE  active = {} /\ waiting = <<>> /\ reserved = 0
    BY DEF DrainedOnClose
  <2>1. Held = {}
    BY DEF IInv, ClosedIsQuiet, RequestsAnswered, Held
  <2>2. reserved = 0
    BY <2>1, FS_EmptySet DEF IInv, FiniteCounts
  <2> QED BY <2>2 DEF IInv, ClosedIsQuiet
<1> QED BY <1>1, Invariance, PTL

(* Jobs start in the order of their submission.                            *)
THEOREM OrderKept == Spec => NoOvertaking
<1>1. IInv /\ [Next]_vars => [InOrder]_vars
  <2> SUFFICES ASSUME IInv, Next PROVE InOrder
    OBVIOUS
  <2>1. ASSUME NEW j \in Jobs, Run(j) PROVE InOrder
    <3>1. CASE running < Concurrency
      <4>1. waiting = <<>>
        BY <3>1, QueueAssumption DEF IInv, Capacity, TypeOK
      <4> QED BY <4>1 DEF InOrder
    <3>2. CASE ~(running < Concurrency)
      <4>1. /\ active' = active /\ Len(waiting') = Len(waiting) + 1
            /\ \A i \in 1..Len(waiting) : waiting'[i] = waiting[i]
        BY <2>1, <3>2 DEF IInv, TypeOK, Run, Start
      <4>2. Len(waiting) \in Nat
        BY DEF IInv, TypeOK
      <4> QED BY <4>1, <4>2 DEF InOrder
    <3> QED BY <3>1, <3>2
  <2>2. ASSUME NEW j \in Jobs, Finish(j) PROVE InOrder
    <3>1. CASE waiting = <<>>
      BY <2>2, <3>1 DEF Finish, InOrder
    <3>2. CASE waiting # <<>>
      <4>1. /\ active' = (active \ {j}) \cup {Head(waiting)} /\ Head(waiting) = waiting[1]
            /\ Len(waiting) \in Nat /\ Len(waiting') = Len(waiting) - 1
            /\ \A i \in 1..Len(waiting') : waiting'[i] = waiting[i + 1]
        BY <2>2, <3>2 DEF IInv, TypeOK, Finish
      <4>2. ASSUME NEW i \in 1..Len(waiting), i # 1
            PROVE  i - 1 \in 1..i /\ i - 1 <= Len(waiting') /\ waiting'[i - 1] = waiting[i]
        BY <4>1, <4>2
      <4> QED BY <4>1, <4>2 DEF InOrder
    <3> QED BY <3>1, <3>2
  <2>3. ASSUME UNCHANGED <<active, waiting>> PROVE InOrder
    <3>1. Len(waiting) \in Nat
      BY DEF IInv, TypeOK
    <3> QED BY <2>3, <3>1 DEF InOrder
  <2>4. ASSUME NEW j \in Jobs, Reserve(j) \/ Release(j) PROVE UNCHANGED <<active, waiting>>
    BY <2>4 DEF Reserve, Release
  <2>5. CASE Close \/ Drain
    BY <2>3, <2>5 DEF Close, Drain
  <2> QED BY <2>1, <2>2, <2>3, <2>4, <2>5 DEF Next
<1> QED BY <1>1, Invariance, PTL DEF Spec, NoOvertaking
=============================================================================
