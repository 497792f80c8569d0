-------------------------- MODULE SchedulerProofs ---------------------------
(***************************************************************************)
(* What holds of the scheduler for any number of calls, people and          *)
(* candidates and for any bounds: the lock is lost to nobody, and one       *)
(* scheduled run at most is executed for a candidate; and the limit on the  *)
(* runs of a day is overrun only while a lock has expired.                  *)
(*                                                                         *)
(* The second needs more than it says.  A process works on a run of its     *)
(* candidate (Assigned), a call executes a run its candidate is marked with *)
(* (Marked), and a mark that was written over nothing else stays (Spares).  *)
(***************************************************************************)
EXTENDS Scheduler, SequenceTheorems, FiniteSetTheorems, TLAPS

Working == {"beginning", "marking", "writing", "executing", "accepting", "dropping"}

HasRun == {"marking", "writing", "executing"}

AssignedTo(p) ==
    /\ procs[p].at \in Working => procs[p].candidate \in Candidates
    /\ procs[p].at \in HasRun =>
         /\ procs[p].run \in 1..Len(runs)
         /\ runs[procs[p].run].candidate = procs[p].candidate
         /\ runs[procs[p].run].by = IF p \in Calls THEN "schedule" ELSE "person"
    /\ procs[p].at = "writing" => MayMark(procs[p].read)
    /\ procs[p].at \in {"accepting", "dropping"} => MayDecide(procs[p].read)

Assigned == \A p \in Processes : AssignedTo(p)

Marked ==
    \A c \in Calls :
        procs[c].at = "executing" /\ ~backlog[procs[c].candidate].raced
        => /\ backlog[procs[c].candidate].status = "used"
           /\ backlog[procs[c].candidate].run = procs[c].run

IInv == TypeOK /\ Assigned /\ Marked /\ ExecutedIsMarked /\ LockHeld

-----------------------------------------------------------------------------
(* Rows of the backlog.                                                     *)
LEMMA UpsertedType ==
    ASSUME NEW row \in CandidateRows, NEW score \in Scores
    PROVE  /\ Upserted(row, score) \in CandidateRows
           /\ Upserted(row, score).raced = row.raced
           /\ row.status = "used" => Upserted(row, score) = row
  BY BacklogAssumption DEF Upserted, CandidateRows, CandidateStatuses

LEMMA WrittenType ==
    ASSUME NEW row \in CandidateRows, NEW read \in CandidateStatuses, NEW brief \in Briefs,
           NEW run \in Nat
    PROVE  /\ Accepted(row, read, brief) \in CandidateRows
           /\ Dropped(row, read) \in CandidateRows
           /\ Used(row, read, run) \in CandidateRows
<1>1. Raced(row, read) \in BOOLEAN
  BY DEF Raced, CandidateRows
<1> QED BY <1>1 DEF Accepted, Dropped, Used, CandidateRows, CandidateStatuses

(* A row that is written says so when it was read in another status, and it *)
(* is never read as used.                                                   *)
LEMMA WrittenIsRaced ==
    ASSUME NEW row \in CandidateRows, NEW read \in CandidateStatuses, NEW brief \in Briefs,
           NEW run \in Nat, read # "used"
    PROVE  /\ row.raced \/ row.status = "used" => Accepted(row, read, brief).raced
           /\ row.raced \/ row.status = "used" => Dropped(row, read).raced
           /\ row.raced \/ row.status = "used" => Used(row, read, run).raced
           /\ Used(row, read, run).status = "used"
           /\ Used(row, read, run).run = run
  BY DEF Accepted, Dropped, Used, Raced, CandidateRows
-----------------------------------------------------------------------------
(* The sequence of runs only grows, and a run keeps its candidate.          *)

Grows ==
    /\ runs' \in Seq(Runs)
    /\ Len(runs') >= Len(runs)
    /\ \A i \in 1..Len(runs) : /\ runs'[i].candidate = runs[i].candidate
                               /\ runs'[i].by = runs[i].by

LEMMA SameGrows == ASSUME TypeOK, UNCHANGED runs PROVE Grows
  BY DEF TypeOK, Grows

LEMMA NewRunType ==
    ASSUME NEW x \in Candidates, NEW by \in {"schedule", "person"}
    PROVE  NewRun(x, by) \in Runs
  BY DEF NewRun, Runs

LEMMA AppendGrows ==
    ASSUME TypeOK, NEW x \in Candidates, NEW by \in {"schedule", "person"},
           runs' = Append(runs, NewRun(x, by))
    PROVE  /\ Grows
           /\ Len(runs') = Len(runs) + 1
           /\ runs'[Len(runs')] = NewRun(x, by)
           /\ \A i \in 1..Len(runs) : runs'[i] = runs[i]
<1>1. NewRun(x, by) \in Runs
  BY NewRunType
<1>2. runs \in Seq(Runs)
  BY DEF TypeOK
<1> QED BY <1>1, <1>2 DEF Grows

LEMMA UpdateGrows ==
    ASSUME TypeOK, NEW i \in 1..Len(runs),
           \/ \E o \in Outcomes \cup {"duplicate"} : runs' = [runs EXCEPT ![i].status = o]
           \/ runs' = [runs EXCEPT ![i].recent = FALSE]
    PROVE  /\ Grows
           /\ Len(runs') = Len(runs)
           /\ \A j \in 1..Len(runs) : j # i => runs'[j] = runs[j]
<1> DEFINE row == runs'[i]
<1>1. runs \in Seq(Runs) /\ runs[i] \in Runs
  BY DEF TypeOK
<1>2. PICK row2 \in Runs : /\ runs' = [runs EXCEPT ![i] = row2]
                           /\ row2.candidate = runs[i].candidate /\ row2.by = runs[i].by
  <2>1. CASE \E o \in Outcomes \cup {"duplicate"} : runs' = [runs EXCEPT ![i].status = o]
    <3>1. PICK o \in Outcomes \cup {"duplicate"} : runs' = [runs EXCEPT ![i].status = o]
      BY <2>1
    <3>2. [runs[i] EXCEPT !.status = o] \in Runs
      BY <1>1 DEF Runs
    <3>3. /\ [runs[i] EXCEPT !.status = o].candidate = runs[i].candidate
          /\ [runs[i] EXCEPT !.status = o].by = runs[i].by
      BY <1>1 DEF Runs
    <3> QED BY <3>1, <3>2, <3>3
  <2>2. CASE runs' = [runs EXCEPT ![i].recent = FALSE]
    <3>2. [runs[i] EXCEPT !.recent = FALSE] \in Runs
      BY <1>1 DEF Runs
    <3>3. /\ [runs[i] EXCEPT !.recent = FALSE].candidate = runs[i].candidate
          /\ [runs[i] EXCEPT !.recent = FALSE].by = runs[i].by
      BY <1>1 DEF Runs
    <3> QED BY <2>2, <3>2, <3>3
  <2> QED BY <2>1, <2>2
<1>3. /\ runs' \in Seq(Runs) /\ Len(runs') = Len(runs)
      /\ \A j \in 1..Len(runs) : runs'[j] = IF j = i THEN row2 ELSE runs[j]
  BY <1>1, <1>2, ExceptSeq
<1> QED BY <1>1, <1>2, <1>3 DEF Grows

LEMMA RecoverGrows ==
    ASSUME TypeOK, NEW c \in Calls, Recover(c)
    PROVE  /\ Grows
           /\ Len(runs') = Len(runs)
           /\ \A i \in 1..Len(runs) :
                runs'[i] = runs[i] \/ runs'[i].status = "interrupted"
<1>1. runs \in Seq(Runs) /\ \A i \in 1..Len(runs) : runs[i] \in Runs
  BY DEF TypeOK
<1>2. PICK stale \in SUBSET Abandoned :
        runs' = [i \in 1..Len(runs) |->
                   IF i \in stale THEN [runs[i] EXCEPT !.status = "interrupted"] ELSE runs[i]]
  BY DEF Recover
<1>3. \A i \in 1..Len(runs) : /\ [runs[i] EXCEPT !.status = "interrupted"] \in Runs
                              /\ [runs[i] EXCEPT !.status = "interrupted"].candidate = runs[i].candidate
                              /\ [runs[i] EXCEPT !.status = "interrupted"].by = runs[i].by
                              /\ [runs[i] EXCEPT !.status = "interrupted"].status = "interrupted"
  BY <1>1 DEF Runs
<1>4. /\ runs' \in [1..Len(runs) -> Runs]
      /\ \A i \in 1..Len(runs) : /\ runs'[i] = runs[i] \/ runs'[i].status = "interrupted"
                                 /\ runs'[i].candidate = runs[i].candidate
                                 /\ runs'[i].by = runs[i].by
  BY <1>1, <1>2, <1>3
<1>5. Len(runs) \in Nat
  BY <1>1
<1>6. runs' \in Seq(Runs)
  BY <1>4, <1>5, SeqDef
<1>7. Len(runs') = Len(runs)
  BY <1>4, <1>5, <1>6
<1> QED BY <1>4, <1>5, <1>6, <1>7 DEF Grows

(* Every step, sorted by what it does to the runs.                          *)
LEMMA NextGrows ==
    ASSUME TypeOK, Assigned, Next
    PROVE  Grows
<1>1. CASE \E c \in Calls : Recover(c)
  BY <1>1, RecoverGrows
<1>2. CASE \E c \in Calls : Begin(c)
  <2>1. PICK c \in Calls : Begin(c)
    BY <1>2
  <2>2. procs[c].candidate \in Candidates
    BY <2>1 DEF Assigned, AssignedTo, Begin, Working, Processes
  <2> QED BY <2>1, <2>2, AppendGrows DEF Begin
<1>3. CASE \E p \in People : Generate(p)
  BY <1>3, AppendGrows DEF Generate
<1>4. CASE \E p \in Processes : Finish(p)
  <2>1. PICK p \in Processes : Finish(p)
    BY <1>4
  <2>2. procs[p].run \in 1..Len(runs)
    BY <2>1 DEF Assigned, AssignedTo, Finish, HasRun
  <2>3. \E o \in Outcomes \cup {"duplicate"} : runs' = [runs EXCEPT ![procs[p].run].status = o]
    BY <2>1 DEF Finish
  <2> QED BY <2>2, <2>3, UpdateGrows
<1>5. CASE Age
  <2>1. PICK i \in RunsToday : runs' = [runs EXCEPT ![i].recent = FALSE]
    BY <1>5 DEF Age
  <2>2. i \in 1..Len(runs)
    BY DEF RunsToday
  <2> QED BY <2>1, <2>2, UpdateGrows
<1>6. CASE UNCHANGED runs
  BY <1>6, SameGrows
<1>7. \/ \E c \in Calls : Recover(c) \/ Begin(c)
      \/ \E p \in People : Generate(p)
      \/ \E p \in Processes : Finish(p)
      \/ Age
      \/ UNCHANGED runs
  BY DEF Next, CallStep, PersonStep, Processes, Acquire, Collect, Stop, PassLimits, Pick,
         MarkRead, MarkWrite, Release, Decide, Accept, Drop, Crash, Overrun, Expire
<1> QED BY <1>1, <1>2, <1>3, <1>4, <1>5, <1>6, <1>7
-----------------------------------------------------------------------------
(* What a step leaves of a candidate that was marked.                       *)

Spares ==
    \A x \in Candidates :
        /\ backlog'[x] \in CandidateRows
        /\ ~backlog'[x].raced => ~backlog[x].raced
        /\ ~backlog'[x].raced /\ backlog[x].status = "used"
           => backlog'[x].status = "used" /\ backlog'[x].run = backlog[x].run

LEMMA CollectSpares ==
    ASSUME TypeOK, NEW c \in Calls, Collect(c)
    PROVE  Spares /\ backlog' \in [Candidates -> CandidateRows]
<1>0. PICK offered \in SUBSET Candidates : \E score \in [offered -> Scores] :
        backlog' = [x \in Candidates |->
                      IF x \in offered /\ ~Covered(x)
                      THEN Upserted(backlog[x], score[x])
                      ELSE backlog[x]]
  BY DEF Collect
<1>1. PICK score \in [offered -> Scores] :
        backlog' = [x \in Candidates |->
                      IF x \in offered /\ ~Covered(x)
                      THEN Upserted(backlog[x], score[x])
                      ELSE backlog[x]]
  BY <1>0
<1>2. ASSUME NEW x \in Candidates
      PROVE  /\ backlog'[x] \in CandidateRows
             /\ backlog'[x].raced = backlog[x].raced
             /\ backlog[x].status = "used" => backlog'[x] = backlog[x]
  <2>1. backlog[x] \in CandidateRows
    BY DEF TypeOK
  <2>2. CASE x \in offered /\ ~Covered(x)
    <3>1. score[x] \in Scores /\ backlog'[x] = Upserted(backlog[x], score[x])
      BY <1>1, <2>2
    <3> QED BY <2>1, <3>1, UpsertedType
  <2>3. CASE ~(x \in offered /\ ~Covered(x))
    BY <1>1, <2>1, <2>3
  <2> QED BY <2>2, <2>3
<1> QED BY <1>1, <1>2 DEF Spares

LEMMA WriteSpares ==
    ASSUME TypeOK, NEW x \in Candidates, NEW read \in CandidateStatuses, NEW brief \in Briefs,
           NEW run \in Nat, read # "used",
           \/ backlog' = [backlog EXCEPT ![x] = Accepted(@, read, brief)]
           \/ backlog' = [backlog EXCEPT ![x] = Dropped(@, read)]
           \/ backlog' = [backlog EXCEPT ![x] = Used(@, read, run)]
    PROVE  Spares /\ backlog' \in [Candidates -> CandidateRows]
<1>1. backlog \in [Candidates -> CandidateRows]
  BY DEF TypeOK
<1>2. PICK row \in CandidateRows : /\ backlog' = [backlog EXCEPT ![x] = row]
                                   /\ backlog[x].raced \/ backlog[x].status = "used" => row.raced
  BY <1>1, WrittenType, WrittenIsRaced
<1> QED BY <1>1, <1>2 DEF Spares

LEMMA ReadIsNotUsed ==
    ASSUME TypeOK, Assigned, NEW p \in Processes,
           procs[p].at \in {"writing", "accepting", "dropping"}
    PROVE  /\ procs[p].candidate \in Candidates
           /\ procs[p].read \in CandidateStatuses /\ procs[p].read # "used"
           /\ procs[p].brief \in Briefs /\ procs[p].run \in Nat
<1>1. procs[p] \in Locals
  BY DEF TypeOK
<1> QED BY <1>1 DEF Assigned, AssignedTo, Working, MayMark, MayDecide, Locals

LEMMA NextSpares ==
    ASSUME TypeOK, Assigned, Next
    PROVE  Spares /\ backlog' \in [Candidates -> CandidateRows]
<1>1. CASE \E c \in Calls : Collect(c)
  BY <1>1, CollectSpares
<1>2. CASE \E p \in Processes : MarkWrite(p) \/ Accept(p) \/ Drop(p)
  <2>1. PICK p \in Processes : MarkWrite(p) \/ Accept(p) \/ Drop(p)
    BY <1>2
  <2>2. procs[p].at \in {"writing", "accepting", "dropping"}
    BY <2>1 DEF MarkWrite, Accept, Drop
  <2>3. \/ backlog' = [backlog EXCEPT ![procs[p].candidate] = Accepted(@, procs[p].read, procs[p].brief)]
        \/ backlog' = [backlog EXCEPT ![procs[p].candidate] = Dropped(@, procs[p].read)]
        \/ backlog' = [backlog EXCEPT ![procs[p].candidate] = Used(@, procs[p].read, procs[p].run)]
    BY <2>1 DEF MarkWrite, Accept, Drop
  <2> QED BY <2>2, <2>3, ReadIsNotUsed, WriteSpares
<1>3. CASE UNCHANGED backlog
  BY <1>3 DEF TypeOK, Spares
<1>4. \/ \E c \in Calls : Collect(c)
      \/ \E p \in Processes : MarkWrite(p) \/ Accept(p) \/ Drop(p)
      \/ UNCHANGED backlog
  BY DEF Next, CallStep, PersonStep, Processes, Acquire, Recover, Stop, PassLimits, Pick, Begin,
         MarkRead, Finish, Release, Decide, Generate, Crash, Overrun, Expire, Age
<1> QED BY <1>1, <1>2, <1>3, <1>4
-----------------------------------------------------------------------------
(* Types and assignments.                                                   *)
LEMMA ProcsType ==
    ASSUME TypeOK, Assigned, Next
    PROVE  procs' \in [Processes -> Locals]
<1>0. /\ procs \in [Processes -> Locals]
      /\ \A p \in Processes : procs[p] \in Locals
      /\ \A x \in Candidates : backlog[x].status \in CandidateStatuses
      /\ Calls \subseteq Processes /\ People \subseteq Processes
  BY DEF TypeOK, CandidateRows, Processes
<1>1. \A place \in {"idle"} \cup CallPlaces \cup PeoplePlaces :
        \A p \in Processes : Goto(p, place) => procs' \in [Processes -> Locals]
  BY <1>0 DEF Goto, Locals
<1>2. Idle \in Locals /\ [Idle EXCEPT !.at = "releasing"] \in Locals
  BY DEF Idle, Locals, CallPlaces, CandidateStatuses, Briefs
<1>3. ASSUME NEW c \in Calls, Acquire(c) \/ CallStep(c)
      PROVE  procs' \in [Processes -> Locals]
  <2>1. CASE Acquire(c) \/ Recover(c) \/ Collect(c) \/ Stop(c) \/ PassLimits(c)
    BY <1>0, <1>1, <2>1 DEF Acquire, Recover, Collect, Stop, PassLimits, CallPlaces
  <2>2. CASE Pick(c)
    <3>1. ASSUME NEW x \in Best(backlog),
                 procs' = [procs EXCEPT ![c].at = "beginning", ![c].candidate = x]
          PROVE  procs' \in [Processes -> Locals]
      <4>1. x \in Candidates
        BY DEF Best
      <4>2. [procs[c] EXCEPT !.at = "beginning", !.candidate = x] \in Locals
        BY <1>0, <4>1 DEF Locals, CallPlaces
      <4> QED BY <1>0, <3>1, <4>2
    <3>2. Goto(c, "releasing") => procs' \in [Processes -> Locals]
      BY <1>0, <1>1 DEF CallPlaces
    <3> QED BY <2>2, <3>1, <3>2 DEF Pick
  <2>3. CASE Begin(c)
    <3>1. procs[c].candidate \in Candidates
      BY <1>0, <2>3 DEF Assigned, AssignedTo, Begin, Working
    <3>2. Len(runs') \in Nat
      BY <2>3, <3>1, AppendGrows DEF Begin, TypeOK
    <3>3. [procs[c] EXCEPT !.at = "marking", !.run = Len(runs')] \in Locals
      BY <1>0, <3>2 DEF Locals, CallPlaces
    <3>4. procs' = [procs EXCEPT ![c] = [procs[c] EXCEPT !.at = "marking", !.run = Len(runs')]]
      BY <1>0, <2>3 DEF Begin
    <3> QED BY <1>0, <3>3, <3>4
  <2>4. CASE MarkRead(c)
    <3>1. procs[c].candidate \in Candidates
      BY <1>0, <2>4 DEF Assigned, AssignedTo, MarkRead, Working
    <3>2. [procs[c] EXCEPT !.at = "writing", !.read = backlog[procs[c].candidate].status] \in Locals
      BY <1>0, <3>1 DEF Locals, CallPlaces
    <3> QED BY <1>0, <1>2, <2>4, <3>2 DEF MarkRead
  <2>5. CASE MarkWrite(c) \/ Finish(c) \/ Release(c)
    BY <1>0, <1>1, <1>2, <2>5 DEF MarkWrite, Finish, Release, CallPlaces
  <2> QED BY <1>3, <2>1, <2>2, <2>3, <2>4, <2>5 DEF CallStep
<1>4. ASSUME NEW p \in People, Decide(p) \/ Generate(p) \/ PersonStep(p)
      PROVE  procs' \in [Processes -> Locals]
  <2>1. CASE Decide(p)
    <3>1. PICK x \in Candidates, verdict \in {"accepting", "dropping"}, brief \in Briefs :
            procs' = [procs EXCEPT ![p] = [at |-> verdict, candidate |-> x, run |-> 0,
                                           read |-> backlog[x].status, brief |-> brief]]
      BY <2>1 DEF Decide
    <3>2. [at |-> verdict, candidate |-> x, run |-> 0,
           read |-> backlog[x].status, brief |-> brief] \in Locals
      BY <1>0 DEF Locals, PeoplePlaces
    <3> QED BY <1>0, <3>1, <3>2
  <2>2. CASE Generate(p)
    <3>1. PICK x \in Candidates :
            /\ runs' = Append(runs, NewRun(x, "person"))
            /\ procs' = [procs EXCEPT ![p] = [Idle EXCEPT !.at = "executing", !.candidate = x,
                                                         !.run = Len(runs')]]
      BY <2>2 DEF Generate
    <3>2. Len(runs') \in Nat
      BY <3>1, AppendGrows DEF TypeOK
    <3>3. [Idle EXCEPT !.at = "executing", !.candidate = x, !.run = Len(runs')] \in Locals
      BY <1>2, <3>2 DEF Locals, PeoplePlaces
    <3> QED BY <1>0, <3>1, <3>3
  <2>3. CASE Accept(p) \/ Drop(p) \/ MarkWrite(p) \/ Finish(p)
    BY <1>0, <1>1, <1>2, <2>3 DEF Accept, Drop, MarkWrite, Finish, PeoplePlaces, CallPlaces
  <2>4. CASE MarkRead(p)
    <3>1. procs[p].candidate \in Candidates
      BY <1>0, <2>4 DEF Assigned, AssignedTo, MarkRead, Working
    <3>2. [procs[p] EXCEPT !.at = "writing", !.read = backlog[procs[p].candidate].status] \in Locals
      BY <1>0, <3>1 DEF Locals, PeoplePlaces
    <3> QED BY <1>0, <1>2, <2>4, <3>2 DEF MarkRead
  <2> QED BY <1>4, <2>1, <2>2, <2>3, <2>4 DEF PersonStep
<1>5. CASE \E p \in Processes : Crash(p)
  BY <1>0, <1>2, <1>5 DEF Crash
<1>6. CASE Overrun \/ Expire \/ Age
  BY <1>0, <1>6 DEF Overrun, Expire, Age
<1> QED BY <1>3, <1>4, <1>5, <1>6 DEF Next

LEMMA NextHasTypes == ASSUME TypeOK, Assigned, Next PROVE TypeOK'
<1>1. /\ procs' \in [Processes -> Locals]
      /\ runs' \in Seq(Runs)
      /\ backlog' \in [Candidates -> CandidateRows]
  BY ProcsType, NextGrows, NextSpares DEF Grows
<1>2. lock' \in [owner : Calls \cup {"nobody", "dead"}, expired : BOOLEAN]
  <2>1. CASE UNCHANGED lock
    BY <2>1 DEF TypeOK
  <2>2. CASE \E c \in Calls : Acquire(c)
    BY <2>2 DEF Acquire
  <2>4. CASE \E c \in Calls : Release(c)
    BY <2>4 DEF Release, TypeOK
  <2>3. CASE Overrun \/ Expire \/ \E p \in Processes : Crash(p)
    BY <2>3 DEF TypeOK, Overrun, Expire, Crash
  <2> QED
    BY <2>1, <2>2, <2>3, <2>4
    DEF Next, CallStep, PersonStep, Recover, Collect, Stop, PassLimits, Pick, Begin,
        MarkRead, MarkWrite, Finish, Decide, Generate, Accept, Drop, Age
<1>3. late' \in SUBSET Calls
  <2>1. CASE UNCHANGED late
    BY <2>1 DEF TypeOK
  <2>2. CASE (\E c \in Calls : Release(c)) \/ Overrun \/ \E p \in Processes : Crash(p)
    BY <2>2 DEF TypeOK, Release, Overrun, Crash
  <2> QED
    BY <2>1, <2>2
    DEF Next, CallStep, PersonStep, Acquire, Recover, Collect, Stop, PassLimits, Pick, Begin,
        MarkRead, MarkWrite, Finish, Decide, Generate, Accept, Drop, Expire, Age
<1>4. overruns' \in Nat /\ left' \in [overruns : Nat, crashes : Nat, orders : Nat]
  <2>1. CASE UNCHANGED <<overruns, left>>
    BY <2>1 DEF TypeOK
  <2>2. CASE Overrun \/ \E p \in Processes : Crash(p)
    BY <2>2 DEF TypeOK, Overrun, Crash
  <2>3. CASE \E p \in People : Decide(p) \/ Generate(p)
    <3>1. /\ left.orders > 0 /\ left' = [left EXCEPT !.orders = @ - 1]
          /\ UNCHANGED overruns
      BY <2>3 DEF Decide, Generate
    <3>2. left.orders \in Nat /\ left.orders - 1 \in Nat
      BY <3>1 DEF TypeOK
    <3> QED BY <3>1, <3>2 DEF TypeOK
  <2> QED
    BY <2>1, <2>2, <2>3
    DEF Next, CallStep, PersonStep, Acquire, Recover, Collect, Stop, PassLimits, Pick, Begin,
        MarkRead, MarkWrite, Finish, Release, Accept, Drop, Expire, Age
<1> QED BY <1>1, <1>2, <1>3, <1>4 DEF TypeOK

(* A process that goes on with the candidate and the run it has.            *)
LEMMA Continues ==
    ASSUME TypeOK, Assigned, Grows, NEW p \in Processes,
           procs'[p].candidate = procs[p].candidate, procs'[p].run = procs[p].run,
           procs'[p].read = procs[p].read,
           procs'[p].at \in Working => procs[p].at \in Working,
           procs'[p].at \in HasRun => procs[p].at \in HasRun,
           procs'[p].at = "writing" => procs[p].at = "writing",
           procs'[p].at \in {"accepting", "dropping"} => procs[p].at = procs'[p].at
    PROVE  AssignedTo(p)'
<1>1. ASSUME procs[p].at \in HasRun
      PROVE  /\ procs[p].run \in 1..Len(runs')
             /\ runs'[procs[p].run].candidate = procs[p].candidate
             /\ runs'[procs[p].run].by = IF p \in Calls THEN "schedule" ELSE "person"
  <2>1. /\ procs[p].run \in 1..Len(runs)
        /\ runs[procs[p].run].candidate = procs[p].candidate
        /\ runs[procs[p].run].by = IF p \in Calls THEN "schedule" ELSE "person"
    BY <1>1 DEF Assigned, AssignedTo
  <2>2. Len(runs) \in Nat /\ Len(runs') \in Nat /\ Len(runs') >= Len(runs)
    BY DEF TypeOK, Grows
  <2>3. procs[p].run \in 1..Len(runs')
    BY <2>1, <2>2
  <2> QED BY <2>1, <2>3 DEF Grows
<1> QED BY <1>1 DEF Assigned, AssignedTo, MayMark, MayDecide

(* A step of one process is no step of another.                             *)
LEMMA OthersStay ==
    ASSUME TypeOK, NEW p \in Processes, NEW q \in Processes, p # q,
           \/ q \in Calls /\ (Acquire(q) \/ CallStep(q))
           \/ q \in People /\ (Decide(q) \/ Generate(q) \/ PersonStep(q))
           \/ Crash(q)
    PROVE  procs'[p] = procs[p]
<1>0. procs \in [Processes -> Locals]
  BY DEF TypeOK
<1>1. CASE Acquire(q) \/ Recover(q) \/ Collect(q) \/ Stop(q) \/ PassLimits(q) \/ Pick(q) \/ Begin(q)
  BY <1>0, <1>1 DEF Acquire, Recover, Collect, Stop, PassLimits, Pick, Begin, Goto
<1>2. CASE MarkRead(q) \/ MarkWrite(q) \/ Release(q) \/ Crash(q)
  BY <1>0, <1>2 DEF MarkRead, MarkWrite, Release, Crash, Goto
<1>3. CASE Finish(q)
  BY <1>0, <1>3 DEF Finish, Goto
<1>4. CASE Decide(q) \/ Generate(q) \/ Accept(q) \/ Drop(q)
  BY <1>0, <1>4 DEF Decide, Generate, Accept, Drop
<1> QED BY <1>1, <1>2, <1>3, <1>4 DEF CallStep, PersonStep

(* What a process holds after a step of its own.                            *)
Keeps(p) ==
    /\ procs'[p].candidate = procs[p].candidate
    /\ procs'[p].run = procs[p].run
    /\ procs'[p].read = procs[p].read

LEMMA GotoMoves ==
    ASSUME TypeOK, NEW p \in Processes, NEW place, Goto(p, place)
    PROVE  procs'[p].at = place /\ Keeps(p)
  BY DEF TypeOK, Goto, Keeps, Locals

LEMMA IdleMoves ==
    ASSUME TypeOK, NEW p \in Processes,
           \/ procs' = [procs EXCEPT ![p] = Idle]
           \/ procs' = [procs EXCEPT ![p] = [Idle EXCEPT !.at = "releasing"]]
    PROVE  procs'[p].at \in {"idle", "releasing"}
  BY DEF TypeOK, Idle

LEMMA PickMoves ==
    ASSUME TypeOK, NEW p \in Processes, Pick(p)
    PROVE  \/ procs'[p].at = "releasing"
           \/ procs'[p].at = "beginning" /\ procs'[p].candidate \in Candidates
<1>1. CASE Goto(p, "releasing")
  BY <1>1, GotoMoves
<1>2. CASE \E x \in Best(backlog) :
             procs' = [procs EXCEPT ![p].at = "beginning", ![p].candidate = x]
  <2>1. PICK x \in Best(backlog) :
          procs' = [procs EXCEPT ![p].at = "beginning", ![p].candidate = x]
    BY <1>2
  <2>2. x \in Candidates
    BY DEF Best
  <2> QED BY <2>1, <2>2 DEF TypeOK, Locals
<1>3. Goto(p, "releasing") \/ \E x \in Best(backlog) :
        procs' = [procs EXCEPT ![p].at = "beginning", ![p].candidate = x]
  BY DEF Pick
<1> QED BY <1>1, <1>2, <1>3

LEMMA MarkReadMoves ==
    ASSUME TypeOK, NEW p \in Processes, MarkRead(p)
    PROVE  \/ procs'[p].at \in {"idle", "releasing"}
           \/ /\ procs[p].at = "marking" /\ procs'[p].at = "writing"
              /\ procs'[p].run = procs[p].run
              /\ procs'[p].candidate = procs[p].candidate
              /\ MayMark(procs'[p].read)
<1> DEFINE status == backlog[procs[p].candidate].status
<1>1. CASE MayMark(status)
  <2>1. procs[p].at = "marking" /\ procs' = [procs EXCEPT ![p].at = "writing", ![p].read = status]
    BY <1>1 DEF MarkRead
  <2>2. /\ procs'[p].at = "writing" /\ procs'[p].read = status
        /\ procs'[p].run = procs[p].run /\ procs'[p].candidate = procs[p].candidate
    <3> HIDE DEF status
    <3> QED BY <2>1 DEF TypeOK, Locals
  <2> QED BY <1>1, <2>1, <2>2
<1>2. CASE ~MayMark(status)
  <2>1. \/ procs' = [procs EXCEPT ![p] = Idle]
        \/ procs' = [procs EXCEPT ![p] = [Idle EXCEPT !.at = "releasing"]]
    BY <1>2 DEF MarkRead
  <2> QED BY <2>1, IdleMoves
<1> QED BY <1>1, <1>2

LEMMA MarkWriteMoves ==
    ASSUME TypeOK, NEW p \in Processes, MarkWrite(p)
    PROVE  \/ procs'[p].at \in {"idle", "releasing"}
           \/ /\ p \in Calls /\ procs[p].at = "writing" /\ procs'[p].at = "executing"
              /\ Keeps(p)
<1>1. /\ procs[p].at = "writing"
      /\ \/ p \in Calls /\ Goto(p, "executing")
         \/ procs' = [procs EXCEPT ![p] = Idle]
  BY DEF MarkWrite
<1> QED BY <1>1, IdleMoves, GotoMoves

LEMMA FinishMoves ==
    ASSUME TypeOK, NEW p \in Processes, Finish(p)
    PROVE  \/ procs'[p].at \in {"idle", "releasing"}
           \/ procs[p].at = "executing" /\ procs'[p].at = "marking" /\ Keeps(p)
<1>1. /\ procs[p].at = "executing"
      /\ \/ Goto(p, "marking")
         \/ procs' = [procs EXCEPT ![p] = Idle]
         \/ procs' = [procs EXCEPT ![p] = [Idle EXCEPT !.at = "releasing"]]
  BY DEF Finish
<1> QED BY <1>1, IdleMoves, GotoMoves

LEMMA NextAssigns == ASSUME TypeOK, Assigned, Next PROVE Assigned'
<1> SUFFICES ASSUME NEW p \in Processes PROVE AssignedTo(p)'
  BY DEF Assigned
<1>0. /\ Grows
      /\ procs \in [Processes -> Locals]
      /\ Calls \subseteq Processes /\ People \subseteq Processes
  BY NextGrows DEF TypeOK, Processes
<1>1. CASE procs'[p] = procs[p]
  BY <1>0, <1>1, Continues
<1>2. ASSUME procs'[p].at \notin Working PROVE AssignedTo(p)'
  BY <1>2 DEF AssignedTo, Working, HasRun
<1>3. ASSUME MarkRead(p) \/ MarkWrite(p) \/ Finish(p) PROVE AssignedTo(p)'
  <2>1. CASE MarkRead(p)
    <3>1. CASE procs'[p].at \in {"idle", "releasing"}
      BY <1>2, <3>1 DEF Working
    <3>2. CASE /\ procs[p].at = "marking" /\ procs'[p].at = "writing"
               /\ procs'[p].run = procs[p].run
               /\ procs'[p].candidate = procs[p].candidate
               /\ MayMark(procs'[p].read)
      <4>1. /\ procs[p].candidate \in Candidates
            /\ procs[p].run \in 1..Len(runs)
            /\ runs[procs[p].run].candidate = procs[p].candidate
            /\ runs[procs[p].run].by = IF p \in Calls THEN "schedule" ELSE "person"
        BY <3>2 DEF Assigned, AssignedTo, HasRun, Working
      <4>2. runs' = runs
        BY <2>1 DEF MarkRead
      <4> QED BY <3>2, <4>1, <4>2 DEF AssignedTo
    <3> QED BY <2>1, <3>1, <3>2, MarkReadMoves
  <2>2. CASE MarkWrite(p) \/ Finish(p)
    <3>1. CASE procs'[p].at \in {"idle", "releasing"}
      BY <1>2, <3>1 DEF Working
    <3>2. CASE /\ procs[p].at \in HasRun /\ procs'[p].at \in {"marking", "executing"}
               /\ Keeps(p)
      BY <1>0, <3>2, Continues DEF Working, HasRun, Keeps
    <3> QED BY <2>2, <3>1, <3>2, MarkWriteMoves, FinishMoves DEF HasRun
  <2> QED BY <1>3, <2>1, <2>2
<1>4. ASSUME p \in Calls, Acquire(p) \/ CallStep(p)
      PROVE  AssignedTo(p)'
  <2>1. CASE Acquire(p) \/ Recover(p) \/ Collect(p) \/ Stop(p) \/ PassLimits(p)
    <3>1. \E place \in {"recovering", "collecting", "checking", "picking", "releasing"} :
            Goto(p, place)
      BY <2>1 DEF Acquire, Recover, Collect, Stop, PassLimits
    <3> QED BY <1>2, <3>1, GotoMoves DEF Working
  <2>2. CASE Pick(p)
    BY <1>2, <2>2, PickMoves DEF Working, AssignedTo, HasRun
  <2>3. CASE Begin(p)
    <3>1. procs[p].candidate \in Candidates
      BY <2>3 DEF Assigned, AssignedTo, Begin, Working
    <3>2. /\ Len(runs') = Len(runs) + 1
          /\ runs'[Len(runs')] = NewRun(procs[p].candidate, "schedule")
      BY <2>3, <3>1, AppendGrows DEF Begin
    <3>3. /\ procs'[p].at = "marking" /\ procs'[p].run = Len(runs')
          /\ procs'[p].candidate = procs[p].candidate
      BY <1>0, <2>3 DEF Begin, Locals
    <3>4. Len(runs) \in Nat
      BY DEF TypeOK
    <3> QED BY <1>4, <3>1, <3>2, <3>3, <3>4 DEF AssignedTo, NewRun
  <2>4. CASE MarkRead(p) \/ MarkWrite(p) \/ Finish(p)
    BY <1>3, <2>4
  <2>5. CASE Release(p)
    BY <1>2, <2>5, IdleMoves DEF Release, Working
  <2> QED BY <1>4, <2>1, <2>2, <2>3, <2>4, <2>5 DEF CallStep
<1>5. ASSUME p \in People, Decide(p) \/ Generate(p) \/ PersonStep(p)
      PROVE  AssignedTo(p)'
  <2>1. CASE Decide(p)
    <3>1. /\ procs'[p].at \in {"accepting", "dropping"} /\ procs'[p].candidate \in Candidates
          /\ MayDecide(procs'[p].read)
      BY <1>0, <2>1 DEF Decide
    <3> QED BY <3>1 DEF AssignedTo, HasRun
  <2>2. CASE Generate(p)
    <3>1. PICK x \in Candidates :
            /\ runs' = Append(runs, NewRun(x, "person"))
            /\ procs' = [procs EXCEPT ![p] = [Idle EXCEPT !.at = "executing", !.candidate = x,
                                                         !.run = Len(runs')]]
      BY <2>2 DEF Generate
    <3>2. /\ Len(runs') = Len(runs) + 1
          /\ runs'[Len(runs')] = NewRun(x, "person")
      BY <3>1, AppendGrows
    <3>3. /\ procs'[p].at = "executing" /\ procs'[p].run = Len(runs')
          /\ procs'[p].candidate = x
      BY <1>0, <3>1 DEF Idle
    <3>4. Len(runs) \in Nat /\ p \notin Calls
      BY <1>5, SchedulerAssumption DEF TypeOK
    <3> QED BY <3>2, <3>3, <3>4 DEF AssignedTo, NewRun
  <2>3. CASE Accept(p) \/ Drop(p)
    BY <1>2, <2>3, IdleMoves DEF Accept, Drop, Working
  <2>4. CASE MarkRead(p) \/ MarkWrite(p) \/ Finish(p)
    BY <1>3, <2>4
  <2> QED BY <1>5, <2>1, <2>2, <2>3, <2>4 DEF PersonStep
<1>6. ASSUME Crash(p) PROVE AssignedTo(p)'
  BY <1>2, <1>6, IdleMoves DEF Crash, Working
<1>7. ASSUME NEW q \in Processes, q # p,
             \/ q \in Calls /\ (Acquire(q) \/ CallStep(q))
             \/ q \in People /\ (Decide(q) \/ Generate(q) \/ PersonStep(q))
             \/ Crash(q)
      PROVE  AssignedTo(p)'
  BY <1>1, <1>7, OthersStay
<1>8. CASE Overrun \/ Expire \/ Age
  BY <1>1, <1>8 DEF Overrun, Expire, Age
<1> QED BY <1>0, <1>4, <1>5, <1>6, <1>7, <1>8 DEF Next
-----------------------------------------------------------------------------
(* A process changes by a step of its own.                                  *)
LEMMA OwnStep ==
    ASSUME TypeOK, Next, NEW p \in Processes, procs'[p] # procs[p]
    PROVE  \/ p \in Calls /\ (Acquire(p) \/ CallStep(p))
           \/ p \in People /\ (Decide(p) \/ Generate(p) \/ PersonStep(p))
           \/ Crash(p)
<1>1. Calls \subseteq Processes /\ People \subseteq Processes
  BY DEF Processes
<1>2. ~(Overrun \/ Expire \/ Age)
  BY DEF Overrun, Expire, Age
<1> QED BY <1>1, <1>2, OthersStay DEF Next

(* A call has a step only once it is at work, and no step but Release,      *)
(* Acquire and what happens to it touches the lock.                         *)
LEMMA StepsInside ==
    ASSUME NEW c \in Calls, CallStep(c), ~Release(c)
    PROVE  procs[c].at # "idle" /\ UNCHANGED <<lock, late>>
<1>1. CASE Recover(c) \/ Collect(c) \/ Stop(c) \/ PassLimits(c) \/ Pick(c) \/ Begin(c)
  BY <1>1 DEF Recover, Collect, Stop, PassLimits, Pick, Begin
<1>2. CASE MarkRead(c) \/ MarkWrite(c) \/ Finish(c)
  BY <1>2 DEF MarkRead, MarkWrite, Finish
<1> QED BY <1>1, <1>2 DEF CallStep

LEMMA NextHolds == ASSUME TypeOK, LockHeld, Next PROVE LockHeld'
<1> SUFFICES ASSUME NEW c \in Calls, procs'[c].at # "idle", c \notin late'
             PROVE  lock' = [owner |-> c, expired |-> FALSE]
  BY DEF LockHeld, Inside
<1>0. /\ c \in Processes /\ c \notin People /\ c # "dead" /\ c # "nobody"
      /\ procs \in [Processes -> Locals]
  BY SchedulerAssumption DEF TypeOK, Processes
<1>1. ASSUME procs[c].at # "idle", c \notin late
      PROVE  lock.owner = c /\ lock.expired = FALSE /\ lock = [owner |-> c, expired |-> FALSE]
  BY <1>1 DEF LockHeld, Inside
<1>2. ASSUME NEW q \in Calls, Acquire(q)
      PROVE  lock' = [owner |-> c, expired |-> FALSE]
  <2>1. CASE q = c
    BY <1>2, <2>1 DEF Acquire
  <2>2. CASE q # c
    <3>1. procs'[c] = procs[c]
      BY <1>0, <1>2, <2>2, OthersStay DEF Processes
    <3>2. late' = late /\ (lock.owner = "nobody" \/ lock.expired)
      BY <1>2 DEF Acquire
    <3> QED BY <1>0, <1>1, <3>1, <3>2
  <2> QED BY <2>1, <2>2
<1>3. ASSUME NEW q \in Calls, CallStep(q), ~Release(q)
      PROVE  lock' = [owner |-> c, expired |-> FALSE]
  <2>1. procs[c].at # "idle"
    <3>1. CASE q = c
      BY <1>3, <3>1, StepsInside
    <3>2. CASE q # c
      BY <1>0, <1>3, <3>2, OthersStay DEF Processes
    <3> QED BY <3>1, <3>2
  <2> QED BY <1>1, <1>3, <2>1, StepsInside
<1>4. ASSUME NEW q \in Calls, Release(q)
      PROVE  lock' = [owner |-> c, expired |-> FALSE]
  <2>1. q # c
    BY <1>0, <1>4 DEF Release, Idle
  <2>2. procs'[c] = procs[c]
    BY <1>0, <1>4, <2>1, OthersStay DEF Processes, CallStep
  <2>3. c \notin late
    BY <1>4, <2>1 DEF Release
  <2> QED BY <1>1, <1>4, <2>1, <2>2, <2>3 DEF Release
<1>5. ASSUME NEW q \in People, Decide(q) \/ Generate(q) \/ PersonStep(q)
      PROVE  lock' = [owner |-> c, expired |-> FALSE]
  <2>1. procs'[c] = procs[c]
    BY <1>0, <1>5, OthersStay DEF Processes
  <2>2. UNCHANGED <<lock, late>>
    BY <1>5 DEF Decide, Generate, PersonStep, Accept, Drop, MarkRead, MarkWrite, Finish
  <2> QED BY <1>1, <2>1, <2>2
<1>6. ASSUME NEW q \in Processes, Crash(q)
      PROVE  lock' = [owner |-> c, expired |-> FALSE]
  <2>1. q # c
    BY <1>0, <1>6 DEF Crash, Idle
  <2>2. procs'[c] = procs[c]
    BY <1>0, <1>6, <2>1, OthersStay
  <2>3. c \notin late
    BY <1>6, <2>1 DEF Crash
  <2> QED BY <1>1, <1>6, <2>1, <2>2, <2>3 DEF Crash
<1>7. CASE Overrun
  BY <1>1, <1>7 DEF Overrun
<1>8. CASE Expire
  BY <1>0, <1>1, <1>8 DEF Expire
<1>9. CASE Age
  BY <1>1, <1>9 DEF Age
<1> QED BY <1>2, <1>3, <1>4, <1>5, <1>6, <1>7, <1>8, <1>9 DEF Next

(* A call comes to execute a run by marking its candidate with it.          *)
LEMMA NextMarks == ASSUME TypeOK, Assigned, Marked, Next PROVE Marked'
<1> SUFFICES ASSUME NEW c \in Calls, procs'[c].at = "executing",
                    ~backlog'[procs'[c].candidate].raced
             PROVE  /\ backlog'[procs'[c].candidate].status = "used"
                    /\ backlog'[procs'[c].candidate].run = procs'[c].run
  BY DEF Marked
<1>0. c \in Processes /\ c \notin People /\ Spares
  BY NextSpares, SchedulerAssumption DEF Processes
<1>1. CASE procs'[c] = procs[c]
  <2>1. procs[c].candidate \in Candidates
    BY <1>0, <1>1 DEF Assigned, AssignedTo, Working
  <2> QED BY <1>0, <1>1, <2>1 DEF Marked, Spares
<1>2. CASE MarkWrite(c)
  <2>1. procs[c].at = "writing" /\ Keeps(c)
    BY <1>0, <1>2, MarkWriteMoves
  <2>2. /\ procs[c].candidate \in Candidates /\ procs[c].read \in CandidateStatuses
        /\ procs[c].read # "used" /\ procs[c].brief \in Briefs /\ procs[c].run \in Nat
    BY <1>0, <2>1, ReadIsNotUsed
  <2>3. /\ backlog \in [Candidates -> CandidateRows]
        /\ backlog[procs[c].candidate] \in CandidateRows
    BY <2>2 DEF TypeOK
  <2>4. backlog'[procs[c].candidate]
          = Used(backlog[procs[c].candidate], procs[c].read, procs[c].run)
    BY <1>2, <2>2, <2>3 DEF MarkWrite
  <2> QED BY <2>1, <2>2, <2>3, <2>4, WrittenIsRaced DEF Keeps
<1>3. CASE procs'[c] # procs[c] /\ ~MarkWrite(c)
  <2>1. Acquire(c) \/ CallStep(c) \/ Crash(c)
    BY <1>0, <1>3, OwnStep
  <2>2. ~(Acquire(c) \/ Recover(c) \/ Collect(c) \/ Stop(c) \/ PassLimits(c))
    <3>1. ASSUME Acquire(c) \/ Recover(c) \/ Collect(c) \/ Stop(c) \/ PassLimits(c)
          PROVE  \E place \in {"recovering", "collecting", "checking", "picking", "releasing"} :
                   Goto(c, place)
      BY <3>1 DEF Acquire, Recover, Collect, Stop, PassLimits
    <3> QED BY <1>0, <3>1, GotoMoves
  <2>3. ~Pick(c) /\ ~MarkRead(c) /\ ~Finish(c)
    BY <1>0, PickMoves, MarkReadMoves, FinishMoves
  <2>4. ~Begin(c)
    <3>1. Begin(c) => procs'[c].at = "marking"
      BY <1>0 DEF Begin, TypeOK, Locals
    <3> QED BY <3>1
  <2>5. ~Release(c) /\ ~Crash(c)
    BY <1>0, IdleMoves DEF Release, Crash
  <2> QED BY <1>3, <2>1, <2>2, <2>3, <2>4, <2>5 DEF CallStep
<1> QED BY <1>1, <1>2, <1>3

(* A run that has ended had ended before, or is ended by its process.       *)
LEMMA EndedByFinish ==
    ASSUME TypeOK, Assigned, Next, NEW i \in 1..Len(runs'),
           runs'[i].status \notin {"active", "interrupted"}
    PROVE  /\ i \in 1..Len(runs)
           /\ \/ runs[i].status \notin {"active", "interrupted"}
              \/ \E p \in Processes : Finish(p) /\ procs[p].run = i
<1>0. Len(runs) \in Nat /\ Len(runs') \in Nat
  BY NextGrows DEF TypeOK, Grows
<1>1. CASE \E c \in Calls : Recover(c)
  <2>1. PICK c \in Calls : Recover(c)
    BY <1>1
  <2> QED BY <2>1, RecoverGrows
<1>2. CASE \E c \in Calls : Begin(c)
  <2>1. PICK c \in Calls : Begin(c)
    BY <1>2
  <2>2. procs[c].candidate \in Candidates
    BY <2>1 DEF Assigned, AssignedTo, Begin, Working, Processes
  <2> QED BY <1>0, <2>1, <2>2, AppendGrows DEF Begin, NewRun
<1>3. CASE \E p \in People : Generate(p)
  <2>1. PICK x \in Candidates : runs' = Append(runs, NewRun(x, "person"))
    BY <1>3 DEF Generate
  <2> QED BY <1>0, <2>1, AppendGrows DEF NewRun
<1>4. CASE \E p \in Processes : Finish(p)
  <2>1. PICK p \in Processes : Finish(p)
    BY <1>4
  <2>2. procs[p].run \in 1..Len(runs)
    BY <2>1 DEF Assigned, AssignedTo, Finish, HasRun
  <2>3. \E o \in Outcomes \cup {"duplicate"} : runs' = [runs EXCEPT ![procs[p].run].status = o]
    BY <2>1 DEF Finish
  <2>4. Len(runs') = Len(runs) /\ \A j \in 1..Len(runs) : j # procs[p].run => runs'[j] = runs[j]
    BY <2>2, <2>3, UpdateGrows
  <2> QED BY <2>1, <2>4
<1>5. CASE Age
  <2>1. PICK j \in RunsToday : runs' = [runs EXCEPT ![j].recent = FALSE]
    BY <1>5 DEF Age
  <2>2. j \in 1..Len(runs) /\ runs \in Seq(Runs)
    BY DEF RunsToday, TypeOK
  <2>3. Len(runs') = Len(runs) /\ \A k \in 1..Len(runs) : k # j => runs'[k] = runs[k]
    BY <2>1, <2>2, UpdateGrows
  <2>4. runs'[j].status = runs[j].status
    <3>1. runs[j] \in Runs
      BY <2>2
    <3>2. runs' = [runs EXCEPT ![j] = [runs[j] EXCEPT !.recent = FALSE]]
      BY <2>1
    <3>3. runs'[j] = [runs[j] EXCEPT !.recent = FALSE]
      <4> DEFINE row == [runs[j] EXCEPT !.recent = FALSE]
      <4>1. row \in Runs
        BY <3>1 DEF Runs
      <4> HIDE DEF row
      <4>2. runs' = [runs EXCEPT ![j] = row]
        BY <3>2 DEF row
      <4>3. runs'[j] = row
        BY <2>2, <4>1, <4>2, ExceptSeq
      <4> QED BY <4>3 DEF row
    <3> QED BY <3>1, <3>3 DEF Runs
  <2> QED BY <2>3, <2>4
<1>6. CASE UNCHANGED runs
  BY <1>6
<1>7. \/ \E c \in Calls : Recover(c) \/ Begin(c)
      \/ \E p \in People : Generate(p)
      \/ \E p \in Processes : Finish(p)
      \/ Age
      \/ UNCHANGED runs
  BY DEF Next, CallStep, PersonStep, Processes, Acquire, Collect, Stop, PassLimits, Pick,
         MarkRead, MarkWrite, Release, Decide, Accept, Drop, Crash, Overrun, Expire
<1> QED BY <1>1, <1>2, <1>3, <1>4, <1>5, <1>6, <1>7

LEMMA NextExecutes ==
    ASSUME TypeOK, Assigned, Marked, ExecutedIsMarked, Next
    PROVE  ExecutedIsMarked'
<1> SUFFICES ASSUME NEW i \in 1..Len(runs'),
                    runs'[i].by = "schedule",
                    runs'[i].status \notin {"active", "interrupted"},
                    ~backlog'[runs'[i].candidate].raced
             PROVE  /\ backlog'[runs'[i].candidate].status = "used"
                    /\ backlog'[runs'[i].candidate].run = i
  BY DEF ExecutedIsMarked
<1>1. /\ i \in 1..Len(runs)
      /\ runs'[i].candidate = runs[i].candidate /\ runs'[i].by = runs[i].by
      /\ runs[i].candidate \in Candidates
      /\ Spares
  <2>1. i \in 1..Len(runs)
    BY EndedByFinish
  <2>2. Grows /\ Spares
    BY NextGrows, NextSpares
  <2>3. runs[i] \in Runs
    BY <2>1 DEF TypeOK
  <2> QED BY <2>1, <2>2, <2>3 DEF Grows, Runs
<1>2. CASE runs[i].status \notin {"active", "interrupted"}
  BY <1>1, <1>2 DEF ExecutedIsMarked, Spares
<1>3. CASE \E p \in Processes : Finish(p) /\ procs[p].run = i
  <2>1. PICK p \in Processes : Finish(p) /\ procs[p].run = i
    BY <1>3
  <2>2. procs[p].at = "executing" /\ backlog' = backlog
    BY <2>1 DEF Finish
  <2>3. /\ runs[i].candidate = procs[p].candidate
        /\ runs[i].by = IF p \in Calls THEN "schedule" ELSE "person"
    BY <2>1, <2>2 DEF Assigned, AssignedTo, HasRun
  <2>4. p \in Calls
    BY <1>1, <2>3
  <2> QED BY <1>1, <2>1, <2>2, <2>3, <2>4 DEF Marked
<1> QED BY <1>2, <1>3, EndedByFinish
-----------------------------------------------------------------------------
LEMMA InitHolds == ASSUME Init PROVE IInv
<1>1. TypeOK
  <2>1. Absent \in CandidateRows
    BY DEF Absent, CandidateRows, CandidateStatuses, Briefs
  <2>2. Idle \in Locals
    BY DEF Idle, Locals, CandidateStatuses, Briefs
  <2>3. left \in [overruns : Nat, crashes : Nat, orders : Nat]
    BY SchedulerAssumption DEF Init
  <2> QED BY <2>1, <2>2, <2>3 DEF Init, TypeOK
<1>2. Assigned
  BY DEF Init, Assigned, AssignedTo, Idle, Working, HasRun
<1>3. Marked /\ ExecutedIsMarked /\ LockHeld
  BY DEF Init, Marked, ExecutedIsMarked, LockHeld, Inside, Idle, Processes
<1> QED BY <1>1, <1>2, <1>3 DEF IInv

LEMMA StutterHolds == ASSUME IInv, UNCHANGED vars PROVE IInv'
  BY DEF IInv, vars, TypeOK, Assigned, AssignedTo, Marked, ExecutedIsMarked, LockHeld, Inside

LEMMA InvHolds == Spec => []IInv
<1>1. Init => IInv
  BY InitHolds
<1>2. IInv /\ [Next]_vars => IInv'
  BY NextHasTypes, NextAssigns, NextMarks, NextExecutes, NextHolds, StutterHolds DEF IInv
<1> QED BY <1>1, <1>2, PTL DEF Spec

(* Every row, run, lock and process keeps to its type, whatever is written  *)
(* by whom: a mark names a run that exists.                                 *)
THEOREM TypeCorrect == Spec => []TypeOK
<1>1. IInv => TypeOK
  BY DEF IInv
<1> QED BY <1>1, InvHolds, PTL

(* The lock of SchedulerStore keeps calls of run-once apart: one that works *)
(* holds it, but for those whose lock has expired under them, however many  *)
(* of those there are.                                                      *)
THEOREM LockKept == Spec => []LockHeld
<1>1. IInv => LockHeld
  BY DEF IInv
<1> QED BY <1>1, InvHolds, PTL

(* A scheduled run that was executed is the run its candidate is marked     *)
(* with: overlapping calls, crashes and people with their commands do not   *)
(* bring the scheduler to execute two runs for a candidate, as long as      *)
(* nobody writes a row over a status they have not read.                    *)
THEOREM ExecutedOnce == Spec => []ExecutedIsMarked
<1>1. IInv => ExecutedIsMarked
  BY DEF IInv
<1> QED BY <1>1, InvHolds, PTL

-----------------------------------------------------------------------------
(* The limit on the runs of a day.  A call looks at the limit before it    *)
(* picks a candidate, and its run is stored later; what keeps calls apart  *)
(* in between is a lock that expires.                                      *)

Scheduled == {i \in RunsToday : runs[i].by = "schedule"}

(* The calls that have passed the limits and not begun their run.          *)
Passed == {c \in Calls : procs[c].at \in {"picking", "beginning"}}

(* A run that is about to begin is counted before it is there.             *)
LimitInv ==
    /\ Cardinality(late) <= overruns
    /\ Cardinality(Scheduled) + Cardinality(Passed) <= MaxRunsPerDay + overruns

-----------------------------------------------------------------------------
LEMMA OneMore ==
    ASSUME NEW S, IsFiniteSet(S), NEW x
    PROVE  /\ IsFiniteSet(S \cup {x})
           /\ Cardinality(S \cup {x}) \in Nat
           /\ Cardinality(S \cup {x}) <= Cardinality(S) + 1
           /\ x \notin S => Cardinality(S \cup {x}) = Cardinality(S) + 1
<1>1. /\ IsFiniteSet(S \cup {x})
      /\ Cardinality(S \cup {x}) = IF x \in S THEN Cardinality(S) ELSE Cardinality(S) + 1
  BY FS_AddElement
<1>2. Cardinality(S) \in Nat
  BY FS_CardinalityType
<1>3. Cardinality(S \cup {x}) \in Nat
  BY <1>1, FS_CardinalityType
<1> QED BY <1>1, <1>2, <1>3

LEMMA OneLess ==
    ASSUME NEW S, IsFiniteSet(S), NEW x \in S
    PROVE  /\ IsFiniteSet(S \ {x})
           /\ Cardinality(S \ {x}) \in Nat
           /\ Cardinality(S \ {x}) = Cardinality(S) - 1
  BY FS_RemoveElement, FS_CardinalityType

LEMMA CountsAreNumbers ==
    ASSUME TypeOK
    PROVE  /\ IsFiniteSet(RunsToday) /\ Cardinality(RunsToday) \in Nat
           /\ IsFiniteSet(Scheduled) /\ Cardinality(Scheduled) \in Nat
           /\ IsFiniteSet(Passed) /\ Cardinality(Passed) \in Nat
           /\ IsFiniteSet(late) /\ Cardinality(late) \in Nat
           /\ Cardinality(Scheduled) <= Cardinality(RunsToday)
           /\ MaxRunsPerDay \in Nat /\ overruns \in Nat
<1>1. Len(runs) \in Nat /\ RunsToday \subseteq 1..Len(runs)
  BY DEF TypeOK, RunsToday
<1>2. IsFiniteSet(RunsToday)
  <2>1. 1 \in Int /\ Len(runs) \in Int
    BY <1>1
  <2>2. IsFiniteSet(1..Len(runs))
    BY <2>1, FS_Interval
  <2> QED BY <1>1, <2>2, FS_Subset
<1>3. IsFiniteSet(Scheduled) /\ Cardinality(Scheduled) <= Cardinality(RunsToday)
  BY <1>2, FS_Subset DEF Scheduled
<1>4. IsFiniteSet(Passed) /\ IsFiniteSet(late)
  BY SchedulerAssumption, FS_Subset DEF SchedulerAssumption, Passed, TypeOK
<1> QED BY <1>2, <1>3, <1>4, FS_CardinalityType, SchedulerAssumption
        DEF SchedulerAssumption, TypeOK

(* A step that adds to no count.                                           *)
LEMMA FewerKeepLimit ==
    ASSUME TypeOK, TypeOK', LimitInv,
           Scheduled' \subseteq Scheduled, Passed' \subseteq Passed,
           late' \subseteq late, overruns' = overruns
    PROVE  LimitInv'
<1>1. /\ Cardinality(Scheduled') <= Cardinality(Scheduled)
      /\ Cardinality(Passed') <= Cardinality(Passed)
      /\ Cardinality(late') <= Cardinality(late)
  BY CountsAreNumbers, FS_Subset
<1>2. /\ Cardinality(Scheduled') \in Nat /\ Cardinality(Passed') \in Nat
      /\ Cardinality(late') \in Nat
  BY CountsAreNumbers, FS_Subset, FS_CardinalityType
<1> QED BY <1>1, <1>2, CountsAreNumbers DEF LimitInv

(* Whoever has passed the limits before this call has lost the lock to it, *)
(* or to the one it has lost it to itself.                                 *)
LEMMA PassedAreLate ==
    ASSUME TypeOK, LockHeld, NEW c \in Calls, procs[c].at = "checking"
    PROVE  Cardinality(Passed) <= Cardinality(late)
<1>1. \A d \in Passed \ late : lock.owner = d
  BY DEF Passed, LockHeld, Inside
<1>2. CASE Passed \subseteq late
  BY <1>2, CountsAreNumbers, FS_Subset
<1>3. CASE ~(Passed \subseteq late)
  <2>1. PICK d \in Passed : d \notin late
    BY <1>3
  <2>2. d = lock.owner /\ c \notin Passed
    BY <1>1, <2>1 DEF Passed
  <2>3. c \in late
    BY <2>1, <2>2 DEF LockHeld, Inside
  <2>4. Passed \subseteq (late \ {c}) \cup {d}
    BY <1>1, <2>2
  <2>5. /\ IsFiniteSet(late \ {c}) /\ Cardinality(late \ {c}) = Cardinality(late) - 1
    BY <2>3, CountsAreNumbers, OneLess
  <2>6. /\ IsFiniteSet((late \ {c}) \cup {d})
        /\ Cardinality((late \ {c}) \cup {d}) <= Cardinality(late \ {c}) + 1
        /\ Cardinality((late \ {c}) \cup {d}) \in Nat
    BY <2>5, OneMore
  <2>7. Cardinality(Passed) <= Cardinality((late \ {c}) \cup {d})
    BY <2>4, <2>6, FS_Subset
  <2> QED BY <2>5, <2>6, <2>7, CountsAreNumbers
<1> QED BY <1>2, <1>3

LEMMA PassingKeepsLimit ==
    ASSUME TypeOK, TypeOK', LockHeld, LimitInv, NEW c \in Calls, PassLimits(c)
    PROVE  LimitInv'
<1>1. /\ procs[c].at = "checking" /\ ~LimitReached /\ UNCHANGED <<runs, late, overruns>>
      /\ procs' = [procs EXCEPT ![c].at = "picking"]
  BY DEF PassLimits, Goto
<1>2. Scheduled' = Scheduled
  BY <1>1 DEF Scheduled, RunsToday
<1>3. Passed' = Passed \cup {c} /\ c \notin Passed
  BY <1>1 DEF Passed, TypeOK, Processes, Locals
<1>4. Cardinality(Passed') = Cardinality(Passed) + 1
  BY <1>3, CountsAreNumbers, OneMore
<1>5. Cardinality(Scheduled) < MaxRunsPerDay
  BY <1>1, CountsAreNumbers DEF LimitReached
<1>6. Cardinality(Passed) <= Cardinality(late)
  BY <1>1, PassedAreLate
<1>7. /\ Cardinality(late)' = Cardinality(late) /\ overruns' = overruns
      /\ Cardinality(Scheduled)' = Cardinality(Scheduled)
      /\ Cardinality(Passed)' = Cardinality(Passed) + 1
  BY <1>1, <1>2, <1>4
<1> QED BY <1>5, <1>6, <1>7, CountsAreNumbers DEF LimitInv

LEMMA BeginningKeepsLimit ==
    ASSUME TypeOK, TypeOK', Assigned, LimitInv, NEW c \in Calls, Begin(c)
    PROVE  LimitInv'
<1>1. /\ procs[c].at = "beginning" /\ UNCHANGED <<late, overruns>>
      /\ runs' = Append(runs, NewRun(procs[c].candidate, "schedule"))
      /\ procs' = [procs EXCEPT ![c].at = "marking", ![c].run = Len(runs')]
  BY DEF Begin
<1>2. runs \in Seq(Runs) /\ Len(runs) \in Nat
  BY DEF TypeOK
<1>3. /\ Len(runs') = Len(runs) + 1
      /\ \A i \in 1..Len(runs) : runs'[i] = runs[i]
      /\ runs'[Len(runs) + 1] = NewRun(procs[c].candidate, "schedule")
  <2>1. procs[c].candidate \in Candidates
    BY <1>1 DEF Assigned, AssignedTo, Working, Processes
  <2> QED BY <1>1, <2>1, AppendGrows
<1>4. Scheduled' \subseteq Scheduled \cup {Len(runs) + 1}
  BY <1>2, <1>3 DEF Scheduled, RunsToday
<1>5. Passed' = Passed \ {c} /\ c \in Passed
  BY <1>1 DEF Passed, TypeOK, Processes, Locals
<1>6. /\ IsFiniteSet(Scheduled \cup {Len(runs) + 1})
      /\ Cardinality(Scheduled \cup {Len(runs) + 1}) <= Cardinality(Scheduled) + 1
  BY CountsAreNumbers, OneMore
<1>7. /\ Cardinality(Scheduled') <= Cardinality(Scheduled) + 1
      /\ Cardinality(Scheduled') \in Nat
  BY <1>4, <1>6, CountsAreNumbers, FS_Subset, FS_CardinalityType
<1>8. Cardinality(Passed') = Cardinality(Passed) - 1
  BY <1>5, CountsAreNumbers, OneLess
<1>9. Cardinality(late') = Cardinality(late) /\ overruns' = overruns
  BY <1>1
<1> QED BY <1>7, <1>8, <1>9, CountsAreNumbers DEF LimitInv

LEMMA OverrunKeepsLimit ==
    ASSUME TypeOK, TypeOK', LimitInv, Overrun
    PROVE  LimitInv'
<1>1. /\ UNCHANGED <<runs, procs>> /\ late' = late \cup {lock.owner} /\ overruns' = overruns + 1
  BY DEF Overrun
<1>2. Cardinality(late') <= Cardinality(late) + 1
  BY <1>1, CountsAreNumbers, OneMore
<1>3. Cardinality(Scheduled') = Cardinality(Scheduled) /\ Cardinality(Passed') = Cardinality(Passed)
  BY <1>1 DEF Scheduled, RunsToday, Passed
<1>4. Cardinality(late') \in Nat
  BY <1>1, CountsAreNumbers, OneMore
<1> QED BY <1>1, <1>2, <1>3, <1>4, CountsAreNumbers DEF LimitInv

-----------------------------------------------------------------------------
(* The other steps.  No run of the scheduler is added, and what is over a   *)
(* day old stays so.                                                        *)
LEMMA FewerScheduled ==
    ASSUME TypeOK, Assigned, Next, ~\E c \in Calls : Begin(c)
    PROVE  Scheduled' \subseteq Scheduled
<1>0. runs \in Seq(Runs) /\ Len(runs) \in Nat /\ \A i \in 1..Len(runs) : runs[i] \in Runs
  BY DEF TypeOK
<1>1. CASE \E c \in Calls : Recover(c)
  <2>1. PICK c \in Calls : Recover(c)
    BY <1>1
  <2>2. PICK stale \in SUBSET Abandoned :
          runs' = [i \in 1..Len(runs) |->
                     IF i \in stale THEN [runs[i] EXCEPT !.status = "interrupted"] ELSE runs[i]]
    BY <2>1 DEF Recover
  <2>3. \A i \in 1..Len(runs) : runs'[i].by = runs[i].by /\ runs'[i].recent = runs[i].recent
    BY <1>0, <2>2 DEF Runs
  <2>4. Len(runs') = Len(runs)
    BY <2>1, RecoverGrows
  <2> QED BY <2>3, <2>4 DEF Scheduled, RunsToday
<1>2. CASE \E p \in People : Generate(p)
  <2>1. PICK p \in People, x \in Candidates : runs' = Append(runs, NewRun(x, "person"))
    BY <1>2 DEF Generate
  <2>2. /\ Len(runs') = Len(runs) + 1 /\ runs'[Len(runs')] = NewRun(x, "person")
        /\ \A i \in 1..Len(runs) : runs'[i] = runs[i]
    BY <2>1, AppendGrows
  <2>3. NewRun(x, "person").by # "schedule"
    BY DEF NewRun
  <2>4. \A i \in 1..Len(runs') : i \in 1..Len(runs) \/ i = Len(runs')
    BY <1>0, <2>2
  <2> QED BY <2>2, <2>3, <2>4 DEF Scheduled, RunsToday
<1>3. CASE \E p \in Processes : Finish(p)
  <2>1. PICK p \in Processes : Finish(p)
    BY <1>3
  <2>2. procs[p].run \in 1..Len(runs)
    BY <2>1 DEF Assigned, AssignedTo, Finish, HasRun
  <2>3. PICK o \in Outcomes \cup {"duplicate"} : runs' = [runs EXCEPT ![procs[p].run].status = o]
    BY <2>1 DEF Finish
  <2>4. Len(runs') = Len(runs)
    BY <2>2, <2>3, UpdateGrows
  <2>5. \A i \in 1..Len(runs) : runs'[i].by = runs[i].by /\ runs'[i].recent = runs[i].recent
    BY <1>0, <2>2, <2>3 DEF Runs
  <2> QED BY <2>4, <2>5 DEF Scheduled, RunsToday
<1>4. CASE Age
  <2>1. PICK i \in RunsToday : runs' = [runs EXCEPT ![i].recent = FALSE]
    BY <1>4 DEF Age
  <2>2. i \in 1..Len(runs)
    BY DEF RunsToday
  <2>3. Len(runs') = Len(runs)
    BY <2>1, <2>2, UpdateGrows
  <2>4. \A j \in 1..Len(runs) : /\ runs'[j].by = runs[j].by
                                /\ runs'[j].recent => runs[j].recent
    BY <1>0, <2>1, <2>2 DEF Runs
  <2> QED BY <2>3, <2>4 DEF Scheduled, RunsToday
<1>5. CASE UNCHANGED runs
  BY <1>5 DEF Scheduled, RunsToday
<1>6. \/ \E c \in Calls : Recover(c)
      \/ \E p \in People : Generate(p)
      \/ \E p \in Processes : Finish(p)
      \/ Age
      \/ UNCHANGED runs
  BY DEF Next, CallStep, PersonStep, Processes, Acquire, Collect, Stop, PassLimits, Pick,
         MarkRead, MarkWrite, Release, Decide, Accept, Drop, Crash, Overrun, Expire
<1> QED BY <1>1, <1>2, <1>3, <1>4, <1>5, <1>6

(* A call comes past the limits in no other way.                            *)
LEMMA FewerPassed ==
    ASSUME TypeOK, Next, ~\E c \in Calls : PassLimits(c)
    PROVE  Passed' \subseteq Passed
<1> SUFFICES ASSUME NEW c \in Calls, procs'[c].at \in {"picking", "beginning"},
                    procs[c].at \notin {"picking", "beginning"}
             PROVE  FALSE
  BY DEF Passed
<1>1. c \in Processes /\ c \notin People /\ procs'[c] # procs[c]
  BY SchedulerAssumption DEF SchedulerAssumption, Processes
<1>2. Acquire(c) \/ CallStep(c) \/ Crash(c)
  BY <1>1, OwnStep
<1>3. CASE Acquire(c) \/ Recover(c) \/ Collect(c) \/ Stop(c)
  <2>1. \E place \in {"recovering", "collecting", "checking", "releasing"} : Goto(c, place)
    BY <1>3 DEF Acquire, Recover, Collect, Stop
  <2> QED BY <1>1, <2>1, GotoMoves
<1>4. CASE Begin(c) \/ Pick(c)
  BY <1>4 DEF Begin, Pick
<1>5. CASE MarkRead(c) \/ MarkWrite(c) \/ Finish(c)
  BY <1>1, <1>5, MarkReadMoves, MarkWriteMoves, FinishMoves
<1>6. CASE Release(c) \/ Crash(c)
  <2>1. procs' = [procs EXCEPT ![c] = Idle]
    BY <1>6 DEF Release, Crash
  <2> QED BY <1>1, <2>1, IdleMoves
<1> QED BY <1>2, <1>3, <1>4, <1>5, <1>6 DEF CallStep

LEMMA FewerLate ==
    ASSUME Next, ~Overrun
    PROVE  late' \subseteq late /\ overruns' = overruns
  BY DEF Next, CallStep, PersonStep, Acquire, Recover, Collect, Stop, PassLimits, Pick, Begin,
         MarkRead, MarkWrite, Finish, Release, Decide, Accept, Drop, Generate, Crash, Expire, Age

LEMMA NextKeepsLimit ==
    ASSUME IInv, LimitInv, Next
    PROVE  LimitInv'
<1>1. TypeOK /\ TypeOK' /\ Assigned /\ LockHeld
  BY NextHasTypes DEF IInv
<1>2. CASE \E c \in Calls : PassLimits(c)
  BY <1>1, <1>2, PassingKeepsLimit
<1>3. CASE \E c \in Calls : Begin(c)
  BY <1>1, <1>3, BeginningKeepsLimit
<1>4. CASE Overrun
  BY <1>1, <1>4, OverrunKeepsLimit
<1>5. CASE ~Overrun /\ ~(\E c \in Calls : PassLimits(c)) /\ ~(\E c \in Calls : Begin(c))
  BY <1>1, <1>5, FewerScheduled, FewerPassed, FewerLate, FewerKeepLimit
<1> QED BY <1>2, <1>3, <1>4, <1>5

LEMMA InitKeepsLimit == ASSUME Init PROVE LimitInv
<1>1. Scheduled = {} /\ Passed = {} /\ late = {} /\ overruns = 0
  BY DEF Init, Scheduled, RunsToday, Passed, Idle, Processes
<1> QED BY <1>1, FS_EmptySet, SchedulerAssumption DEF LimitInv, SchedulerAssumption

LEMMA StutterKeepsLimit == ASSUME LimitInv, UNCHANGED vars PROVE LimitInv'
<1>1. UNCHANGED <<Scheduled, Passed, late, overruns>>
  BY DEF vars, Scheduled, RunsToday, Passed
<1> QED BY <1>1 DEF LimitInv

(* The limit on the runs of a day holds for what the scheduler starts,      *)
(* however many calls overlap and whatever the limit is, but for one run    *)
(* for each lock that expired under a call at work.                         *)
THEOREM LimitHolds == Spec => []DailyLimitHolds
<1>1. Init => LimitInv
  BY InitKeepsLimit
<1>2. IInv /\ LimitInv /\ [Next]_vars => LimitInv'
  BY NextKeepsLimit, StutterKeepsLimit
<1>3. IInv /\ LimitInv => DailyLimitHolds
  <2>1. ASSUME TypeOK, LimitInv PROVE Cardinality(Scheduled) <= MaxRunsPerDay + overruns
    BY <2>1, CountsAreNumbers DEF LimitInv
  <2> QED BY <2>1 DEF IInv, Scheduled, DailyLimitHolds
<1> QED BY <1>1, <1>2, <1>3, InvHolds, PTL DEF Spec
=============================================================================
