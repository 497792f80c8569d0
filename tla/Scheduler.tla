----------------------------- MODULE Scheduler ------------------------------
(***************************************************************************)
(* `openblog schedule run-once` (packages/app, scheduler.ts), which cron    *)
(* calls as often as it likes, and the people who work on the backlog it    *)
(* takes its candidates from (`topics accept`, `drop` and `generate`).      *)
(* Every call and every person is a process of its own; they share nothing  *)
(* but the database, so every transaction, and every statement outside of   *)
(* one, is a step.  accept, drop and markUsed read a row and write it later *)
(* without a transaction: they are two steps.                               *)
(*                                                                         *)
(* An execution is a start and an outcome (ArticleRun is about what is      *)
(* between).  The time window and the limit on costs depend on the clock    *)
(* and on prices, so they may stop any call; the limit on runs is counted.  *)
(***************************************************************************)
EXTENDS TopicBacklog, FiniteSets, Sequences

CONSTANTS
    Calls,           \* the calls of run-once that may be under way together
    People,
    MaxRunsPerDay,   \* OPENBLOG_SCHEDULE_MAX_RUNS_PER_DAY
    Outcomes,        \* how an execution may end
    Bounds           \* bounds on expired locks of living calls, crashes and commands

ASSUME SchedulerAssumption ==
    /\ IsFiniteSet(Calls)
    /\ Calls \cap People = {}
    /\ {"nobody", "dead"} \cap Calls = {}
    /\ MaxRunsPerDay \in Nat
    /\ Outcomes \subseteq {"published", "parked", "failed", "duplicate"}
    /\ Bounds \subseteq [overruns : Nat, crashes : Nat, orders : Nat]

VARIABLES
    backlog,    \* the rows of topic_candidates
    runs,       \* the runs, in the order of their creation
    lock,       \* the row of scheduler_locks
    procs,      \* how far each process is
    late,       \* the calls whose lock has expired while they worked
    overruns,   \* how many locks did
    left        \* what is left of the bounds

vars == <<backlog, runs, lock, procs, late, overruns, left>>

Processes == Calls \cup People

CallPlaces == {"recovering", "collecting", "checking", "picking", "beginning", "marking",
               "writing", "executing", "releasing"}

PeoplePlaces == {"accepting", "dropping", "executing", "marking", "writing"}

(* What a process holds in its variables: the candidate it works on, its    *)
(* run, the status it has read, the brief it is about to store.             *)
Locals ==
    [at : {"idle"} \cup CallPlaces \cup PeoplePlaces,
     candidate : Candidates \cup {"none"},
     run : Nat,
     read : CandidateStatuses,
     brief : Briefs]

Idle == [at |-> "idle", candidate |-> "none", run |-> 0, read |-> "absent", brief |-> "usable"]

Runs ==
    [candidate : Candidates,
     by : {"schedule", "person"},
     status : {"active", "interrupted", "duplicate"} \cup Outcomes,   \* active: started or running
     duplicate : BOOLEAN,   \* a run of its topic was published before it began
     recent : BOOLEAN]      \* it was created in the last 24 hours

TypeOK ==
    /\ backlog \in [Candidates -> CandidateRows]
    /\ runs \in Seq(Runs)
    /\ lock \in [owner : Calls \cup {"nobody", "dead"}, expired : BOOLEAN]
    /\ procs \in [Processes -> Locals]
    /\ late \in SUBSET Calls
    /\ overruns \in Nat
    /\ left \in [overruns : Nat, crashes : Nat, orders : Nat]

Init ==
    /\ backlog = [x \in Candidates |-> Absent]
    /\ runs = <<>>
    /\ lock = [owner |-> "nobody", expired |-> FALSE]
    /\ procs = [p \in Processes |-> Idle]
    /\ late = {}
    /\ overruns = 0
    /\ left \in Bounds

Goto(p, place) == procs' = [procs EXCEPT ![p].at = place]

-----------------------------------------------------------------------------
(* A call of run-once.  Another holder is waited out only until the lock    *)
(* expires; a call that is refused returns without a change.                *)
Acquire(c) ==
    /\ procs[c].at = "idle"
    /\ lock.owner = "nobody" \/ lock.expired
    /\ lock' = [owner |-> c, expired |-> FALSE]
    /\ Goto(c, "recovering")
    /\ UNCHANGED <<backlog, runs, late, overruns, left>>

(* The runs no living process executes; which of them have been quiet for   *)
(* long enough is open.                                                     *)
Abandoned ==
    {i \in 1..Len(runs) : /\ runs[i].status = "active"
                          /\ \A p \in Processes : procs[p].run # i}

Recover(c) ==
    /\ procs[c].at = "recovering"
    /\ \E stale \in SUBSET Abandoned :
         runs' = [i \in 1..Len(runs) |->
                    IF i \in stale THEN [runs[i] EXCEPT !.status = "interrupted"] ELSE runs[i]]
    /\ \E next \in {"collecting", "checking"} : Goto(c, next)
    /\ UNCHANGED <<backlog, lock, late, overruns, left>>

Covered(x) ==
    \E i \in 1..Len(runs) : runs[i].candidate = x /\ runs[i].status \in {"published", "parked"}

(* With --collect: the sources offer some candidates, and those not yet     *)
(* covered are stored.                                                      *)
Collect(c) ==
    /\ procs[c].at = "collecting"
    /\ \E offered \in SUBSET Candidates : \E score \in [offered -> Scores] :
         backlog' = [x \in Candidates |->
                       IF x \in offered /\ ~Covered(x)
                       THEN Upserted(backlog[x], score[x])
                       ELSE backlog[x]]
    /\ Goto(c, "checking")
    /\ UNCHANGED <<runs, lock, late, overruns, left>>

RunsToday == {i \in 1..Len(runs) : runs[i].recent}

(* Slip: one run more than the limit.                                       *)
LimitReachedAbove == Cardinality(RunsToday) > MaxRunsPerDay

LimitReached == Cardinality(RunsToday) >= MaxRunsPerDay

(* A limit stops the call, or a collection that cannot read its sources.    *)
Stop(c) ==
    /\ procs[c].at \in {"collecting", "checking"}
    /\ Goto(c, "releasing")
    /\ UNCHANGED <<backlog, runs, lock, late, overruns, left>>

PassLimits(c) ==
    /\ procs[c].at = "checking"
    /\ ~LimitReached
    /\ Goto(c, "picking")
    /\ UNCHANGED <<backlog, runs, lock, late, overruns, left>>

(* The best accepted candidate; with none, or with one whose brief is       *)
(* refused by the schema, the call is over.                                 *)
Pick(c) ==
    /\ procs[c].at = "picking"
    /\ \/ Best(backlog) = {} /\ Goto(c, "releasing")
       \/ \E x \in Best(backlog) :
            IF backlog[x].brief = "refused"
            THEN Goto(c, "releasing")
            ELSE procs' = [procs EXCEPT ![c].at = "beginning", ![c].candidate = x]
    /\ UNCHANGED <<backlog, runs, lock, late, overruns, left>>

(* beginWorkflow stores a run of the candidate, and whether its topic has   *)
(* been published before.                                                   *)
NewRun(x, by) ==
    [candidate |-> x, by |-> by, status |-> "active", recent |-> TRUE,
     duplicate |-> \E i \in 1..Len(runs) : runs[i].candidate = x /\ runs[i].status = "published"]

Begin(c) ==
    /\ procs[c].at = "beginning"
    /\ runs' = Append(runs, NewRun(procs[c].candidate, "schedule"))
    /\ procs' = [procs EXCEPT ![c].at = "marking", ![c].run = Len(runs')]
    /\ UNCHANGED <<backlog, lock, late, overruns, left>>

-----------------------------------------------------------------------------
(* markUsed of a call, or of `topics generate` after its run: the row is    *)
(* read; one that is used or dropped makes the command fail.                *)
MarkRead(p) ==
    LET status == backlog[procs[p].candidate].status IN
    /\ procs[p].at = "marking"
    /\ IF MayMark(status)
       THEN procs' = [procs EXCEPT ![p].at = "writing", ![p].read = status]
       ELSE IF p \in Calls
            THEN procs' = [procs EXCEPT ![p] = [Idle EXCEPT !.at = "releasing"]]
            ELSE procs' = [procs EXCEPT ![p] = Idle]
    /\ UNCHANGED <<backlog, runs, lock, late, overruns, left>>

(* A call executes what it has marked, a person has executed it.            *)
MarkWrite(p) ==
    LET x == procs[p].candidate IN
    /\ procs[p].at = "writing"
    /\ backlog' = [backlog EXCEPT ![x] = Used(@, procs[p].read, procs[p].run)]
    /\ IF p \in Calls THEN Goto(p, "executing") ELSE procs' = [procs EXCEPT ![p] = Idle]
    /\ UNCHANGED <<runs, lock, late, overruns, left>>

(* A step that fails throws, and `topics generate` ends unmarked; when the  *)
(* publisher fails the run returns.                                         *)
Finish(p) ==
    LET i == procs[p].run IN
    /\ procs[p].at = "executing"
    /\ \E o \in IF runs[i].duplicate THEN {"duplicate"} ELSE Outcomes :
         /\ runs' = [runs EXCEPT ![i].status = o]
         /\ IF p \in Calls
            THEN procs' = [procs EXCEPT ![p] = [Idle EXCEPT !.at = "releasing"]]
            ELSE \/ Goto(p, "marking")
                 \/ o = "failed" /\ procs' = [procs EXCEPT ![p] = Idle]
    /\ UNCHANGED <<backlog, lock, late, overruns, left>>

(* Slip: whoever holds the lock loses it.                                   *)
ReleaseAnyLock(c) ==
    /\ procs[c].at = "releasing"
    /\ lock' = [owner |-> "nobody", expired |-> FALSE]
    /\ procs' = [procs EXCEPT ![c] = Idle]
    /\ late' = late \ {c}
    /\ UNCHANGED <<backlog, runs, overruns, left>>

(* The lock is only taken off by the call that still owns it.               *)
Release(c) ==
    /\ procs[c].at = "releasing"
    /\ lock' = IF lock.owner = c THEN [owner |-> "nobody", expired |-> FALSE] ELSE lock
    /\ procs' = [procs EXCEPT ![c] = Idle]
    /\ late' = late \ {c}
    /\ UNCHANGED <<backlog, runs, overruns, left>>

-----------------------------------------------------------------------------
(* `topics accept` and `topics drop`: the row is read, and written later.   *)
Decide(p) ==
    /\ procs[p].at = "idle" /\ left.orders > 0
    /\ \E x \in Candidates, verdict \in {"accepting", "dropping"}, brief \in Briefs :
         /\ verdict = "dropping" => brief = "usable"
         /\ MayDecide(backlog[x].status)
         /\ procs' = [procs EXCEPT ![p] = [at |-> verdict, candidate |-> x, run |-> 0,
                                           read |-> backlog[x].status, brief |-> brief]]
    /\ left' = [left EXCEPT !.orders = @ - 1]
    /\ UNCHANGED <<backlog, runs, lock, late, overruns>>

Accept(p) ==
    LET x == procs[p].candidate IN
    /\ procs[p].at = "accepting"
    /\ backlog' = [backlog EXCEPT ![x] = Accepted(@, procs[p].read, procs[p].brief)]
    /\ procs' = [procs EXCEPT ![p] = Idle]
    /\ UNCHANGED <<runs, lock, late, overruns, left>>

Drop(p) ==
    LET x == procs[p].candidate IN
    /\ procs[p].at = "dropping"
    /\ backlog' = [backlog EXCEPT ![x] = Dropped(@, procs[p].read)]
    /\ procs' = [procs EXCEPT ![p] = Idle]
    /\ UNCHANGED <<runs, lock, late, overruns, left>>

(* `topics generate`: the run begins and is executed, and the candidate is  *)
(* marked when it has ended.                                                *)
Generate(p) ==
    /\ procs[p].at = "idle" /\ left.orders > 0
    /\ \E x \in Candidates :
         /\ MayMark(backlog[x].status)
         /\ runs' = Append(runs, NewRun(x, "person"))
         /\ procs' = [procs EXCEPT ![p] = [Idle EXCEPT !.at = "executing", !.candidate = x,
                                                      !.run = Len(runs')]]
    /\ left' = [left EXCEPT !.orders = @ - 1]
    /\ UNCHANGED <<backlog, lock, late, overruns>>

-----------------------------------------------------------------------------
(* The lock of a call that is still at work expires.                        *)
Overrun ==
    /\ lock.owner \in Calls /\ ~lock.expired /\ left.overruns > 0
    /\ lock' = [lock EXCEPT !.expired = TRUE]
    /\ late' = late \cup {lock.owner}
    /\ overruns' = overruns + 1
    /\ left' = [left EXCEPT !.overruns = @ - 1]
    /\ UNCHANGED <<backlog, runs, procs>>

(* The lock of a dead process expires.                                      *)
Expire ==
    /\ lock = [owner |-> "dead", expired |-> FALSE]
    /\ lock' = [lock EXCEPT !.expired = TRUE]
    /\ UNCHANGED <<backlog, runs, procs, late, overruns, left>>

(* The oldest run of the last 24 hours is no longer one of them.            *)
Age ==
    /\ \E i \in RunsToday : /\ \A j \in RunsToday : i <= j
                            /\ runs' = [runs EXCEPT ![i].recent = FALSE]
    /\ UNCHANGED <<backlog, lock, procs, late, overruns, left>>

(* A process dies.  No later call has its name, so nobody owns its lock.    *)
Crash(p) ==
    /\ procs[p].at # "idle" /\ left.crashes > 0
    /\ procs' = [procs EXCEPT ![p] = Idle]
    /\ lock' = IF lock.owner = p THEN [lock EXCEPT !.owner = "dead"] ELSE lock
    /\ late' = late \ {p}
    /\ left' = [left EXCEPT !.crashes = @ - 1]
    /\ UNCHANGED <<backlog, runs, overruns>>

CallStep(c) ==
    \/ Recover(c) \/ Collect(c) \/ Stop(c) \/ PassLimits(c) \/ Pick(c) \/ Begin(c)
    \/ MarkRead(c) \/ MarkWrite(c) \/ Finish(c) \/ Release(c)

PersonStep(p) ==
    \/ Accept(p) \/ Drop(p) \/ Finish(p) \/ MarkRead(p) \/ MarkWrite(p)

Next ==
    \/ \E c \in Calls : Acquire(c) \/ CallStep(c)
    \/ \E p \in People : Decide(p) \/ Generate(p) \/ PersonStep(p)
    \/ \E p \in Processes : Crash(p)
    \/ Overrun \/ Expire \/ Age

Spec == Init /\ [][Next]_vars

(* Cron keeps calling and every process goes on until it dies; time passes, *)
(* so locks of the dead expire, days end and windows open.  People owe      *)
(* nothing but to finish what they have begun.                              *)
FairSpec ==
    /\ Spec
    /\ \A c \in Calls : /\ WF_vars(Acquire(c)) /\ WF_vars(CallStep(c))
                        /\ SF_vars(Collect(c)) /\ SF_vars(PassLimits(c))
    /\ \A p \in People : WF_vars(PersonStep(p))
    /\ WF_vars(Expire) /\ WF_vars(Age)

-----------------------------------------------------------------------------
Inside(c) == procs[c].at # "idle"

(* A call that is at work holds the lock, unless its own lock expired under *)
(* it: a call that is late does not take away the lock of another when it   *)
(* ends (releaseLock of SchedulerStore).                                    *)
LockHeld ==
    \A c \in Calls : Inside(c) /\ c \notin late => lock = [owner |-> c, expired |-> FALSE]

(* A scheduled run that was executed is the run its candidate is marked     *)
(* with, so that no two are executed for one candidate, whatever calls      *)
(* overlap and whoever decides meanwhile.  Excepted is a candidate that was *)
(* written over a status its writer had not read.                           *)
ExecutedIsMarked ==
    \A i \in 1..Len(runs) :
        /\ runs[i].by = "schedule"
        /\ runs[i].status \notin {"active", "interrupted"}
        /\ ~backlog[runs[i].candidate].raced
        => /\ backlog[runs[i].candidate].status = "used"
           /\ backlog[runs[i].candidate].run = i

(* The limit on runs per day holds for what the scheduler starts, but for   *)
(* one run for each lock that expired under a living call.                  *)
DailyLimitHolds ==
    Cardinality({i \in RunsToday : runs[i].by = "schedule"}) <= MaxRunsPerDay + overruns

(* What docs/operations.md:137 promises: no candidate is picked twice, also *)
(* when a process dies.                                                     *)
NotPickedTwice ==
    \A i, j \in 1..Len(runs) :
        runs[i].by = "schedule" /\ runs[j].by = "schedule" /\ i # j
        => runs[i].candidate # runs[j].candidate

Waiting == {x \in Candidates : backlog[x].status = "accepted"}
Taken   == {x \in Candidates : backlog[x].status = "used"}

(* A call that picks a refused brief ends without a run.                    *)
HeadRefused == \E x \in Best(backlog) : backlog[x].brief = "refused"

(* The backlog does not stand still: as long as a candidate waits, calls    *)
(* come back through crashes, expired locks and limits until another one is *)
(* taken, and go on when a person has dropped one that stood in the way     *)
(* (runOnce of scheduler.ts).  Excepted is a refused brief that stays at    *)
(* the head for good.  That a given candidate is taken is not claimed:      *)
(* better ones may come for ever.                                           *)
BacklogMoves ==
    \A taken \in SUBSET Candidates :
        Waiting # {} /\ Taken = taken
        ~> (Waiting = {} \/ Taken # taken \/ []HeadRefused)
=============================================================================
