------------------------- MODULE RunExecutionProofs -------------------------
(***************************************************************************)
(* What the executions of a run may cost, for every budget, every number   *)
(* of steps, attempts and retries, and however often the run is resumed.   *)
(*                                                                         *)
(* Three accounts are kept apart: what the records of the steps say        *)
(* (run.usage), what the executing process has counted (counter), and what *)
(* the replies have reported (spent).  They agree until a record is lost   *)
(* or the process dies, and each such mishap hides Limit at most.          *)
(***************************************************************************)
EXTENDS RunExecution, TLAPS

(* A request is sent only within the budget, and adds one reply.           *)
Limit == Budget + Dearest

(* What mishaps can have hidden.                                           *)
Hidden(m) == m * Limit

Executing == call.phase # "idle"

InStep == call.phase \in {"generate", "request", "succeeded", "failed"}

(* A step begins with what was counted before it.                          *)
AccountsInOrder ==
    /\ run.usage <= Limit /\ run.usage <= spent
    /\ Executing => run.usage <= counter /\ counter <= Limit /\ counter <= spent
    /\ InStep => run.usage <= call.before /\ call.before <= counter
    /\ call.phase = "request" => counter <= Budget

(* Between the steps the records have caught up with the counter, unless a *)
(* record of this execution was lost; that mishap has hidden nothing yet.  *)
RecordsKeptUp ==
    \/ /\ call.phase \in {"step", "ended"} => run.usage = counter
       /\ InStep => run.usage = call.before
    \/ mishaps >= 1 /\ spent <= counter + Hidden(mishaps - 1)

NothingUnseen ==
    /\ spent <= (IF Executing THEN counter ELSE run.usage) + Hidden(mishaps)
    /\ Executing => RecordsKeptUp

SpendInv == CallsTypeOK /\ AccountsInOrder /\ NothingUnseen

(* What a provider may be asked for an attempt, and what so many attempts  *)
(* with so many providers may ask.                                         *)
PerProvider == 1 + MaxRetries

Allowed(providers, attempts) == attempts * (providers * PerProvider)

AskedBefore == IF call.provider = "fallback" THEN PerProvider ELSE 0

(* Every attempt begins with what the earlier ones may have used up.       *)
RequestInv ==
    /\ call.phase = "step" => call.asked = 0
    /\ call.phase \in {"generate", "request"} => call.attempt \in 1..Attempts(call.step)
    /\ call.phase = "generate" => call.asked <= Allowed(Providing, call.attempt - 1)
    /\ call.phase = "request" =>
         /\ call.tries <= MaxRetries
         /\ call.provider = "fallback" => fallback
         /\ call.asked <= Allowed(Providing, call.attempt - 1) + AskedBefore + call.tries + 1
    /\ RequestsBounded

(* A message goes out when nothing executes; a budget that is exceeded     *)
(* stays so, and every attempt but the last one is unanswered.             *)
CodeIsTrue == call.code = "budget_exceeded" => spent > Budget

AttemptsCounted ==
    Sending => /\ notice.attempt <= NotifyAttempts
               /\ unanswered + 1 = notice.attempt
               /\ received <= unanswered

NoticeInv ==
    /\ NoticeTypeOK
    /\ CodeIsTrue
    /\ Sending => call.phase = "idle"
    /\ ToldIsStored
    /\ AttemptsCounted
    /\ NoNeedlessRepeat

-----------------------------------------------------------------------------
(* The values call takes.                                                  *)
LEMMA CallTypes ==
    ASSUME CallsTypeOK
    PROVE  /\ NoCall \in Calls
           /\ Advanced \in Calls
           /\ \A code \in Codes : Failed(code) \in Calls
           /\ \A accepted \in BOOLEAN : Judged(accepted) \in Calls
           /\ AfterOutage \in Calls
           /\ AfterStep \in Calls
<1> USE DEF Calls, Phases, Codes, Providers
<1>1. call \in Calls
  BY DEF CallsTypeOK
<1>2. /\ call.attempt + 1 \in Nat
      /\ call.tries + 1 \in Nat
      /\ call.asked + 1 \in Nat
  BY <1>1
<1>3. NoCall \in Calls
  BY CallsAssumption DEF CallsAssumption, CallSteps, NoCall
<1>4. Advanced \in Calls
  <2>1. call.step # LastStep => call.step + 1 \in CallSteps
    BY <1>1, CallsAssumption DEF CallsAssumption, CallSteps
  <2>2. [call EXCEPT !.phase = "ended"] \in Calls
    BY <1>1
  <2>3. ASSUME call.step # LastStep
        PROVE  [NoCall EXCEPT !.phase = "step", !.step = call.step + 1] \in Calls
    BY <2>1, <2>3, <1>3
  <2> HIDE DEF Calls, Phases, Codes, Providers
  <2> QED BY <2>2, <2>3, Zenon DEF Advanced
<1>5. ASSUME NEW code \in Codes PROVE Failed(code) \in Calls
  BY <1>1 DEF Failed
<1>6. ASSUME NEW accepted \in BOOLEAN PROVE Judged(accepted) \in Calls
  <2>1. [call EXCEPT !.phase = "succeeded"] \in Calls
    BY <1>1
  <2>2. [call EXCEPT !.phase = "generate", !.attempt = @ + 1] \in Calls
    BY <1>1, <1>2
  <2>3. Failed("invalid_output") \in Calls
    BY <1>5
  <2> HIDE DEF Calls, Phases, Codes, Providers
  <2> QED BY <2>1, <2>2, <2>3, Zenon DEF Judged
<1>7. AfterOutage \in Calls
  <2>1. Repeated \in Calls
    BY <1>1, <1>2 DEF Repeated
  <2>2. HandedOver \in Calls
    BY <1>1, <1>2 DEF HandedOver
  <2>3. Failed("provider") \in Calls
    BY <1>5
  <2> HIDE DEF Calls, Phases, Codes, Providers
  <2> QED BY <2>1, <2>2, <2>3, Zenon DEF AfterOutage
<1>8. AfterStep \in Calls
  <2>1. [call EXCEPT !.phase = "ended"] \in Calls
    BY <1>1
  <2> QED BY <2>1, <1>4, Zenon DEF AfterStep
<1> QED BY <1>3, <1>4, <1>5, <1>6, <1>7, <1>8

(* The calls of a step keep the types.                                     *)
LEMMA CallStepHasTypes ==
    ASSUME CallsTypeOK, CallStep,
           call.phase \in {"succeeded", "failed"} => counter - call.before \in Nat
    PROVE  CallsTypeOK'
<1> USE CallTypes DEF CallsTypeOK
<1>1. CASE SkipStep \/ StartStep \/ Refusal \/ Outage
  <2>1. [call EXCEPT !.phase = "generate", !.before = counter, !.attempt = 1] \in Calls
    BY DEF Calls, Phases
  <2>2. Failed("provider") \in Calls
    BY DEF Codes
  <2>3. call' \in Calls
    BY <1>1, <2>1, <2>2, Zenon DEF SkipStep, StartStep, Refusal, Outage
  <2> QED BY <1>1, <2>3 DEF SkipStep, StartStep, Refusal, Outage
<1>2. CASE Generate
  <2>1. call.asked + 1 \in Nat
    BY DEF Calls
  <2>2. [call EXCEPT !.phase = "request", !.provider = "primary", !.tries = 0, !.asked = @ + 1]
            \in Calls
    BY <2>1 DEF Calls, Phases, Providers
  <2>3. Failed("budget_exceeded") \in Calls
    BY DEF Codes
  <2>4. call' \in Calls
    BY <1>2, <2>2, <2>3, Zenon DEF Generate
  <2> QED BY <1>2, <2>4 DEF Generate
<1>3. CASE \E usage \in Usages, accepted \in BOOLEAN : Reply(usage, accepted)
  <2> PICK usage \in Usages, accepted \in BOOLEAN : Reply(usage, accepted)
    BY <1>3
  <2>1. usage \in Nat
    BY CallsAssumption DEF CallsAssumption, Usages
  <2>2. Failed("budget_exceeded") \in Calls /\ Judged(accepted) \in Calls
    BY DEF Codes
  <2> HIDE DEF CallsTypeOK
  <2>3. call' \in Calls
    BY <2>2, Zenon DEF Reply
  <2> QED BY <2>1, <2>3 DEF Reply, CallsTypeOK
<1>4. CASE RecordStep
  <2>1. run.usage + UsedByStep \in Nat /\ call.step \in CallSteps
    BY <1>4 DEF RecordStep, RunRows, UsedByStep, Calls
  <2>2. run' \in RunRows
    BY <1>4, <2>1 DEF RecordStep, RunRows
  <2> QED BY <1>4, <2>2 DEF RecordStep
<1>5. CASE LoseRecord
  BY <1>5, CallsAssumption DEF CallsAssumption, LoseRecord
<1> QED BY <1>1, <1>2, <1>3, <1>4, <1>5 DEF CallStep

-----------------------------------------------------------------------------
(* One mishap more hides one Limit more.                                   *)
LEMMA HiddenGrows ==
    /\ Limit \in Nat /\ Budget \in Nat /\ Dearest \in Nat
    /\ Hidden(0) = 0
    /\ \A m \in Nat : Hidden(m) \in Nat /\ Hidden(m + 1) = Hidden(m) + Limit
<1>1. Budget \in Nat /\ Dearest \in Nat /\ Limit \in Nat
  BY CallsAssumption DEF CallsAssumption, Limit
<1>2. ASSUME NEW m \in Nat, NEW l \in Nat
      PROVE  m * l \in Nat /\ (m + 1) * l = m * l + l /\ 0 * l = 0
  OBVIOUS
<1> QED BY <1>1, <1>2 DEF Hidden

(* What the invariant says of the numbers, with their types.               *)
Amounts ==
    /\ Budget \in Nat /\ Dearest \in Nat /\ Limit \in Nat
    /\ run.usage \in Nat /\ counter \in Nat /\ spent \in Nat /\ mishaps \in Nat
    /\ call.before \in Nat
    /\ Hidden(mishaps) \in Nat
    /\ Hidden(mishaps + 1) = Hidden(mishaps) + Limit
    /\ mishaps >= 1 => Hidden(mishaps - 1) \in Nat /\ Hidden(mishaps - 1) + Limit = Hidden(mishaps)
    /\ mishaps = 0 => Hidden(mishaps) = 0

LEMMA AmountTypes == CallsTypeOK => Amounts
<1> SUFFICES ASSUME CallsTypeOK PROVE Amounts
  OBVIOUS
<1>1. /\ run.usage \in Nat /\ counter \in Nat /\ spent \in Nat
      /\ call.before \in Nat
  BY DEF CallsTypeOK, RunRows, Calls
<1>2. mishaps \in Nat
  BY CallsAssumption DEF CallsTypeOK, CallsAssumption
<1>3. mishaps >= 1 => mishaps - 1 \in Nat /\ (mishaps - 1) + 1 = mishaps
  BY <1>2
<1>4. mishaps >= 1 => Hidden(mishaps - 1) \in Nat /\ Hidden(mishaps - 1) + Limit = Hidden(mishaps)
  BY <1>3, HiddenGrows
<1> QED BY <1>1, <1>2, <1>4, HiddenGrows DEF Amounts

(* Asking, skipping and judging move no account except the new before.     *)
LEMMA QuietStepKeepsSpend ==
    ASSUME SpendInv, SkipStep \/ StartStep \/ Generate \/ Refusal \/ Outage, CallsTypeOK'
    PROVE  SpendInv'
<1> USE DEF SpendInv, AccountsInOrder, NothingUnseen, RecordsKeptUp, InStep, Executing
<1>0. Amounts /\ call \in Calls
  BY AmountTypes DEF CallsTypeOK
<1>1. UNCHANGED <<run, counter, spent, mishaps>>
  BY DEF SkipStep, StartStep, Generate, Refusal, Outage
<1>2. CASE SkipStep
  <2>1. call.phase = "step" /\ call'.phase \in {"step", "ended"}
    BY <1>0, <1>2 DEF SkipStep, Advanced, Calls, NoCall
  <2> QED BY <1>0, <1>1, <2>1 DEF Amounts
<1>3. CASE StartStep
  <2>1. call.phase = "step" /\ call'.phase = "generate" /\ call'.before = counter
    BY <1>0, <1>3 DEF StartStep, Calls
  <2>2. AccountsInOrder'
    BY <1>0, <1>1, <2>1 DEF Amounts
  <2>3. RecordsKeptUp'
    BY <1>0, <1>1, <2>1 DEF Amounts
  <2> QED BY <1>0, <1>1, <2>1, <2>2, <2>3 DEF Amounts
<1>4. CASE Generate
  <2>1. /\ call.phase = "generate" /\ call'.before = call.before
        /\ call'.phase = "failed" \/ (call'.phase = "request" /\ counter <= Budget)
    BY <1>0, <1>4 DEF Generate, Calls, OverBudget, Failed, Amounts
  <2> QED BY <1>0, <1>1, <2>1 DEF Amounts
<1>5. CASE Refusal \/ Outage
  <2>1. /\ call.phase = "request" /\ call'.before = call.before
        /\ call'.phase \in {"request", "failed"}
    BY <1>0, <1>5 DEF Refusal, Outage, AfterOutage, Repeated, HandedOver, Failed, Calls
  <2> QED BY <1>0, <1>1, <2>1 DEF Amounts
<1> QED BY <1>2, <1>3, <1>4, <1>5

(* A reply is one Dearest more on top of at most Budget.                   *)
LEMMA ReplyKeepsSpend ==
    ASSUME SpendInv, NEW usage \in Usages, NEW accepted \in BOOLEAN, Reply(usage, accepted),
           CallsTypeOK'
    PROVE  SpendInv'
<1> USE DEF SpendInv, AccountsInOrder, NothingUnseen, RecordsKeptUp, InStep, Executing
<1>0. Amounts /\ call \in Calls
  BY AmountTypes DEF CallsTypeOK
<1>1. usage \in Nat /\ usage <= Dearest
  BY DEF Usages
<1>2. /\ call.phase = "request" /\ counter' = counter + usage /\ spent' = spent + usage
      /\ UNCHANGED <<run, mishaps>>
  BY DEF Reply
<1>3. call' \in {Failed("budget_exceeded"), Failed("invalid_output"),
                [call EXCEPT !.phase = "succeeded"],
                [call EXCEPT !.phase = "generate", !.attempt = @ + 1]}
  BY Zenon DEF Reply, Judged
<1>4. call'.before = call.before /\ call'.phase \in {"failed", "succeeded", "generate"}
  BY <1>0, <1>3 DEF Failed, Calls
<1>5. counter' <= Limit
  BY <1>0, <1>1, <1>2, HiddenGrows DEF Amounts, Limit
<1> QED BY <1>0, <1>1, <1>2, <1>4, <1>5 DEF Amounts

(* The end of a step: its record brings run.usage up to the counter, and a *)
(* lost one is a mishap that has hidden nothing yet.                       *)
LEMMA StepEndKeepsSpend ==
    ASSUME SpendInv, RecordStep \/ LoseRecord, CallsTypeOK'
    PROVE  SpendInv'
<1> USE DEF SpendInv, AccountsInOrder, NothingUnseen, RecordsKeptUp, InStep, Executing
<1>0. Amounts /\ call \in Calls
  BY AmountTypes DEF CallsTypeOK
<1>1. call' = AfterStep /\ call.phase \in {"succeeded", "failed"} /\ UNCHANGED <<counter, spent>>
  BY DEF RecordStep, LoseRecord
<1>2. call'.phase \in {"step", "ended"}
  BY <1>0, <1>1 DEF AfterStep, Advanced, NoCall, Calls
<1>3. CASE RecordStep
  <2>1. run'.usage = run.usage + (counter - call.before) /\ UNCHANGED mishaps
    BY <1>3 DEF RecordStep, UsedByStep, CallsTypeOK, RunRows
  <2> QED BY <1>0, <1>1, <1>2, <2>1 DEF Amounts
<1>4. CASE LoseRecord
  <2>1. mishaps' = mishaps + 1 /\ UNCHANGED run
    BY <1>4 DEF LoseRecord
  <2>2. Hidden(mishaps') = Hidden(mishaps) + Limit /\ mishaps' - 1 = mishaps
    BY <1>0, <2>1 DEF Amounts
  <2>3. AccountsInOrder'
    BY <1>0, <1>1, <1>2, <2>1 DEF Amounts
  <2>4. RecordsKeptUp'
    BY <1>0, <1>1, <2>1, <2>2 DEF Amounts
  <2> QED BY <1>0, <1>1, <1>2, <2>1, <2>2, <2>3, <2>4 DEF Amounts
<1> QED BY <1>3, <1>4

(* An execution starts from the records, and leaves them behind when it    *)
(* ends or dies.                                                           *)
LEMMA ExecutionKeepsSpend ==
    ASSUME SpendInv, Execute \/ Store \/ Die, CallsTypeOK'
    PROVE  SpendInv'
<1> USE DEF SpendInv, AccountsInOrder, NothingUnseen, RecordsKeptUp, InStep, Executing
<1>0. Amounts /\ call \in Calls
  BY AmountTypes DEF CallsTypeOK
<1>1. UNCHANGED <<run.usage, spent>>
  BY DEF Execute, Store, Die, CallsTypeOK, RunRows
<1>2. CASE Execute
  <2>1. /\ call.phase = "idle" /\ call'.phase = "step" /\ counter' = run.usage
        /\ UNCHANGED mishaps
    BY <1>2 DEF Execute, PriorUsage, NoCall
  <2> QED BY <1>0, <1>1, <2>1 DEF Amounts
<1>3. CASE Store
  <2>1. call.phase = "ended" /\ call'.phase = "idle" /\ UNCHANGED <<counter, mishaps>>
    BY <1>3 DEF Store, NoCall
  <2> QED BY <1>0, <1>1, <2>1 DEF Amounts
<1>4. CASE Die
  <2>1. call'.phase = "idle" /\ mishaps' = mishaps + 1
    BY <1>4 DEF Die, NoCall
  <2>2. Hidden(mishaps') = Hidden(mishaps) + Limit
    BY <1>0, <2>1 DEF Amounts
  <2> QED BY <1>0, <1>1, <2>1, <2>2 DEF Amounts
<1> QED BY <1>2, <1>3, <1>4

LEMMA ExecutionHasTypes ==
    ASSUME CallsTypeOK, Execute \/ Store \/ Die
    PROVE  CallsTypeOK'
<1> USE CallTypes DEF CallsTypeOK
<1>1. CASE Execute
  <2>1. run' \in RunRows /\ counter' \in Nat
    BY <1>1 DEF Execute, RunRows, PriorUsage
  <2>2. call' \in Calls
    BY <1>1 DEF Execute, Calls, Phases
  <2>3. executions' \in 0..MaxExecutions
    BY <1>1, CallsAssumption DEF Execute, CallsAssumption
  <2> QED BY <1>1, <2>1, <2>2, <2>3 DEF Execute
<1>2. CASE Store
  <2>1. run' \in RunRows
    BY <1>2 DEF Store, RunRows
  <2> QED BY <1>2, <2>1 DEF Store
<1>3. CASE Die
  <2>1. run' \in RunRows
    BY <1>3 DEF Die, RunRows
  <2>2. mishaps' \in 0..MaxMishaps
    BY <1>3, CallsAssumption DEF Die, CallsAssumption
  <2> QED BY <1>3, <2>1, <2>2 DEF Die
<1> QED BY <1>1, <1>2, <1>3

LEMMA InitKeepsAccounts == Init => SpendInv
<1> SUFFICES ASSUME Init PROVE SpendInv
  OBVIOUS
<1>1. CallsTypeOK
  BY CallTypes, CallsAssumption
     DEF Init, CallsInit, CallsTypeOK, CallsAssumption, RunRows, NoCall, Calls, Phases, Codes,
         CallSteps, Providers
<1>2. run.usage = 0 /\ spent = 0 /\ mishaps = 0 /\ call.phase = "idle"
  BY DEF Init, CallsInit, NoCall
<1> QED
  BY <1>1, <1>2, HiddenGrows
     DEF SpendInv, AccountsInOrder, NothingUnseen, Executing, InStep

LEMMA NextKeepsAccounts == SpendInv /\ [Next]_vars => SpendInv'
<1> SUFFICES ASSUME SpendInv, [Next]_vars PROVE SpendInv'
  OBVIOUS
<1>0. CallsTypeOK
  BY DEF SpendInv
<1>1. CASE CallStep
  <2>1. call.phase \in {"succeeded", "failed"} => counter - call.before \in Nat
    BY <1>0, AmountTypes DEF SpendInv, AccountsInOrder, InStep, Amounts
  <2>2. CallsTypeOK'
    BY <1>0, <1>1, <2>1, CallStepHasTypes
  <2>3. CASE SkipStep \/ StartStep \/ Generate \/ Refusal \/ Outage
    BY <2>2, <2>3, QuietStepKeepsSpend
  <2>4. CASE \E usage \in Usages, accepted \in BOOLEAN : Reply(usage, accepted)
    <3> PICK usage \in Usages, accepted \in BOOLEAN : Reply(usage, accepted)
      BY <2>4
    <3> QED BY <2>2, ReplyKeepsSpend
  <2>5. CASE RecordStep \/ LoseRecord
    BY <2>2, <2>5, StepEndKeepsSpend
  <2> QED BY <1>1, <2>3, <2>4, <2>5 DEF CallStep
<1>2. CASE Execute \/ Store \/ Die
  BY <1>0, <1>2, ExecutionHasTypes, ExecutionKeepsSpend
<1>3. CASE UNCHANGED callVars
  BY <1>3 DEF callVars, SpendInv, CallsTypeOK, AccountsInOrder, NothingUnseen, RecordsKeptUp,
              InStep, Executing
<1> QED
  BY <1>1, <1>2, <1>3 DEF Next, Begin, Ask, End, Tell, Crash, vars

LEMMA AccountsHold == Spec => []SpendInv
<1> QED BY InitKeepsAccounts, NextKeepsAccounts, PTL DEF Spec

(* A run uses at most one reply more than its budget, and as much again    *)
(* for every record that was lost and every process that died, however     *)
(* often it is resumed.                                                    *)
THEOREM SpendIsBounded == Spec => []SpendBounded
<1>1. SpendInv => SpendBounded
  <2> SUFFICES ASSUME SpendInv PROVE SpendBounded
    OBVIOUS
  <2>1. Amounts
    BY AmountTypes DEF SpendInv
  <2>2. spent <= Hidden(mishaps + 1)
    BY <2>1 DEF SpendInv, AccountsInOrder, NothingUnseen, Executing, Amounts
  <2>3. Hidden(mishaps + 1) = (1 + mishaps) * (Budget + Dearest)
    BY <2>1 DEF Hidden, Limit, Amounts
  <2> QED BY <2>2, <2>3 DEF SpendBounded
<1> QED BY <1>1, AccountsHold, PTL

(* While no record was lost and no process has died, the records add up to *)
(* what the replies reported.                                              *)
THEOREM RecordsAreTrue == Spec => []RecordedIsSpent
<1>1. SpendInv => RecordedIsSpent
  <2> SUFFICES ASSUME SpendInv, mishaps = 0, call.phase \in {"idle", "step", "ended"}
               PROVE  run.usage = spent
    BY DEF RecordedIsSpent
  <2>1. Amounts
    BY AmountTypes DEF SpendInv
  <2> QED BY <2>1 DEF SpendInv, AccountsInOrder, NothingUnseen, RecordsKeptUp, Executing, InStep,
                      Amounts
<1> QED BY <1>1, AccountsHold, PTL

(* A run that is over its budget asks no model again, in no execution.     *)
THEOREM OverBudgetIsOver == Spec => OverBudgetAsksNoMore
<1>1. SpendInv /\ [Next]_vars
        => [mishaps = 0 /\ spent > Budget => call'.phase # "request"]_callVars
  <2> SUFFICES ASSUME SpendInv, Next, mishaps = 0, spent > Budget, ~(UNCHANGED callVars)
               PROVE  call'.phase # "request"
    BY DEF vars
  <2>0. Amounts /\ call \in Calls
    BY AmountTypes DEF SpendInv, CallsTypeOK
  <2>1. call.phase # "idle" => counter > Budget
    BY <2>0 DEF SpendInv, AccountsInOrder, NothingUnseen, Executing, Amounts
  <2>2. call.phase # "request"
    BY <2>0, <2>1 DEF SpendInv, AccountsInOrder, Amounts
  <2>3. CASE Execute \/ Store \/ Die
    BY <2>3 DEF Execute, Store, Die, NoCall
  <2>4. CASE SkipStep \/ StartStep
    BY <2>0, <2>4 DEF SkipStep, StartStep, Advanced, NoCall, Calls
  <2>5. CASE Generate
    BY <2>0, <2>1, <2>5 DEF Generate, OverBudget, Failed, Calls, Amounts
  <2>6. CASE RecordStep \/ LoseRecord
    BY <2>0, <2>6 DEF RecordStep, LoseRecord, AfterStep, Advanced, NoCall, Calls
  <2>7. ~(\E usage \in Usages, accepted \in BOOLEAN : Reply(usage, accepted)) /\ ~Refusal /\ ~Outage
    BY <2>2 DEF Reply, Refusal, Outage
  <2> QED BY <2>3, <2>4, <2>5, <2>6, <2>7 DEF Next, Begin, Ask, End, Tell, Crash, CallStep
<1> QED BY <1>1, AccountsHold, PTL DEF Spec, OverBudgetAsksNoMore

-----------------------------------------------------------------------------
LEMMA Allowances ==
    ASSUME NEW p \in {1, 2}
    PROVE  /\ MaxRetries \in Nat /\ PerProvider = 1 + MaxRetries
           /\ \A a \in Nat : /\ Allowed(p, a) \in Nat
                            /\ Allowed(p, a + 1) = Allowed(p, a) + p * PerProvider
                            /\ Allowed(p, a) = a * p * (1 + MaxRetries)
           /\ \A a, b \in Nat : a <= b => Allowed(p, a) <= Allowed(p, b)
<1>1. MaxRetries \in Nat /\ PerProvider = 1 + MaxRetries
  BY CallsAssumption DEF CallsAssumption, PerProvider
<1>2. p * PerProvider \in Nat
  BY <1>1
<1>3. ASSUME NEW a \in Nat, NEW q \in Nat
      PROVE  a * q \in Nat /\ (a + 1) * q = a * q + q
  OBVIOUS
<1>4. ASSUME NEW a \in Nat
      PROVE  a * (p * PerProvider) = a * p * (1 + MaxRetries)
  BY <1>1
<1>5. ASSUME NEW a \in Nat, NEW b \in Nat, a <= b, NEW q \in Nat
      PROVE  a * q <= b * q
  BY <1>5
<1> QED BY <1>1, <1>2, <1>3, <1>4, <1>5 DEF Allowed

(* What holds of the requests of an attempt holds of those of the step.    *)
LEMMA AttemptWithinStep ==
    ASSUME NEW p \in {1, 2}, NEW c \in Calls,
           c.attempt \in 1..Attempts(c.step),
           c.asked <= Allowed(p, c.attempt)
    PROVE  c.asked <= Attempts(c.step) * p * (1 + MaxRetries)
<1>1. /\ Attempts(c.step) \in Nat /\ c.attempt \in Nat /\ c.asked \in Nat
      /\ c.attempt <= Attempts(c.step)
  BY CallsAssumption DEF CallsAssumption, Attempts, Calls
<1>2. Allowed(p, c.attempt) <= Allowed(p, Attempts(c.step))
  BY <1>1, Allowances
<1>3. /\ Allowed(p, Attempts(c.step)) = Attempts(c.step) * p * (1 + MaxRetries)
      /\ Allowed(p, Attempts(c.step)) \in Nat /\ Allowed(p, c.attempt) \in Nat
  BY <1>1, Allowances
<1> QED BY <1>1, <1>2, <1>3

(* Outside the requests asked stays or is zero.                            *)
LEMMA OtherStepsKeepRequests ==
    ASSUME RequestInv, CallsTypeOK, CallsTypeOK',
           \/ Execute \/ Store \/ Die
           \/ SkipStep \/ StartStep \/ Refusal \/ RecordStep \/ LoseRecord
    PROVE  RequestInv'
<1>0. call \in Calls /\ call' \in Calls /\ Providing \in {1, 2}
  BY DEF CallsTypeOK, Providing
<1>1. Providing' = Providing /\ UNCHANGED fallback
  BY DEF Providing, Execute, Store, Die, SkipStep, StartStep, Refusal, RecordStep, LoseRecord
<1>2. /\ Attempts(call'.step) \in Nat \ {0}
      /\ Allowed(Providing, 0) = 0
      /\ 0 <= Attempts(call'.step) * Providing * (1 + MaxRetries)
  <2>1. Attempts(call'.step) \in Nat \ {0}
    BY CallsAssumption DEF CallsAssumption, Attempts
  <2>2. Allowed(Providing, 0) = 0 * Providing * (1 + MaxRetries)
    BY <1>0, Allowances
  <2>3. 0 * Providing * (1 + MaxRetries) = 0
    BY <1>0, Allowances
  <2>4. /\ Allowed(Providing, Attempts(call'.step)) \in Nat
        /\ Allowed(Providing, Attempts(call'.step)) = Attempts(call'.step) * Providing * (1 + MaxRetries)
    BY <1>0, <2>1, Allowances
  <2> QED BY <2>1, <2>2, <2>3, <2>4
<1>3. CASE call'.asked = 0 /\ call'.phase \notin {"generate", "request"}
  BY <1>1, <1>2, <1>3 DEF RequestInv, RequestsBounded
<1>4. CASE StartStep
  <2>1. call'.asked = 0 /\ call'.phase = "generate" /\ call'.attempt = 1
    BY <1>0, <1>4 DEF StartStep, RequestInv, Calls
  <2> QED BY <1>1, <1>2, <2>1 DEF RequestInv, RequestsBounded
<1>5. CASE /\ call'.phase \in {"failed", "ended"}
           /\ call'.asked = call.asked /\ call'.step = call.step
  BY <1>1, <1>5 DEF RequestInv, RequestsBounded
<1>6. CASE Execute \/ Store \/ Die
  BY <1>3, <1>6 DEF Execute, Store, Die, NoCall
<1>7. CASE Refusal
  BY <1>0, <1>5, <1>7 DEF Refusal, Failed, Calls
<1>8. CASE SkipStep \/ RecordStep \/ LoseRecord
  <2>1. call' \in {[call EXCEPT !.phase = "ended"],
                   [NoCall EXCEPT !.phase = "step", !.step = call.step + 1]}
    BY <1>8, Zenon DEF SkipStep, RecordStep, LoseRecord, AfterStep, Advanced
  <2>2. \/ call'.phase = "ended" /\ call'.asked = call.asked /\ call'.step = call.step
        \/ call'.phase = "step" /\ call'.asked = 0
    BY <1>0, <2>1 DEF Calls, NoCall
  <2> QED BY <1>3, <1>5, <2>2
<1> QED BY <1>4, <1>6, <1>7, <1>8

(* The first request of a generation, one more after an outage, and what a *)
(* reply leaves to the next attempt.                                       *)
LEMMA RequestsKeepBound ==
    ASSUME RequestInv, CallsTypeOK, CallsTypeOK',
           \/ Generate \/ Outage
           \/ \E usage \in Usages, accepted \in BOOLEAN : Reply(usage, accepted)
    PROVE  RequestInv'
<1>0. call \in Calls /\ call' \in Calls /\ Providing \in {1, 2}
  BY DEF CallsTypeOK, Providing
<1>1. Providing' = Providing /\ UNCHANGED fallback
  BY DEF Providing, Generate, Outage, Reply
<1>2. /\ call.phase \in {"generate", "request"} /\ call'.step = call.step
      /\ call.attempt \in 1..Attempts(call.step)
  BY <1>0 DEF Generate, Outage, Reply, OverBudget, Failed, AfterOutage, Repeated, HandedOver,
              Judged, RequestInv, Calls
<1> DEFINE before == Allowed(Providing, call.attempt - 1)
<1>3. /\ before \in Nat
      /\ Allowed(Providing, call.attempt) = before + Providing * PerProvider
      /\ call.attempt \in Nat /\ call.attempt >= 1 /\ call.asked \in Nat /\ call.tries \in Nat
      /\ PerProvider = 1 + MaxRetries /\ MaxRetries \in Nat
  <2>1. Attempts(call.step) \in Nat
    BY CallsAssumption DEF CallsAssumption, Attempts
  <2>2. call.attempt - 1 \in Nat /\ (call.attempt - 1) + 1 = call.attempt
    BY <1>0, <1>2, <2>1 DEF Calls
  <2>3. /\ Allowed(Providing, call.attempt - 1) \in Nat
        /\ Allowed(Providing, (call.attempt - 1) + 1)
              = Allowed(Providing, call.attempt - 1) + Providing * PerProvider
        /\ PerProvider = 1 + MaxRetries /\ MaxRetries \in Nat
    BY <1>0, <2>2, Allowances
  <2> QED BY <1>0, <2>2, <2>3 DEF Calls
(* The step goes on within the attempt, or fails or succeeds.              *)
<1>4. CASE /\ call'.phase \in {"failed", "succeeded"} /\ call'.asked = call.asked
  BY <1>1, <1>2, <1>4 DEF RequestInv, RequestsBounded
<1>5. CASE /\ call'.phase = "request" /\ call'.attempt = call.attempt
           /\ call'.tries <= MaxRetries
           /\ call'.provider = "fallback" => fallback
           /\ call'.asked <= before + AskedBefore' + call'.tries + 1
  <2>1. AskedBefore' \in Nat /\ AskedBefore' + PerProvider <= Providing * PerProvider
    BY <1>3, <1>5 DEF AskedBefore, Providing
  <2>2. call'.asked \in Nat /\ call'.tries \in Nat
    BY <1>0 DEF Calls
  <2>3. Providing * PerProvider \in Nat
    BY <1>0, <1>3
  <2>4. call'.asked <= Allowed(Providing, call'.attempt)
    BY <1>3, <1>5, <2>1, <2>2, <2>3
  <2>5. call'.asked <= Attempts(call'.step) * Providing * (1 + MaxRetries)
    BY <1>0, <1>2, <1>5, <2>4, AttemptWithinStep
  <2> QED BY <1>1, <1>2, <1>3, <1>5, <2>5 DEF RequestInv, RequestsBounded
<1>6. CASE Generate
  <2>1. \/ call'.phase = "failed" /\ call'.asked = call.asked
        \/ /\ call'.phase = "request" /\ call'.attempt = call.attempt /\ call'.tries = 0
           /\ call'.provider = "primary" /\ call'.asked = call.asked + 1
           /\ call.asked <= before
    BY <1>0, <1>6 DEF Generate, OverBudget, Failed, RequestInv, Calls
  <2>2. AskedBefore' = 0 \/ call'.provider # "primary"
    BY DEF AskedBefore
  <2> QED BY <1>3, <1>4, <1>5, <2>1, <2>2
<1>7. CASE Outage
  <2>1. /\ call.phase = "request" /\ call.tries <= MaxRetries
        /\ call.provider = "fallback" => fallback
        /\ call.asked <= before + AskedBefore + call.tries + 1
    BY <1>7 DEF Outage, RequestInv
  <2>2. CASE call.tries < MaxRetries
    <3>1. /\ call'.phase = "request" /\ call'.attempt = call.attempt
          /\ call'.tries = call.tries + 1 /\ call'.provider = call.provider
          /\ call'.asked = call.asked + 1
      BY <1>0, <1>7, <2>1, <2>2 DEF Outage, AfterOutage, Repeated, Calls
    <3>2. AskedBefore' = AskedBefore /\ AskedBefore \in Nat
      BY <1>3, <3>1 DEF AskedBefore
    <3> QED BY <1>3, <1>5, <2>1, <2>2, <3>1, <3>2
  <2>3. CASE ~(call.tries < MaxRetries) /\ MayHandOver
    <3>1. /\ call'.phase = "request" /\ call'.attempt = call.attempt
          /\ call'.tries = 0 /\ call'.provider = "fallback"
          /\ call'.asked = call.asked + 1
      BY <1>0, <1>7, <2>1, <2>3 DEF Outage, AfterOutage, HandedOver, Calls
    <3>2. AskedBefore' = PerProvider /\ AskedBefore = 0 /\ fallback
      BY <2>3, <3>1 DEF AskedBefore, MayHandOver
    <3> QED BY <1>3, <1>5, <2>1, <2>3, <3>1, <3>2
  <2>4. CASE ~(call.tries < MaxRetries) /\ ~MayHandOver
    BY <1>0, <1>4, <1>7, <2>4 DEF Outage, AfterOutage, Failed, Calls
  <2> QED BY <2>2, <2>3, <2>4
<1>8. CASE \E usage \in Usages, accepted \in BOOLEAN : Reply(usage, accepted)
  <2>1. /\ call.phase = "request" /\ call.tries <= MaxRetries
        /\ call.provider = "fallback" => fallback
        /\ call.asked <= before + AskedBefore + call.tries + 1
    BY <1>8 DEF Reply, RequestInv
  <2>2. \/ call'.phase \in {"failed", "succeeded"} /\ call'.asked = call.asked
        \/ /\ call'.phase = "generate" /\ call'.asked = call.asked
           /\ call'.attempt = call.attempt + 1 /\ call.attempt < Attempts(call.step)
    BY <1>0, <1>8 DEF Reply, Judged, Failed, Calls
  <2>3. CASE /\ call'.phase = "generate" /\ call'.asked = call.asked
             /\ call'.attempt = call.attempt + 1 /\ call.attempt < Attempts(call.step)
    <3>1. AskedBefore \in Nat /\ AskedBefore + PerProvider <= Providing * PerProvider
      BY <1>3, <2>1 DEF AskedBefore, Providing
    <3>2. Providing * PerProvider \in Nat /\ Attempts(call.step) \in Nat
      BY <1>0, <1>3, CallsAssumption DEF CallsAssumption, Attempts
    <3>3. call.asked <= Allowed(Providing, call.attempt)
      BY <1>3, <2>1, <3>1, <3>2
    <3>4. call'.attempt - 1 = call.attempt /\ call'.attempt \in 1..Attempts(call'.step)
      BY <1>2, <1>3, <2>3, <3>2
    <3> QED BY <1>1, <1>2, <2>3, <3>3, <3>4 DEF RequestInv, RequestsBounded
  <2> QED BY <1>4, <2>2, <2>3
<1> QED BY <1>6, <1>7, <1>8

-----------------------------------------------------------------------------
LEMMA InitBoundsRequests == Init => RequestInv
<1> SUFFICES ASSUME Init PROVE RequestInv
  OBVIOUS
<1>1. call.phase = "idle" /\ call.asked = 0 /\ call.step = 1
  BY DEF Init, CallsInit, NoCall
<1>2. Attempts(1) \in Nat /\ Providing \in {1, 2}
  BY CallsAssumption DEF CallsAssumption, Attempts, Providing
<1>3. /\ Allowed(Providing, Attempts(1)) \in Nat
      /\ Allowed(Providing, Attempts(1)) = Attempts(1) * Providing * (1 + MaxRetries)
  BY <1>2, Allowances
<1> QED BY <1>1, <1>3 DEF RequestInv, RequestsBounded

LEMMA NextBoundsRequests == RequestInv /\ CallsTypeOK /\ CallsTypeOK' /\ [Next]_vars => RequestInv'
<1> SUFFICES ASSUME RequestInv, CallsTypeOK, CallsTypeOK', [Next]_vars PROVE RequestInv'
  OBVIOUS
<1>1. CASE UNCHANGED callVars
  BY <1>1 DEF callVars, RequestInv, RequestsBounded, Providing, AskedBefore
<1>2. CASE CallStep
  BY <1>2, OtherStepsKeepRequests, RequestsKeepBound DEF CallStep
<1>3. CASE Execute \/ Store \/ Die
  BY <1>3, OtherStepsKeepRequests
<1> QED BY <1>1, <1>2, <1>3 DEF Next, Begin, Ask, End, Tell, Crash, vars

(* Nothing is told while something executes.                               *)
LEMMA CallsKeepNotices ==
    ASSUME NoticeInv, SpendInv, CallsTypeOK', Execute \/ CallStep \/ Die,
           UNCHANGED noticeVars, ~Sending
    PROVE  NoticeInv'
<1>0. Amounts /\ call \in Calls /\ call' \in Calls /\ spent' \in Nat
  BY AmountTypes DEF SpendInv, CallsTypeOK
<1>1. ~Sending' /\ NoticeTypeOK' /\ NoNeedlessRepeat'
  BY DEF Sending, NoticeInv, NoticeTypeOK, NoNeedlessRepeat, noticeVars
<1>2. ToldIsStored' /\ AttemptsCounted'
  BY <1>1 DEF ToldIsStored, AttemptsCounted
<1>3. CodeIsTrue'
  <2>1. CASE Execute \/ Die
    BY <2>1 DEF Execute, Die, NoCall, CodeIsTrue
  <2>2. CASE SkipStep \/ StartStep \/ Refusal \/ Outage \/ RecordStep \/ LoseRecord
    <3>1. UNCHANGED spent
      BY <2>2 DEF SkipStep, StartStep, Refusal, Outage, RecordStep, LoseRecord
    <3>2. call'.code = "budget_exceeded" => call.code = "budget_exceeded"
      BY <1>0, <2>2
         DEF SkipStep, StartStep, Refusal, Outage, RecordStep, LoseRecord, AfterStep, Advanced,
             AfterOutage, Repeated, HandedOver, Failed, NoCall, Calls
    <3> QED BY <3>1, <3>2 DEF NoticeInv, CodeIsTrue
  <2>3. CASE Generate
    <3>1. UNCHANGED spent /\ counter <= spent
      BY <2>3 DEF Generate, SpendInv, AccountsInOrder, Executing
    <3>2. call'.code = "budget_exceeded" => counter > Budget \/ call.code = "budget_exceeded"
      BY <1>0, <2>3 DEF Generate, OverBudget, Failed, Calls
    <3> QED BY <1>0, <3>1, <3>2 DEF NoticeInv, CodeIsTrue, Amounts
  <2>4. CASE \E usage \in Usages, accepted \in BOOLEAN : Reply(usage, accepted)
    <3> PICK usage \in Usages, accepted \in BOOLEAN : Reply(usage, accepted)
      BY <2>4
    <3>1. counter <= spent /\ usage \in Nat /\ spent' = spent + usage
      BY DEF Reply, Usages, SpendInv, AccountsInOrder, Executing
    <3>2. call'.code = "budget_exceeded" =>
            counter + usage > Budget \/ call.code = "budget_exceeded"
      BY <1>0 DEF Reply, OverBudget, Judged, Failed, Calls
    <3> QED BY <1>0, <3>1, <3>2 DEF NoticeInv, CodeIsTrue, Amounts
  <2> QED BY <2>1, <2>2, <2>3, <2>4 DEF CallStep
<1> QED BY <1>1, <1>2, <1>3 DEF NoticeInv

(* What is stored is what goes out.                                        *)
LEMMA EndKeepsNotices ==
    ASSUME NoticeInv, CallsTypeOK, End
    PROVE  NoticeInv'
<1>1. /\ call' = NoCall /\ UNCHANGED spent /\ received' = 0 /\ unanswered' = 0
      /\ run'.status = IF call.code = "none" THEN "completed" ELSE "failed"
  BY DEF End, Store, Notify, CallsTypeOK, RunRows
<1>2. Event \in {"completed", "budget_exceeded", "failed"}
  BY DEF Event
<1>3. notice' \in {NoNotice, [event |-> Event, attempt |-> 1]}
  BY DEF End, Notify
<1>4. /\ notice' \in Notices
      /\ notice'.attempt \in {0, 1}
      /\ NotifyAttempts \in Nat \ {0}
  BY <1>2, <1>3, NotifierAssumption DEF NotifierAssumption, Notices, NotifyKinds, NoNotice
<1>5. NoticeTypeOK' /\ NoNeedlessRepeat'
  BY <1>1, <1>4 DEF NoticeTypeOK, NoNeedlessRepeat
<1>6. AttemptsCounted'
  <2> SUFFICES ASSUME Sending' PROVE /\ notice'.attempt <= NotifyAttempts
                                    /\ unanswered' + 1 = notice'.attempt
                                    /\ received' <= unanswered'
    BY DEF AttemptsCounted
  <2> QED BY <1>1, <1>4 DEF Sending
<1>7. ToldIsStored'
  BY <1>1, <1>3 DEF Event, NoticeInv, CodeIsTrue, ToldIsStored, Sending, NoNotice
<1>8. CodeIsTrue' /\ call'.phase = "idle"
  BY <1>1 DEF CodeIsTrue, NoCall
<1> QED BY <1>5, <1>6, <1>7, <1>8 DEF NoticeInv

(* A delivery ends or leaves one attempt more unanswered.                  *)
LEMMA DeliveryKeepsNotices ==
    ASSUME NoticeInv, Sending, Deliver \/ Lose,
           UNCHANGED <<spent, call>> /\ UNCHANGED run
    PROVE  NoticeInv'
<1>0. /\ received \in Nat /\ unanswered \in Nat /\ notice \in Notices
      /\ NotifyAttempts \in Nat \ {0} /\ notice.attempt \in Nat
  BY NotifierAssumption DEF NotifierAssumption, NoticeInv, NoticeTypeOK, Notices
<1>1. /\ unanswered + 1 = notice.attempt /\ received <= unanswered
      /\ notice.attempt <= NotifyAttempts
  BY DEF NoticeInv, AttemptsCounted
<1>2. CodeIsTrue' /\ call'.phase = "idle"
  BY DEF NoticeInv, CodeIsTrue
<1>3. /\ NoNotice \in Notices /\ NoNotice.attempt = 0
  BY DEF NoNotice, Notices, NotifyKinds
<1>4. CASE notice' = NoNotice /\ received' \in {received, received + 1}
           /\ (unanswered' = unanswered \/ unanswered' = unanswered + 1)
  <2>1. ~Sending'
    BY <1>3, <1>4 DEF Sending
  <2>2. NoticeTypeOK' /\ NoNeedlessRepeat'
    BY <1>0, <1>1, <1>3, <1>4 DEF NoticeTypeOK, NoNeedlessRepeat
  <2> QED BY <1>2, <2>1, <2>2 DEF NoticeInv, ToldIsStored, AttemptsCounted
<1>5. CASE /\ notice' = [notice EXCEPT !.attempt = @ + 1] /\ notice.attempt < NotifyAttempts
           /\ received' \in {received, received + 1} /\ unanswered' = unanswered + 1
  <2>1. /\ notice' \in Notices /\ notice'.attempt = notice.attempt + 1
        /\ notice'.event = notice.event
    BY <1>0, <1>5 DEF Notices
  <2>2. NoticeTypeOK' /\ NoNeedlessRepeat'
    BY <1>0, <1>1, <1>5, <2>1 DEF NoticeTypeOK, NoNeedlessRepeat
  <2>3. /\ notice'.attempt <= NotifyAttempts /\ unanswered' + 1 = notice'.attempt
        /\ received' <= unanswered'
    BY <1>0, <1>1, <1>5, <2>1
  <2>4. AttemptsCounted'
    BY <2>3 DEF AttemptsCounted
  <2>5. ToldIsStored'
    BY <2>1 DEF NoticeInv, ToldIsStored
  <2> QED BY <1>2, <2>2, <2>4, <2>5 DEF NoticeInv
<1>6. CASE Delivered \/ Unwanted \/ Lose
  BY <1>4, <1>6 DEF Delivered, Unwanted, Lose
<1>7. CASE Undelivered
  <2>1. /\ notice' = AfterFailure /\ unanswered' = unanswered + 1
        /\ received' \in {received, received + 1}
    BY <1>7 DEF Undelivered
  <2>2. CASE notice.attempt < NotifyAttempts
    BY <1>5, <2>1, <2>2 DEF AfterFailure
  <2>3. CASE ~(notice.attempt < NotifyAttempts)
    BY <1>4, <2>1, <2>3 DEF AfterFailure
  <2> QED BY <2>2, <2>3
<1> QED BY <1>6, <1>7 DEF Deliver

LEMMA InitHasNoNotice == Init => NoticeInv
<1> SUFFICES ASSUME Init PROVE NoticeInv
  OBVIOUS
<1>1. /\ notice = NoNotice /\ NoNotice.attempt = 0 /\ NoNotice \in Notices
      /\ received = 0 /\ unanswered = 0 /\ call.code = "none"
  BY DEF Init, NoticeInit, CallsInit, NoCall, NoNotice, Notices, NotifyKinds
<1>2. NotifyAttempts \in Nat \ {0}
  BY NotifierAssumption DEF NotifierAssumption
<1>3. ~Sending
  BY <1>1 DEF Sending
<1> QED BY <1>1, <1>2, <1>3
        DEF NoticeInv, NoticeTypeOK, CodeIsTrue, ToldIsStored, AttemptsCounted, NoNeedlessRepeat

LEMMA NextKeepsNotices ==
    NoticeInv /\ SpendInv /\ CallsTypeOK' /\ [Next]_vars => NoticeInv'
<1> SUFFICES ASSUME NoticeInv, SpendInv, CallsTypeOK', [Next]_vars PROVE NoticeInv'
  OBVIOUS
<1>0. CallsTypeOK
  BY DEF SpendInv
<1>1. CASE UNCHANGED vars
  BY <1>1 DEF vars, callVars, noticeVars, NoticeInv, NoticeTypeOK, CodeIsTrue, ToldIsStored,
              AttemptsCounted, NoNeedlessRepeat, Sending
<1>2. CASE Begin
  BY <1>2, CallsKeepNotices DEF Begin
<1>3. CASE Ask
  <2>1. call.phase # "idle"
    BY <1>3 DEF Ask, CallStep, SkipStep, StartStep, Generate, Reply, Refusal, Outage, RecordStep,
                LoseRecord
  <2>2. ~Sending
    BY <2>1 DEF NoticeInv
  <2> QED BY <1>3, <2>2, CallsKeepNotices DEF Ask
<1>4. CASE End
  BY <1>0, <1>4, EndKeepsNotices
<1>5. CASE Tell
  <2>1. Sending
    BY <1>5 DEF Tell, Deliver, Delivered, Unwanted, Undelivered
  <2> QED BY <1>5, <2>1, DeliveryKeepsNotices DEF Tell, callVars
<1>6. CASE Die /\ Lose
  <2>1. ~Sending
    BY <1>6 DEF Die, NoticeInv, ToldIsStored
  <2>2. /\ NoNotice \in Notices /\ NoNotice.attempt = 0 /\ NoCall.code = "none"
    BY DEF NoNotice, Notices, NotifyKinds, NoCall
  <2>3. /\ notice' = NoNotice /\ UNCHANGED <<received, unanswered>> /\ call' = NoCall
    BY <1>6 DEF Die, Lose
  <2>4. ~Sending' /\ CodeIsTrue'
    BY <2>2, <2>3 DEF Sending, CodeIsTrue
  <2>5. NoticeTypeOK' /\ NoNeedlessRepeat'
    BY <2>2, <2>3 DEF NoticeInv, NoticeTypeOK, NoNeedlessRepeat
  <2> QED BY <2>4, <2>5 DEF NoticeInv, ToldIsStored, AttemptsCounted
<1>7. CASE Sending /\ Lose /\ UNCHANGED callVars
  BY <1>7, DeliveryKeepsNotices DEF callVars
<1> QED BY <1>1, <1>2, <1>3, <1>4, <1>5, <1>6, <1>7 DEF Next, Crash

-----------------------------------------------------------------------------
(* The accounts, the requests and the messages, together inductive.        *)
IInv == SpendInv /\ RequestInv /\ NoticeInv

LEMMA ExecutionsAreInOrder == Spec => []IInv
<1>1. Init => IInv
  BY InitKeepsAccounts, InitBoundsRequests, InitHasNoNotice DEF IInv
<1>2. IInv /\ [Next]_vars => IInv'
  <2> SUFFICES ASSUME IInv, [Next]_vars PROVE IInv'
    OBVIOUS
  <2>1. SpendInv' /\ CallsTypeOK /\ CallsTypeOK'
    BY NextKeepsAccounts DEF IInv, SpendInv
  <2> QED BY <2>1, NextBoundsRequests, NextKeepsNotices DEF IInv
<1> QED BY <1>1, <1>2, PTL DEF Spec

(* Every variable keeps its type: no count of attempts, requests or usage  *)
(* leaves its range, whatever the providers, the agents and the webhook    *)
(* answer (generateStructured, requestJson, notify).                       *)
THEOREM TypeCorrect == Spec => []TypeOK
<1>1. IInv => TypeOK
  BY DEF IInv, SpendInv, NoticeInv, TypeOK
<1> QED BY <1>1, ExecutionsAreInOrder, PTL

(* No step asks more often than its attempts, the providers and their      *)
(* retries allow, and the webhook gets a message again only if it left an  *)
(* attempt unanswered, for every number of each (requestJson, the fallback *)
(* provider, generateStructured, notify).                                  *)
THEOREM RetriesAreBounded == Spec => []RetriesBounded
<1>1. IInv => RetriesBounded
  BY DEF IInv, RequestInv, NoticeInv, RetriesBounded
<1> QED BY <1>1, ExecutionsAreInOrder, PTL

(* A message is about the outcome that is stored, and says that the budget *)
(* is exceeded only of a run that has exceeded it (execute, announce).     *)
THEOREM ToldIsTrue == Spec => []ToldIsStored
<1>1. IInv => ToldIsStored
  BY DEF IInv, NoticeInv
<1> QED BY <1>1, ExecutionsAreInOrder, PTL
-----------------------------------------------------------------------------
(* How many steps an execution may still take, with the delivery of its    *)
(* message.  Three loops are nested: the requests of an attempt, the       *)
(* attempts of a step, the steps of the graph.                             *)
AttemptSize == 2 * PerProvider + 1

AttemptsAfter(a) == (MaxAttempts - a) * AttemptSize

StepSize == AttemptsAfter(0) + 2

StepsAfter(s) == (LastStep - s) * StepSize

TriesLeft(c) == (IF c.provider = "primary" THEN PerProvider ELSE 0) + (MaxRetries - c.tries)

LeftOfStep(c) ==
    CASE c.phase = "step"     -> StepSize
      [] c.phase = "generate" -> AttemptsAfter(c.attempt) + AttemptSize + 1
      [] c.phase = "request"  -> AttemptsAfter(c.attempt) + TriesLeft(c) + 2
      [] OTHER                -> 1

CallLeft(c) ==
    IF c.phase = "idle" THEN 0
    ELSE IF c.phase = "ended" THEN 1
    ELSE StepsAfter(c.step) + LeftOfStep(c) + 1

NoticeLeft(n) == IF n.attempt > 0 THEN NotifyAttempts + 1 - n.attempt ELSE 0

ExecutionLeft ==
    CallLeft(call) + (IF Executing THEN NotifyAttempts ELSE 0) + NoticeLeft(notice)

LEMMA Sizes ==
    /\ MaxRetries \in Nat /\ PerProvider = 1 + MaxRetries /\ AttemptSize = 2 * MaxRetries + 3
    /\ MaxAttempts \in Nat \ {0} /\ LastStep \in Nat \ {0} /\ NotifyAttempts \in Nat \ {0}
    /\ AttemptsAfter(0) \in Nat /\ StepSize = AttemptsAfter(0) + 2
    /\ \A a \in 0..MaxAttempts : AttemptsAfter(a) \in Nat
    /\ \A a \in 0..(MaxAttempts - 1) : AttemptsAfter(a) = AttemptsAfter(a + 1) + AttemptSize
    /\ \A s \in CallSteps : StepsAfter(s) \in Nat
    /\ \A s \in CallSteps \ {LastStep} : StepsAfter(s) = StepsAfter(s + 1) + StepSize
<1>1. /\ MaxRetries \in Nat /\ PerProvider = 1 + MaxRetries /\ AttemptSize = 2 * MaxRetries + 3
      /\ MaxAttempts \in Nat \ {0} /\ LastStep \in Nat \ {0} /\ NotifyAttempts \in Nat \ {0}
  BY CallsAssumption, NotifierAssumption DEF CallsAssumption, NotifierAssumption, PerProvider, AttemptSize
<1>2. ASSUME NEW n \in Nat, NEW k \in Nat, NEW q \in Nat, k <= n
      PROVE  (n - k) * q \in Nat
  <2>1. n - k \in Nat
    BY <1>2
  <2> QED BY <2>1
<1>3. ASSUME NEW n \in Nat, NEW k \in Nat, NEW q \in Nat, k + 1 <= n
      PROVE  (n - k) * q = (n - (k + 1)) * q + q
  <2>1. PICK m \in Nat : n = k + 1 + m
    <3>1. n - (k + 1) \in Nat /\ n = k + 1 + (n - (k + 1))
      BY <1>3
    <3> QED BY <3>1
  <2>2. n - k = m + 1 /\ n - (k + 1) = m
    BY <2>1
  <2>3. (m + 1) * q = m * q + q
    OBVIOUS
  <2> QED BY <2>2, <2>3
<1>4. \A a \in 0..MaxAttempts : AttemptsAfter(a) \in Nat
  BY <1>1, <1>2 DEF AttemptsAfter
<1>5. \A a \in 0..(MaxAttempts - 1) : AttemptsAfter(a) = AttemptsAfter(a + 1) + AttemptSize
  <2> SUFFICES ASSUME NEW a \in 0..(MaxAttempts - 1)
               PROVE  AttemptsAfter(a) = AttemptsAfter(a + 1) + AttemptSize
    OBVIOUS
  <2>1. a \in Nat /\ a + 1 <= MaxAttempts /\ AttemptSize \in Nat
    BY <1>1
  <2> QED BY <1>1, <1>3, <2>1 DEF AttemptsAfter
<1>6. AttemptsAfter(0) \in Nat /\ StepSize = AttemptsAfter(0) + 2 /\ StepSize \in Nat
  <2>1. 0 \in 0..MaxAttempts
    BY <1>1
  <2> QED BY <1>4, <2>1 DEF StepSize
<1>7. \A s \in CallSteps : StepsAfter(s) \in Nat
  BY <1>1, <1>2, <1>6 DEF StepsAfter, CallSteps
<1>8. \A s \in CallSteps \ {LastStep} : StepsAfter(s) = StepsAfter(s + 1) + StepSize
  <2> SUFFICES ASSUME NEW s \in CallSteps \ {LastStep}
               PROVE  StepsAfter(s) = StepsAfter(s + 1) + StepSize
    OBVIOUS
  <2>1. s \in Nat /\ s + 1 <= LastStep
    BY <1>1 DEF CallSteps
  <2> QED BY <1>1, <1>3, <1>6, <2>1 DEF StepsAfter
<1> QED BY <1>1, <1>4, <1>5, <1>6, <1>7, <1>8

(* An attempt under way is one of those the agent may make, and a retry of *)
(* it one of those the provider may get.                                   *)
InBounds(c) ==
    /\ c \in Calls
    /\ c.phase \in {"generate", "request"} => c.attempt \in 1..MaxAttempts
    /\ c.phase = "request" => c.tries <= MaxRetries

LEMMA CallsInBounds == Spec => []InBounds(call)
<1> SUFFICES IInv => InBounds(call)
  BY ExecutionsAreInOrder, PTL
<1> SUFFICES ASSUME SpendInv, RequestInv PROVE InBounds(call)
  BY DEF IInv
<1>1. call \in Calls
  BY DEF SpendInv, CallsTypeOK
<1>2. Attempts(call.step) \in 1..MaxAttempts
  BY Sizes DEF Attempts
<1> QED BY <1>1, <1>2, Sizes DEF InBounds, RequestInv

LEMMA CallLeftType ==
    ASSUME NEW c, InBounds(c)
    PROVE  /\ CallLeft(c) \in Nat
           /\ CallLeft(c) = 0 <=> c.phase = "idle"
           /\ c.phase \notin {"idle", "ended"} => CallLeft(c) > StepsAfter(c.step) + 1
<1>1. /\ c.phase \in Phases /\ c.step \in CallSteps /\ c.attempt \in Nat /\ c.tries \in Nat
      /\ c.phase \in {"generate", "request"} => c.attempt \in 0..MaxAttempts
  BY Sizes DEF InBounds, Calls
<1>2. c.phase \in {"generate", "request"} => AttemptsAfter(c.attempt) \in Nat
  BY <1>1, Sizes
<1>3. c.phase = "request" => TriesLeft(c) \in Nat
  BY <1>1, Sizes DEF InBounds, TriesLeft
<1>4. c.phase \notin {"idle", "ended"} => LeftOfStep(c) \in Nat \ {0}
  BY <1>1, <1>2, <1>3, Sizes DEF LeftOfStep, Phases
<1>5. StepsAfter(c.step) \in Nat
  BY <1>1, Sizes
<1> QED BY <1>4, <1>5 DEF CallLeft

(* Each of the three loops goes on.                                        *)
LEMMA AskGoesOn ==
    ASSUME InBounds(call), InBounds(call'), CallStep
    PROVE  CallLeft(call') < CallLeft(call) /\ call.phase # "idle" /\ call'.phase # "idle"
<1> DEFINE Goal == CallLeft(call') < CallLeft(call) /\ call.phase # "idle" /\ call'.phase # "idle"
<1> SUFFICES Goal
  OBVIOUS
<1>0. /\ call \in Calls /\ call.step \in CallSteps /\ call.attempt \in Nat /\ call.tries \in Nat
      /\ CallLeft(call) \in Nat /\ CallLeft(call') \in Nat /\ StepsAfter(call.step) \in Nat
      /\ call.phase \notin {"idle", "ended"} => CallLeft(call) > StepsAfter(call.step) + 1
  BY CallLeftType, Sizes DEF InBounds, Calls
<1>1. ASSUME call.phase \notin {"idle", "ended"}, call' = Advanced
      PROVE  Goal
  <2>1. CASE call.step = LastStep
    <3>1. call'.phase = "ended"
      BY <1>0, <1>1, <2>1 DEF Advanced, Calls
    <3> QED BY <1>0, <1>1, <3>1 DEF CallLeft
  <2>2. CASE call.step # LastStep
    <3>1. call'.phase = "step" /\ call'.step = call.step + 1
      BY <1>1, <2>2 DEF Advanced, NoCall
    <3>2. StepsAfter(call.step) = StepsAfter(call.step + 1) + StepSize
          /\ StepsAfter(call.step + 1) \in Nat /\ StepSize \in Nat
      <4>1. call.step + 1 \in CallSteps
        BY <1>0, <2>2, Sizes DEF CallSteps
      <4> QED BY <1>0, <2>2, <4>1, Sizes
    <3>3. CallLeft(call') = StepsAfter(call.step) + 1
      BY <3>1, <3>2 DEF CallLeft, LeftOfStep
    <3> QED BY <1>0, <1>1, <3>1, <3>3
  <2> QED BY <2>1, <2>2
<1>2. ASSUME call.phase \in {"step", "generate", "request"}, call'.step = call.step,
             call'.phase \in {"generate", "request", "succeeded", "failed"},
             LeftOfStep(call') < LeftOfStep(call), LeftOfStep(call') \in Nat, LeftOfStep(call) \in Nat
      PROVE  Goal
  BY <1>0, <1>2 DEF CallLeft
<1>3. ASSUME call.phase \in {"generate", "request"}, call'.step = call.step,
             call'.phase \in {"succeeded", "failed"}
      PROVE  Goal
  <2>1. AttemptsAfter(call.attempt) \in Nat
    <3>1. call.attempt \in 0..MaxAttempts
      BY <1>0, <1>3, Sizes DEF InBounds
    <3> QED BY <3>1, Sizes
  <2>2. call.phase = "request" => TriesLeft(call) \in Nat
    BY <1>0, Sizes DEF InBounds, TriesLeft
  <2>3. LeftOfStep(call') = 1 /\ LeftOfStep(call) \in Nat /\ LeftOfStep(call) > 1
    BY <1>3, <2>1, <2>2, Sizes DEF LeftOfStep
  <2> QED BY <1>2, <1>3, <2>3
<1> HIDE DEF Goal
<1>4. CASE SkipStep
  BY <1>1, <1>4 DEF SkipStep
<1>5. CASE StartStep
  <2>1. call.phase = "step" /\ call'.phase = "generate" /\ call'.attempt = 1 /\ call'.step = call.step
    BY <1>0, <1>5 DEF StartStep, Calls
  <2>2. AttemptsAfter(0) = AttemptsAfter(1) + AttemptSize /\ AttemptsAfter(1) \in Nat
    <3>1. 0 \in 0..(MaxAttempts - 1) /\ 1 \in 0..MaxAttempts
      BY Sizes
    <3>2. AttemptsAfter(0) = AttemptsAfter(0 + 1) + AttemptSize
      BY <3>1, Sizes
    <3> QED BY <3>1, <3>2, Sizes
  <2>3. LeftOfStep(call) = AttemptsAfter(0) + 2 /\ LeftOfStep(call') = AttemptsAfter(1) + AttemptSize + 1
    BY <2>1, Sizes DEF LeftOfStep
  <2> QED BY <1>2, <2>1, <2>2, <2>3, Sizes
<1>6. CASE Generate
  <2>1. CASE OverBudget(counter)
    BY <1>0, <1>3, <1>6, <2>1 DEF Generate, Failed, Calls
  <2>2. CASE ~OverBudget(counter)
    <3>1. /\ call.phase = "generate" /\ call'.phase = "request" /\ call'.step = call.step
          /\ call'.attempt = call.attempt /\ call'.provider = "primary" /\ call'.tries = 0
      BY <1>0, <1>6, <2>2 DEF Generate, Calls
    <3>2. AttemptsAfter(call.attempt) \in Nat
      <4>1. call.attempt \in 0..MaxAttempts
        BY <1>0, <3>1, Sizes DEF InBounds
      <4> QED BY <4>1, Sizes
    <3>3. /\ LeftOfStep(call) = AttemptsAfter(call.attempt) + AttemptSize + 1
          /\ LeftOfStep(call') = AttemptsAfter(call.attempt) + (PerProvider + MaxRetries) + 2
      BY <3>1, Sizes DEF LeftOfStep, TriesLeft
    <3> QED BY <1>2, <3>1, <3>2, <3>3, Sizes
  <2> QED BY <2>1, <2>2
<1>7. CASE \E usage \in Usages, accepted \in BOOLEAN : Reply(usage, accepted)
  <2>1. \/ /\ call.phase = "request" /\ call'.phase \in {"succeeded", "failed"}
           /\ call'.step = call.step
        \/ /\ call.phase = "request" /\ call'.phase = "generate" /\ call'.step = call.step
           /\ call'.attempt = call.attempt + 1
    BY <1>0, <1>7 DEF Reply, Judged, Failed, Calls
  <2>2. CASE /\ call.phase = "request" /\ call'.phase = "generate" /\ call'.step = call.step
             /\ call'.attempt = call.attempt + 1
    <3>1. call.attempt \in 0..(MaxAttempts - 1) /\ call.attempt + 1 \in 0..MaxAttempts
      BY <1>0, <2>2, Sizes DEF InBounds
    <3>2. AttemptsAfter(call.attempt) = AttemptsAfter(call.attempt + 1) + AttemptSize
          /\ AttemptsAfter(call.attempt + 1) \in Nat
      BY <3>1, Sizes
    <3>3. TriesLeft(call) \in Nat
      BY <1>0, <2>2, Sizes DEF InBounds, TriesLeft
    <3>4. /\ LeftOfStep(call) = AttemptsAfter(call.attempt) + TriesLeft(call) + 2
          /\ LeftOfStep(call') = AttemptsAfter(call.attempt + 1) + AttemptSize + 1
      BY <2>2 DEF LeftOfStep
    <3> QED BY <1>2, <2>2, <3>2, <3>3, <3>4, Sizes
  <2> QED BY <1>3, <2>1, <2>2
<1>8. CASE Refusal
  BY <1>0, <1>3, <1>8 DEF Refusal, Failed, Calls
<1>9. CASE Outage
  <2>0. call.phase = "request" /\ call.tries <= MaxRetries /\ call.provider \in Providers
    BY <1>0, <1>9 DEF Outage, InBounds, Calls
  <2>1. AttemptsAfter(call.attempt) \in Nat
    <3>1. call.attempt \in 0..MaxAttempts
      BY <1>0, <2>0, Sizes DEF InBounds
    <3> QED BY <3>1, Sizes
  <2>2. CASE call'.phase = "failed" /\ call'.step = call.step
    BY <1>3, <2>0, <2>2
  <2>3. CASE /\ call'.phase = "request" /\ call'.step = call.step /\ call'.attempt = call.attempt
             /\ \/ call'.tries = call.tries + 1 /\ call'.provider = call.provider
                   /\ call.tries < MaxRetries
                \/ call'.tries = 0 /\ call'.provider = "fallback" /\ call.provider = "primary"
    <3>1. TriesLeft(call') < TriesLeft(call) /\ TriesLeft(call') \in Nat /\ TriesLeft(call) \in Nat
      BY <1>0, <2>0, <2>3, Sizes DEF TriesLeft
    <3>2. /\ LeftOfStep(call) = AttemptsAfter(call.attempt) + TriesLeft(call) + 2
          /\ LeftOfStep(call') = AttemptsAfter(call.attempt) + TriesLeft(call') + 2
      BY <2>0, <2>3 DEF LeftOfStep
    <3> QED BY <1>2, <2>0, <2>1, <2>3, <3>1, <3>2
  <2> QED BY <1>0, <1>9, <2>2, <2>3
          DEF Outage, AfterOutage, Repeated, HandedOver, MayHandOver, Failed, Calls
<1>10. CASE RecordStep \/ LoseRecord
  <2>1. CASE call.phase = "succeeded"
    BY <1>1, <1>10, <2>1 DEF RecordStep, LoseRecord, AfterStep
  <2>2. CASE call.phase = "failed"
    <3>1. call'.phase = "ended"
      BY <1>0, <1>10, <2>2 DEF RecordStep, LoseRecord, AfterStep, Calls
    <3> QED BY <1>0, <2>2, <3>1 DEF Goal, CallLeft
  <2> QED BY <1>10, <2>1, <2>2 DEF RecordStep, LoseRecord
<1> QED BY <1>4, <1>5, <1>6, <1>7, <1>8, <1>9, <1>10 DEF CallStep

(* A run that reads running is being executed, and no other.               *)
StatusInv == run.status = "running" <=> Executing

LEMMA StatusIsTrue == Spec => []StatusInv
<1>1. Init => StatusInv
  BY DEF Init, CallsInit, NoCall, StatusInv, Executing
<1>2. IInv /\ InBounds(call) /\ InBounds(call)' /\ StatusInv /\ [Next]_vars => StatusInv'
  <2> SUFFICES ASSUME IInv, InBounds(call), InBounds(call'), StatusInv, [Next]_vars
               PROVE  StatusInv'
    OBVIOUS
  <2>1. run \in RunRows
    BY DEF IInv, SpendInv, CallsTypeOK
  <2>2. CASE CallStep
    <3>1. call.phase # "idle" /\ call'.phase # "idle"
      BY <2>2, AskGoesOn
    <3>2. run'.status = run.status
      BY <2>1, <2>2 DEF CallStep, SkipStep, StartStep, Generate, Reply, Refusal, Outage,
                        RecordStep, LoseRecord, RunRows
    <3> QED BY <3>1, <3>2 DEF StatusInv, Executing
  <2>3. CASE Execute \/ Store \/ Die
    BY <2>1, <2>3 DEF Execute, Store, Die, NoCall, RunRows, StatusInv, Executing
  <2>4. CASE UNCHANGED callVars
    BY <2>4 DEF callVars, StatusInv, Executing
  <2> QED BY <2>2, <2>3, <2>4 DEF Next, Begin, Ask, End, Tell, Crash, vars
<1> QED BY <1>1, <1>2, ExecutionsAreInOrder, CallsInBounds, PTL DEF Spec

(* What the process does of its own accord brings it nearer to the end,    *)
(* whatever the providers, the agents and the webhook answer.              *)
ExecutionShrinks == Ask \/ End \/ Tell => ExecutionLeft' < ExecutionLeft

(* An execution and the delivery of its message end: every step makes a    *)
(* natural number smaller that is 0 when no run reads running and nothing  *)
(* is being told, for every number of steps, attempts, retries and tries   *)
(* of the message (execute, generateStructured, requestJson, notify).      *)
THEOREM ExecutionIsBounded ==
    Spec => /\ [][ExecutionShrinks]_vars
            /\ []( /\ ExecutionLeft \in Nat
                   /\ ExecutionLeft = 0 <=> run.status # "running" /\ ~Sending)
<1>0. NotifyAttempts \in Nat \ {0}
  BY Sizes
<1>1. IInv /\ InBounds(call) /\ StatusInv =>
        /\ ExecutionLeft \in Nat
        /\ ExecutionLeft = 0 <=> run.status # "running" /\ ~Sending
  <2> SUFFICES ASSUME IInv, InBounds(call), StatusInv
               PROVE  /\ ExecutionLeft \in Nat
                      /\ ExecutionLeft = 0 <=> run.status # "running" /\ ~Sending
    OBVIOUS
  <2>1. CallLeft(call) \in Nat /\ (CallLeft(call) = 0 <=> call.phase = "idle")
    BY CallLeftType
  <2>2. NoticeLeft(notice) \in Nat /\ (NoticeLeft(notice) = 0 <=> ~Sending)
    BY <1>0 DEF IInv, NoticeInv, NoticeTypeOK, Notices, AttemptsCounted, Sending, NoticeLeft
  <2> QED BY <1>0, <2>1, <2>2 DEF ExecutionLeft, StatusInv, Executing
<1>2. IInv /\ IInv' /\ InBounds(call) /\ InBounds(call)' /\ [Next]_vars => [ExecutionShrinks]_vars
  <2> SUFFICES ASSUME IInv, IInv', InBounds(call), InBounds(call'), Ask \/ End \/ Tell
               PROVE  ExecutionLeft' < ExecutionLeft
    BY DEF ExecutionShrinks
  <2>1. CallLeft(call) \in Nat /\ CallLeft(call') \in Nat
    BY CallLeftType
  <2>2. notice \in Notices /\ notice' \in Notices
    BY DEF IInv, NoticeInv, NoticeTypeOK
  <2>3. CASE Ask
    <3>1. CallLeft(call') < CallLeft(call) /\ call.phase # "idle" /\ call'.phase # "idle"
      BY <2>3, AskGoesOn DEF Ask
    <3>2. notice' = notice /\ notice.attempt = 0
      BY <2>2, <2>3, <3>1 DEF Ask, noticeVars, IInv, NoticeInv, Sending, Notices
    <3> QED BY <1>0, <2>1, <3>1, <3>2 DEF ExecutionLeft, Executing, NoticeLeft
  <2>4. CASE End
    <3>1. call.phase = "ended" /\ call'.phase = "idle"
      BY <2>4 DEF End, Store, NoCall
    <3>2. notice.attempt = 0 /\ notice'.attempt \in {0, 1}
      BY <2>2, <2>4, <3>1 DEF End, Notify, NoNotice, IInv, NoticeInv, Sending, Notices
    <3> QED BY <1>0, <3>1, <3>2 DEF ExecutionLeft, Executing, NoticeLeft, CallLeft
  <2>5. CASE Tell
    <3>1. call' = call /\ call.phase = "idle" /\ notice.attempt \in 1..NotifyAttempts
      BY <1>0, <2>2, <2>5 DEF Tell, callVars, Deliver, Delivered, Unwanted, Undelivered, Sending,
                              IInv, NoticeInv, AttemptsCounted, Notices
    <3>2. \/ notice'.attempt = 0
          \/ notice'.attempt = notice.attempt + 1 /\ notice.attempt < NotifyAttempts
      BY <2>2, <2>5 DEF Tell, Deliver, Delivered, Unwanted, Undelivered, AfterFailure, NoNotice,
                        Notices
    <3> QED BY <1>0, <3>1, <3>2 DEF ExecutionLeft, Executing, NoticeLeft, CallLeft
  <2> QED BY <2>3, <2>4, <2>5
<1> QED BY <1>1, <1>2, ExecutionsAreInOrder, CallsInBounds, StatusIsTrue, PTL DEF Spec
=============================================================================
