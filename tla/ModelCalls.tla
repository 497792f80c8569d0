----------------------------- MODULE ModelCalls -----------------------------
(***************************************************************************)
(* How the steps of a run ask the language models, and what that costs:    *)
(* the agents' structured output with its re-prompts (packages/agents),    *)
(* the usage counter and the budget of the run (packages/graph, usage.ts,  *)
(* and the step wrapper that records what each execution of a step has     *)
(* used), and the two providers with their retries and the fallback from   *)
(* one to the other (packages/providers).                                  *)
(*                                                                         *)
(* The graph is a line of steps here: what the steps do with the replies   *)
(* is ArticleRun.  A reply is what it reports to have used, in one unit    *)
(* for tokens or cost, and whether the agent accepts it.  One execution    *)
(* does one thing at a time, and it can die at any point.                  *)
(***************************************************************************)
EXTENDS Integers, FiniteSets

CONSTANTS
    LastStep,       \* the steps of the graph that ask a model: 1..LastStep
    Structured,     \* those whose reply is parsed and validated
    MaxAttempts,    \* replies an agent asks for before it gives up
    MaxRetries,     \* retries of a request, for each provider
    Budget,         \* what the run may use
    Dearest,        \* the most a single reply reports
    MaxExecutions,  \* bound: executions of the run (one run, then resumes)
    MaxMishaps      \* bound: deaths of the process and lost records

CallSteps == 1..LastStep

ASSUME CallsAssumption ==
    /\ LastStep \in Nat \ {0}
    /\ Structured \subseteq CallSteps
    /\ MaxAttempts \in Nat \ {0}
    /\ {MaxRetries, Budget, Dearest, MaxExecutions, MaxMishaps} \subseteq Nat

VARIABLES
    fallback,    \* whether both providers are configured
    run,         \* the row of the run: status, recorded successes, recorded usage
    counter,     \* currentUsage() of the executing process
    call,        \* where the execution is
    spent,       \* what the replies of all executions have reported
    mishaps,     \* how many records of usage were lost
    executions   \* how many times the run was executed

callVars == <<fallback, run, counter, call, spent, mishaps, executions>>

Providers == {"primary", "fallback"}

(* Between two steps; before a generation; a request is out; the step is   *)
(* over and not recorded yet; the graph has ended or thrown.               *)
Phases == {"idle", "step", "generate", "request", "succeeded", "failed", "ended"}

Codes == {"none", "budget_exceeded", "provider", "invalid_output"}

Calls == [phase : Phases, step : CallSteps, before : Nat, attempt : Nat,
          provider : Providers, tries : Nat, asked : Nat, code : Codes]

NoCall == [phase |-> "idle", step |-> 1, before |-> 0, attempt |-> 0,
           provider |-> "primary", tries |-> 0, asked |-> 0, code |-> "none"]

RunRows == [status : {"pending", "running", "failed", "interrupted", "completed"},
            done : SUBSET CallSteps, usage : Nat]

CallsTypeOK ==
    /\ fallback \in BOOLEAN
    /\ run \in RunRows
    /\ counter \in Nat
    /\ call \in Calls
    /\ spent \in Nat
    /\ mishaps \in 0..MaxMishaps
    /\ executions \in 0..MaxExecutions

CallsInit ==
    /\ fallback \in BOOLEAN
    /\ run = [status |-> "pending", done |-> {}, usage |-> 0]
    /\ counter = 0
    /\ call = NoCall
    /\ spent = 0
    /\ mishaps = 0
    /\ executions = 0

-----------------------------------------------------------------------------
(* Slip: an execution starts counting from nothing.                        *)
PriorUsageForgotten == 0

(* What the recorded executions of the steps have used.                    *)
PriorUsage == run.usage

(* A new run, or one that has failed or was interrupted.                   *)
Execute ==
    /\ call.phase = "idle"
    /\ run.status \in {"pending", "failed", "interrupted"}
    /\ executions < MaxExecutions
    /\ executions' = executions + 1
    /\ run' = [run EXCEPT !.status = "running"]
    /\ counter' = PriorUsage
    /\ call' = [NoCall EXCEPT !.phase = "step"]
    /\ UNCHANGED <<fallback, spent, mishaps>>

(* The step after this one, or the end of the graph.                       *)
Advanced ==
    IF call.step = LastStep
    THEN [call EXCEPT !.phase = "ended"]
    ELSE [NoCall EXCEPT !.phase = "step", !.step = call.step + 1]

SkipStep ==
    /\ call.phase = "step"
    /\ call.step \in run.done
    /\ call' = Advanced
    /\ UNCHANGED <<fallback, run, counter, spent, mishaps, executions>>

StartStep ==
    /\ call.phase = "step"
    /\ call.step \notin run.done
    /\ call' = [call EXCEPT !.phase = "generate", !.before = counter, !.attempt = 1]
    /\ UNCHANGED <<fallback, run, counter, spent, mishaps, executions>>

Failed(code) == [call EXCEPT !.phase = "failed", !.code = code]

OverBudget(usage) == usage > Budget

(* trackUsage looks at the budget before it asks; every generation begins  *)
(* with the preferred provider.                                            *)
Generate ==
    /\ call.phase = "generate"
    /\ call' = IF OverBudget(counter)
               THEN Failed("budget_exceeded")
               ELSE [call EXCEPT !.phase = "request", !.provider = "primary",
                                 !.tries = 0, !.asked = @ + 1]
    /\ UNCHANGED <<fallback, run, counter, spent, mishaps, executions>>

Attempts(s) == IF s \in Structured THEN MaxAttempts ELSE 1

(* The agent takes the reply, tells the model what is wrong with it, or    *)
(* gives up.  A reply that is not parsed is taken.                         *)
Judged(accepted) ==
    IF accepted \/ call.step \notin Structured THEN [call EXCEPT !.phase = "succeeded"]
    ELSE IF call.attempt < Attempts(call.step)
    THEN [call EXCEPT !.phase = "generate", !.attempt = @ + 1]
    ELSE Failed("invalid_output")

(* What a reply reports; without a report it counts as nothing.            *)
Usages == 0..Dearest

(* A reply is counted, held against the budget, and only then looked at.   *)
Reply(usage, accepted) ==
    /\ call.phase = "request"
    /\ counter' = counter + usage
    /\ spent' = spent + usage
    /\ call' = IF OverBudget(counter + usage)
               THEN Failed("budget_exceeded")
               ELSE Judged(accepted)
    /\ UNCHANGED <<fallback, run, mishaps, executions>>

(* Unauthorized, a bad request, malformed JSON, an empty text: neither     *)
(* repeated nor handed to the other provider.                              *)
Refusal ==
    /\ call.phase = "request"
    /\ call' = Failed("provider")
    /\ UNCHANGED <<fallback, run, counter, spent, mishaps, executions>>

Repeated == [call EXCEPT !.tries = @ + 1, !.asked = @ + 1]

(* The other provider is asked, with retries of its own.                   *)
HandedOver == [call EXCEPT !.provider = "fallback", !.tries = 0, !.asked = @ + 1]

MayHandOver == fallback /\ call.provider = "primary"

(* Slip: the other provider is asked without end.                          *)
AfterOutageUncounted ==
    IF call.tries < MaxRetries \/ call.provider = "fallback" THEN Repeated
    ELSE IF MayHandOver THEN HandedOver
    ELSE Failed("provider")

AfterOutage ==
    IF call.tries < MaxRetries THEN Repeated
    ELSE IF MayHandOver THEN HandedOver
    ELSE Failed("provider")

(* A timeout, the network, 429, 408 or 5xx.                                *)
Outage ==
    /\ call.phase = "request"
    /\ call' = AfterOutage
    /\ UNCHANGED <<fallback, run, counter, spent, mishaps, executions>>

(* Slips: a failed step records no usage; the usage of the whole execution *)
(* is recorded at every step.                                              *)
UsedBySuccess == IF call.phase = "succeeded" THEN counter - call.before ELSE 0
UsedSinceStart == counter

(* What this execution of the step has used.                               *)
UsedByStep == counter - call.before

(* Slip: a step that has failed is tried once more.                        *)
AfterStepRepeated ==
    IF call.phase = "succeeded" THEN Advanced
    ELSE [NoCall EXCEPT !.phase = "step", !.step = call.step]

(* A failed step throws: the graph ends with its code.                     *)
AfterStep == IF call.phase = "succeeded" THEN Advanced ELSE [call EXCEPT !.phase = "ended"]

RecordStep ==
    /\ call.phase \in {"succeeded", "failed"}
    /\ run' = [run EXCEPT
                 !.usage = @ + UsedByStep,
                 !.done = IF call.phase = "succeeded" THEN @ \cup {call.step} ELSE @]
    /\ call' = AfterStep
    /\ UNCHANGED <<fallback, counter, spent, mishaps, executions>>

(* "losing one must not fail the run": a record that cannot be written is  *)
(* only logged.                                                            *)
LoseRecord ==
    /\ call.phase \in {"succeeded", "failed"}
    /\ mishaps < MaxMishaps
    /\ mishaps' = mishaps + 1
    /\ call' = AfterStep
    /\ UNCHANGED <<fallback, run, counter, spent, executions>>

(* The outcome is stored: finishWorkflow, or failWorkflow with the code of *)
(* the step.                                                               *)
Store ==
    /\ call.phase = "ended"
    /\ run' = [run EXCEPT !.status = IF call.code = "none" THEN "completed" ELSE "failed"]
    /\ call' = NoCall
    /\ UNCHANGED <<fallback, counter, spent, mishaps, executions>>

(* The process dies; a later one finds the run stale and interrupts it.    *)
Die ==
    /\ run.status = "running"
    /\ mishaps < MaxMishaps
    /\ mishaps' = mishaps + 1
    /\ run' = [run EXCEPT !.status = "interrupted"]
    /\ counter' = 0
    /\ call' = NoCall
    /\ UNCHANGED <<fallback, spent, executions>>

CallStep ==
    \/ SkipStep \/ StartStep \/ Generate
    \/ \E usage \in Usages, accepted \in BOOLEAN : Reply(usage, accepted)
    \/ Refusal \/ Outage
    \/ RecordStep \/ LoseRecord

-----------------------------------------------------------------------------
(* Over all its executions a run uses at most one reply more than its      *)
(* budget, as long as no record of a step is lost; a lost record, or a     *)
(* process that dies, lets it use the same once more (trackUsage, step,    *)
(* resume; "the budget covers the whole run").                             *)
SpendBounded == spent <= (1 + mishaps) * (Budget + Dearest)

(* What the records of the steps add up to is what the replies reported,   *)
(* those of failed and repeated steps included (usageSince, recordStep).   *)
RecordedIsSpent ==
    mishaps = 0 /\ call.phase \in {"idle", "step", "ended"} => run.usage = spent

(* A step asks a bounded number of times, whatever the providers and the   *)
(* agent make of it (requestJson, the fallback, generateStructured).       *)
Providing == IF fallback THEN 2 ELSE 1

RequestsBounded ==
    call.asked <= Attempts(call.step) * Providing * (1 + MaxRetries)

(* A run that is over its budget is over: no execution of it asks a model  *)
(* again (enforce before the call, the prior usage of resume).             *)
OverBudgetAsksNoMore ==
    [][mishaps = 0 /\ spent > Budget => call'.phase # "request"]_callVars
=============================================================================
