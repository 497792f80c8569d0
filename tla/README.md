# OpenBlogAgent in TLA+

A model of the program in `src/`: what a run of the article workflow may go
through and spend, how the server queues runs and lets requests act on them, how
an article reaches its target, how topics are collected and scheduled, and what
the program promises about the outcome. The modules are checked with TLC on
small instances; the results that matter most are proved with TLAPS for every
value of the constants.

## 1. The system and its parts

OpenBlogAgent writes blog articles. A *run* takes a brief through a graph of
agents (plan, write, edit, SEO, duplicate check, quality gate, editorial review,
classification, publisher), stores each step, and hands the result to a
publishing target as a draft or live, depending on a publication policy. A
reviewer approves, rejects or sends back what is not yet live.

| Component | Source | State | Operations | What is hard |
|---|---|---|---|---|
| Article workflow | `packages/graph/src/workflows` | the graph state of an execution | begin, executeBegun, resume, revise, reject, approve, the graph nodes | resumes from partial records, regeneration loop, ambiguous publishes, several versions of a text |
| Run store | `packages/storage/src/repositories`, `memory` | rows of runs, agent steps, articles, topics, prompts | markRunning, recordStep, finishWorkflow, failWorkflow, markApproved, recordApprovalPublish, markRejected, recoverStale | rows written by different processes, records that are lost |
| Run queue | `apps/server/src/run-queue.ts` | counters, waiting line, promises | reserve, run, release, start, execute, close | places promised before they are used, draining |
| Run routes | `apps/server/src/routes/runs.ts` | the set of runs in flight | POST runs, resume, revise, approve, reject | requests that meet while a run waits or executes |
| Publishing targets | `packages/publishers` | posts at WordPress, Ghost or in files | look up, publish | lost and late answers, existing slugs, live posts, edits by people |
| Taxonomy | `packages/publishers` | cache of categories and tags | resolve, create, expire | cache of what others change |
| Topic backlog | `packages/storage/src/backlog` | candidates, their scores and decisions | upsert, setEnrichment, accept, drop, markUsed | reads and writes of several processes |
| Scheduler | `packages/app/src/scheduler.ts` | lock row, the runs of the last 24 hours | runOnce | expired locks, crash between two writes, a backlog that blocks itself |
| Language model access | `packages/providers`, `packages/graph/src/usage.ts` | usage of a run | generate, retry, fall back, repeat, enforce | nested retries, what a crash or a lost record hides from the budget |
| Agents and quality gate | `packages/agents` | none | prompts, text analysis | |
| Notifier | `packages/notify` | none | announce, notify | attempts that are not answered |
| Research | `packages/research`, `packages/app/src/research.ts` | the round of a collection | fetch, read, merge, score, propose | redirects, hung servers, entries that several sources offer, costs |
| Database | `packages/storage/src/database` | schema version | migrate | partial migrations |
| Command line, wiring, configuration, logging | `apps/cli`, `packages/app`, `packages/config`, `packages/logger`, `packages/types`, `packages/shared` | none | | a second process beside the server |

**Interactions.** The routes reserve a place in the queue, register the run with
`begin`, and hand the queue a job that calls `executeBegun` (or `resume`, or the
second half of `revise`). The workflow talks to the store, in synchronous
transactions of one SQLite database, to the agents (which call a language model)
and to the publisher. `approve` and `reject` act on the stored rows from the
request itself, without the queue. The scheduler and the command line call the
same workflow from processes of their own. Nothing is shared but the database and
the target.

**What makes it correct.** No text is sent that the gate and the review did not
let pass; nothing is live without a decision; a run that says `published` is what
readers see; retries do not add posts; the status of a run moves in one order and
decisions are final; one execution of a run at a time; the queue loses neither
places nor workers, keeps order and its limits, and drains; a run in flight comes
out of it; an execution ends; a run spends its budget and one reply more at most;
what is told about a run is what is stored; a publish neither adds a second post nor
takes a live one away nor undoes an edit it has not seen; a collection loses no
group of entries, stores no article twice and ends; one scheduled run at most is executed for
a candidate, whatever calls overlap, and the backlog does not stand still.
`PROJECT.json` lists the hazards one by one, each at its line, with the properties
that would catch it.

## 2. The modules and the code

| Module | What it is | Extends or instantiates |
|---|---|---|
| `RunStore` | the rows of a run and what the store operations make of them | |
| `RunLifecycle` | abstract: the order of the statuses that `models.ts` promises | |
| `ArticleRun` | one run under one process: graph, records, resume, revise, approve, target | `RunStore`; `RunLifecycle` as refinement |
| `RunQueue` | the queue of the server | |
| `RunRoutes` | the requests that act on one run while the queue executes it | `RunStore`; `RunLifecycle` as refinement |
| `TopicBacklog` | the rows of the backlog and what its operations make of them | |
| `Scheduler` | calls of `schedule run-once` and people at the backlog, each a process of its own | `TopicBacklog` |
| `ModelCalls` | the calls of the steps of a run: retries, fallback, repeats, usage, budget | |
| `Notifier` | the delivery of one message to the webhook | |
| `RunExecution` | the executions of one run: calls, outcome, message | `ModelCalls`, `Notifier` |
| `TermResolution` | the terms of a publish, looked up, created and cached | |
| `Publishing` | publishes of one slug, request by request, at each target | `TermResolution` |
| `ContentFetch` | fetches side by side, with redirects, body and deadline | |
| `SourceReading` | feeds and nested sitemaps read through fetches | `ContentFetch` |
| `CandidateMerge` | the merge of entries as an operator, and its reference | |
| `Research` | a collection, its round of proposals, and people at the backlog | `SourceReading`, `CandidateMerge`, `TopicBacklog` |
| `MCArticleRun`, `MCRunRoutes`, `MCScheduler` | the instances TLC looks at | the module they are named after |
| `ArticleRunProofs`, `RunQueueProofs`, `RunRoutesProofs`, `SchedulerProofs`, `RunExecutionProofs`, `PublishingProofs`, `ResearchProofs` | theorems and proofs | the module they are named after |
| `ArticleTextProofs` | the theorems about the texts of a run | `ArticleRunProofs` |

**How code becomes actions.** Every handler, graph node or database operation is
one action: its guards are the conditions and early returns of the code, in that
order, its primed variables the writes. What is one action and what is two
depends on what the code lets in between:

- *In one process*, a handler of the server runs between two events without being
  interrupted, because SQLite is called synchronously and what the handler awaits
  is answered in microtasks. So `Resume`, `Revise` or `Reject` of `RunRoutes` is one
  action, although `revise` looks at the runs in flight, awaits the workflow and then
  enters the run: no other request is handled in between. A store that really waits
  would open that gap, and `OneExecution` does not speak of it. Waiting for a worker,
  executing the graph and the publish of an approval are steps of their own.
- *Between processes* nothing is shared but the database, so in `Scheduler` every
  transaction is a step, and so is every statement outside of one: the read of
  `markUsed` and its write are two (`MarkRead`, `MarkWrite`). The calls of one
  process are treated the same way. Collecting reads what is covered and
  upserts it in one step, which is coarser than the code; `upsert` itself is a
  transaction that looks at the stored status.
- *In a run*, a graph node together with its step record is one action, because a
  record is written as soon as the node has returned. Only the publisher is two
  (`SendToTarget`, `RecordPublish`): between them the world has changed and the
  database has not, which is where a crash hurts.

**`ArticleRun`.** `run`, `article` and `outputs` are the rows of `workflows`,
`articles` and the latest success of each step in `workflow_steps`; `graph` is what
the executing process holds and is lost in a `Crash`; `target` is the publishing
target. A text is a number: a new one for every output of writer and editor, and
0 for none. `judged` keeps which texts the gate, the review and an approver let
pass; no code reads it, the properties do. `Resume` restores the graph from the
records as `restoreState` does, `Revise` keeps what comes before the writer,
`Regenerate` clears the later outputs in memory and not in the records. A publish
is confirmed, or ends in an error, and an error may come after the target has
carried it out; a slug that exists is updated or is a conflict.

**`RunRoutes`.** An execution is reduced to what the routes can observe: it
has a text, a new one or, if it is a resume, one that was recorded (not always the
last, as a record may be lost), may send it as a draft, and ends in some outcome; a
resume may also find its publish on record and send nothing. One run, one slug, the `draft` policy. Places in the queue are left to `RunQueue`; a full queue
is the same as a request that is not made.

**`RunQueue`.** `slot` tells what a handler does with the place it has reserved
(held, used, released); `running`, `reserved`, `waiting` are the fields of the
class; `active` is what really runs, so that the counters can be compared with it.

**`Scheduler`.** `procs` holds the local variables of each process and where it
is; `runs` is the table of runs as far as the scheduler looks at it. A process that
crashes forgets everything, and its lock belongs to nobody until it expires. `raced`
in a row of the backlog is no column: it is set when a row is written over a
status its writer had not read, and excepts that row from `ExecutedIsMarked`.

**`RunExecution`.** `call` is where the executing process is: the step, the attempt
of `generateStructured`, the provider, the tries of `withRetry`, and how often it
has asked. `counter` is the `LlmUsage` of the process; `run.usage` is what the records
of the steps add up to, from which a resume starts. No code reads `spent`, the sum of
what all replies reported, nor `mishaps`: they are what the accounts are held
against. A reply costs a natural number; a refusal or an outage costs nothing,
because what it may have cost is not reported to the program. `End` stores the
outcome and hands the message to the notifier in one action; the message is part of
the execution, and the run cannot be resumed before its delivery is over.
`completed` stands for every outcome without an error.

**`Publishing`.** Each publish resolves its tags, looks the slug up and writes, as
steps of its own; `pub` holds where it is and what it saw. A write may be answered
late (`late`: the target carries it out after the client has given up), and a file
may be written half-way (`TearFile`). Before a tag is created the list is looked at
once more, and asked for again if it has become too old (`Seek`). `publisher`
picks one of five: WordPress with either treatment of an existing slug, Ghost (which
compares `updated_at`), Markdown with and without overwriting. `raced`, `crossed` and
`made` are no state of the code: they tell the properties which publishes overlapped
and which terms were created.

**`Research`.** The sources are read side by side, each through one fetch at a time;
`offered` is what they yield, in any order of sources, `merged` what `CandidateMerge`
keeps of it. In contrast to `TopicBacklog`, where a candidate is one identity, a row
here has a URL and a title and is found by either. `round.costUsd` is the account of
`enrichRound`, `round.spent` what the replies have cost. People decide and ask for
proposals at any time (`routes/topics.ts`, `topics enrich`).

Definitions that stand before another of a similar name and say "Slip" in their
comment are plausible mistakes. Nothing uses them; putting one in the place of the
definition they imitate makes a property fail, which shows that the property says
something (`PROJECT.json`, `mutants`).

## 3. What is checked

| Run | States | Properties | What it shows |
|---|---|---|---|
| `ArticleRunSafety` | 1,267,860 | `OnlyJudgedTextIsSent`, `PublishedIsLive`, `LiveOnlyByDecision`, `OnePostPerArticle`, `ResumeRepeatsFirstPass`, `LifecycleSpec`, `ExecutionEnds` | nine configurations with failures, crashes, lost answers and records, resumes, revisions and approvals; what is not killed ends |
| `RunQueue` | 2,866 | `CountersAgree`, `WithinLimits`, `WorkConserving`, `DrainedOnClose`, `NoOvertaking`, `EveryJobRuns`, `CloseReturns` | two workers, two places in line, five jobs |
| `RunRoutes` | 750,278 | `OneExecution`, `InFlightIsTrue`, `DecisionsOutlastResumes`, `LifecycleUnlessApproved`, `FlightEnds` | four requests of any kind and a death of the server |
| `Scheduler` | 103,615 | `LockHeld`, `ExecutedIsMarked`, `DailyLimitHolds`, `BacklogMoves` | two calls and a person, with one expired lock, crash or command |
| `RunExecution` | 261,270 | `SpendBounded`, `RecordedIsSpent`, `RetriesBounded`, `ToldIsStored`, `OverBudgetAsksNoMore`, `ExecutionsEnd` | three executions of a plain and a structured step, with and without a fallback, one lost record or death |
| `Publishing` | 279,205 | `CreatedIsListed`, `OnePost`, `LiveStays`, `ReplacesWhatItSaw`, `PublishesEnd` | two publishes of one slug at a time, four in all, at each target, with late writes and an edit |
| `Research` | 212,441 | `TypeOK`, `EntriesCollapse`, `RowsApart`, `ResponsesClosed`, `DecisionsKept`, `CollectEnds` | a feed and a nested sitemap, every overlap of four entries, a decision and a request by a person |
| `ArticleRunSkipsFailedStep` | violated | `ResumeRepeatsFailedStep` | finding 1 |
| `ArticleRunSendsUnjudged` | violated | `NothingUnjudgedIsSent` | finding 2 |
| `RunRoutesLive` | violated | `LiveIsApproved` | finding 3 |
| `SchedulerPickedTwice` | violated | `NotPickedTwice` | finding 4 |
| `ResearchCost` | violated | `RoundStopsAtCost` | finding 5 |

The types of `ArticleRun`, `RunQueue`, `RunRoutes`, `Scheduler`, `RunExecution` and
`Publishing` are proved (`TypeCorrect`) and not checked once more; `TypeOK` of
`Research` is a property of its run.

**Bounds and why they are enough.** `Budgets` of `ArticleRun` bounds executions,
revisions and mishaps (failures, crashes, lost records). The hazards need an
execution that breaks off and one that follows it, at most with a revision between
them: two or three executions. Two mishaps reach a failure whose resume dies too.
Two slugs tell an article that kept its slug from one that changed it. The
configurations differ in policy, target and review because each shuts off parts of
the graph; `Full` has all of it. Without liveness the invariants were also looked at with four executions, three
mishaps or two revisions. In `RunQueue`, five jobs are one more than two
workers and two places can hold. In `RunRoutes`, four requests are begin, and
three that meet; one death is enough, as a restart forgets all. In `Scheduler` one
mishap at a time keeps liveness checkable; the invariants were also looked at with
pairs of mishaps (an expired lock with a crash, an expired lock with a command),
and are proved for any number. `MaxRunsPerDay = 1` puts the limit where it is
reached at once.

In `RunExecution` a reply costs up to two and so does the budget, so that one reply
can reach it, exceed it or leave it alone; two steps tell a step that repeats from
one that does not, and three executions are a failure, a death and a resume. Two
publishes at a time are enough for every race of `Publishing`, and a third and a fourth
meet what they left; resolving tags does not look at posts, so publishes with tags are
fewer (`TaggedCost`). Of the two tags one can be created and one be there. In
`Research`, three entries are the fewest with which an entry shares a URL with one
and a title with another, and four entries of two weights the fewest with which a
write is lost, because an alias leads to an entry that was replaced: the run has two
from each of two sources. More entries and weights are left to the proof
(`MergeCollapses`).

**Fairness and why the code justifies it.**

- `ArticleRun`: weak fairness of `Progress`, one condition for the process as a
  whole. Every call of a step has a timeout or a bounded number of retries
  (`providers/src/http.ts`, `publishers`), so a live process leaves the step it is
  in. Requests and crashes are never obliged to happen.
- `RunQueue`: weak fairness of the end of each job, for the same reason, and of
  the drain: `allSettled` answers when what it was given is settled.
- `RunRoutes`: weak fairness of the background work and of the publish of an
  approval. No request has to be made.
- `Scheduler`: cron keeps calling (`Acquire`) and a process goes on until it dies
  (`CallStep`, `PersonStep`); locks of the dead expire and days end (`Expire`,
  `Age`) because time passes. Strong fairness of `PassLimits` and `Collect` says
  that the window opens, costs fall out of the last 24 hours and sources can be
  read again, now and then: that is an assumption about the configuration and the
  world, and `BacklogMoves` means nothing without it.
- `RunExecution`: weak fairness of the calls, of the end and of the delivery,
  each of which has a timeout (`http.ts`, `notify`). Nobody has to resume.
- `Publishing`: a publish goes on, since every request to a target has a timeout.
  Late writes need not arrive, caches need not expire, nobody has to edit.
- `Research`: the fetches go on without their servers, because of the deadline, and
  the collection with them; the model answers or its call times out.

`CHECK_DEADLOCK FALSE` stands in the configurations in which the system may
rightly stop: a run has ended, a queue is closed, all requests are answered, the
publishes are over, the round is. In `Scheduler` there is always a next call of cron and the check is on.

**Exceptions inside properties.** A property that holds only with an exception
names it: `OnlyJudgedTextIsSent` excepts lost records and resumed revisions (finding
2); `OnePostPerArticle` excepts lost records, revisions and overridden gates;
`LifecycleUnlessApproved` excepts what follows an approval (finding 3, and a reject
that is accepted while the approved article is being published);
`PublishedIsLive` excepts runs that are published without an approval and have lost
records or an approval of another text (section 4);
`LiveOnlyByDecision` excepts the `draft` policy, since WordPress leaves a live post
live when a draft is sent under its slug, and under `publish_if_gate_passes` lost
records and resumed revisions (finding 2); `ExecutedIsMarked` excepts rows that were
overwritten unread; `DailyLimitHolds` allows one run per expired lock of a living
call; `BacklogMoves` excepts a brief that the schema refuses and that stays at the
head of the backlog for good, and says of no candidate that its turn comes, since
better ones may come for ever; `EntriesCollapse` speaks of the heaviest entry only
where a group has two weights at most, and allows two entries of a title that bridges
two URLs (section 4); `SpendBounded`
allows the budget and one reply once more per lost record or death, `RecordedIsSpent` and
`OverBudgetAsksNoMore` except runs with such a mishap; `CreatedIsListed` excepts terms
created while another was, or while the list was read (section 4); `OnePost` excepts publishes
that both looked before either wrote; `LiveStays` excepts Markdown with overwriting,
and Markdown publishes that overlap (section 4).

## 4. Findings

1. *A resume may skip the step that failed.* After a regeneration the records of
   the first version count as completed steps of the second. ADR-015 says the
   failed step is executed again.
2. *A resumed revision is sent without its gate.* A revision that fails after the
   writer is resumed with the verdicts of the version before. ADR-033 says the
   revised article goes through the same gate.
3. *A text goes live without an approval.* An approval while a revision, or the
   resume of a failed run, is queued publishes the stored version; the execution that
   was queued then updates the live post.
4. *A candidate is picked twice.* A call that dies between `begin` and `markUsed`
   leaves it accepted. `docs/operations.md` says it is never picked twice. No two of
   the runs are *executed* by the scheduler, which `ExecutedIsMarked` shows.
5. *A round goes on after its cost limit.* `enrichRound` counts what successful
   proposals cost; a proposal whose replies are all refused has been paid for and
   counts as nothing, so the round asks on. `docs/DECISIONS.md` says it stops.

Each is quoted with its lines in `PROJECT.json`, `findings`, and each is the
counterexample TLC prints for the run of that name.

Others met on the way, without a run of their own. The steps that lead to them are in
the models, and the properties that come near them name them as exceptions:

- *Two entries of one title stay.* An entry is compared with one other at most, what
  its URL leads to or else what its title does. With (u1, t1) and (u2, t2) of one
  weight and (u1, t2) of a heavier source, the third replaces the first, and the second
  has the same title. `docs/operations.md:191` and `collect.ts:39-40` say entries that
  share a URL or a title collapse into one. `EntriesCollapse` says what is left: only a
  title that bridges two URLs is kept twice.
- *The heaviest entry is lost.* An entry that was replaced is still found under an alias
  it left behind; `indexOf` then gives no place, and the heavier entry is written where
  nobody reads it. Two weights and four entries lose a write, but keep an entry as heavy:
  (u1, t1) and (u1, t2), then (u1, t1) and (u2, t2) of a heavier source. If the
  last is heavier still, the heaviest is lost. `collect.ts:40` and ADR-039 say the
  heavier source wins.
- *A run is stopped as a duplicate of itself.* A revision changes the slug and is refused
  by the gate; a second revision returns to the slug of the draft that was sent, finds
  that draft and stops. ADR-033 says it is no duplicate: `revise` takes the slug of the
  stored article, and the draft has an earlier one.
- *A tag is created again.* Of two publishes that create tags at the same time, the last
  puts back a list without the tag of the other, which the next publish asks for again
  and WordPress refuses. `createOne` says the next lookup must not re-create it.
- *A live article is written over by a draft.* Whether a Markdown file is a draft is read
  before it is written over, and another publish may make it live in between.
  `markdown/index.ts:131-132` says any file but a draft is protected.
- A `reject` is accepted while the approved article is being published, since
  `approve` is not entered in the set of runs in flight; the run is then `published`
  although `models.ts` calls `rejected` terminal. The gap is that of finding 3.
- A resumed run that has a publish on record counts as published, although an approval
  of an earlier text has replaced the post since: a refused version is stored, a resume
  regenerates and publishes it and dies before it finishes, the refused version is
  approved with an override, and that approval dies too. The next resume stores the
  newer text as published, and readers see the older one (`restoreState` of
  `article-generation-workflow.ts`).
- `docs/DECISIONS.md` promises one message per occurrence; an attempt that timed out may
  have arrived and is made again.
- A Markdown publish whose answer was lost with the process fails when it is repeated
  as a draft: the file is there. So does every publish without overwriting after a
  write that failed half-way, since what is left is no draft file.
- A reply that is empty, malformed or too late is paid for and not counted: its usage
  never reaches `trackUsage`.
- The names of a host are looked up outside the deadline of a fetch.

## 5. What is proved

The proofs hold for every value of the constants that satisfies the named
assumptions (`RunAssumption`, `QueueAssumption`, `RoutesAssumption`,
`BacklogAssumption`, `SchedulerAssumption`, `NoSlugAssumption`, `CallsAssumption`,
`NotifierAssumption`, `TermsAssumption`, `PublishingAssumption`, `FetchAssumption`,
`ReadingAssumption`, `ResearchAssumption`): any number of slugs, jobs, requests,
calls, candidates, steps, retries, publishes, tags, sources, entries and rows, any
budget, any limits and any bounds on mishaps.

- **`RunQueueProofs`**: `TypeCorrect`, `CountersCorrect`, `LimitsHold`,
  `WorkConserved`, `ClosedIsDrained`, `OrderKept`. The limits are not inductive: a
  place is promised long before the job takes it. `IInv` adds that no job is in two
  places (`OnePlace`), that workers idle only while nobody waits, and that running,
  reserved and waiting together respect the sum of both limits (`Capacity`).
- **`ArticleRunProofs`**: `TypeCorrect`; `ImplementsLifecycle`, that every step of
  a run is a step of `RunLifecycle` or leaves the status alone, by an invariant that
  ties the status to the node the graph is at and to an approval under way;
  `NothingLiveUnapproved`, that under `publish_after_approval` no text is visible
  that was not approved, by an invariant that the graph never reaches the publisher
  under that policy and an approval sends what the approver saw;
  `ExecutionIsBounded`, that an execution takes at most 16 steps and 6 more for every
  regeneration, since the loop goes back to the writer only while one is left
  (`LoopInv`), also if a resume restored the records of later steps.
- **`ArticleTextProofs`**: `TextInvariant`, `JudgedTextIsSent`, `PublishedTextIsLive`,
  `LiveByDecision`, `FailedStepRepeated`, `OnePost`, with the exceptions of the
  properties they state (section 3). As long as records are not lost, `TInv` says
  that what an execution holds is on record (`RecordInv`), that a completed verdict is
  about the very text in hand (`GateInv`) and that nothing is written again once the
  gate is passed on record (`StraightInv`); and always that an approval under way sends
  a text its approver saw, which had passed or was overridden (`ApprovalInv`). Three more
  invariants rest on it. `PublishInv`: a publish on record is of the text on record,
  its post stays live unless another text is approved, and an execution that finds
  it does nothing again. `ProgressInv`: which steps can be behind an execution at
  each node (`Before`), so that a failed step is not among the restored ones.
  `PostInv`: a slug is chosen again only together with a new text (`Known`,
  `Untouched`, `Fresh`, `Placed`), so that a retry finds its own post.
- **`RunRoutesProofs`**: `TypeCorrect`, `ExecutesOnce`, `FlightIsTrue`,
  `DecisionsOutlast`, `DecidesInOrder`. The invariant couples the set of runs in
  flight with the one job that is queued or executing; the last theorem needs
  what the status can be in each phase of that job as long as nobody has approved.
- **`SchedulerProofs`**: `TypeCorrect`, `LockKept`, `ExecutedOnce`, `LimitHolds`. `LockHeld` is
  inductive. `ExecutedIsMarked` is not: `IInv` adds that a process works on a run
  of its own candidate (`Assigned`) and that a call that executes has marked its
  candidate with the run it executes (`Marked`); what keeps both is that any step
  spares a marked row, or says that it raced (`Spares`). `LimitHolds` is about the
  daily limit, which is looked at before the run is stored: `LimitInv` counts the
  calls in between (`Passed`) with the runs of the day. That a call finds room when it
  looks does not suffice, since others may have looked before. `LockHeld` says that
  all of those are late but the one that holds the lock, so they are no more than the
  locks that expired (`PassedAreLate`).
- **`RunExecutionProofs`**: `TypeCorrect`, `SpendIsBounded`, `RecordsAreTrue`,
  `OverBudgetIsOver`, `RetriesAreBounded`, `ToldIsTrue`. Three accounts are kept
  apart: the records (`run.usage`), the counter of the process and what was spent.
  `SpendInv` orders them (`AccountsInOrder`), and says that the replies nobody has
  on record come to a budget and a reply per mishap at most (`NothingUnseen`).
  `RequestInv` tells for every phase what the attempts before this one may have used
  up (`Allowed`), since requests are counted per step while tries start again with
  each provider. `ExecutionIsBounded` counts the three nested loops down (`TriesLeft`
  within `AttemptsAfter` within `StepsAfter`), then the attempts of the message. `NoticeInv` adds that a message goes out only when nothing executes
  and that its attempts are one more than the unanswered ones.
- **`PublishingProofs`**: `TypeCorrect`, `TagsAreListed`, `PostedOnce`,
  `LivePostsStay`, `EditsSurvive`. Three invariants, one for each thing publishes
  share. `ListsKept`: every list that is cached, being read or about to be put back
  has the tags created so far. `OneCreation`: unless publishes have raced there is
  one write at most that found nothing, under way or late, and none once there is a
  post; it needs that the first post has the slug of the article (`FirstIsOwn`),
  since otherwise a look-up could miss it. `FileInv`: a file that is about to be
  written over is still the draft it was when it was looked at. `PublishIsBounded`,
  for a finite set of tags: a publish turns to each name once, even if the list of
  tags gets too old or is replaced between any two of its requests, and asks for the
  list once more at most for each of them.
- **`ResearchProofs`**: `TypeCorrect`, `ResponsesAreClosed`, `EntriesAreCollapsed`,
  `RowsStayApart`, `DecisionsAreKept`, and two facts about lists of any length,
  `MergeCollapses` and `CollectedSpares`. Both lists are folded over
  (`FoldLeft`, which the community modules define by a CHOOSE of a function on sets of
  positions), so the module first shows that such a function exists (`FoldExists`)
  and that it goes through the positions one by one (`LastOfFirst`, `MergeChain`,
  `UpsertChain`); the induction is one over a set of numbers, from the
  well-foundedness of < (`UpToInduction`). What is kept along the merge is
  `MergeInv`: whatever `byUrl` and `byTitle` lead to is an entry that every group with
  no ties to the outside has together with the one that is looked up (`Leads`), every
  such group seen so far has an entry in the list, and an entry in the list is the one
  its URL leads to. `HeavyInv` adds, for groups of two weights, that an entry which is led to
  is in the list unless a heaviest one is already (so that nothing is lost by a write
  that is), and `TitleInv`, for titles which bridge no URLs, that the list has one entry
  of the title at most and none before the title leads to it. The second clause survives a winner that beats an entry which is
  not in the list any more because the entry that took its place hangs together with
  both. `CollectedSpares` says that a transaction keeps rows apart and spares what was
  decided. `IInv` of the collection joins the types with `EntriesCollapse`, without
  which a stored row might be of an entry nobody offered.
  `SourcesAreRead` is the part of `CollectEnds` that needs no fairness: `SourceLeft`
  counts the steps a source has left, a sitemap more costs what a whole fetch costs,
  and every step of `Read` makes it smaller. It needs `IdleInv`, that a source is
  being read exactly while its fetch is under way.

**Only model-checked**: liveness (`ExecutionEnds`, `EveryJobRuns`, `CloseReturns`,
`FlightEnds`, `BacklogMoves`, `ExecutionsEnd`, `PublishesEnd`, `CollectEnds`), since
fairness and ENABLED are out of reach of the provers. Of `ExecutionEnds`,
`ExecutionsEnd`, `PublishesEnd` and the reading of `CollectEnds` it is proved that
there is no infinite sequence of steps to fear: each makes a natural number smaller
(`ExecutionIsBounded`, `PublishIsBounded`, `SourcesAreRead`). What TLC adds on small
instances is that there is always a step to take, and fairness that it is taken.
Every safety property a passing run checks is also proved.

## 6. What is not modelled

- Failures of the database itself. SQLite is local and synchronous; only the step
  record, whose failure the code catches, may be lost.
- The step limit of the graph library, which is not in the repository: many
  regenerations end such a run in the code and not in the model. How many steps an
  execution may take, 16 and 6 more for every regeneration, is proved (section 5).
- Prompts, text analysis, the parsers of feeds, sitemaps and pages, the formula of
  the score, and which addresses may be fetched: the verdict, the entries, the score
  and a refused response are inputs. Logging and output of commands change nothing.
- A second process that executes the same run (the command line beside the server,
  or a run taken for dead while it lives): `RecoverStale` and `Recover` are for runs
  without a living process.
- Two runs of one topic or slug that both look for duplicates before either has
  stored its article.
- The time window and the limit on costs of the scheduler, which may stop any call.
- An endless supply of candidates: under the daily limit better ones may keep a
  candidate from its turn, and no property says they do not.
- The pages of a list of terms: it is read whole and as of one moment, and a blog with
  more than 50 pages of 100 terms would have its list cut off.
- Static taxonomies and the normalisation of names; that a category is found or not
  is open.
- The list a round works through is read once; that it is stale when people decide
  meanwhile is in the model, that a candidate disappears is not: nothing deletes rows.
- Migrations, configuration and wiring: they run once, before anything else does.

## 7. Plan

Done, in this order: `RunStore`, `RunLifecycle`, `ArticleRun`, `RunQueue`, `RunRoutes`,
`TopicBacklog`, `Scheduler` and their proofs, those about texts among them; `ModelCalls`, `Notifier`, `RunExecution` and
their proofs; `TermResolution`, `Publishing` and their proofs; `ContentFetch`, `SourceReading`,
`CandidateMerge`, `Research` and their proofs. Next:

1. `Publishing` shown to implement the one-step `Publish` of `ArticleRun`.
2. `DuplicatePolicy`: two runs of one topic or slug, begun and resumed together.
3. A second process beside the server on one run.
