-------------------------- MODULE ArticleRunProofs --------------------------
(***************************************************************************)
(* What is proved of a run for every set of slugs, every configuration and *)
(* every bound: the types of the variables, the order of the statuses that *)
(* RunLifecycle promises, and that the policy which publishes only after   *)
(* an approval shows no text to readers without one.                       *)
(***************************************************************************)
EXTENDS ArticleRun, TLAPS

-----------------------------------------------------------------------------
(* Types.                                                                  *)

LEMMA InitHasTypes == Init => TypeOK
<1> SUFFICES ASSUME Init PROVE TypeOK
  OBVIOUS
<1> USE DEF Init
<1>1. run \in Runs
  BY DEF Runs, Statuses, Steps, Histories
<1>2. outputs \in OutputRows
  BY DEF NoOutputs, OutputRows, NoSeo, SeoOutputs, Verdicts, Results
<1>3. article \in ArticleRow
  BY DEF NoArticle, ArticleRow, ReviewStates
<1>4. graph \in Graphs
  BY DEF Idle, Graphs, NoSeo, SeoOutputs, Verdicts, Results, Nodes
<1>5. target \in [Slugs -> Posts]
  BY DEF NoPost, Posts
<1>6. budget \in Budgets
  BY RunAssumption DEF Configurations
<1> QED BY <1>1, <1>2, <1>3, <1>4, <1>5, <1>6 DEF TypeOK

LEMMA IdleType == Idle \in Graphs
  BY DEF Idle, Graphs, NoSeo, SeoOutputs, Verdicts, Results, Nodes

LEMMA AfterType ==
    ASSUME NEW g \in Graphs, NEW s \in Steps
    PROVE  [g EXCEPT !.node = After(g, s)] \in Graphs
<1>1. After(g, s) \in Nodes
  BY DEF After, AfterClassification, Steps, Nodes
<1> QED BY <1>1 DEF Graphs

LEMMA RestoredType ==
    ASSUME NEW o \in OutputRows
    PROVE  RestoredGraph(o) \in Graphs /\ CompletedSteps(o) \subseteq Steps
<1>1. CompletedSteps(o) \subseteq Steps
  BY DEF CompletedSteps, RecordedSteps, Steps
<1>2. RestoredGraph(o) \in Graphs
  BY <1>1, IdleType DEF RestoredGraph, Graphs, OutputRows, Verdicts, Results
<1> QED BY <1>1, <1>2

LEMMA MishapType == TypeOK /\ SpendMishap => budget' \in Budgets
  BY DEF TypeOK, SpendMishap, Budgets

LEMMA CurrentArticleType == TypeOK => CurrentArticle(graph) \in Nat
  BY DEF TypeOK, CurrentArticle, Graphs

(* What a step of the graph does to the graph and to its record.           *)
LEMMA StepTypes ==
    ASSUME TypeOK, NEW s \in Steps, NEW g \in Graphs, NEW o \in OutputRows,
           Leave(s, g), Record(o)
    PROVE  graph' \in Graphs /\ outputs' \in OutputRows /\ budget' \in Budgets
<1>1. graph' \in Graphs
  BY AfterType DEF Leave
<1>2. outputs' \in OutputRows /\ budget' \in Budgets
  BY MishapType DEF Record, TypeOK
<1> QED BY <1>1, <1>2

LEMMA RequestsHaveTypes == TypeOK /\ Request => TypeOK'
<1> SUFFICES ASSUME TypeOK, Request PROVE TypeOK'
  OBVIOUS
<1> USE DEF TypeOK
<1>1. ASSUME NEW force \in BOOLEAN, NEW topicSeen \in BOOLEAN, Begin(force, topicSeen)
      PROVE  TypeOK'
  <2>1. run' \in Runs
    BY <1>1 DEF Begin, Runs, Statuses
  <2>2. graph' \in Graphs
    BY <1>1, IdleType DEF Begin, Graphs, Nodes
  <2>3. budget' \in Budgets
    BY <1>1 DEF Begin, SpendExecution, Budgets
  <2> QED BY <1>1, <2>1, <2>2, <2>3 DEF Begin
<1>2. ASSUME NEW force \in BOOLEAN, Resume(force) PROVE TypeOK'
  <2>3. run' \in Runs
    BY <1>2 DEF Resume, Runs, Histories
  <2>1. graph' \in Graphs
    BY <1>2, RestoredType DEF Resume, Graphs, Nodes
  <2>2. budget' \in Budgets
    BY <1>2 DEF Resume, SpendExecution, Budgets
  <2> QED BY <1>2, <2>1, <2>2, <2>3 DEF Resume
<1>3. CASE Revise
  <2>1. run' \in Runs /\ run.force \in BOOLEAN
    BY <1>3 DEF Revise, Runs, Histories
  <2>2. article.slug \in Slugs \cup {NoSlug}
    BY DEF ArticleRow
  <2>3. graph' \in Graphs
    BY <1>3, <2>1, <2>2, IdleType DEF Revise, Graphs, Nodes, KeptByRevision, Steps
  <2>4. budget.executions - 1 \in Nat /\ budget.revisions - 1 \in Nat
    BY <1>3 DEF Revise, Budgets
  <2>5. budget' \in Budgets
    BY <1>3, <2>4 DEF Revise, Budgets
  <2> QED BY <1>3, <2>1, <2>3, <2>5 DEF Revise
<1>4. CASE Reject
  <2>1. run' \in Runs
    BY <1>4 DEF Reject, WithStatus, Runs, Statuses
  <2>2. article' \in ArticleRow
    BY <1>4 DEF Reject, WithStatus, RejectedArticle, ArticleRow, ReviewStates
  <2> QED BY <1>4, <2>1, <2>2 DEF Reject, WithStatus
<1>5. CASE RecoverStale
  <2>1. run' \in Runs
    BY <1>5 DEF RecoverStale, WithStatus, Runs, Statuses
  <2> QED BY <1>5, <2>1 DEF RecoverStale, WithStatus
<1>6. ASSUME NEW override \in BOOLEAN, Approve(override) PROVE TypeOK'
  <2>1. article' \in ArticleRow /\ article.text \in Nat
    BY <1>6 DEF Approve, ApprovedArticle, ArticleRow, ReviewStates
  <2>2. judged' \in [gate : SUBSET Nat, review : SUBSET Nat, approver : SUBSET Nat]
    BY <1>6, <2>1 DEF Approve
  <2> QED BY <1>6, <2>1, <2>2 DEF Approve
<1> QED BY <1>1, <1>2, <1>3, <1>4, <1>5, <1>6 DEF Request

LEMMA AgentStepsHaveTypes ==
    ASSUME TypeOK,
           \/ ReadSources \/ Plan \/ FindLinks \/ Write \/ Edit \/ Classify
           \/ \E slug \in Slugs : Describe(slug)
           \/ \E verdict \in {"passed", "rejected"} :
                 JudgeQuality(verdict) \/ ReviewEditorially(verdict)
    PROVE  TypeOK'
<1> USE DEF TypeOK
<1>0. {"read_sources", "planner", "find_links", "writer", "editor", "seo", "quality",
       "editorial_review", "classification"} \subseteq Steps
  BY DEF Steps
<1>1. CASE ReadSources
  <2>1. [outputs EXCEPT !.read_sources = TRUE] \in OutputRows
    BY DEF OutputRows
  <2> QED BY <1>0, <1>1, <2>1, StepTypes DEF ReadSources
<1>2. CASE Plan
  <2>1. [outputs EXCEPT !.planner = TRUE] \in OutputRows
    BY DEF OutputRows
  <2> QED BY <1>0, <1>2, <2>1, StepTypes DEF Plan
<1>3. CASE FindLinks
  <2>1. [outputs EXCEPT !.find_links = TRUE] \in OutputRows
    BY DEF OutputRows
  <2> QED BY <1>0, <1>3, <2>1, StepTypes DEF FindLinks
<1>4. CASE Write
  <2>1. texts + 1 \in Nat
    OBVIOUS
  <2>2. /\ [graph EXCEPT !.article = texts + 1] \in Graphs
        /\ [outputs EXCEPT !.writer = texts + 1] \in OutputRows
    BY <2>1 DEF Graphs, OutputRows
  <2> QED BY <1>0, <1>4, <2>1, <2>2, StepTypes DEF Write
<1>5. CASE Edit
  <2>1. texts + 1 \in Nat
    OBVIOUS
  <2>2. /\ [graph EXCEPT !.edited = texts + 1] \in Graphs
        /\ [outputs EXCEPT !.editor = texts + 1] \in OutputRows
    BY <2>1 DEF Graphs, OutputRows
  <2> QED BY <1>0, <1>5, <2>1, <2>2, StepTypes DEF Edit
<1>6. CASE Classify
  <2>1. [outputs EXCEPT !.classification = TRUE] \in OutputRows
    BY DEF OutputRows
  <2> QED BY <1>0, <1>6, <2>1, StepTypes DEF Classify
<1>7. ASSUME NEW slug \in Slugs, Describe(slug) PROVE TypeOK'
  <2> DEFINE seo == [slug |-> slug, about |-> CurrentArticle(graph)]
  <2>1. seo \in SeoOutputs
    BY CurrentArticleType DEF SeoOutputs
  <2>2. [graph EXCEPT !.seo = seo] \in Graphs /\ [outputs EXCEPT !.seo = seo] \in OutputRows
    BY <2>1 DEF Graphs, OutputRows
  <2> QED BY <1>0, <1>7, <2>2, StepTypes DEF Describe
<1>8. ASSUME NEW verdict \in {"passed", "rejected"}, JudgeQuality(verdict) PROVE TypeOK'
  <2>1. /\ [graph EXCEPT !.quality = verdict] \in Graphs
        /\ [outputs EXCEPT !.quality = verdict] \in OutputRows
    BY DEF Graphs, OutputRows, Verdicts
  <2>2. graph' \in Graphs /\ outputs' \in OutputRows /\ budget' \in Budgets
    BY <1>0, <1>8, <2>1, StepTypes DEF JudgeQuality
  <2>3. judged' \in [gate : SUBSET Nat, review : SUBSET Nat, approver : SUBSET Nat]
    BY <1>8, CurrentArticleType DEF JudgeQuality
  <2> QED BY <1>8, <2>2, <2>3 DEF JudgeQuality
<1>9. ASSUME NEW verdict \in {"passed", "rejected"}, ReviewEditorially(verdict) PROVE TypeOK'
  <2> DEFINE g == IF verdict = "passed" THEN graph ELSE [graph EXCEPT !.quality = "rejected"]
  <2>1. g \in Graphs /\ [outputs EXCEPT !.editorial_review = verdict] \in OutputRows
    BY DEF Graphs, OutputRows, Verdicts
  <2>2. graph' \in Graphs /\ outputs' \in OutputRows /\ budget' \in Budgets
    BY <1>0, <1>9, <2>1, StepTypes DEF ReviewEditorially
  <2>3. judged' \in [gate : SUBSET Nat, review : SUBSET Nat, approver : SUBSET Nat]
    BY <1>9, CurrentArticleType DEF ReviewEditorially
  <2> QED BY <1>9, <2>2, <2>3 DEF ReviewEditorially
<1> QED BY <1>1, <1>2, <1>3, <1>4, <1>5, <1>6, <1>7, <1>8, <1>9

(* What a target holds after a request, and what is left of the bounds.    *)
LEMMA PublishTypes ==
    ASSUME TypeOK, NEW slug \in Slugs \cup {NoSlug}, NEW text \in Nat, NEW live \in BOOLEAN,
           NEW result, Publish(slug, text, live, result)
    PROVE  target' \in [Slugs -> Posts] /\ budget' \in Budgets
<1>1. Posted(slug, text, live) \in [Slugs -> Posts]
  BY DEF TypeOK, Posted, Posts
<1>2. target' \in [Slugs -> Posts]
  BY <1>1 DEF TypeOK, Publish
<1>3. budget' \in Budgets
  BY MishapType DEF TypeOK, Publish
<1> QED BY <1>2, <1>3

LEMMA RemainingStepsHaveTypes ==
    ASSUME TypeOK,
           \/ StopAsTopicDuplicate \/ MarkRunning \/ Skip \/ CheckDuplicate \/ Regenerate
           \/ RecordPublish \/ FailStep \/ StopAsDuplicate \/ Finish \/ CompleteApproval
           \/ \E result \in {"ok", "error"} : SendToTarget(result) \/ SendApproved(result)
    PROVE  TypeOK'
<1> USE DEF TypeOK
<1>1. CASE StopAsTopicDuplicate
  <2>1. run' \in Runs
    BY <1>1 DEF StopAsTopicDuplicate, WithStatus, Runs, Statuses
  <2> QED BY <1>1, <2>1, IdleType DEF StopAsTopicDuplicate, WithStatus
<1>2. CASE MarkRunning
  <2>1. run' \in Runs
    BY <1>2 DEF MarkRunning, WithStatus, Runs, Statuses
  <2>2. graph' \in Graphs
    BY <1>2 DEF MarkRunning, WithStatus, Graphs, Nodes, Steps
  <2> QED BY <1>2, <2>1, <2>2 DEF MarkRunning, WithStatus
<1>3. CASE Skip
  <2>1. graph.node \in Steps
    BY <1>3 DEF Skip, Graphs
  <2>2. graph' \in Graphs
    BY <1>3, <2>1, AfterType DEF Skip, Leave
  <2> QED BY <1>3, <2>2 DEF Skip
<1>4. CASE CheckDuplicate
  <2>1. PICK found \in BOOLEAN :
          /\ Leave("duplicate_check", [graph EXCEPT !.duplicate = found])
          /\ Record([outputs EXCEPT !.duplicate_check = IF found THEN "duplicate" ELSE "clear"])
    BY <1>4 DEF CheckDuplicate, StoredDuplicate, RemoteDuplicate
  <2>2. /\ [graph EXCEPT !.duplicate = found] \in Graphs
        /\ [outputs EXCEPT !.duplicate_check = IF found THEN "duplicate" ELSE "clear"]
              \in OutputRows
    BY DEF Graphs, OutputRows
  <2>3. "duplicate_check" \in Steps
    BY DEF Steps
  <2> QED BY <1>4, <2>1, <2>2, <2>3, StepTypes DEF CheckDuplicate, StoredDuplicate, RemoteDuplicate
<1>5. CASE Regenerate
  <2> DEFINE g == [graph EXCEPT !.regenerations = @ + 1,
                                !.completed = @ \ {"writer", "editor", "seo", "duplicate_check",
                                                   "quality", "editorial_review"}]
  <2>1. graph.regenerations + 1 \in Nat /\ graph.completed \subseteq Steps
    BY DEF Graphs
  <2>3. g \in Graphs /\ "regenerate" \in Steps
    BY <2>1 DEF Graphs, Steps
  <2>2. graph' \in Graphs
    BY <1>5, <2>3, AfterType DEF Regenerate, Leave
  <2> QED BY <1>5, <2>2 DEF Regenerate
<1>6. CASE RecordPublish
  <2>1. [outputs EXCEPT !.publisher = graph.published] \in OutputRows /\ "publisher" \in Steps
    BY DEF OutputRows, Graphs, Steps
  <2> QED BY <1>6, <2>1, StepTypes DEF RecordPublish
<1>7. CASE FailStep
  <2>1. run' \in Runs /\ budget' \in Budgets
    BY <1>7, MishapType DEF FailStep, WithStatus, FallibleSteps, Runs, Statuses
  <2> QED BY <1>7, <2>1, IdleType DEF FailStep, WithStatus
<1>8. CASE StopAsDuplicate
  <2>1. run' \in Runs
    BY <1>8 DEF StopAsDuplicate, WithStatus, Runs, Statuses, Steps
  <2> QED BY <1>8, <2>1, IdleType DEF StopAsDuplicate, WithStatus
<1>9. CASE Finish
  <2>1. OutcomeOf(graph) \in {"needs_review", "awaiting_approval", "failed", "published"}
    BY DEF OutcomeOf
  <2>2. run' \in Runs
    BY <1>9, <2>1 DEF Finish, WithStatus, Runs, Statuses, Steps
  <2>3. article' \in ArticleRow
    BY <1>9 DEF Finish, WithStatus, FinishedArticle, ArticleRow, ReviewStates, Graphs, SeoOutputs
  <2> QED BY <1>9, <2>2, <2>3, IdleType DEF Finish, WithStatus
<1>10. CASE CompleteApproval
  <2>1. run' \in Runs
    BY <1>10 DEF CompleteApproval, WithStatus, Runs, Statuses
  <2>2. article' \in ArticleRow
    BY <1>10 DEF CompleteApproval, WithStatus, PublishedArticle, ArticleRow, ReviewStates
  <2> QED BY <1>10, <2>1, <2>2 DEF CompleteApproval, WithStatus
<1>11. ASSUME NEW result \in {"ok", "error"}, SendToTarget(result) PROVE TypeOK'
  <2>1. graph.seo.slug \in Slugs \cup {NoSlug} /\ CurrentArticle(graph) \in Nat
    BY CurrentArticleType DEF Graphs, SeoOutputs
  <2>2. target' \in [Slugs -> Posts] /\ budget' \in Budgets
    BY <1>11, <2>1, PublishTypes DEF SendToTarget
  <2>3. graph' \in Graphs
    BY <1>11 DEF SendToTarget, Graphs, Results, Nodes
  <2> QED BY <1>11, <2>2, <2>3 DEF SendToTarget
<1>12. ASSUME NEW result \in {"ok", "error"}, SendApproved(result) PROVE TypeOK'
  <2>1. article.slug \in Slugs \cup {NoSlug} /\ article.text \in Nat
    BY DEF ArticleRow
  <2>2. target' \in [Slugs -> Posts] /\ budget' \in Budgets
    BY <1>12, <2>1, PublishTypes DEF SendApproved
  <2> QED BY <1>12, <2>2 DEF SendApproved
<1> QED BY <1>1, <1>2, <1>3, <1>4, <1>5, <1>6, <1>7, <1>8, <1>9, <1>10, <1>11, <1>12

LEMMA CrashHasTypes == TypeOK /\ Crash => TypeOK'
  BY IdleType, MishapType DEF TypeOK, Crash

LEMMA NextHasTypes == TypeOK /\ [Next]_vars => TypeOK'
<1>1. TypeOK /\ UNCHANGED vars => TypeOK'
  BY DEF TypeOK, vars
<1>2. TypeOK /\ Progress => TypeOK'
  BY AgentStepsHaveTypes, RemainingStepsHaveTypes DEF Progress
<1> QED BY <1>1, <1>2, RequestsHaveTypes, CrashHasTypes DEF Next

(* The rows, the graph state and the target keep their types whatever      *)
(* happens to the run.                                                     *)
THEOREM TypeCorrect == Spec => []TypeOK
  BY InitHasTypes, NextHasTypes, PTL DEF Spec

-----------------------------------------------------------------------------
(* The order of the statuses.  The status alone does not say which change  *)
(* comes next: what the executing process is about to do, and what the     *)
(* stored article and an approval under way allow, has to be known too.    *)

InGraph == Steps \cup {"publisher_record", "end"}

LInv ==
    /\ TypeOK
    /\ graph = Idle \/ approval = "none"
    /\ graph.node = "begin" => run.status = "started"
    /\ graph.node = "mark_running" => MayResume(run.status)
    /\ graph.node \in InGraph => run.status = "running"
    /\ run.status \in {"none", "started"} => article = NoArticle
    /\ run.status = "published" => article.reviewState = "published"
    /\ approval # "none" => run.status \notin {"none", "started", "published", "rejected"}

LEMMA InitOrders == Init => LInv
  BY InitHasTypes DEF Init, LInv, Idle, InGraph, Steps

(* A step inside the graph: it stays there and changes neither rows nor    *)
(* an approval.                                                            *)
Inside ==
    /\ graph.node \in InGraph /\ graph'.node \in InGraph
    /\ UNCHANGED <<run, article, approval>>

LEMMA LeaveStaysInside ==
    ASSUME NEW s \in Steps, NEW g \in Graphs, Leave(s, g)
    PROVE  graph'.node \in InGraph
<1>1. After(g, s) \in InGraph
  BY DEF After, AfterClassification, Steps, InGraph
<1>2. graph'.node = After(g, s)
  BY DEF Leave, Graphs
<1> QED BY <1>1, <1>2

InsideAction ==
    \/ Skip
    \/ ReadSources \/ Plan \/ FindLinks \/ Write \/ Edit
    \/ \E slug \in Slugs : Describe(slug)
    \/ CheckDuplicate
    \/ \E verdict \in {"passed", "rejected"} : JudgeQuality(verdict)
    \/ \E verdict \in {"passed", "rejected"} : ReviewEditorially(verdict)
    \/ Regenerate
    \/ Classify
    \/ \E result \in {"ok", "error"} : SendToTarget(result)
    \/ RecordPublish

LEMMA InsideActions == TypeOK /\ InsideAction => Inside
<1> SUFFICES ASSUME TypeOK, InsideAction PROVE Inside
  OBVIOUS
<1>1. UNCHANGED <<run, article, approval>>
  BY DEF InsideAction, Skip, ReadSources, Plan, FindLinks, Write, Edit, Describe,
         CheckDuplicate, JudgeQuality, ReviewEditorially, Regenerate, Classify,
         SendToTarget, RecordPublish
<1>2. graph.node \in InGraph
  BY DEF InsideAction, Skip, ReadSources, Plan, FindLinks, Write, Edit, Describe,
         CheckDuplicate, JudgeQuality, ReviewEditorially, Regenerate, Classify,
         SendToTarget, RecordPublish, Executes, InGraph, Steps, TypeOK, Graphs
<1>3. graph'.node \in InGraph
  <2>1. CASE \E result \in {"ok", "error"} : SendToTarget(result)
    BY <2>1 DEF SendToTarget, TypeOK, Graphs, InGraph
  <2>2. CASE Skip
    BY <2>2, LeaveStaysInside DEF Skip, TypeOK, Graphs
  <2> USE DEF Leave, After, TypeOK, Graphs, InGraph, Steps
  <2>3. CASE ReadSources
    BY <2>3 DEF ReadSources
  <2>4. CASE Plan
    BY <2>4 DEF Plan
  <2>5. CASE FindLinks
    BY <2>5 DEF FindLinks
  <2>6. CASE Write
    BY <2>6 DEF Write
  <2>7. CASE Edit
    BY <2>7 DEF Edit
  <2>8. CASE \E slug \in Slugs : Describe(slug)
    BY <2>8 DEF Describe
  <2>9. CASE CheckDuplicate
    BY <2>9 DEF CheckDuplicate, StoredDuplicate, RemoteDuplicate
  <2>10. CASE \E verdict \in {"passed", "rejected"} : JudgeQuality(verdict)
    BY <2>10 DEF JudgeQuality
  <2>11. CASE \E verdict \in {"passed", "rejected"} : ReviewEditorially(verdict)
    BY <2>11 DEF ReviewEditorially
  <2>12. CASE Regenerate
    BY <2>12 DEF Regenerate
  <2>13. CASE Classify
    BY <2>13 DEF Classify, AfterClassification
  <2>14. CASE RecordPublish
    BY <2>14 DEF RecordPublish
  <2> QED BY <2>1, <2>2, <2>3, <2>4, <2>5, <2>6, <2>7, <2>8, <2>9, <2>10, <2>11, <2>12,
            <2>13, <2>14 DEF InsideAction
<1> QED BY <1>1, <1>2, <1>3 DEF Inside

(* Nodes outside the graph, and what an idle process looks like.           *)
LEMMA NodesApart ==
    /\ {"idle", "begin", "mark_running"} \cap InGraph = {}
    /\ Idle.node = "idle"
  BY DEF InGraph, Steps, Idle

(* Requests and the ends of an execution keep the order, one by one.       *)
LEMMA RequestsKeepOrder == LInv /\ Request => LInv'
<1> SUFFICES ASSUME LInv, Request PROVE LInv'
  OBVIOUS
<1>1. TypeOK'
  BY RequestsHaveTypes DEF LInv
<1> USE NodesApart DEF LInv, TypeOK, Runs, MayResume
<1>2. ASSUME NEW force \in BOOLEAN, NEW topicSeen \in BOOLEAN, Begin(force, topicSeen)
      PROVE  LInv'
  BY <1>1, <1>2, IdleType DEF Begin, Graphs
<1>3. ASSUME NEW force \in BOOLEAN, Resume(force) PROVE LInv'
  <2>1. graph'.node = "mark_running"
    BY <1>3, RestoredType DEF Resume, Graphs
  <2> QED BY <1>1, <1>3, <2>1 DEF Resume, Quiet
<1>4. CASE Revise
  <2>1. graph'.node = "mark_running"
    BY <1>4, IdleType DEF Revise, Graphs
  <2> QED BY <1>1, <1>4, <2>1 DEF Revise, Quiet, MayReview, ReviewableStatuses
<1>5. CASE Reject
  BY <1>1, <1>5 DEF Reject, WithStatus, Quiet, MayReview, ReviewableStatuses, RejectedArticle
<1>6. CASE RecoverStale
  BY <1>1, <1>6 DEF RecoverStale, WithStatus, Quiet, ActiveStatuses
<1>7. ASSUME NEW override \in BOOLEAN, Approve(override) PROVE LInv'
  BY <1>1, <1>7 DEF Approve, Quiet, MayApprove
<1> QED BY <1>2, <1>3, <1>4, <1>5, <1>6, <1>7 DEF Request

LEMMA InsideKeepsOrder == LInv /\ InsideAction => LInv'
<1> SUFFICES ASSUME LInv, InsideAction PROVE LInv'
  OBVIOUS
<1>1. TypeOK'
  BY NextHasTypes DEF LInv, InsideAction, Next, Progress
<1>2. Inside
  BY InsideActions DEF LInv
<1> QED BY <1>1, <1>2, NodesApart DEF LInv, Inside

EndAction ==
    StopAsTopicDuplicate \/ MarkRunning \/ FailStep \/ StopAsDuplicate \/ Finish

LEMMA EndsKeepOrder == LInv /\ EndAction => LInv'
<1> SUFFICES ASSUME LInv, EndAction PROVE LInv'
  OBVIOUS
<1>1. TypeOK'
  BY NextHasTypes DEF LInv, EndAction, Next, Progress
<1> USE NodesApart DEF LInv, TypeOK, Runs
<1>2. CASE StopAsTopicDuplicate
  BY <1>1, <1>2 DEF StopAsTopicDuplicate, WithStatus
<1>3. CASE MarkRunning
  <2>1. graph'.node \in InGraph
    BY <1>3 DEF MarkRunning, WithStatus, Graphs, InGraph, Steps
  <2>2. graph # Idle /\ approval = "none"
    BY <1>3 DEF MarkRunning, WithStatus
  <2> QED BY <1>1, <1>3, <2>1, <2>2 DEF MarkRunning, WithStatus, MayResume
<1>4. CASE FailStep
  <2>1. graph.node \in InGraph
    BY <1>4 DEF FailStep, WithStatus, FallibleSteps, InGraph
  <2>2. graph # Idle
    BY <2>1
  <2> QED BY <1>1, <1>4, <2>1, <2>2 DEF FailStep, WithStatus
<1>5. CASE StopAsDuplicate
  BY <1>1, <1>5 DEF StopAsDuplicate, WithStatus, InGraph
<1>6. CASE Finish
  <2>1. OutcomeOf(graph) \in {"needs_review", "awaiting_approval", "failed", "published"}
    BY DEF OutcomeOf
  <2>2. graph # Idle /\ approval' = "none" /\ graph' = Idle
    BY <1>6 DEF Finish, WithStatus
  <2>3. run'.status = OutcomeOf(graph)
    BY <1>6 DEF Finish, WithStatus
  <2>4. run'.status = "published" => article'.reviewState = "published"
    BY <1>6, <2>3 DEF Finish, WithStatus, FinishedArticle
  <2> QED BY <1>1, <2>1, <2>2, <2>3, <2>4
<1> QED BY <1>2, <1>3, <1>4, <1>5, <1>6 DEF EndAction

LEMMA ApprovalKeepsOrder ==
    ASSUME LInv,
           (\E result \in {"ok", "error"} : SendApproved(result)) \/ CompleteApproval \/ Crash
    PROVE  LInv'
<1>1. TypeOK'
  BY NextHasTypes DEF LInv, Next, Progress
<1> USE NodesApart DEF LInv, TypeOK, Runs
<1>2. CASE \E result \in {"ok", "error"} : SendApproved(result)
  BY <1>1, <1>2 DEF SendApproved
<1>3. CASE CompleteApproval
  <2>1. approval = "ok" => run'.status = "published" /\ article'.reviewState = "published"
    BY <1>3 DEF CompleteApproval, WithStatus, PublishedArticle, ArticleRow
  <2>2. approval # "ok" => run' = run
    BY <1>3 DEF CompleteApproval, WithStatus
  <2>3. graph' = Idle /\ approval' = "none"
    BY <1>3 DEF CompleteApproval, WithStatus
  <2>4. run.status \notin {"none", "started", "published", "rejected"}
    BY <1>3 DEF CompleteApproval, WithStatus
  <2> QED BY <1>1, <2>1, <2>2, <2>3, <2>4
<1>4. CASE Crash
  BY <1>1, <1>4 DEF Crash
<1> QED BY <1>2, <1>3, <1>4

LEMMA NextKeepsOrder == LInv /\ [Next]_vars => LInv'
<1>1. LInv /\ UNCHANGED vars => LInv'
  BY DEF LInv, TypeOK, vars
<1> QED BY <1>1, RequestsKeepOrder, InsideKeepsOrder, EndsKeepOrder, ApprovalKeepsOrder
        DEF Next, Progress, InsideAction, EndAction

(* The node, the rows and the approval of a run agree with its status.     *)
THEOREM OrderInvariant == Spec => []LInv
  BY InitOrders, NextKeepsOrder, PTL DEF Spec

(* Every step of a run is a step of its status that RunLifecycle allows,   *)
(* or leaves the status alone.                                             *)
LEMMA StepRefines == LInv /\ [Next]_vars => [Lifecycle!Next]_(run.status)
<1> SUFFICES ASSUME LInv, [Next]_vars, run'.status # run.status PROVE Lifecycle!Next
  OBVIOUS
<1> USE DEF LInv, TypeOK, Runs
<1>1. Next
  BY DEF vars
<1>2. ASSUME NEW force \in BOOLEAN, NEW topicSeen \in BOOLEAN, Begin(force, topicSeen)
      PROVE  Lifecycle!Begin
  BY <1>2 DEF Begin, Lifecycle!Begin
<1>3. CASE Reject
  BY <1>3 DEF Reject, WithStatus, MayReview, ReviewableStatuses, Lifecycle!Reject, Lifecycle!Next
<1>4. CASE RecoverStale
  BY <1>4 DEF RecoverStale, WithStatus, ActiveStatuses, Lifecycle!Interrupt, Lifecycle!Next
<1>5. CASE StopAsTopicDuplicate
  BY <1>5 DEF StopAsTopicDuplicate, WithStatus, Lifecycle!StopAsDuplicate, Lifecycle!Next
<1>6. CASE MarkRunning
  BY <1>6 DEF MarkRunning, WithStatus, MayResume, Lifecycle!Execute, Lifecycle!Terminal, Lifecycle!Next
<1>7. CASE FailStep
  BY <1>7 DEF FailStep, WithStatus, FallibleSteps, InGraph, Lifecycle!End, Lifecycle!Outcomes, Lifecycle!Next
<1>8. CASE StopAsDuplicate
  BY <1>8 DEF StopAsDuplicate, WithStatus, InGraph, Lifecycle!End, Lifecycle!Outcomes, Lifecycle!Next
<1>9. CASE Finish
  <2>1. OutcomeOf(graph) \in {"needs_review", "awaiting_approval", "failed", "published"}
    BY DEF OutcomeOf
  <2>2. run'.status = OutcomeOf(graph)
    BY <1>9 DEF Finish, WithStatus
  <2>3. run.status = "running"
    BY <1>9 DEF Finish, WithStatus, InGraph
  <2> QED BY <2>1, <2>2, <2>3 DEF Lifecycle!End, Lifecycle!Outcomes, Lifecycle!Next
<1>10. CASE CompleteApproval
  <2>1. run.status \notin {"none", "started", "published", "rejected"}
    BY <1>10 DEF CompleteApproval, WithStatus
  <2>2. run'.status = "published"
    BY <1>10 DEF CompleteApproval, WithStatus
  <2> QED BY <2>1, <2>2 DEF Lifecycle!Approve, Lifecycle!Terminal, Lifecycle!Next
<1>11. (Revise \/ Crash \/ \E result \in {"ok", "error"} : SendApproved(result)) => FALSE
  BY DEF Revise, Crash, SendApproved
<1>12. (\E force \in BOOLEAN : Resume(force)) \/ (\E override \in BOOLEAN : Approve(override))
         => FALSE
  BY DEF Resume, Approve
<1>13. InsideAction => FALSE
  BY InsideActions DEF Inside
<1> QED
  BY <1>1, <1>2, <1>3, <1>4, <1>5, <1>6, <1>7, <1>8, <1>9, <1>10, <1>11, <1>12, <1>13
     DEF Next, Request, Progress, InsideAction, Lifecycle!Next

(* The status moves as the comment of WorkflowStatus lists it, in every    *)
(* configuration: the run implements RunLifecycle.                         *)
THEOREM ImplementsLifecycle == Spec => LifecycleSpec
<1>1. Init => Lifecycle!Init
  BY DEF Init, Lifecycle!Init
<1> QED BY <1>1, OrderInvariant, StepRefines, PTL DEF Spec, LifecycleSpec, Lifecycle!Spec

-----------------------------------------------------------------------------
(* The policy that publishes after an approval.  The graph never comes to  *)
(* the publisher, and what an approval sends is what was approved: the     *)
(* article row cannot change under it, because nothing else acts on the    *)
(* run until the approval is complete.                                     *)

AInv ==
    /\ LInv
    /\ graph.node \notin {"publisher", "publisher_record"}
    /\ approval = "publish" => article.text \in judged.approver
    /\ LiveOnlyByDecision

LEMMA AfterAvoidsPublisher ==
    ASSUME config.policy = "publish_after_approval", NEW g \in Graphs, NEW s \in Steps
    PROVE  After(g, s) \notin {"publisher", "publisher_record"}
  BY DEF After, AfterClassification, Steps

LEMMA InsideAvoidsPublisher ==
    ASSUME config.policy = "publish_after_approval", AInv, InsideAction
    PROVE  graph'.node \notin {"publisher", "publisher_record"}
<1> USE DEF AInv, LInv, TypeOK, Graphs
<1>1. CASE Skip
  <2>1. graph'.node = After(graph, graph.node) /\ graph.node \in Steps
    BY <1>1 DEF Skip, Leave
  <2> QED BY <2>1, AfterAvoidsPublisher
<1>2. CASE (\E result \in {"ok", "error"} : SendToTarget(result)) \/ RecordPublish
  BY <1>2 DEF SendToTarget, RecordPublish, Executes
<1> USE DEF Leave, After, Steps
<1>3. CASE ReadSources
  BY <1>3 DEF ReadSources
<1>4. CASE Plan
  BY <1>4 DEF Plan
<1>5. CASE FindLinks
  BY <1>5 DEF FindLinks
<1>6. CASE Write
  BY <1>6 DEF Write
<1>7. CASE Edit
  BY <1>7 DEF Edit
<1>8. CASE \E slug \in Slugs : Describe(slug)
  BY <1>8 DEF Describe
<1>9. CASE CheckDuplicate
  BY <1>9 DEF CheckDuplicate, StoredDuplicate, RemoteDuplicate
<1>10. CASE \E verdict \in {"passed", "rejected"} : JudgeQuality(verdict)
  BY <1>10 DEF JudgeQuality
<1>11. CASE \E verdict \in {"passed", "rejected"} : ReviewEditorially(verdict)
  BY <1>11 DEF ReviewEditorially
<1>12. CASE Regenerate
  BY <1>12 DEF Regenerate
<1>13. CASE Classify
  BY <1>13 DEF Classify, AfterClassification
<1> QED BY <1>1, <1>2, <1>3, <1>4, <1>5, <1>6, <1>7, <1>8, <1>9, <1>10, <1>11, <1>12, <1>13
        DEF InsideAction

(* Posting an approved text makes no other text live.                      *)
LEMMA PostedIsApproved ==
    ASSUME TypeOK, LiveOnlyByDecision, config.policy = "publish_after_approval",
           NEW slug, NEW text \in judged.approver, NEW s \in Slugs,
           Posted(slug, text, TRUE)[s].state = "live", Posted(slug, text, TRUE)[s].text # 0
    PROVE  Posted(slug, text, TRUE)[s].text \in judged.approver
<1>1. CASE s = slug
  BY <1>1 DEF Posted, TypeOK
<1>2. CASE s # slug
  BY <1>2 DEF Posted, TypeOK, LiveOnlyByDecision
<1> QED BY <1>1, <1>2

LEMMA NextKeepsApproved ==
    ASSUME config.policy = "publish_after_approval", AInv, [Next]_vars
    PROVE  AInv'
<1>1. LInv'
  BY NextKeepsOrder DEF AInv
<1>2. ASSUME UNCHANGED target, judged.approver \subseteq judged'.approver
      PROVE  LiveOnlyByDecision'
  BY <1>2 DEF AInv, LiveOnlyByDecision
<1> USE NodesApart DEF AInv, LInv
<1>3. CASE InsideAction
  <2>1. UNCHANGED <<article, approval>>
    BY <1>3, InsideActions DEF Inside
  <2>2. UNCHANGED target /\ judged.approver \subseteq judged'.approver
    BY <1>3 DEF InsideAction, Skip, ReadSources, Plan, FindLinks, Write, Edit, Describe,
                CheckDuplicate, JudgeQuality, ReviewEditorially, Regenerate, Classify,
                SendToTarget, RecordPublish, Executes, TypeOK
  <2>3. graph'.node \notin {"publisher", "publisher_record"}
    BY <1>3, InsideAvoidsPublisher
  <2> QED BY <1>1, <1>2, <2>1, <2>2, <2>3
<1>4. CASE EndAction
  <2>1. UNCHANGED <<approval, target, judged>>
    BY <1>4 DEF EndAction, StopAsTopicDuplicate, WithStatus, MarkRunning, FailStep, StopAsDuplicate, Finish
  <2>2. graph'.node \notin {"publisher", "publisher_record"}
    BY <1>4 DEF EndAction, StopAsTopicDuplicate, WithStatus, MarkRunning, FailStep, StopAsDuplicate,
                Finish, TypeOK, Graphs
  <2>3. approval = "none"
    BY <1>4 DEF EndAction, StopAsTopicDuplicate, WithStatus, MarkRunning, FailStep, StopAsDuplicate,
                Finish, FallibleSteps, Steps
  <2> QED BY <1>1, <1>2, <2>1, <2>2, <2>3
<1>5. CASE Request
  <2>1. UNCHANGED target /\ judged.approver \subseteq judged'.approver
    BY <1>5 DEF Request, Begin, Resume, Revise, Reject, WithStatus, RecoverStale, Approve, TypeOK
  <2>2. graph'.node \notin {"publisher", "publisher_record"}
    BY <1>5, IdleType, RestoredType
       DEF Request, Begin, Resume, Revise, Reject, WithStatus, RecoverStale, Approve, TypeOK, Graphs
  <2>3. approval' = "publish" => article'.text \in judged'.approver
    <3>1. ASSUME NEW override \in BOOLEAN, Approve(override)
          PROVE  article'.text \in judged'.approver
      BY <3>1 DEF Approve, ApprovedArticle, TypeOK, ArticleRow
    <3>2. CASE \E force, topicSeen \in BOOLEAN : Begin(force, topicSeen)
      BY <3>2 DEF Begin
    <3>3. CASE (\E force \in BOOLEAN : Resume(force)) \/ Revise \/ Reject \/ RecoverStale
      BY <3>3 DEF Resume, Revise, Reject, WithStatus, RecoverStale, Quiet
    <3> QED BY <1>5, <3>1, <3>2, <3>3 DEF Request
  <2> QED BY <1>1, <1>2, <2>1, <2>2, <2>3
<1>6. ASSUME NEW result \in {"ok", "error"}, SendApproved(result) PROVE AInv'
  <2>1. article.text \in judged.approver /\ UNCHANGED <<graph, judged>> /\ approval' # "publish"
    BY <1>6 DEF SendApproved
  <2>2. target' \in {target, Posted(article.slug, article.text, TRUE)}
    BY <1>6 DEF SendApproved, Publish
  <2>3. LiveOnlyByDecision'
    BY <2>1, <2>2, PostedIsApproved DEF LiveOnlyByDecision
  <2> QED BY <1>1, <2>1, <2>3
<1>7. CASE CompleteApproval \/ Crash \/ UNCHANGED vars
  BY <1>1, <1>2, <1>7 DEF CompleteApproval, WithStatus, Crash, vars
<1> QED BY <1>3, <1>4, <1>5, <1>6, <1>7 DEF Next, Progress, InsideAction, EndAction

LEMMA ConfigIsFixed == [Next]_vars => config' = config
<1>1. Request => config' = config
  BY DEF Request, Begin, Resume, Revise, Reject, WithStatus, RecoverStale, Approve
<1>2. InsideAction => config' = config
  BY DEF InsideAction, Skip, ReadSources, Plan, FindLinks, Write, Edit, Describe,
         CheckDuplicate, JudgeQuality, ReviewEditorially, Regenerate, Classify,
         SendToTarget, RecordPublish
<1>3. EndAction => config' = config
  BY DEF EndAction, StopAsTopicDuplicate, WithStatus, MarkRunning, FailStep, StopAsDuplicate, Finish
<1>4. (\E result \in {"ok", "error"} : SendApproved(result)) \/ CompleteApproval \/ Crash
        => config' = config
  BY DEF SendApproved, CompleteApproval, WithStatus, Crash
<1> QED BY <1>1, <1>2, <1>3, <1>4 DEF Next, Progress, InsideAction, EndAction, vars

(* Under publish_after_approval no text of a run is shown to readers that  *)
(* nobody approved, whatever fails, dies, is resumed, revised or forced.   *)
THEOREM NothingLiveUnapproved ==
    Spec => [](config.policy = "publish_after_approval" => LiveOnlyByDecision)
<1> DEFINE Inv == LInv /\ (config.policy = "publish_after_approval" => AInv)
<1>1. Init => Inv
  <2> SUFFICES ASSUME Init PROVE Inv
    OBVIOUS
  <2>1. \A s \in Slugs : target[s].text = 0
    BY DEF Init, NoPost
  <2> QED BY <2>1, InitOrders DEF Init, AInv, Idle, LiveOnlyByDecision
<1>2. Inv /\ [Next]_vars => Inv'
  BY NextKeepsApproved, NextKeepsOrder, ConfigIsFixed
<1>3. Inv => (config.policy = "publish_after_approval" => LiveOnlyByDecision)
  BY DEF AInv
<1> QED BY <1>1, <1>2, <1>3, PTL DEF Spec
-----------------------------------------------------------------------------
(* How many steps an execution or an approval may still take.  The nodes   *)
(* of the graph are numbered from its end; the loop of the gate goes back  *)
(* from "regenerate" to "writer", which a regeneration more pays for.      *)
NodesLeft(node) ==
    CASE node = "begin"            -> 16
      [] node = "mark_running"     -> 15
      [] node = "read_sources"     -> 14
      [] node = "planner"          -> 13
      [] node = "find_links"       -> 12
      [] node = "writer"           -> 11
      [] node = "editor"           -> 10
      [] node = "seo"              -> 9
      [] node = "duplicate_check"  -> 8
      [] node = "quality"          -> 7
      [] node = "regenerate"       -> 6
      [] node = "editorial_review" -> 5
      [] node = "classification"   -> 4
      [] node = "publisher"        -> 3
      [] node = "publisher_record" -> 2
      [] node = "end"              -> 1

ApprovalLeft(a) == IF a = "publish" THEN 2 ELSE IF a = "none" THEN 0 ELSE 1

LoopLeft(g) == 6 * (config.maxRegenerations - g.regenerations) + NodesLeft(g.node)

StepsLeft ==
    (IF graph = Idle THEN 0 ELSE LoopLeft(graph)) + ApprovalLeft(approval)

(* The loop is entered only while a regeneration is left, and a resumed    *)
(* execution starts with all of them.                                      *)
LoopInv ==
    /\ graph.regenerations <= config.maxRegenerations
    /\ graph.node = "regenerate" => graph.regenerations < config.maxRegenerations
    /\ "regenerate" \notin graph.completed
    /\ graph.node = "idle" <=> graph = Idle

LEMMA LimitType == TypeOK => config.maxRegenerations \in Nat
  BY RunAssumption DEF TypeOK, Configurations

LEMMA NodesNumbered ==
    /\ NodesLeft("read_sources") = 14 /\ NodesLeft("planner") = 13
    /\ NodesLeft("find_links") = 12 /\ NodesLeft("writer") = 11
    /\ NodesLeft("editor") = 10 /\ NodesLeft("seo") = 9
    /\ NodesLeft("duplicate_check") = 8 /\ NodesLeft("quality") = 7
    /\ NodesLeft("regenerate") = 6 /\ NodesLeft("editorial_review") = 5
    /\ NodesLeft("classification") = 4 /\ NodesLeft("publisher") = 3
    /\ NodesLeft("end") = 1
  BY DEF NodesLeft

LEMMA AfterIsNearer ==
    ASSUME NEW g, NEW s \in Steps \ {"regenerate"}
    PROVE  /\ NodesLeft(s) \in Nat /\ NodesLeft(After(g, s)) \in Nat
           /\ NodesLeft(After(g, s)) < NodesLeft(s)
<1> USE NodesNumbered
<1>1. CASE s \in {"read_sources", "find_links", "writer", "editor", "seo"}
  <2>1. After(g, s) = CASE s = "read_sources" -> "planner" [] s = "find_links" -> "writer"
                        [] s = "writer" -> "editor" [] s = "editor" -> "seo"
                        [] s = "seo" -> "duplicate_check"
    BY <1>1 DEF After
  <2> QED BY <1>1, <2>1
<1>2. CASE s = "planner"
  <2>1. After(g, s) \in {"find_links", "writer"}
    BY <1>2 DEF After
  <2> QED BY <1>2, <2>1
<1>3. CASE s = "duplicate_check"
  <2>1. After(g, s) \in {"end", "quality"}
    BY <1>3 DEF After
  <2> QED BY <1>3, <2>1
<1>4. CASE s = "quality"
  <2>1. After(g, s) \in {"editorial_review", "classification", "regenerate"}
    BY <1>4 DEF After
  <2> QED BY <1>4, <2>1
<1>5. CASE s = "editorial_review"
  <2>1. After(g, s) = "classification"
    BY <1>5 DEF After
  <2> QED BY <1>5, <2>1
<1>6. CASE s = "classification"
  <2>1. After(g, s) \in {"publisher", "end"}
    BY <1>6 DEF After, AfterClassification
  <2> QED BY <1>6, <2>1
<1>7. CASE s = "publisher"
  <2>1. After(g, s) = "end"
    BY <1>7 DEF After
  <2> QED BY <1>7, <2>1
<1> QED BY <1>1, <1>2, <1>3, <1>4, <1>5, <1>6, <1>7 DEF Steps

LEMMA LoopLeftType ==
    ASSUME TypeOK, NEW g \in Graphs, g.node # "idle", g.regenerations <= config.maxRegenerations
    PROVE  LoopLeft(g) \in Nat \ {0} /\ LoopLeft(g) <= 16 + 6 * config.maxRegenerations
<1>1. NodesLeft(g.node) \in 1..16
  BY DEF NodesLeft, Graphs, Nodes, Steps
<1> QED BY <1>1, LimitType DEF LoopLeft, Graphs

(* What a step that leaves its node does to the loop: `left` is the node   *)
(* it leaves, g the state it leaves with.                                  *)
LEMMA LeaveGoesOn ==
    ASSUME TypeOK, LoopInv, NEW g \in Graphs, NEW s \in Steps \ {"regenerate"}, Leave(s, g),
           config' = config, graph.node = s,
           g.regenerations = graph.regenerations, g.completed = graph.completed
    PROVE  /\ LoopInv'
           /\ graph # Idle /\ graph' # Idle
           /\ LoopLeft(graph)' < LoopLeft(graph)
<1>1. /\ graph'.node = After(g, s) /\ graph'.regenerations = graph.regenerations
      /\ graph'.completed = graph.completed
  BY DEF Leave, Graphs
<1>2. config.maxRegenerations \in Nat /\ graph.regenerations \in Nat
  BY LimitType DEF TypeOK, Graphs
<1>3. graph.node # "idle" /\ graph'.node # "idle"
  BY <1>1 DEF After, AfterClassification, Steps
<1>4. graph # Idle /\ graph' # Idle
  BY <1>3 DEF Idle
<1>5. graph'.node = "regenerate" => graph.regenerations < config.maxRegenerations
  BY <1>1 DEF After, AfterClassification, Steps
<1>6. LoopInv'
  BY <1>1, <1>3, <1>4, <1>5 DEF LoopInv
<1>7. /\ NodesLeft(graph.node) \in Nat /\ NodesLeft(graph'.node) \in Nat
      /\ NodesLeft(graph'.node) < NodesLeft(graph.node)
  BY <1>1, AfterIsNearer
<1>8. LoopLeft(graph)' < LoopLeft(graph)
  BY <1>1, <1>2, <1>7 DEF LoopLeft
<1> QED BY <1>4, <1>6, <1>8

LEMMA InsideGoesOn ==
    ASSUME LInv, LoopInv, InsideAction
    PROVE  LoopInv' /\ StepsLeft' < StepsLeft
<1>1. config' = config /\ TypeOK /\ graph \in Graphs
  BY ConfigIsFixed DEF InsideAction, Next, Progress, LInv, TypeOK
<1>2. LoopInv' /\ graph # Idle /\ graph' # Idle /\ LoopLeft(graph)' < LoopLeft(graph)
  <2> DEFINE Goal == LoopInv' /\ graph # Idle /\ graph' # Idle
                     /\ LoopLeft(graph)' < LoopLeft(graph)
  <2> SUFFICES Goal
    OBVIOUS
  <2>0. \A g \in Graphs, s \in Steps \ {"regenerate"} :
          /\ Leave(s, g) /\ graph.node = s
          /\ g.regenerations = graph.regenerations /\ g.completed = graph.completed
          => Goal
    BY <1>1, LeaveGoesOn
  <2> HIDE DEF Goal
  <2> USE <1>1, <2>0 DEF Executes
  <2>1. CASE Skip
    BY <2>1 DEF Skip, LoopInv, Graphs
  <2>2. CASE ReadSources \/ Plan \/ FindLinks \/ Classify
    BY <2>2 DEF ReadSources, Plan, FindLinks, Classify, Steps
  <2>3. CASE Write
    <3>1. texts' \in Nat /\ Leave("writer", [graph EXCEPT !.article = texts'])
      BY <2>3 DEF Write, TypeOK
    <3> QED BY <2>3, <3>1 DEF Write, Graphs, Steps
  <2>4. CASE Edit
    <3>1. texts' \in Nat /\ Leave("editor", [graph EXCEPT !.edited = texts'])
      BY <2>4 DEF Edit, TypeOK
    <3> QED BY <2>4, <3>1 DEF Edit, Graphs, Steps
  <2>5. ASSUME NEW slug \in Slugs, Describe(slug) PROVE Goal
    <3>1. [slug |-> slug, about |-> CurrentArticle(graph)] \in SeoOutputs
      BY CurrentArticleType DEF SeoOutputs
    <3> QED BY <2>5, <3>1 DEF Describe, Graphs, Steps
  <2>6. CASE CheckDuplicate
    BY <2>6 DEF CheckDuplicate, StoredDuplicate, RemoteDuplicate, Graphs, Steps
  <2>7. ASSUME NEW verdict \in {"passed", "rejected"}, JudgeQuality(verdict) PROVE Goal
    BY <2>7 DEF JudgeQuality, Graphs, Verdicts, Steps
  <2>8. ASSUME NEW verdict \in {"passed", "rejected"}, ReviewEditorially(verdict) PROVE Goal
    BY <2>8 DEF ReviewEditorially, Graphs, Verdicts, Steps
  <2>9. CASE RecordPublish
    <3>1. /\ graph.node = "publisher_record" /\ graph' = [graph EXCEPT !.node = "end"]
      BY <2>9 DEF RecordPublish, Leave, After
    <3>2. graph'.node = "end" /\ graph'.regenerations = graph.regenerations
          /\ graph'.completed = graph.completed
      BY <3>1 DEF Graphs
    <3> QED BY <3>1, <3>2, LimitType DEF Goal, LoopInv, LoopLeft, NodesLeft, Idle, Graphs
  <2>10. ASSUME NEW result \in {"ok", "error"}, SendToTarget(result) PROVE Goal
    <3>1. /\ graph.node = "publisher" /\ graph'.node = "publisher_record"
          /\ graph'.regenerations = graph.regenerations /\ graph'.completed = graph.completed
      BY <2>10 DEF SendToTarget, Graphs
    <3> QED BY <3>1, LimitType DEF Goal, LoopInv, LoopLeft, NodesLeft, Idle, Graphs
  <2>11. CASE Regenerate
    <3>1. /\ graph.node = "regenerate" /\ graph'.node = "writer"
          /\ graph'.regenerations = graph.regenerations + 1
          /\ graph'.completed \subseteq graph.completed
      BY <2>11 DEF Regenerate, Leave, After, Graphs
    <3>2. graph.regenerations \in Nat /\ config.maxRegenerations \in Nat
      BY LimitType DEF Graphs
    <3>3. LoopLeft(graph)' < LoopLeft(graph)
      BY <3>1, <3>2 DEF LoopLeft, NodesLeft
    <3> QED BY <3>1, <3>2, <3>3 DEF Goal, LoopInv, Idle
  <2> QED BY <2>1, <2>2, <2>3, <2>4, <2>5, <2>6, <2>7, <2>8, <2>9, <2>10, <2>11
          DEF InsideAction
<1>3. LoopLeft(graph) \in Nat /\ LoopLeft(graph)' \in Nat
  <2>1. TypeOK' /\ graph' \in Graphs
    BY NextHasTypes, <1>1 DEF TypeOK, InsideAction, Next, Progress
  <2>2. graph.node # "idle" /\ graph'.node # "idle"
    BY <1>2 DEF LoopInv
  <2>3. LoopLeft(graph)' = LoopLeft(graph')
    BY <1>1 DEF LoopLeft
  <2>4. graph.regenerations <= config.maxRegenerations
        /\ graph'.regenerations <= config.maxRegenerations
    BY <1>1, <1>2 DEF LoopInv
  <2> QED BY <1>1, <2>1, <2>2, <2>3, <2>4, LoopLeftType
<1>4. approval = "none" /\ approval' = "none"
  BY <1>1, <1>2, InsideActions DEF LInv, Inside
<1> QED BY <1>2, <1>3, <1>4 DEF StepsLeft, ApprovalLeft

(* The ends of an execution, and an approval.                              *)
LEMMA EndsGoOn ==
    ASSUME LInv, LoopInv,
           EndAction \/ CompleteApproval \/ \E result \in {"ok", "error"} : SendApproved(result)
    PROVE  LoopInv' /\ StepsLeft' < StepsLeft
<1>1. config' = config /\ TypeOK /\ graph \in Graphs /\ config.maxRegenerations \in Nat
      /\ graph.regenerations \in Nat
  BY ConfigIsFixed, LimitType DEF EndAction, Next, Progress, LInv, TypeOK, Graphs
<1>2. graph # Idle => /\ LoopLeft(graph) \in Nat \ {0}
                      /\ StepsLeft = LoopLeft(graph)
  BY <1>1, LoopLeftType DEF LoopInv, LInv, StepsLeft, ApprovalLeft
<1>3. Idle.regenerations = 0 /\ Idle.completed = {} /\ Idle.node = "idle"
  BY DEF Idle
<1>4. CASE MarkRunning
  <2>1. /\ graph.node \in {"begin", "mark_running"}
        /\ graph'.node \in {"read_sources", "planner"}
        /\ graph'.regenerations = graph.regenerations /\ graph'.completed = graph.completed
        /\ approval' = approval
    BY <1>1, <1>4 DEF MarkRunning, Graphs
  <2>2. graph # Idle /\ graph' # Idle /\ approval = "none"
    BY <2>1 DEF Idle, LInv
  <2>3. NodesLeft(graph'.node) \in Nat /\ NodesLeft(graph.node) \in Nat
        /\ NodesLeft(graph'.node) < NodesLeft(graph.node)
    BY <2>1 DEF NodesLeft
  <2>4. LoopInv'
    BY <1>1, <2>1, <2>2 DEF LoopInv
  <2>5. StepsLeft' < StepsLeft
    BY <1>1, <2>1, <2>2, <2>3 DEF StepsLeft, LoopLeft, ApprovalLeft
  <2> QED BY <2>4, <2>5
<1>5. CASE StopAsTopicDuplicate \/ FailStep \/ StopAsDuplicate \/ Finish
  <2>1. graph # Idle /\ graph' = Idle /\ approval' = approval /\ approval = "none"
    BY <1>5 DEF StopAsTopicDuplicate, FailStep, StopAsDuplicate, Finish, WithStatus,
                FallibleSteps, Steps, Idle, LInv
  <2>2. LoopInv'
    BY <1>1, <1>3, <2>1 DEF LoopInv
  <2>3. StepsLeft' = 0
    BY <2>1 DEF StepsLeft, ApprovalLeft
  <2> QED BY <1>2, <2>1, <2>2, <2>3
<1>6. CASE CompleteApproval \/ \E result \in {"ok", "error"} : SendApproved(result)
  <2>1. graph' = graph /\ graph = Idle
    BY <1>6 DEF CompleteApproval, SendApproved, LInv
  <2>2. \/ approval = "publish" /\ approval' \in {"ok", "error"}
        \/ approval \in {"ok", "error"} /\ approval' = "none"
    BY <1>6 DEF CompleteApproval, SendApproved
  <2>3. LoopInv'
    BY <1>1, <2>1 DEF LoopInv
  <2> QED BY <2>1, <2>2, <2>3 DEF StepsLeft, ApprovalLeft
<1> QED BY <1>4, <1>5, <1>6 DEF EndAction

LEMMA RequestsGoOn == LInv /\ LoopInv /\ (Request \/ Crash \/ UNCHANGED vars) => LoopInv'
<1> SUFFICES ASSUME LInv, LoopInv, Request \/ Crash \/ UNCHANGED vars PROVE LoopInv'
  OBVIOUS
<1>1. config' = config /\ config.maxRegenerations \in Nat
  BY ConfigIsFixed, LimitType DEF Next, LInv
<1>2. Idle.regenerations = 0 /\ Idle.completed = {} /\ Idle.node = "idle"
  BY DEF Idle
<1>3. ASSUME graph'.regenerations = 0, graph'.node \in {"begin", "mark_running"},
             "regenerate" \notin graph'.completed
      PROVE  LoopInv'
  BY <1>1, <1>2, <1>3 DEF LoopInv
<1>4. ASSUME NEW force \in BOOLEAN, NEW topicSeen \in BOOLEAN, Begin(force, topicSeen)
      PROVE  LoopInv'
  BY <1>3, <1>4 DEF Begin, Idle
<1>5. ASSUME NEW force \in BOOLEAN, Resume(force) PROVE LoopInv'
  <2>1. "regenerate" \notin CompletedSteps(outputs)
    BY DEF CompletedSteps, RecordedSteps
  <2> QED BY <1>3, <1>5, <2>1 DEF Resume, RestoredGraph, Idle
<1>6. CASE Revise
  BY <1>3, <1>6 DEF Revise, KeptByRevision, Idle
<1>7. CASE Reject \/ RecoverStale \/ UNCHANGED vars
           \/ \E override \in BOOLEAN : Approve(override)
  BY <1>1, <1>7 DEF Reject, RecoverStale, WithStatus, Approve, vars, LoopInv
<1>8. CASE Crash
  BY <1>1, <1>2, <1>8 DEF Crash, LoopInv
<1> QED BY <1>4, <1>5, <1>6, <1>7, <1>8 DEF Request

(* Every step of the process that works on the run brings it nearer to the *)
(* end of what it does, whatever the steps return and whatever a resume    *)
(* restores (runGraph).                                                    *)
ExecutionShrinks == Progress => StepsLeft' < StepsLeft

(* An execution ends: every step makes a natural number smaller that is 0  *)
(* when nothing works on the run, and the number is at most 16 and 6 for   *)
(* every regeneration the gate is allowed (the graph and its loop from     *)
(* quality over regenerate to writer).                                     *)
THEOREM ExecutionIsBounded ==
    Spec => /\ [][ExecutionShrinks]_vars
            /\ []( /\ StepsLeft \in 0..(16 + 6 * config.maxRegenerations)
                   /\ StepsLeft = 0 <=> Quiet)
<1>1. Init => LoopInv
  <2> SUFFICES ASSUME Init PROVE LoopInv
    OBVIOUS
  <2>1. config.maxRegenerations \in Nat
    BY InitHasTypes, LimitType
  <2> QED BY <2>1 DEF Init, LoopInv, Idle
<1>2. LInv /\ LoopInv /\ [Next]_vars => LoopInv'
  BY RequestsGoOn, InsideGoesOn, EndsGoOn DEF Next, Progress, InsideAction, EndAction
<1>3. LInv /\ LoopInv /\ [Next]_vars => [ExecutionShrinks]_vars
  BY InsideGoesOn, EndsGoOn DEF ExecutionShrinks, Progress, InsideAction, EndAction
<1>4. LInv /\ LoopInv => /\ StepsLeft \in 0..(16 + 6 * config.maxRegenerations)
                         /\ StepsLeft = 0 <=> Quiet
  <2> SUFFICES ASSUME LInv, LoopInv
               PROVE  /\ StepsLeft \in 0..(16 + 6 * config.maxRegenerations)
                      /\ StepsLeft = 0 <=> Quiet
    OBVIOUS
  <2>1. TypeOK /\ graph \in Graphs /\ config.maxRegenerations \in Nat
    BY LimitType DEF LInv, TypeOK
  <2>2. CASE graph = Idle
    <3>1. ApprovalLeft(approval) \in 0..2 /\ (ApprovalLeft(approval) = 0 <=> approval = "none")
      BY DEF ApprovalLeft
    <3> QED BY <2>1, <2>2, <3>1 DEF StepsLeft, Quiet
  <2>3. CASE graph # Idle
    <3>1. approval = "none" /\ StepsLeft = LoopLeft(graph) + 0
      BY <2>3 DEF LInv, StepsLeft, ApprovalLeft
    <3>2. LoopLeft(graph) \in Nat \ {0} /\ LoopLeft(graph) <= 16 + 6 * config.maxRegenerations
      BY <2>1, <2>3, LoopLeftType DEF LoopInv
    <3> QED BY <2>1, <2>3, <3>1, <3>2 DEF Quiet
  <2> QED BY <2>2, <2>3
<1> QED BY <1>1, <1>2, <1>3, <1>4, OrderInvariant, PTL DEF Spec
=============================================================================
