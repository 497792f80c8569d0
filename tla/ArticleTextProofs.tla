------------------------- MODULE ArticleTextProofs -------------------------
(***************************************************************************)
(* What is proved of the texts of a run, for every set of slugs, every     *)
(* configuration and every bound: which text may be sent, that a run which *)
(* says published is what readers see, that nothing goes live without a    *)
(* decision, and that a resume repeats the step that failed.               *)
(***************************************************************************)
EXTENDS ArticleRunProofs, FiniteSetTheorems

-----------------------------------------------------------------------------
(* How far an execution has come.  A step is behind it if it is completed  *)
(* or the graph has gone past its node.                                    *)

PastGate   == {"editorial_review", "classification", "publisher", "publisher_record", "end"}
PastSeo    == {"duplicate_check", "quality", "regenerate"} \cup PastGate
PastEditor == {"seo"} \cup PastSeo
PastWriter == {"editor"} \cup PastEditor
Working    == InGraph \cup {"mark_running"}

HasWriter == "writer" \in graph.completed \/ graph.node \in PastWriter
HasEditor == "editor" \in graph.completed \/ graph.node \in PastEditor
HasSeo    == "seo" \in graph.completed \/ graph.node \in PastSeo

(* The text in hand passed the gate, and the review: at the end only if    *)
(* the execution was not stopped as a duplicate on the way.                *)
Passed ==
    /\ graph.quality = "passed"
    /\ graph.node \in PastGate
    /\ graph.node = "end" => graph.force \/ ~graph.duplicate

Reviewed == Passed /\ graph.node # "editorial_review" /\ config.review

(* What is not about the request or the end of an execution.               *)
OtherAction ==
    \/ Request \/ EndAction \/ CompleteApproval \/ Crash \/ UNCHANGED vars
    \/ \E result \in {"ok", "error"} : SendApproved(result)

LEMMA InsideOrOther == [Next]_vars => InsideAction \/ OtherAction
  BY DEF Next, Progress, InsideAction, EndAction, OtherAction

LEMMA StatusWritten ==
    ASSUME TypeOK, NEW status, NEW failedStep
    PROVE  /\ WithStatus(status, failedStep).status = status
           /\ WithStatus(status, failedStep).failedStep = failedStep
           /\ WithStatus(status, failedStep).history = run.history
  BY DEF TypeOK, Runs, WithStatus

(* A step that is skipped or whose output says nothing of the text.        *)
PassingStep ==
    /\ graph.node \in Steps \ {"regenerate"}
    /\ \/ graph.node \in graph.completed
       \/ graph.node \in {"read_sources", "planner", "find_links", "classification", "duplicate_check"}
    /\ graph'.node = After(graph', graph.node)
    /\ graph'.article = graph.article /\ graph'.edited = graph.edited /\ graph'.seo = graph.seo
    /\ graph'.quality = graph.quality /\ graph'.published = graph.published
    /\ graph'.completed = graph.completed /\ graph'.force = graph.force
    /\ outputs'.writer = outputs.writer /\ outputs'.editor = outputs.editor
    /\ outputs'.seo = outputs.seo /\ outputs'.quality = outputs.quality
    /\ outputs'.editorial_review = outputs.editorial_review
    /\ outputs'.publisher = outputs.publisher
    /\ UNCHANGED <<config, run, article, approval, target, texts, judged>>

(* The shape of a graph state and of the rows.                             *)
GraphShape ==
    /\ HasEditor => graph.edited # 0
    /\ HasSeo => graph.seo.slug \in Slugs
    /\ "regenerate" \notin graph.completed
    /\ "quality" \in graph.completed /\ graph.node \notin PastGate => graph.quality = "passed"
    /\ graph.node = "regenerate" => graph.quality # "passed"
    /\ graph.node \in {"editorial_review", "publisher", "publisher_record"}
         => graph.quality = "passed"
    /\ graph.node = "editorial_review" => config.review
    /\ graph.node = "publisher_record" => "publisher" \notin graph.completed

RowShape ==
    /\ graph.node = "begin" \/ run.status = "none" => outputs = NoOutputs
    /\ outputs.seo # NoSeo => outputs.seo.slug \in Slugs
    /\ article # NoArticle => article.slug \in Slugs
    /\ approval # "none" => article # NoArticle

SInv == LInv /\ GraphShape /\ RowShape

LEMMA PassingSteps ==
    ASSUME LInv, GraphShape,
           Skip \/ ReadSources \/ Plan \/ FindLinks \/ Classify \/ CheckDuplicate
    PROVE  PassingStep
<1> USE DEF LInv, TypeOK, Graphs, OutputRows, GraphShape, PassingStep, Leave, After,
            AfterClassification, Executes, Record, Steps
<1>1. CASE Skip
  BY <1>1 DEF Skip
<1>2. CASE ReadSources
  BY <1>2 DEF ReadSources
<1>3. CASE Plan
  BY <1>3 DEF Plan
<1>4. CASE FindLinks
  BY <1>4 DEF FindLinks
<1>5. CASE Classify
  BY <1>5 DEF Classify
<1>6. CASE CheckDuplicate
  BY <1>6 DEF CheckDuplicate, StoredDuplicate, RemoteDuplicate
<1> QED BY <1>1, <1>2, <1>3, <1>4, <1>5, <1>6

LEMMA InsideKeepsGraphShape ==
    ASSUME LInv, GraphShape, InsideAction
    PROVE  GraphShape'
<1> USE DEF LInv, TypeOK, Graphs, GraphShape, HasEditor, HasSeo, PastEditor, PastSeo, PastGate,
            Leave, After, Executes
<1>1. CASE Skip \/ ReadSources \/ Plan \/ FindLinks \/ Classify \/ CheckDuplicate
  BY <1>1, PassingSteps DEF PassingStep, AfterClassification, Steps
<1>2. CASE Write
  BY <1>2 DEF Write
<1>3. CASE Edit
  BY <1>3 DEF Edit
<1>4. CASE \E slug \in Slugs : Describe(slug)
  BY <1>4 DEF Describe
<1>5. CASE \E verdict \in {"passed", "rejected"} : JudgeQuality(verdict)
  BY <1>5 DEF JudgeQuality
<1>6. CASE \E verdict \in {"passed", "rejected"} : ReviewEditorially(verdict)
  BY <1>6 DEF ReviewEditorially
<1>7. CASE Regenerate
  BY <1>7 DEF Regenerate
<1>8. CASE \E result \in {"ok", "error"} : SendToTarget(result)
  BY <1>8 DEF SendToTarget
<1>9. CASE RecordPublish
  BY <1>9 DEF RecordPublish
<1> QED BY <1>1, <1>2, <1>3, <1>4, <1>5, <1>6, <1>7, <1>8, <1>9 DEF InsideAction

(* What a resume starts from.                                              *)
LEMMA Restored ==
    ASSUME LInv, NEW force \in BOOLEAN, Resume(force)
    PROVE  /\ graph'.node = "mark_running" /\ graph'.completed = CompletedSteps(outputs)
           /\ graph'.edited = outputs.editor /\ graph'.seo = outputs.seo
           /\ graph'.quality = IF outputs.quality = "passed" THEN "passed" ELSE "none"
           /\ graph'.published = IF outputs.publisher = "ok" THEN "ok" ELSE "none"
           /\ "writer" \in graph'.completed <=> outputs.writer # 0
           /\ "editor" \in graph'.completed <=> outputs.editor # 0
           /\ "seo" \in graph'.completed <=> outputs.seo # NoSeo
           /\ "quality" \in graph'.completed <=> outputs.quality = "passed"
           /\ "editorial_review" \in graph'.completed <=> outputs.editorial_review = "passed"
           /\ "publisher" \in graph'.completed <=> outputs.publisher = "ok"
           /\ "regenerate" \notin graph'.completed
<1>1. /\ graph'.node = "mark_running" /\ graph'.completed = CompletedSteps(outputs)
      /\ graph'.edited = outputs.editor /\ graph'.seo = outputs.seo
      /\ graph'.quality = IF outputs.quality = "passed" THEN "passed" ELSE "none"
      /\ graph'.published = IF outputs.publisher = "ok" THEN "ok" ELSE "none"
  BY IdleType DEF Resume, RestoredGraph, Graphs
<1> QED BY <1>1 DEF LInv, TypeOK, OutputRows, Verdicts, Results,
                    CompletedSteps, RecordedSteps, Inconclusive

LEMMA OthersKeepGraphShape ==
    ASSUME LInv, GraphShape, RowShape, OtherAction
    PROVE  GraphShape'
<1> USE DEF LInv, TypeOK, Graphs, GraphShape, HasEditor, HasSeo, PastEditor, PastSeo, PastGate
<1>1. graph' = Idle => GraphShape'
  BY DEF Idle
<1>2. UNCHANGED <<graph, config>> => GraphShape'
  OBVIOUS
<1>3. ASSUME NEW force \in BOOLEAN, NEW topicSeen \in BOOLEAN, Begin(force, topicSeen)
      PROVE  GraphShape'
  BY <1>3, IdleType DEF Begin, Idle
<1>4. ASSUME NEW force \in BOOLEAN, Resume(force) PROVE GraphShape'
  BY <1>4, Restored DEF RowShape
<1>5. CASE Revise
  BY <1>5, IdleType DEF Revise, KeptByRevision, Idle
<1>6. CASE Reject \/ RecoverStale \/ \E override \in BOOLEAN : Approve(override)
  BY <1>2, <1>6 DEF Reject, RecoverStale, Approve
<1>7. CASE StopAsTopicDuplicate \/ FailStep \/ StopAsDuplicate \/ Finish \/ Crash
  BY <1>1, <1>7 DEF StopAsTopicDuplicate, FailStep, StopAsDuplicate, Finish, Crash
<1>8. CASE MarkRunning
  BY <1>8 DEF MarkRunning
<1>9. CASE UNCHANGED vars \/ CompleteApproval \/ \E result \in {"ok", "error"} : SendApproved(result)
  BY <1>2, <1>9 DEF CompleteApproval, SendApproved, vars
<1> QED BY <1>3, <1>4, <1>5, <1>6, <1>7, <1>8, <1>9 DEF OtherAction, Request, EndAction

LEMMA InsideKeepsRowShape ==
    ASSUME LInv, GraphShape, RowShape, InsideAction
    PROVE  RowShape'
<1>1. /\ graph'.node # "begin" /\ run'.status = "running" /\ UNCHANGED <<article, approval>>
  BY InsideActions, NodesApart DEF Inside, LInv
<1>2. outputs'.seo # NoSeo => outputs'.seo.slug \in Slugs
  <2> USE DEF LInv, TypeOK, OutputRows, RowShape, Record
  <2>1. CASE Skip \/ ReadSources \/ Plan \/ FindLinks \/ Classify \/ CheckDuplicate
    BY <2>1, PassingSteps DEF PassingStep
  <2>2. CASE \E slug \in Slugs : Describe(slug)
    BY <2>2 DEF Describe
  <2>3. CASE \/ Write \/ Edit \/ Regenerate \/ RecordPublish
             \/ \E verdict \in {"passed", "rejected"} : JudgeQuality(verdict) \/ ReviewEditorially(verdict)
             \/ \E result \in {"ok", "error"} : SendToTarget(result)
    BY <2>3 DEF Write, Edit, Regenerate, RecordPublish, JudgeQuality, ReviewEditorially, SendToTarget
  <2> QED BY <2>1, <2>2, <2>3 DEF InsideAction
<1> QED BY <1>1, <1>2 DEF RowShape

LEMMA OthersKeepRowShape ==
    ASSUME LInv, GraphShape, RowShape, OtherAction
    PROVE  RowShape'
<1> USE DEF LInv, TypeOK, RowShape, Runs, Graphs
<1>1. UNCHANGED outputs
  BY DEF OtherAction, Request, EndAction, Begin, Resume, Revise, Reject, RecoverStale, Approve,
         StopAsTopicDuplicate, MarkRunning, FailStep, StopAsDuplicate, Finish, CompleteApproval,
         Crash, SendApproved, vars
<1>2. graph'.node = "begin" \/ run'.status = "none" => outputs = NoOutputs
  <2>1. CASE Request
    <3>1. CASE \E force, topicSeen \in BOOLEAN : Begin(force, topicSeen)
      BY <3>1 DEF Begin
    <3>2. CASE \E force \in BOOLEAN : Resume(force)
      BY <3>2, Restored DEF Resume, MayResume
    <3>3. CASE Revise
      BY <3>3, IdleType DEF Revise, MayReview, ReviewableStatuses
    <3>4. CASE Reject \/ RecoverStale \/ \E override \in BOOLEAN : Approve(override)
      BY <3>4 DEF Reject, RecoverStale, Approve, WithStatus
    <3> QED BY <2>1, <3>1, <3>2, <3>3, <3>4 DEF Request
  <2>2. CASE EndAction
    <3>1. CASE Finish
      <4>1. run'.status = OutcomeOf(graph)
        BY <3>1 DEF Finish, WithStatus
      <4>2. OutcomeOf(graph) # "none"
        BY DEF OutcomeOf
      <4>3. graph'.node # "begin"
        BY <3>1, NodesApart DEF Finish
      <4> QED BY <4>1, <4>2, <4>3
    <3>2. CASE MarkRunning
      BY <3>2 DEF MarkRunning, WithStatus
    <3>3. CASE StopAsTopicDuplicate \/ FailStep \/ StopAsDuplicate
      BY <3>3, NodesApart, StatusWritten DEF StopAsTopicDuplicate, FailStep, StopAsDuplicate
    <3> QED BY <2>2, <3>1, <3>2, <3>3 DEF EndAction
  <2>3. CASE CompleteApproval \/ Crash \/ UNCHANGED vars \/ \E result \in {"ok", "error"} : SendApproved(result)
    BY <2>3, NodesApart DEF CompleteApproval, Crash, SendApproved, vars, WithStatus
  <2> QED BY <2>1, <2>2, <2>3 DEF OtherAction
<1>3. article' # NoArticle => article'.slug \in Slugs
  <2>1. CASE Finish
    BY <2>1 DEF Finish, FinishedArticle, GraphShape, HasSeo, PastSeo, PastGate
  <2>2. CASE Reject \/ CompleteApproval \/ \E override \in BOOLEAN : Approve(override)
    <3>1. article = NoArticle => article' = NoArticle
      BY <2>2 DEF Reject, CompleteApproval, Approve, RejectedArticle, MayApprove
    <3>2. article'.slug = article.slug
      BY <2>2 DEF Reject, CompleteApproval, Approve, RejectedArticle, PublishedArticle, ApprovedArticle,
                  ArticleRow
    <3> QED BY <3>1, <3>2
  <2>3. CASE \/ \E force, topicSeen \in BOOLEAN : Begin(force, topicSeen)
             \/ \E force \in BOOLEAN : Resume(force)
             \/ Revise \/ RecoverStale \/ StopAsTopicDuplicate \/ MarkRunning \/ FailStep
             \/ StopAsDuplicate \/ Crash \/ UNCHANGED vars
             \/ \E result \in {"ok", "error"} : SendApproved(result)
    BY <2>3 DEF Begin, Resume, Revise, RecoverStale, StopAsTopicDuplicate, MarkRunning, FailStep,
                StopAsDuplicate, Crash, SendApproved, vars
  <2> QED BY <2>1, <2>2, <2>3 DEF OtherAction, Request, EndAction
<1>4. approval' # "none" => article' # NoArticle
  <2>1. ASSUME NEW override \in BOOLEAN, Approve(override) PROVE article' # NoArticle
    BY <2>1 DEF Approve, ApprovedArticle, ArticleRow, NoArticle
  <2>2. CASE CompleteApproval \/ Crash
    BY <2>2 DEF CompleteApproval, Crash
  <2>3. CASE UNCHANGED vars \/ \E result \in {"ok", "error"} : SendApproved(result)
    BY <2>3 DEF SendApproved, vars
  <2>4. CASE \/ \E force, topicSeen \in BOOLEAN : Begin(force, topicSeen)
             \/ \E force \in BOOLEAN : Resume(force)
             \/ Revise \/ Reject \/ RecoverStale
    BY <2>4 DEF Begin, Resume, Revise, Reject, RecoverStale, Quiet
  <2>5. CASE EndAction
    BY <2>5, NodesApart DEF EndAction, StopAsTopicDuplicate, MarkRunning, FailStep, StopAsDuplicate, Finish,
                            FallibleSteps, Steps, InGraph
  <2> QED BY <2>1, <2>2, <2>3, <2>4, <2>5 DEF OtherAction, Request
<1> QED BY <1>1, <1>2, <1>3, <1>4

LEMMA NextKeepsShape == SInv /\ [Next]_vars => SInv'
  BY NextKeepsOrder, InsideOrOther, InsideKeepsGraphShape, OthersKeepGraphShape,
     InsideKeepsRowShape, OthersKeepRowShape DEF SInv

LEMMA InitHasShape == Init => SInv
  BY InitOrders DEF Init, SInv, GraphShape, RowShape, HasEditor, HasSeo, PastEditor, PastSeo, PastGate, Idle,
     NoOutputs

-----------------------------------------------------------------------------
(* An approval acts on the text the approver saw, and one that is confirmed *)
(* has it live.                                                            *)
ApprovalInv ==
    /\ approval # "none" =>
         /\ article.approved
         /\ article.gatePassed \/ article.override
         /\ article.text \in judged.approver
    /\ approval = "ok" => target[article.slug] = [state |-> "live", text |-> article.text]

LEMMA PostedIsLive ==
    ASSUME TypeOK, NEW slug \in Slugs, NEW text, target' = Posted(slug, text, TRUE)
    PROVE  /\ target'[slug] = [state |-> "live", text |-> text]
           /\ \A s \in Slugs : s # slug => target'[s] = target[s]
  BY DEF TypeOK, Posted

LEMMA NextKeepsApproval ==
    ASSUME SInv, ApprovalInv, [Next]_vars
    PROVE  ApprovalInv'
<1> USE DEF SInv, LInv, TypeOK, ApprovalInv
<1>1. CASE InsideAction
  <2>1. UNCHANGED approval /\ approval = "none"
    BY <1>1, InsideActions, NodesApart DEF Inside
  <2> QED BY <2>1
<1>2. ASSUME NEW override \in BOOLEAN, Approve(override) PROVE ApprovalInv'
  BY <1>2 DEF Approve, ApprovedArticle, MayApprove, ArticleRow
<1>3. ASSUME NEW result \in {"ok", "error"}, SendApproved(result) PROVE ApprovalInv'
  <2>1. article.slug \in Slugs
    BY <1>3 DEF SendApproved, RowShape
  <2>2. result = "ok" => target' = Posted(article.slug, article.text, TRUE)
    BY <1>3 DEF SendApproved, Publish
  <2> QED BY <1>3, <2>1, <2>2, PostedIsLive DEF SendApproved
<1>4. CASE CompleteApproval \/ Crash \/ UNCHANGED vars
  BY <1>4 DEF CompleteApproval, Crash, vars
<1>5. CASE EndAction
  <2>1. UNCHANGED approval /\ approval = "none"
    BY <1>5, NodesApart DEF EndAction, StopAsTopicDuplicate, MarkRunning, FailStep, StopAsDuplicate, Finish,
                            FallibleSteps, Steps, InGraph
  <2> QED BY <2>1
<1>6. CASE \/ \E force, topicSeen \in BOOLEAN : Begin(force, topicSeen)
           \/ \E force \in BOOLEAN : Resume(force)
           \/ Revise \/ Reject \/ RecoverStale
  BY <1>6 DEF Begin, Resume, Revise, Reject, RecoverStale, Quiet
<1> QED BY <1>1, <1>2, <1>3, <1>4, <1>5, <1>6, InsideOrOther DEF OtherAction, Request

-----------------------------------------------------------------------------
(* Unless records are lost, what the execution holds is what is on record. *)
RecordInv ==
    ~config.recordsLost =>
        /\ HasWriter => outputs.writer # 0
        /\ HasEditor => outputs.editor = graph.edited
        /\ HasSeo => outputs.seo = graph.seo
        /\ "quality" \in graph.completed \/ Passed => outputs.quality = "passed"
        /\ "editorial_review" \in graph.completed \/ Reviewed => outputs.editorial_review = "passed"

LEMMA InsideKeepsRecords ==
    ASSUME SInv, RecordInv, InsideAction, ~config.recordsLost
    PROVE  RecordInv'
<1> USE DEF SInv, LInv, TypeOK, Graphs, OutputRows, RecordInv, HasWriter, HasEditor, HasSeo, PastWriter,
            PastEditor, PastSeo, PastGate, Passed, Reviewed, Leave, After, Executes, Record
<1>1. CASE Skip \/ ReadSources \/ Plan \/ FindLinks \/ Classify \/ CheckDuplicate
  BY <1>1, PassingSteps DEF PassingStep, AfterClassification, Steps
<1>2. CASE Write
  BY <1>2 DEF Write
<1>3. CASE Edit
  BY <1>3 DEF Edit
<1>4. CASE \E slug \in Slugs : Describe(slug)
  BY <1>4 DEF Describe
<1>5. CASE \E verdict \in {"passed", "rejected"} : JudgeQuality(verdict)
  BY <1>5 DEF JudgeQuality
<1>6. CASE \E verdict \in {"passed", "rejected"} : ReviewEditorially(verdict)
  BY <1>6 DEF ReviewEditorially, GraphShape
<1>7. CASE Regenerate
  BY <1>7 DEF Regenerate
<1>8. CASE \E result \in {"ok", "error"} : SendToTarget(result)
  BY <1>8 DEF SendToTarget
<1>9. CASE RecordPublish
  BY <1>9 DEF RecordPublish
<1> QED BY <1>1, <1>2, <1>3, <1>4, <1>5, <1>6, <1>7, <1>8, <1>9 DEF InsideAction

LEMMA OthersKeepRecords ==
    ASSUME SInv, RecordInv, OtherAction
    PROVE  RecordInv'
<1> USE DEF SInv, LInv, TypeOK, Graphs, RecordInv, HasWriter, HasEditor, HasSeo,
            PastWriter, PastEditor, PastSeo, PastGate, Passed, Reviewed
<1>0. UNCHANGED config
  BY ConfigIsFixed, InsideOrOther DEF OtherAction, Next, Progress, EndAction
<1>1. graph' = Idle => RecordInv'
  BY DEF Idle
<1>2. UNCHANGED <<graph, outputs>> => RecordInv'
  BY <1>0
<1>3. ASSUME NEW force \in BOOLEAN, NEW topicSeen \in BOOLEAN, Begin(force, topicSeen)
      PROVE  RecordInv'
  BY <1>3, IdleType DEF Begin, Idle
<1>4. ASSUME NEW force \in BOOLEAN, Resume(force) PROVE RecordInv'
  <2>1. UNCHANGED outputs
    BY <1>4 DEF Resume
  <2> QED BY <1>4, <2>1, Restored
<1>5. CASE Revise
  BY <1>5, IdleType DEF Revise, KeptByRevision, Idle
<1>6. CASE Reject \/ RecoverStale \/ \E override \in BOOLEAN : Approve(override)
  BY <1>2, <1>6 DEF Reject, RecoverStale, Approve
<1>7. CASE StopAsTopicDuplicate \/ FailStep \/ StopAsDuplicate \/ Finish \/ Crash
  BY <1>1, <1>7 DEF StopAsTopicDuplicate, FailStep, StopAsDuplicate, Finish, Crash
<1>8. CASE MarkRunning
  BY <1>8 DEF MarkRunning
<1>9. CASE UNCHANGED vars \/ CompleteApproval \/ \E result \in {"ok", "error"} : SendApproved(result)
  BY <1>2, <1>9 DEF CompleteApproval, SendApproved, vars
<1> QED BY <1>3, <1>4, <1>5, <1>6, <1>7, <1>8, <1>9 DEF OtherAction, Request, EndAction

LEMMA NextKeepsRecords == SInv /\ RecordInv /\ [Next]_vars => RecordInv'
<1>1. config.recordsLost /\ [Next]_vars => RecordInv'
  BY ConfigIsFixed DEF RecordInv
<1> QED BY <1>1, InsideOrOther, InsideKeepsRecords, OthersKeepRecords

-----------------------------------------------------------------------------
(* A text that counts as judged is the very text that was judged: in the   *)
(* graph state, and in the records a resume of a run that was never        *)
(* revised starts from.                                                    *)
GateInv ==
    RecordsAgree =>
        /\ "quality" \in graph.completed =>
             {"writer", "editor", "seo"} \subseteq graph.completed /\ graph.edited \in judged.gate
        /\ "editorial_review" \in graph.completed =>
             "quality" \in graph.completed /\ graph.edited \in judged.review
        /\ Passed => graph.edited \in judged.gate
        /\ Reviewed => graph.edited \in judged.review
        /\ article.gatePassed => Judged(article.text)

StraightInv ==
    ~config.recordsLost /\ run.history = "straight" =>
        /\ outputs.quality = "passed" =>
             /\ outputs.writer # 0 /\ outputs.editor # 0 /\ outputs.seo # NoSeo
             /\ outputs.editor \in judged.gate
             /\ graph.node \in Working => "quality" \in graph.completed \/ graph.node \in PastGate
        /\ outputs.editorial_review = "passed" =>
             outputs.quality = "passed" /\ outputs.editor \in judged.review

TInv == SInv /\ ApprovalInv /\ RecordInv /\ GateInv /\ StraightInv

LEMMA InsideKeepsGate ==
    ASSUME TInv, InsideAction, RecordsAgree
    PROVE  GateInv'
<1> USE DEF TInv, SInv, LInv, TypeOK, Graphs, GateInv, RecordsAgree, Judged, Passed, Reviewed, PastGate,
            Leave, After, Executes
<1>1. CASE Skip \/ ReadSources \/ Plan \/ FindLinks \/ Classify \/ CheckDuplicate
  BY <1>1, PassingSteps DEF PassingStep, AfterClassification, Steps
<1>2. CASE Write
  BY <1>2 DEF Write
<1>3. CASE Edit
  BY <1>3 DEF Edit
<1>4. CASE \E slug \in Slugs : Describe(slug)
  BY <1>4 DEF Describe
<1>5. ASSUME NEW verdict \in {"passed", "rejected"}, JudgeQuality(verdict) PROVE GateInv'
  <2>1. CurrentArticle(graph) = graph.edited
    BY <1>5 DEF JudgeQuality, CurrentArticle, GraphShape, HasEditor, PastEditor, PastSeo
  <2>2. judged.gate \subseteq judged'.gate /\ judged.review \subseteq judged'.review
    BY <1>5 DEF JudgeQuality
  <2>3. verdict = "passed" => graph.edited \in judged'.gate
    BY <1>5, <2>1 DEF JudgeQuality
  <2> QED BY <1>5, <2>2, <2>3 DEF JudgeQuality
<1>6. ASSUME NEW verdict \in {"passed", "rejected"}, ReviewEditorially(verdict) PROVE GateInv'
  <2>1. CurrentArticle(graph) = graph.edited
    BY <1>6 DEF ReviewEditorially, CurrentArticle, GraphShape, HasEditor, PastEditor, PastSeo
  <2>2. judged.gate \subseteq judged'.gate /\ judged.review \subseteq judged'.review
    BY <1>6 DEF ReviewEditorially
  <2>3. verdict = "passed" => graph.edited \in judged'.review
    BY <1>6, <2>1 DEF ReviewEditorially
  <2> QED BY <1>6, <2>2, <2>3 DEF ReviewEditorially
<1>7. CASE Regenerate
  BY <1>7 DEF Regenerate
<1>8. CASE \E result \in {"ok", "error"} : SendToTarget(result)
  BY <1>8 DEF SendToTarget
<1>9. CASE RecordPublish
  BY <1>9 DEF RecordPublish
<1> QED BY <1>1, <1>2, <1>3, <1>4, <1>5, <1>6, <1>7, <1>8, <1>9 DEF InsideAction

LEMMA InsideKeepsStraight ==
    ASSUME TInv, InsideAction, ~config.recordsLost, run.history = "straight"
    PROVE  StraightInv'
<1> USE DEF TInv, SInv, LInv, TypeOK, Graphs, OutputRows, GateInv, RecordsAgree, StraightInv, PastGate,
            Leave, After, Executes, Record
<1>0. graph'.node \in Working /\ UNCHANGED run
  BY InsideActions DEF Inside, Working
<1>00. graph.node \in Working
  BY InsideActions DEF Inside, Working
<1>1. CASE Skip \/ ReadSources \/ Plan \/ FindLinks \/ Classify \/ CheckDuplicate
  BY <1>1, <1>00, PassingSteps DEF PassingStep, AfterClassification, Steps
<1>2. CASE Write
  BY <1>2, <1>00 DEF Write
<1>3. CASE Edit
  BY <1>3, <1>00 DEF Edit
<1>4. CASE \E slug \in Slugs : Describe(slug)
  BY <1>4, <1>00 DEF Describe
<1>5. ASSUME NEW verdict \in {"passed", "rejected"}, JudgeQuality(verdict) PROVE StraightInv'
  <2>1. CurrentArticle(graph) = graph.edited
    BY <1>5 DEF JudgeQuality, CurrentArticle, GraphShape, HasEditor, PastEditor, PastSeo
  <2>2. judged.gate \subseteq judged'.gate /\ judged.review \subseteq judged'.review
    BY <1>5 DEF JudgeQuality
  <2>3. verdict = "passed" => graph.edited \in judged'.gate
    BY <1>5, <2>1 DEF JudgeQuality
  <2>4. outputs.quality # "passed"
    BY <1>5, <1>00 DEF JudgeQuality
  <2>5. /\ outputs.writer # 0 /\ outputs.editor = graph.edited /\ outputs.editor # 0
        /\ outputs.seo = graph.seo /\ outputs.seo # NoSeo
    BY <1>5, NoSlugAssumption DEF JudgeQuality, GraphShape, RecordInv, HasWriter, HasEditor, HasSeo,
                PastWriter, PastEditor, PastSeo, NoSeo
  <2> QED BY <1>5, <2>2, <2>3, <2>4, <2>5 DEF JudgeQuality
<1>6. ASSUME NEW verdict \in {"passed", "rejected"}, ReviewEditorially(verdict) PROVE StraightInv'
  <2>1. CurrentArticle(graph) = graph.edited
    BY <1>6 DEF ReviewEditorially, CurrentArticle, GraphShape, HasEditor, PastEditor, PastSeo
  <2>2. judged.gate \subseteq judged'.gate /\ judged.review \subseteq judged'.review
    BY <1>6 DEF ReviewEditorially
  <2>3. verdict = "passed" => graph.edited \in judged'.review
    BY <1>6, <2>1 DEF ReviewEditorially
  <2>4. outputs.quality = "passed" /\ outputs.editor = graph.edited
    BY <1>6 DEF ReviewEditorially, GraphShape, RecordInv, Passed, HasEditor, PastEditor, PastSeo
  <2> QED BY <1>6, <2>2, <2>3, <2>4 DEF ReviewEditorially
<1>7. CASE Regenerate
  BY <1>7, <1>00 DEF Regenerate, GraphShape
<1>8. CASE \E result \in {"ok", "error"} : SendToTarget(result)
  BY <1>8 DEF SendToTarget
<1>9. CASE RecordPublish
  BY <1>9 DEF RecordPublish
<1> QED BY <1>1, <1>2, <1>3, <1>4, <1>5, <1>6, <1>7, <1>8, <1>9 DEF InsideAction

LEMMA OthersKeepGate ==
    ASSUME TInv, OtherAction
    PROVE  GateInv'
<1> USE DEF TInv, SInv, LInv, TypeOK, Graphs, Runs, GateInv, RecordsAgree, Judged, Passed, Reviewed, PastGate
<1>0. UNCHANGED config
  BY ConfigIsFixed, InsideOrOther DEF OtherAction, Next, Progress, EndAction
<1>1. graph' = Idle /\ UNCHANGED <<run, article, judged>> => GateInv'
  BY <1>0 DEF Idle
<1>2. ASSUME NEW force \in BOOLEAN, NEW topicSeen \in BOOLEAN, Begin(force, topicSeen)
      PROVE  GateInv'
  BY <1>2, IdleType DEF Begin, Idle
<1>3. ASSUME NEW force \in BOOLEAN, Resume(force) PROVE GateInv'
  <2>1. UNCHANGED <<outputs, article, judged>>
    BY <1>3 DEF Resume
  <2>2. RecordsAgree' => run.history = "straight"
    BY <1>3 DEF Resume
  <2> QED BY <1>0, <1>3, <2>1, <2>2, Restored DEF StraightInv
<1>4. CASE Revise
  <2>1. graph'.completed \cap {"quality", "editorial_review"} = {} /\ graph'.node = "mark_running"
    BY <1>4, IdleType DEF Revise, KeptByRevision, Idle
  <2>2. UNCHANGED <<article, judged>>
    BY <1>4 DEF Revise
  <2>3. RecordsAgree' => RecordsAgree
    BY <1>0, <1>4 DEF Revise
  <2> QED BY <1>0, <2>1, <2>2, <2>3
<1>5. CASE Reject
  <2>1. article'.gatePassed = article.gatePassed /\ article'.text = article.text
    BY <1>5 DEF Reject, RejectedArticle, ArticleRow
  <2> QED BY <1>5, <2>1 DEF Reject, WithStatus
<1>6. CASE RecoverStale
  BY <1>6 DEF RecoverStale, WithStatus
<1>7. ASSUME NEW override \in BOOLEAN, Approve(override) PROVE GateInv'
  <2>1. article'.gatePassed = article.gatePassed /\ article'.text = article.text
    BY <1>7 DEF Approve, ApprovedArticle, ArticleRow
  <2>2. UNCHANGED <<config, graph, run>> /\ judged'.gate = judged.gate /\ judged'.review = judged.review
    BY <1>7 DEF Approve
  <2> QED BY <2>1, <2>2
<1>8. CASE StopAsTopicDuplicate \/ FailStep \/ StopAsDuplicate \/ Crash
  <2>1. graph' = Idle /\ UNCHANGED <<article, judged>> /\ run'.history = run.history
    BY <1>8, StatusWritten DEF StopAsTopicDuplicate, FailStep, StopAsDuplicate, Crash
  <2> QED BY <1>0, <2>1 DEF Idle
<1>9. CASE Finish
  <2>1. /\ graph' = Idle /\ UNCHANGED judged /\ run'.history = run.history
        /\ article'.text = graph.edited
        /\ article'.gatePassed <=> graph.quality = "passed"
    BY <1>9 DEF Finish, WithStatus, FinishedArticle
  <2>2. graph.quality = "passed" => Passed /\ (config.review => Reviewed)
    BY <1>9 DEF Finish
  <2> QED BY <1>0, <2>1, <2>2 DEF Idle
<1>10. CASE MarkRunning
  BY <1>10 DEF MarkRunning, WithStatus
<1>11. CASE CompleteApproval
  <2>1. article'.gatePassed = article.gatePassed /\ article'.text = article.text
    BY <1>11 DEF CompleteApproval, PublishedArticle, ArticleRow
  <2> QED BY <1>11, <2>1 DEF CompleteApproval, WithStatus
<1>12. CASE UNCHANGED vars \/ \E result \in {"ok", "error"} : SendApproved(result)
  BY <1>12 DEF SendApproved, vars
<1> QED BY <1>2, <1>3, <1>4, <1>5, <1>6, <1>7, <1>8, <1>9, <1>10, <1>11, <1>12
        DEF OtherAction, Request, EndAction

LEMMA OthersKeepStraight ==
    ASSUME TInv, OtherAction
    PROVE  StraightInv'
<1> USE DEF TInv, SInv, LInv, TypeOK, Graphs, Runs, StraightInv, Working, InGraph, Steps, PastGate
<1>0. /\ UNCHANGED <<config, outputs>>
      /\ judged.gate \subseteq judged'.gate /\ judged.review \subseteq judged'.review
  <2>1. UNCHANGED config
    BY ConfigIsFixed, InsideOrOther DEF OtherAction, Next, Progress, EndAction
  <2>2. /\ UNCHANGED outputs
        /\ judged.gate \subseteq judged'.gate /\ judged.review \subseteq judged'.review
    BY DEF OtherAction, Request, EndAction, Begin, Resume, Revise, Reject, RecoverStale, Approve,
           StopAsTopicDuplicate, MarkRunning, FailStep, StopAsDuplicate, Finish, CompleteApproval,
           Crash, SendApproved, vars
  <2> QED BY <2>1, <2>2
<1>1. graph' = Idle /\ run'.history = run.history => StraightInv'
  BY <1>0 DEF Idle
<1>2. UNCHANGED graph /\ run'.history = run.history => StraightInv'
  BY <1>0
<1>3. ASSUME NEW force \in BOOLEAN, NEW topicSeen \in BOOLEAN, Begin(force, topicSeen)
      PROVE  StraightInv'
  BY <1>0, <1>3, IdleType DEF Begin, Idle
<1>4. ASSUME NEW force \in BOOLEAN, Resume(force) PROVE StraightInv'
  <2>1. run'.history = "straight" => run.history = "straight"
    BY <1>4 DEF Resume
  <2> QED BY <1>0, <1>4, <2>1, Restored
<1>5. CASE Revise
  BY <1>5 DEF Revise, Histories
<1>6. CASE Reject \/ RecoverStale \/ \E override \in BOOLEAN : Approve(override)
  BY <1>2, <1>6 DEF Reject, RecoverStale, Approve, WithStatus
<1>7. CASE StopAsTopicDuplicate \/ FailStep \/ StopAsDuplicate \/ Finish \/ Crash
  <2>1. graph' = Idle /\ run'.history = run.history
    BY <1>7, StatusWritten DEF StopAsTopicDuplicate, FailStep, StopAsDuplicate, Finish, Crash
  <2> QED BY <1>1, <2>1
<1>8. CASE MarkRunning
  BY <1>0, <1>8 DEF MarkRunning, WithStatus, RowShape, NoOutputs
<1>9. CASE UNCHANGED vars \/ CompleteApproval \/ \E result \in {"ok", "error"} : SendApproved(result)
  BY <1>2, <1>9 DEF CompleteApproval, SendApproved, vars, WithStatus
<1> QED BY <1>3, <1>4, <1>5, <1>6, <1>7, <1>8, <1>9 DEF OtherAction, Request, EndAction

LEMMA NextKeepsTexts == TInv /\ [Next]_vars => TInv'
<1> SUFFICES ASSUME TInv, [Next]_vars PROVE TInv'
  OBVIOUS
<1>1. SInv' /\ ApprovalInv' /\ RecordInv'
  BY NextKeepsShape, NextKeepsApproval, NextKeepsRecords DEF TInv
<1>2. CASE InsideAction
  <2>1. config' = config /\ run' = run
    BY <1>2, ConfigIsFixed, InsideActions DEF Inside, TInv, SInv, LInv
  <2>2. GateInv'
    BY <1>2, <2>1, InsideKeepsGate DEF GateInv, RecordsAgree
  <2>3. StraightInv'
    BY <1>2, <2>1, InsideKeepsStraight DEF StraightInv
  <2> QED BY <1>1, <2>2, <2>3 DEF TInv
<1>3. CASE OtherAction
  BY <1>1, <1>3, OthersKeepGate, OthersKeepStraight DEF TInv
<1> QED BY <1>2, <1>3, InsideOrOther

LEMMA InitHasTexts == Init => TInv
<1> SUFFICES ASSUME Init PROVE TInv
  OBVIOUS
<1>1. SInv
  BY InitHasShape
<1> QED BY <1>1 DEF Init, TInv, ApprovalInv, RecordInv, GateInv, StraightInv, HasWriter, HasEditor, HasSeo,
        PastWriter, PastEditor, PastSeo, PastGate, Passed, Reviewed, Idle, NoOutputs, NoArticle, Working

(* As long as no record is lost, what an execution holds is on record and  *)
(* what passed the gate is the very text that was judged.                  *)
THEOREM TextInvariant == Spec => []TInv
  BY InitHasTexts, NextKeepsTexts, PTL DEF Spec

(* Unless records are lost or a revision is resumed, the publisher and an  *)
(* approval without an override send no text on the verdict of another.    *)
THEOREM JudgedTextIsSent == Spec => []OnlyJudgedTextIsSent
<1>1. TInv => OnlyJudgedTextIsSent
  <2> SUFFICES ASSUME TInv, RecordsAgree PROVE NothingUnjudgedIsSent
    BY DEF OnlyJudgedTextIsSent
  <2> USE DEF TInv, SInv, GateInv, Judged
  <2>1. ASSUME Executes("publisher") PROVE Judged(CurrentArticle(graph))
    BY <2>1 DEF Executes, GraphShape, HasEditor, PastEditor, PastSeo, PastGate, CurrentArticle, Passed, Reviewed
  <2>2. ASSUME approval = "publish", ~article.override PROVE Judged(article.text)
    BY <2>2 DEF ApprovalInv
  <2> QED BY <2>1, <2>2 DEF NothingUnjudgedIsSent
<1> QED BY <1>1, TextInvariant, PTL

-----------------------------------------------------------------------------
(* What is live.  Under publish_if_gate_passes a publish on record is of   *)
(* the text on record, which stays live unless an approval of another one  *)
(* is sent; an execution that finds it on record does nothing again.       *)
AllKept ==
    /\ {"writer", "editor", "seo", "quality", "publisher"} \subseteq graph.completed
    /\ config.review => "editorial_review" \in graph.completed

PublishOnRecord ==
    outputs.publisher = "ok" =>
        /\ outputs.writer # 0 /\ outputs.editor # 0 /\ outputs.seo # NoSeo
        /\ outputs.quality = "passed"
        /\ config.review => outputs.editorial_review = "passed"
        /\ run.status \notin ReviewableStatuses
        /\ judged.approver \subseteq {outputs.editor} =>
             target[outputs.seo.slug] = [state |-> "live", text |-> outputs.editor]
        /\ graph.node \in Working =>
             /\ graph.published = "ok" /\ graph.quality = "passed"
             /\ graph.node = "end" \/ AllKept

PublishInv ==
    ~config.recordsLost /\ config.policy = "publish_if_gate_passes" =>
        /\ graph.published = "ok" /\ graph.node # "publisher_record" => outputs.publisher = "ok"
        /\ graph.node = "publisher_record" /\ graph.published = "ok" =>
             target[graph.seo.slug] = [state |-> "live", text |-> graph.edited]
        /\ PublishOnRecord

LEMMA InsideKeepsPublish ==
    ASSUME TInv, PublishInv, InsideAction, ~config.recordsLost, config.policy = "publish_if_gate_passes"
    PROVE  PublishInv'
<1> USE DEF TInv, SInv, LInv, TypeOK, Graphs, OutputRows, PublishInv, PublishOnRecord, AllKept,
            Leave, After, Executes, Record
<1>0. graph.node \in Working /\ graph'.node \in Working /\ UNCHANGED run
  BY InsideActions DEF Inside, Working
<1>1. CASE Skip \/ ReadSources \/ Plan \/ FindLinks \/ Classify \/ CheckDuplicate
  BY <1>0, <1>1, PassingSteps DEF PassingStep, AfterClassification, Steps
<1>2. CASE Write
  BY <1>0, <1>2 DEF Write
<1>3. CASE Edit
  BY <1>0, <1>3 DEF Edit
<1>4. CASE \E slug \in Slugs : Describe(slug)
  BY <1>0, <1>4 DEF Describe
<1>5. ASSUME NEW verdict \in {"passed", "rejected"}, JudgeQuality(verdict) PROVE PublishInv'
  <2>1. outputs.publisher # "ok"
    BY <1>0, <1>5 DEF JudgeQuality
  <2> QED BY <1>5, <2>1 DEF JudgeQuality
<1>6. ASSUME NEW verdict \in {"passed", "rejected"}, ReviewEditorially(verdict) PROVE PublishInv'
  <2>1. outputs.publisher # "ok"
    BY <1>0, <1>6 DEF ReviewEditorially, GraphShape
  <2> QED BY <1>6, <2>1 DEF ReviewEditorially
<1>7. CASE Regenerate
  BY <1>0, <1>7 DEF Regenerate, GraphShape
<1>8. ASSUME NEW result \in {"ok", "error"}, SendToTarget(result) PROVE PublishInv'
  <2>1. outputs.publisher # "ok"
    BY <1>0, <1>8 DEF SendToTarget
  <2>2. graph.seo.slug \in Slugs /\ CurrentArticle(graph) = graph.edited
    BY <1>8 DEF SendToTarget, GraphShape, HasEditor, HasSeo, PastEditor, PastSeo, PastGate, CurrentArticle
  <2>3. result = "ok" => target' = Posted(graph.seo.slug, graph.edited, TRUE)
    BY <1>8, <2>2 DEF SendToTarget, Publish
  <2>4. result = "ok" => target'[graph.seo.slug] = [state |-> "live", text |-> graph.edited]
    BY <2>2, <2>3 DEF Posted
  <2> QED BY <1>8, <2>1, <2>4 DEF SendToTarget
<1>9. CASE RecordPublish
  <2>1. /\ outputs.writer # 0 /\ outputs.editor = graph.edited /\ outputs.editor # 0
        /\ outputs.seo = graph.seo /\ outputs.seo # NoSeo
    BY <1>9, NoSlugAssumption DEF RecordPublish, GraphShape, RecordInv, HasWriter, HasEditor, HasSeo,
                PastWriter, PastEditor, PastSeo, PastGate, NoSeo
  <2>2. graph.quality = "passed" /\ outputs.quality = "passed"
    BY <1>9 DEF RecordPublish, GraphShape, RecordInv, Passed, PastGate
  <2>3. config.review => outputs.editorial_review = "passed"
    BY <1>9, <2>2 DEF RecordPublish, RecordInv, Passed, Reviewed, PastGate
  <2>4. run.status = "running"
    BY <1>9 DEF RecordPublish, InGraph
  <2> QED BY <1>9, <2>1, <2>2, <2>3, <2>4 DEF RecordPublish, ReviewableStatuses
<1> QED BY <1>1, <1>2, <1>3, <1>4, <1>5, <1>6, <1>7, <1>8, <1>9 DEF InsideAction

LEMMA OthersKeepPublish ==
    ASSUME TInv, PublishInv, OtherAction, ~config.recordsLost, config.policy = "publish_if_gate_passes"
    PROVE  PublishInv'
<1> USE DEF TInv, SInv, LInv, TypeOK, Graphs, OutputRows, Runs, PublishInv, PublishOnRecord, AllKept,
            Working, InGraph, Steps
<1>0. UNCHANGED <<config, outputs>> /\ judged.approver \subseteq judged'.approver
  <2>1. UNCHANGED config
    BY ConfigIsFixed, InsideOrOther DEF OtherAction, Next, Progress, EndAction
  <2>2. CASE \E override \in BOOLEAN : Approve(override)
    BY <2>1, <2>2 DEF Approve
  <2>3. UNCHANGED <<outputs, judged>> \/ \E override \in BOOLEAN : Approve(override)
    BY DEF OtherAction, Request, EndAction, Begin, Resume, Revise, Reject, RecoverStale,
           StopAsTopicDuplicate, MarkRunning, FailStep, StopAsDuplicate, Finish, CompleteApproval,
           Crash, SendApproved, vars
  <2> QED BY <2>1, <2>2, <2>3
<1>1. /\ graph' = Idle /\ UNCHANGED target
      /\ run'.status \notin ReviewableStatuses \/ run'.status = run.status
      => PublishInv'
  BY <1>0 DEF Idle
<1>2. /\ UNCHANGED <<graph, target>>
      /\ run'.status \notin ReviewableStatuses \/ run'.status = run.status
      => PublishInv'
  BY <1>0
<1>3. ASSUME NEW force \in BOOLEAN, NEW topicSeen \in BOOLEAN, Begin(force, topicSeen)
      PROVE  PublishInv'
  BY <1>0, <1>3, IdleType DEF Begin, Idle, RowShape, NoOutputs
<1>4. ASSUME NEW force \in BOOLEAN, Resume(force) PROVE PublishInv'
  <2>1. UNCHANGED target /\ run'.status = run.status
    BY <1>4 DEF Resume
  <2> QED BY <1>0, <1>4, <2>1, Restored
<1>5. CASE Revise
  <2>1. outputs.publisher # "ok"
    BY <1>5 DEF Revise, MayReview
  <2>2. graph'.published = "none" /\ graph'.node = "mark_running"
    BY <1>5, IdleType DEF Revise, Idle
  <2> QED BY <1>0, <2>1, <2>2
<1>6. CASE Reject \/ RecoverStale \/ \E override \in BOOLEAN : Approve(override)
  <2>1. UNCHANGED <<graph, target>>
    BY <1>6 DEF Reject, RecoverStale, Approve
  <2>2. run'.status \in {"rejected", "interrupted"} \/ run' = run
    BY <1>6, StatusWritten DEF Reject, RecoverStale, Approve
  <2> QED BY <1>2, <2>1, <2>2 DEF ReviewableStatuses
<1>7. CASE StopAsTopicDuplicate \/ FailStep \/ StopAsDuplicate \/ Crash
  <2>1. graph' = Idle /\ UNCHANGED target
    BY <1>7 DEF StopAsTopicDuplicate, FailStep, StopAsDuplicate, Crash
  <2>2. run'.status \in {"duplicate", "failed"} \/ run' = run
    BY <1>7, StatusWritten DEF StopAsTopicDuplicate, FailStep, StopAsDuplicate, Crash
  <2> QED BY <1>1, <2>1, <2>2 DEF ReviewableStatuses
<1>8. CASE Finish
  <2>1. graph' = Idle /\ UNCHANGED target /\ run'.status = OutcomeOf(graph)
    BY <1>8 DEF Finish, WithStatus
  <2>2. outputs.publisher = "ok" => OutcomeOf(graph) = "published"
    BY <1>8 DEF Finish, OutcomeOf
  <2> QED BY <1>0, <2>1, <2>2 DEF Idle, ReviewableStatuses
<1>9. CASE MarkRunning
  <2>1. UNCHANGED target /\ run'.status = "running"
    BY <1>9 DEF MarkRunning, WithStatus
  <2>2. graph.node = "begin" => outputs.publisher = "none"
    BY DEF RowShape, NoOutputs
  <2>3. /\ graph'.published = graph.published /\ graph'.quality = graph.quality
        /\ graph'.completed = graph.completed /\ graph'.node \in {"read_sources", "planner"}
    BY <1>9 DEF MarkRunning
  <2>4. graph.node \in {"begin", "mark_running"}
    BY <1>9 DEF MarkRunning
  <2> QED BY <1>0, <2>1, <2>2, <2>3, <2>4 DEF ReviewableStatuses
<1>10. ASSUME NEW result \in {"ok", "error"}, SendApproved(result) PROVE PublishInv'
  <2>1. UNCHANGED <<run, graph, judged>> /\ graph = Idle
    BY <1>10 DEF SendApproved
  <2>2. article.slug \in Slugs /\ article.text \in judged.approver
    BY <1>10 DEF SendApproved, RowShape, ApprovalInv
  <2>3. target' = target \/ target' = Posted(article.slug, article.text, TRUE)
    BY <1>10 DEF SendApproved, Publish
  <2>4. \A s \in Slugs : target'[s] = target[s] \/
                         target'[s] = [state |-> "live", text |-> article.text]
    <3>1. CASE target' = target
      BY <3>1
    <3>2. CASE target' = Posted(article.slug, article.text, TRUE)
      <4>1. /\ target'[article.slug] = [state |-> "live", text |-> article.text]
            /\ \A s \in Slugs : s # article.slug => target'[s] = target[s]
        BY <2>2, <3>2, PostedIsLive
      <4> QED BY <4>1
    <3> QED BY <2>3, <3>1, <3>2
  <2>5. outputs.publisher = "ok" => outputs.seo.slug \in Slugs
    BY DEF RowShape
  <2> QED BY <1>0, <2>1, <2>2, <2>4, <2>5 DEF Idle
<1>11. CASE UNCHANGED vars \/ CompleteApproval
  <2>1. UNCHANGED <<graph, target>>
    BY <1>11 DEF CompleteApproval, vars
  <2>2. run'.status = "published" \/ run' = run
    BY <1>11, StatusWritten DEF CompleteApproval, vars
  <2> QED BY <1>2, <2>1, <2>2 DEF ReviewableStatuses
<1> QED BY <1>3, <1>4, <1>5, <1>6, <1>7, <1>8, <1>9, <1>10, <1>11
        DEF OtherAction, Request, EndAction

LEMMA NextKeepsPublish == TInv /\ PublishInv /\ [Next]_vars => PublishInv'
<1> SUFFICES ASSUME TInv, PublishInv, [Next]_vars,
                    ~config.recordsLost, config.policy = "publish_if_gate_passes"
             PROVE  PublishInv'
  BY ConfigIsFixed DEF PublishInv
<1> QED BY InsideOrOther, InsideKeepsPublish, OthersKeepPublish

(* A published run is at rest; what makes a run published has it live.     *)
LEMMA NextKeepsPublished ==
    ASSUME TInv, PublishInv, PublishedIsLive, [Next]_vars
    PROVE  PublishedIsLive'
<1> USE DEF TInv, SInv, LInv, TypeOK, Runs, PublishedIsLive
<1>0. UNCHANGED config
  BY ConfigIsFixed
<1>1. CASE InsideAction
  <2>1. run'.status = "running"
    BY <1>1, InsideActions DEF Inside
  <2> QED BY <2>1
<1>2. CASE StopAsTopicDuplicate \/ MarkRunning \/ FailStep \/ StopAsDuplicate
  BY <1>2 DEF StopAsTopicDuplicate, MarkRunning, FailStep, StopAsDuplicate, WithStatus
<1>3. CASE Finish
  <2>1. /\ run'.status = OutcomeOf(graph) /\ UNCHANGED <<target, judged, outputs>>
        /\ article' = FinishedArticle(OutcomeOf(graph), graph.edited, graph.seo.slug, graph.quality = "passed")
        /\ graph.node = "end"
    BY <1>3 DEF Finish, WithStatus
  <2> SUFFICES ASSUME OutcomeOf(graph) = "published", ~config.recordsLost,
                      judged.approver \subseteq {graph.edited}
               PROVE  target[graph.seo.slug] = [state |-> "live", text |-> graph.edited]
    BY <1>0, <2>1 DEF FinishedArticle
  <2>2. config.policy = "publish_if_gate_passes" /\ graph.published = "ok"
    BY RunAssumption DEF OutcomeOf, Configurations, Policies
  <2>3. outputs.publisher = "ok" /\ outputs.editor = graph.edited /\ outputs.seo = graph.seo
    BY <2>1, <2>2 DEF PublishInv, RecordInv, HasEditor, HasSeo, PastEditor, PastSeo, PastGate
  <2> QED BY <2>2, <2>3 DEF PublishInv, PublishOnRecord
<1>4. CASE CompleteApproval
  <2>1. CASE approval = "ok"
    BY <1>4, <2>1 DEF CompleteApproval, PublishedArticle, WithStatus, ApprovalInv, ArticleRow
  <2>2. CASE approval # "ok"
    BY <1>4, <2>2 DEF CompleteApproval
  <2> QED BY <2>1, <2>2
<1>5. CASE Crash \/ UNCHANGED vars \/ \E result \in {"ok", "error"} : SendApproved(result)
  BY <1>0, <1>5 DEF Crash, vars, SendApproved
<1>6. CASE Request
  BY <1>0, <1>6 DEF Request, Begin, Resume, Revise, Reject, RecoverStale, Approve, WithStatus, MayResume,
           MayReview, MayApprove, ReviewableStatuses, ActiveStatuses
<1> QED BY <1>1, <1>2, <1>3, <1>4, <1>5, <1>6, InsideOrOther DEF OtherAction, EndAction

(* A run that says published is what readers see.                          *)
THEOREM PublishedTextIsLive == Spec => []PublishedIsLive
<1> DEFINE Inv == TInv /\ PublishInv /\ PublishedIsLive
<1>1. Init => Inv
  <2> SUFFICES ASSUME Init PROVE Inv
    OBVIOUS
  <2>1. TInv
    BY InitHasTexts
  <2> QED BY <2>1 DEF Init, PublishInv, PublishOnRecord, PublishedIsLive, Idle, NoOutputs
<1>2. Inv /\ [Next]_vars => Inv'
  BY NextKeepsTexts, NextKeepsPublish, NextKeepsPublished
<1>3. Inv => PublishedIsLive
  OBVIOUS
<1> QED BY <1>1, <1>2, <1>3, PTL DEF Spec

(* Whatever becomes live was sent by an approval, which knows its text, or *)
(* by a publisher step, whose text passed the gate.                        *)
LEMMA NextKeepsDecided ==
    ASSUME TInv, LiveOnlyByDecision, [Next]_vars,
           config.policy = "publish_if_gate_passes", RecordsAgree
    PROVE  LiveOnlyByDecision'
<1> DEFINE JudgedNow(text) == text \in judged'.gate /\ (config.review => text \in judged'.review)
<1> USE DEF TInv, SInv, LInv, TypeOK
<1>0. /\ UNCHANGED config
      /\ judged.gate \subseteq judged'.gate /\ judged.review \subseteq judged'.review
      /\ judged.approver \subseteq judged'.approver
  <2>1. UNCHANGED config
    BY ConfigIsFixed
  <2>2. UNCHANGED judged => <1>0!2
    OBVIOUS
  <2>3. ASSUME NEW verdict \in {"passed", "rejected"}, JudgeQuality(verdict) \/ ReviewEditorially(verdict)
        PROVE  /\ judged.gate \subseteq judged'.gate /\ judged.review \subseteq judged'.review
               /\ judged.approver \subseteq judged'.approver
    BY <2>3 DEF JudgeQuality, ReviewEditorially
  <2>4. ASSUME NEW override \in BOOLEAN, Approve(override)
        PROVE  /\ judged.gate \subseteq judged'.gate /\ judged.review \subseteq judged'.review
               /\ judged.approver \subseteq judged'.approver
    BY <2>4 DEF Approve
  <2>5. \/ UNCHANGED judged
        \/ \E verdict \in {"passed", "rejected"} : JudgeQuality(verdict) \/ ReviewEditorially(verdict)
        \/ \E override \in BOOLEAN : Approve(override)
    BY DEF Next, Request, Progress, Begin, Resume, Revise, Reject, RecoverStale, StopAsTopicDuplicate,
           MarkRunning, Skip, ReadSources, Plan, FindLinks, Write, Edit, Describe, CheckDuplicate,
           Regenerate, Classify, SendToTarget, RecordPublish, FailStep, StopAsDuplicate, Finish,
           SendApproved, CompleteApproval, Crash, vars
  <2> QED BY <2>1, <2>3, <2>4, <2>5
<1>1. UNCHANGED target => LiveOnlyByDecision'
  BY <1>0 DEF LiveOnlyByDecision, Judged
<1>2. ASSUME NEW slug \in Slugs, NEW text, target' = Posted(slug, text, TRUE),
             text \in judged'.approver \/ JudgedNow(text)
      PROVE  LiveOnlyByDecision'
  <2>1. /\ target'[slug] = [state |-> "live", text |-> text]
        /\ \A s \in Slugs : s # slug => target'[s] = target[s]
    BY <1>2, PostedIsLive
  <2>2. ASSUME NEW s \in Slugs, target'[s].state = "live", target'[s].text # 0
        PROVE  target'[s].text \in judged'.approver \/ JudgedNow(target'[s].text)
    <3>1. CASE s = slug
      <4>1. target'[s].text = text
        BY <2>1, <3>1
      <4> QED BY <1>2, <4>1
    <3>2. CASE s # slug
      <4>1. target[s].text \in judged.approver \/ Judged(target[s].text)
        BY <2>1, <2>2, <3>2 DEF LiveOnlyByDecision
      <4> QED BY <1>0, <2>1, <3>2, <4>1 DEF Judged
    <3> QED BY <3>1, <3>2
  <2> QED BY <1>0, <2>2 DEF LiveOnlyByDecision, Judged
<1>3. ASSUME NEW result \in {"ok", "error"}, SendToTarget(result) PROVE LiveOnlyByDecision'
  <2>1. graph.seo.slug \in Slugs /\ CurrentArticle(graph) = graph.edited
    BY <1>3 DEF SendToTarget, Executes, GraphShape, HasEditor, HasSeo, PastEditor, PastSeo, PastGate, CurrentArticle
  <2>2. Judged(graph.edited)
    BY <1>3 DEF SendToTarget, Executes, GraphShape, GateInv, Passed, Reviewed, PastGate, Judged
  <2>3. UNCHANGED target \/ target' = Posted(graph.seo.slug, graph.edited, TRUE)
    BY <1>3, <2>1 DEF SendToTarget, Publish
  <2> QED BY <1>0, <1>1, <1>2, <2>1, <2>2, <2>3 DEF Judged
<1>4. ASSUME NEW result \in {"ok", "error"}, SendApproved(result) PROVE LiveOnlyByDecision'
  <2>1. article.slug \in Slugs /\ article.text \in judged.approver
    BY <1>4 DEF SendApproved, RowShape, ApprovalInv
  <2>2. UNCHANGED target \/ target' = Posted(article.slug, article.text, TRUE)
    BY <1>4 DEF SendApproved, Publish
  <2> QED BY <1>0, <1>1, <1>2, <2>1, <2>2
<1>5. \/ UNCHANGED target
      \/ \E result \in {"ok", "error"} : SendToTarget(result) \/ SendApproved(result)
  BY DEF Next, Request, Progress, Begin, Resume, Revise, Reject, RecoverStale, Approve,
         StopAsTopicDuplicate, MarkRunning, Skip, ReadSources, Plan, FindLinks, Write, Edit, Describe,
         CheckDuplicate, JudgeQuality, ReviewEditorially, Regenerate, Classify, RecordPublish, FailStep,
         StopAsDuplicate, Finish, CompleteApproval, Crash, vars
<1> QED BY <1>1, <1>3, <1>4, <1>5

LEMMA AgreementIsLost == ~RecordsAgree /\ TypeOK /\ [Next]_vars => ~RecordsAgree'
<1> SUFFICES ASSUME run.history = "revision_resumed", TypeOK, [Next]_vars
             PROVE  run'.history = "revision_resumed"
  BY ConfigIsFixed DEF RecordsAgree
<1> USE DEF TypeOK, Runs
<1>1. CASE InsideAction
  BY <1>1, InsideActions DEF Inside
<1>2. CASE Finish
  BY <1>2 DEF Finish, WithStatus
<1>3. CASE StopAsTopicDuplicate \/ MarkRunning \/ FailStep \/ StopAsDuplicate
  BY <1>3 DEF StopAsTopicDuplicate, MarkRunning, FailStep, StopAsDuplicate, WithStatus
<1>4. CASE Request
  BY <1>4 DEF Request, Begin, Resume, Revise, Reject, RecoverStale, Approve, WithStatus
<1>5. CASE CompleteApproval \/ Crash \/ UNCHANGED vars \/ \E result \in {"ok", "error"} : SendApproved(result)
  BY <1>5 DEF CompleteApproval, Crash, SendApproved, vars, WithStatus
<1> QED BY <1>1, <1>2, <1>3, <1>4, <1>5, InsideOrOther DEF OtherAction, EndAction

(* No text of a run is shown to readers without a decision: an approval,   *)
(* or a policy that publishes what passes the gate.                        *)
THEOREM LiveByDecision == Spec => []LiveOnlyByDecision
<1> DEFINE Gated == config.policy = "publish_if_gate_passes" /\ RecordsAgree
           Inv == TInv /\ (Gated => LiveOnlyByDecision)
<1>1. Init => Inv
  BY InitHasTexts DEF Init, LiveOnlyByDecision, NoPost
<1>2. Inv /\ [Next]_vars => Inv'
  <2> SUFFICES ASSUME Inv, [Next]_vars PROVE Inv'
    OBVIOUS
  <2>1. TInv'
    BY NextKeepsTexts
  <2>2. Gated' => Gated
    BY ConfigIsFixed, AgreementIsLost DEF TInv, SInv, LInv
  <2> QED BY <2>1, <2>2, NextKeepsDecided
<1>3. /\ Inv
      /\ config.policy = "publish_after_approval" => LiveOnlyByDecision
      => LiveOnlyByDecision
  BY DEF LiveOnlyByDecision
<1> QED BY <1>1, <1>2, <1>3, NothingLiveUnapproved, PTL DEF Spec

-----------------------------------------------------------------------------
(* A resume repeats the step that failed.  The steps before a node are     *)
(* those an execution may have gone through when it gets there; with no    *)
(* regeneration, no other step has a record it would reuse later.          *)
Before ==
    [n \in Working |->
      CASE n \in {"mark_running", "read_sources"} -> {}
        [] n = "planner"          -> {"read_sources"}
        [] n = "find_links"       -> {"read_sources", "planner"}
        [] n = "writer"           -> {"read_sources", "planner", "find_links"}
        [] n = "editor"           -> {"read_sources", "planner", "find_links", "writer"}
        [] n = "seo"              -> {"read_sources", "planner", "find_links", "writer", "editor"}
        [] n = "duplicate_check"  -> {"read_sources", "planner", "find_links", "writer", "editor", "seo"}
        [] n = "quality"          -> {"read_sources", "planner", "find_links", "writer", "editor", "seo",
                                      "duplicate_check"}
        [] n = "editorial_review" -> Steps \ {"editorial_review", "classification", "publisher"}
        [] n = "classification"   -> Steps \ {"classification", "publisher"}
        [] n \in {"publisher", "publisher_record"} -> Steps \ {"publisher"}
        [] OTHER -> Steps]

ProgressInv ==
    config.maxRegenerations = 0 /\ run.history = "straight" =>
        /\ graph.node # "regenerate"
        /\ graph.node \in Working => CompletedSteps(outputs) \subseteq graph.completed \cup Before[graph.node]
        /\ outputs.publisher = "ok" /\ graph.node \in Working => graph.published = "ok"
        /\ run.status = "failed" => run.failedStep \notin CompletedSteps(outputs)

(* What the record of a step adds to the completed ones.                   *)
LEMMA RecordAdds ==
    ASSUME TypeOK, InsideAction
    PROVE  /\ CompletedSteps(outputs') \subseteq
                CompletedSteps(outputs) \cup ({graph.node} \cap (Steps \ {"regenerate"})) \cup
                (IF graph.node = "publisher_record" THEN {"publisher"} ELSE {})
<1> USE DEF TypeOK, OutputRows, CompletedSteps, RecordedSteps, Inconclusive, Record, Executes, Steps
<1>1. CASE Skip \/ Regenerate \/ \E result \in {"ok", "error"} : SendToTarget(result)
  BY <1>1 DEF Skip, Regenerate, SendToTarget
<1>2. CASE ReadSources
  BY <1>2 DEF ReadSources
<1>3. CASE Plan
  BY <1>3 DEF Plan
<1>4. CASE FindLinks
  BY <1>4 DEF FindLinks
<1>5. CASE Write
  BY <1>5 DEF Write
<1>6. CASE Edit
  BY <1>6 DEF Edit
<1>7. CASE \E slug \in Slugs : Describe(slug)
  BY <1>7 DEF Describe
<1>8. CASE CheckDuplicate
  BY <1>8 DEF CheckDuplicate
<1>9. CASE \E verdict \in {"passed", "rejected"} : JudgeQuality(verdict)
  BY <1>9 DEF JudgeQuality
<1>10. CASE \E verdict \in {"passed", "rejected"} : ReviewEditorially(verdict)
  BY <1>10 DEF ReviewEditorially
<1>11. CASE Classify
  BY <1>11 DEF Classify
<1>12. CASE RecordPublish
  BY <1>12 DEF RecordPublish
<1> QED BY <1>1, <1>2, <1>3, <1>4, <1>5, <1>6, <1>7, <1>8, <1>9, <1>10, <1>11, <1>12 DEF InsideAction

(* How the graph moves on.                                                 *)
LEMMA Moves ==
    ASSUME TypeOK, InsideAction, ~Regenerate
    PROVE  /\ graph'.completed = graph.completed
           /\ \/ graph.node \in Steps /\ \E g \in Graphs : graph'.node = After(g, graph.node)
              \/ graph.node = "publisher" /\ graph'.node = "publisher_record" /\ UNCHANGED outputs
              \/ graph.node = "publisher_record" /\ graph'.node = "end"
<1> USE DEF TypeOK, Leave, Executes
<1>0. ASSUME NEW g \in Graphs, NEW s \in Steps, Leave(s, g)
      PROVE  graph'.completed = g.completed /\ graph'.node = After(g, s)
  BY <1>0 DEF Graphs
<1>1. CASE Skip \/ ReadSources \/ Plan \/ FindLinks \/ Classify
  BY <1>1, <1>0 DEF Skip, ReadSources, Plan, FindLinks, Classify, Steps, Graphs
<1>2. CASE Write
  <2>1. texts + 1 \in Nat
    OBVIOUS
  <2>2. [graph EXCEPT !.article = texts + 1] \in Graphs /\ "writer" \in Steps
    BY <2>1 DEF Graphs, Steps
  <2> QED BY <1>2, <1>0, <2>2 DEF Write, Graphs
<1>3. CASE Edit
  <2>1. texts + 1 \in Nat
    OBVIOUS
  <2>2. [graph EXCEPT !.edited = texts + 1] \in Graphs /\ "editor" \in Steps
    BY <2>1 DEF Graphs, Steps
  <2> QED BY <1>3, <1>0, <2>2 DEF Edit, Graphs
<1>4. ASSUME NEW slug \in Slugs, Describe(slug)
      PROVE  /\ graph'.completed = graph.completed
             /\ graph.node \in Steps /\ \E g \in Graphs : graph'.node = After(g, graph.node)
  <2> DEFINE seo == [slug |-> slug, about |-> CurrentArticle(graph)]
  <2>1. seo \in SeoOutputs
    BY CurrentArticleType DEF SeoOutputs
  <2>2. [graph EXCEPT !.seo = seo] \in Graphs /\ "seo" \in Steps
    BY <2>1 DEF Graphs, Steps
  <2>3. Leave("seo", [graph EXCEPT !.seo = seo]) /\ graph.node = "seo"
    BY <1>4 DEF Describe
  <2>4. [graph EXCEPT !.seo = seo].completed = graph.completed
    BY DEF Graphs
  <2> HIDE DEF seo, Leave
  <2> QED BY <1>0, <2>2, <2>3, <2>4
<1>5. CASE CheckDuplicate
  <2>1. PICK found \in BOOLEAN : Leave("duplicate_check", [graph EXCEPT !.duplicate = found])
    BY <1>5 DEF CheckDuplicate, StoredDuplicate, RemoteDuplicate
  <2>2. [graph EXCEPT !.duplicate = found] \in Graphs /\ "duplicate_check" \in Steps
    BY DEF Graphs, Steps
  <2>3. graph.node = "duplicate_check" /\ [graph EXCEPT !.duplicate = found].completed = graph.completed
    BY <1>5 DEF CheckDuplicate, Graphs
  <2> HIDE DEF Leave
  <2> QED BY <1>0, <2>1, <2>2, <2>3
<1>6. ASSUME NEW verdict \in {"passed", "rejected"}, JudgeQuality(verdict)
      PROVE  /\ graph'.completed = graph.completed
             /\ graph.node \in Steps /\ \E g \in Graphs : graph'.node = After(g, graph.node)
  <2>1. [graph EXCEPT !.quality = verdict] \in Graphs /\ "quality" \in Steps
    BY DEF Graphs, Steps, Verdicts
  <2> QED BY <1>6, <1>0, <2>1 DEF JudgeQuality, Graphs
<1>7. ASSUME NEW verdict \in {"passed", "rejected"}, ReviewEditorially(verdict)
      PROVE  /\ graph'.completed = graph.completed
             /\ graph.node \in Steps /\ \E g \in Graphs : graph'.node = After(g, graph.node)
  <2>1. [graph EXCEPT !.quality = "rejected"] \in Graphs /\ "editorial_review" \in Steps
    BY DEF Graphs, Steps, Verdicts
  <2> QED BY <1>7, <1>0, <2>1 DEF ReviewEditorially, Graphs
<1>8. CASE \E result \in {"ok", "error"} : SendToTarget(result)
  BY <1>8 DEF SendToTarget, Graphs
<1>9. CASE RecordPublish
  BY <1>9 DEF RecordPublish, Graphs, After
<1> QED BY <1>1, <1>2, <1>3, <1>4, <1>5, <1>6, <1>7, <1>8, <1>9 DEF InsideAction

LEMMA BeforeGrows ==
    ASSUME NEW g, NEW s \in Steps \ {"regenerate"}, After(g, s) # "regenerate"
    PROVE  Before[s] \cup {s} \subseteq Before[After(g, s)]
<1>1. After(g, s) \in InGraph
  BY DEF After, AfterClassification, Steps, InGraph
<1> USE DEF After, Before, Working, InGraph, Steps
<1>2. CASE s = "read_sources"
  BY <1>2
<1>10. CASE s = "find_links"
  BY <1>10
<1>8. CASE s = "planner"
  BY <1>8
<1>3. CASE s \in {"writer", "editor"}
  BY <1>3
<1>9. CASE s = "seo"
  BY <1>9
<1>4. CASE s = "duplicate_check"
  BY <1>4
<1>5. CASE s = "quality"
  BY <1>5
<1>6. CASE s \in {"editorial_review", "publisher"}
  BY <1>6
<1>7. CASE s = "classification"
  BY <1>7 DEF AfterClassification
<1> QED BY <1>2, <1>3, <1>4, <1>5, <1>6, <1>7, <1>8, <1>9, <1>10

LEMMA InsideKeepsProgress ==
    ASSUME SInv, ProgressInv, InsideAction, config.maxRegenerations = 0, run.history = "straight"
    PROVE  ProgressInv'
<1> USE DEF SInv, LInv, TypeOK, Graphs
<1>0. /\ graph.node \in InGraph /\ graph'.node \in InGraph /\ UNCHANGED run
      /\ run.status = "running"
  BY InsideActions DEF Inside
<1>1. graph'.node # "regenerate"
  <2> USE DEF Leave, After
  <2>1. CASE Skip \/ ReadSources \/ Plan \/ FindLinks \/ Classify \/ CheckDuplicate
    <3>1. graph'.node = "regenerate" => graph.node = "quality"
      BY <2>1, PassingSteps DEF PassingStep, AfterClassification, Steps
    <3>2. CASE graph.node = "quality"
      BY <2>1, <3>2, PassingSteps DEF PassingStep, GraphShape, PastGate
    <3> QED BY <3>1, <3>2
  <2>2. ASSUME NEW verdict \in {"passed", "rejected"}, JudgeQuality(verdict)
        PROVE  graph'.node # "regenerate"
    BY <2>2 DEF JudgeQuality
  <2>3. CASE Write \/ Edit \/ Regenerate \/ RecordPublish
    BY <2>3 DEF Write, Edit, Regenerate, RecordPublish
  <2>4. CASE \/ \E slug \in Slugs : Describe(slug)
             \/ \E verdict \in {"passed", "rejected"} : ReviewEditorially(verdict)
             \/ \E result \in {"ok", "error"} : SendToTarget(result)
    BY <2>4 DEF Describe, ReviewEditorially, SendToTarget
  <2> QED BY <2>1, <2>2, <2>3, <2>4 DEF InsideAction
<1>2. CompletedSteps(outputs') \subseteq graph'.completed \cup Before[graph'.node]
  <2>1. graph.node # "regenerate"
        /\ CompletedSteps(outputs) \subseteq graph.completed \cup Before[graph.node]
    BY <1>0 DEF ProgressInv, Working
  <2>2. ~Regenerate
    BY <2>1 DEF Regenerate, Executes
  <2>3. graph'.completed = graph.completed
    BY <2>2, Moves
  <2>4. CASE graph.node \in Steps /\ \E g \in Graphs : graph'.node = After(g, graph.node)
    <3>1. Before[graph.node] \cup {graph.node} \subseteq Before[graph'.node]
      BY <1>1, <2>1, <2>4, BeforeGrows
    <3>2. CompletedSteps(outputs') \subseteq CompletedSteps(outputs) \cup {graph.node}
      BY <2>4, RecordAdds DEF Steps
    <3> QED BY <2>1, <2>3, <3>1, <3>2
  <2>5. CASE graph.node = "publisher" /\ graph'.node = "publisher_record" /\ UNCHANGED outputs
    BY <2>1, <2>3, <2>5 DEF Before, Working, InGraph, Steps
  <2>6. CASE graph.node = "publisher_record" /\ graph'.node = "end"
    <3>1. Before[graph'.node] = Steps
      BY <2>6 DEF Before, Working, InGraph, Steps
    <3>2. CompletedSteps(outputs') \subseteq Steps
      BY NextHasTypes, RestoredType DEF InsideAction, Next, Progress
    <3> QED BY <3>1, <3>2
  <2> QED BY <2>2, <2>4, <2>5, <2>6, Moves
<1>3. outputs'.publisher = "ok" => graph'.published = "ok"
  <2> USE DEF OutputRows, Record, Leave, Executes
  <2>0. outputs.publisher = "ok" => graph.published = "ok"
    BY <1>0 DEF ProgressInv, Working
  <2>1. CASE Skip \/ ReadSources \/ Plan \/ FindLinks \/ Classify \/ CheckDuplicate
    BY <2>0, <2>1, PassingSteps DEF PassingStep
  <2>2. CASE Write
    BY <2>0, <2>2 DEF Write
  <2>8. CASE Edit
    BY <2>0, <2>8 DEF Edit
  <2>3. CASE Regenerate
    BY <2>0, <2>3 DEF Regenerate
  <2>9. CASE RecordPublish
    <3>1. outputs' = outputs \/ outputs' = [outputs EXCEPT !.publisher = graph.published]
      BY <2>9 DEF RecordPublish
    <3>2. graph'.published = graph.published
      BY <2>9 DEF RecordPublish
    <3> QED BY <2>0, <3>1, <3>2
  <2>5. CASE \E slug \in Slugs : Describe(slug)
    BY <2>0, <2>5 DEF Describe
  <2>6. CASE \E verdict \in {"passed", "rejected"} : JudgeQuality(verdict)
    BY <2>0, <2>6 DEF JudgeQuality
  <2>7. CASE \E verdict \in {"passed", "rejected"} : ReviewEditorially(verdict)
    BY <2>0, <2>7 DEF ReviewEditorially
  <2>4. ASSUME NEW result \in {"ok", "error"}, SendToTarget(result)
        PROVE  outputs'.publisher = "ok" => graph'.published = "ok"
    <3>1. outputs.publisher # "ok"
      <4>1. "publisher" \notin graph.completed \cup Before[graph.node]
        BY <2>4 DEF SendToTarget, Before, Working, InGraph, Steps
      <4>2. "publisher" \notin CompletedSteps(outputs)
        BY <1>0, <4>1 DEF ProgressInv, Working
      <4> QED BY <4>2 DEF CompletedSteps, RecordedSteps, Inconclusive
    <3> QED BY <2>4, <3>1 DEF SendToTarget
  <2> QED BY <2>1, <2>2, <2>3, <2>4, <2>5, <2>6, <2>7, <2>8, <2>9 DEF InsideAction
<1> QED BY <1>0, <1>1, <1>2, <1>3 DEF ProgressInv

LEMMA OthersKeepProgress ==
    ASSUME SInv, ProgressInv, OtherAction, config.maxRegenerations = 0, run.history = "straight"
    PROVE  ProgressInv'
<1> USE DEF SInv, LInv, TypeOK, Graphs, Runs
<1>0. UNCHANGED outputs
  BY DEF OtherAction, Request, EndAction, Begin, Resume, Revise, Reject, RecoverStale, Approve,
         StopAsTopicDuplicate, MarkRunning, FailStep, StopAsDuplicate, Finish, CompleteApproval,
         Crash, SendApproved, vars
<1>1. ASSUME graph' = Idle \/ graph' = graph,
             run'.status # "failed" \/ UNCHANGED run
      PROVE  ProgressInv'
  BY <1>0, <1>1 DEF ProgressInv, Idle, Working, InGraph, Steps
<1>2. ASSUME NEW force \in BOOLEAN, NEW topicSeen \in BOOLEAN, Begin(force, topicSeen)
      PROVE  ProgressInv'
  BY <1>0, <1>2, IdleType DEF Begin, Idle, ProgressInv, Working, InGraph, Steps
<1>3. ASSUME NEW force \in BOOLEAN, Resume(force) PROVE ProgressInv'
  <2>1. run'.status = run.status /\ run'.failedStep = run.failedStep
    BY <1>3 DEF Resume
  <2> QED BY <1>0, <1>3, <2>1, Restored DEF ProgressInv
<1>4. CASE Revise
  BY <1>4 DEF Revise, ProgressInv
<1>5. CASE Reject \/ RecoverStale \/ \E override \in BOOLEAN : Approve(override)
  BY <1>1, <1>5 DEF Reject, RecoverStale, Approve, WithStatus
<1>6. CASE StopAsTopicDuplicate \/ StopAsDuplicate \/ Crash
  BY <1>1, <1>6 DEF StopAsTopicDuplicate, StopAsDuplicate, Crash, WithStatus
<1>7. CASE FailStep
  <2>1. graph' = Idle /\ run'.failedStep = graph.node
    BY <1>7 DEF FailStep, WithStatus
  <2>2. graph.node \in FallibleSteps /\ graph.node \notin graph.completed
    BY <1>7 DEF FailStep, Executes
  <2>3. graph.node \notin Before[graph.node]
    BY <2>2 DEF FallibleSteps, Before, Working, InGraph, Steps
  <2>4. graph.node \notin CompletedSteps(outputs)
    BY <2>2, <2>3 DEF ProgressInv, FallibleSteps, Working, InGraph
  <2> QED BY <1>0, <2>1, <2>4 DEF ProgressInv, Idle, Working, InGraph, Steps
<1>8. CASE Finish
  <2>1. graph' = Idle /\ run'.status = OutcomeOf(graph)
    BY <1>8 DEF Finish, WithStatus
  <2>2. OutcomeOf(graph) = "failed" => run'.failedStep = "publisher" /\ graph.published # "ok"
    BY <1>8 DEF Finish, WithStatus, OutcomeOf
  <2>3. graph.published # "ok" => "publisher" \notin CompletedSteps(outputs)
    <3>1. graph.published # "ok" => outputs.publisher # "ok"
      BY <1>8 DEF Finish, ProgressInv, Working, InGraph
    <3>2. outputs.publisher # "ok" => "publisher" \notin CompletedSteps(outputs)
      BY DEF OutputRows, Results, CompletedSteps, RecordedSteps, Inconclusive
    <3> QED BY <3>1, <3>2
  <2> QED BY <1>0, <2>1, <2>2, <2>3 DEF ProgressInv, Idle, Working, InGraph, Steps
<1>9. CASE MarkRunning
  <2>1. /\ graph'.completed = graph.completed /\ graph'.published = graph.published
        /\ graph'.node \in {"read_sources", "planner"} /\ run'.status = "running"
    BY <1>9 DEF MarkRunning, WithStatus
  <2>2. CASE graph.node = "begin"
    <3>1. CompletedSteps(outputs) = {} /\ outputs.publisher # "ok"
      BY <2>2 DEF RowShape, NoOutputs, NoSeo, CompletedSteps, RecordedSteps
    <3> QED BY <1>0, <2>1, <3>1 DEF ProgressInv
  <2>3. CASE graph.node = "mark_running"
    <3>1. CompletedSteps(outputs) \subseteq graph.completed
      BY <2>3 DEF ProgressInv, Before, Working
    <3> QED BY <1>0, <2>1, <2>3, <3>1 DEF ProgressInv, Working
  <2> QED BY <1>9, <2>2, <2>3 DEF MarkRunning
<1>10. CASE UNCHANGED vars \/ CompleteApproval \/ \E result \in {"ok", "error"} : SendApproved(result)
  BY <1>1, <1>10 DEF CompleteApproval, SendApproved, vars, WithStatus
<1> QED BY <1>2, <1>3, <1>4, <1>5, <1>6, <1>7, <1>8, <1>9, <1>10 DEF OtherAction, Request, EndAction

(* A run that has been revised stays one that has been.                    *)
LEMMA RevisionIsKept == TypeOK /\ [Next]_vars /\ run'.history = "straight" => run.history = "straight"
<1> SUFFICES ASSUME TypeOK, [Next]_vars, run'.history = "straight" PROVE run.history = "straight"
  OBVIOUS
<1> USE DEF TypeOK, Runs, Histories
<1>1. CASE InsideAction
  BY <1>1, InsideActions DEF Inside
<1>2. CASE Finish
  BY <1>2 DEF Finish, WithStatus
<1>3. CASE StopAsTopicDuplicate \/ MarkRunning \/ FailStep \/ StopAsDuplicate
  BY <1>3 DEF StopAsTopicDuplicate, MarkRunning, FailStep, StopAsDuplicate, WithStatus
<1>4. CASE Request
  BY <1>4 DEF Request, Begin, Resume, Revise, Reject, RecoverStale, Approve, WithStatus
<1>5. CASE CompleteApproval \/ Crash \/ UNCHANGED vars \/ \E result \in {"ok", "error"} : SendApproved(result)
  BY <1>5 DEF CompleteApproval, Crash, SendApproved, vars, WithStatus
<1> QED BY <1>1, <1>2, <1>3, <1>4, <1>5, InsideOrOther DEF OtherAction, EndAction

LEMMA NextKeepsProgress == SInv /\ ProgressInv /\ [Next]_vars => ProgressInv'
<1> SUFFICES ASSUME SInv, ProgressInv, [Next]_vars, config.maxRegenerations = 0, run.history = "straight"
             PROVE  ProgressInv'
  BY ConfigIsFixed, RevisionIsKept DEF ProgressInv, SInv, LInv
<1> QED BY InsideOrOther, InsideKeepsProgress, OthersKeepProgress

LEMMA ResumeRepeats ==
    SInv /\ ProgressInv /\ [Next]_vars
      => [config.maxRegenerations = 0 /\ run.history = "straight" => FailedStepIsRepeated]_vars
<1> SUFFICES ASSUME SInv, ProgressInv, config.maxRegenerations = 0, run.history = "straight",
                    run.status = "failed", NEW force \in BOOLEAN, Resume(force)
             PROVE  run.failedStep \notin graph'.completed
  BY DEF FailedStepIsRepeated
<1> QED BY Restored DEF ProgressInv, SInv

(* As long as nothing is regenerated or revised, a resume executes the     *)
(* step that failed again.                                                 *)
THEOREM FailedStepRepeated == Spec => ResumeRepeatsFirstPass
<1>1. Init => SInv /\ ProgressInv
  BY InitHasShape DEF Init, ProgressInv, Idle, NoOutputs, Working, InGraph, Steps
<1>2. SInv /\ ProgressInv /\ [Next]_vars => (SInv /\ ProgressInv)'
  BY NextKeepsShape, NextKeepsProgress
<1> QED BY <1>1, <1>2, ResumeRepeats, PTL DEF Spec, ResumeRepeatsFirstPass

-----------------------------------------------------------------------------
(* One post per article.  A run that is never revised has one slug for     *)
(* each text: it chooses a slug again only with a new text, which nothing  *)
(* stored or sent can have (Fresh).  Once a text has passed the gate it    *)
(* is not written again, so a post of any other text is one that an        *)
(* approver let pass in spite of the gate (Placed).                        *)
Known ==
    /\ graph.edited <= texts /\ outputs.editor <= texts /\ article.text <= texts
    /\ \A slug \in Slugs : target[slug].text <= texts

Untouched == article = NoArticle /\ \A slug \in Slugs : target[slug].text = 0

Fresh(text) == article.text # text /\ \A slug \in Slugs : target[slug].text # text

Placed(slug) ==
    target[slug].text # 0 =>
        \/ /\ target[slug].text = outputs.editor /\ slug = outputs.seo.slug
           /\ outputs.quality = "passed" \/ outputs.editor \in judged.approver
        \/ target[slug].text \in judged.approver /\ target[slug].text # outputs.editor

PostInv ==
    /\ Known
    /\ outputs.seo = NoSeo => Untouched
    /\ "editor" \in graph.completed /\ ~HasSeo => outputs.seo = NoSeo
    /\ graph.node = "seo" /\ "seo" \notin graph.completed => Fresh(graph.edited)
    /\ judged.gate # {} => outputs.quality = "passed" /\ judged.gate = {outputs.editor}
    /\ article # NoArticle /\ article.text = outputs.editor => article.slug = outputs.seo.slug
    /\ \A slug \in Slugs : Placed(slug)

Straight == ~config.recordsLost /\ run.history = "straight"

(* Nothing of the texts is written again once one has passed the gate.     *)
LEMMA NotPassedYet ==
    ASSUME TInv, Straight,
           \/ Write \/ Edit \/ \E slug \in Slugs : Describe(slug)
           \/ \E verdict \in {"passed", "rejected"} : JudgeQuality(verdict)
    PROVE  outputs.quality # "passed"
<1>1. /\ graph.node \in {"writer", "editor", "seo", "quality"} /\ graph.node \notin graph.completed
  BY DEF Write, Edit, Describe, JudgeQuality, Executes
<1> QED BY <1>1 DEF TInv, StraightInv, GateInv, RecordsAgree, Straight, Working, InGraph, Steps, PastGate

LEMMA InsideKeepsPosts ==
    ASSUME TInv, PostInv, InsideAction, Straight
    PROVE  PostInv'
<1> USE DEF TInv, SInv, LInv, TypeOK, Graphs, OutputRows, ArticleRow, Posts, Straight, PostInv,
            HasSeo, PastSeo, PastGate, Leave, After, Executes, Record
<1>0. UNCHANGED <<article, approval>>
  BY InsideActions DEF Inside
<1>1. CASE Skip \/ ReadSources \/ Plan \/ FindLinks \/ Classify \/ CheckDuplicate
  <2>1. PassingStep
    BY <1>1, PassingSteps
  <2>2. graph'.node = "seo" /\ "seo" \notin graph.completed => graph.node = "editor" /\ "editor" \in graph.completed
    BY <2>1 DEF PassingStep, AfterClassification, Steps
  <2>3. graph.node = "editor" /\ "editor" \in graph.completed /\ "seo" \notin graph.completed =>
          Fresh(graph.edited)
    BY DEF Untouched, Fresh, GraphShape, HasEditor, NoArticle
  <2>4. ("editor" \in graph'.completed /\ ~HasSeo') => outputs'.seo = NoSeo
    BY <2>1 DEF PassingStep, AfterClassification, Steps
  <2>5. /\ graph'.edited = graph.edited /\ graph'.completed = graph.completed
        /\ outputs'.editor = outputs.editor /\ outputs'.seo = outputs.seo
        /\ outputs'.quality = outputs.quality
        /\ UNCHANGED <<article, target, texts, judged>>
    BY <2>1 DEF PassingStep
  <2>6. Known' /\ (outputs'.seo = NoSeo => Untouched') /\ \A slug \in Slugs : Placed(slug)'
    BY <2>5 DEF Known, Untouched, Placed
  <2>7. graph'.node = "seo" /\ "seo" \notin graph'.completed => Fresh(graph.edited)'
    BY <2>2, <2>3, <2>5 DEF Fresh
  <2> QED BY <2>4, <2>5, <2>6, <2>7 DEF Fresh
<1>2. CASE Write
  BY <1>2 DEF Write, Known, Untouched, Fresh, Placed
<1>3. CASE Edit
  <2>1. outputs.quality # "passed"
    BY <1>3, NotPassedYet
  <2>2. /\ texts' = texts + 1 /\ outputs' = [outputs EXCEPT !.editor = texts']
        /\ graph'.node = "seo" /\ graph'.edited = texts' /\ graph'.completed = graph.completed
        /\ "editor" \notin graph.completed
        /\ UNCHANGED <<target, judged>>
    BY <1>3 DEF Edit
  <2>3. Known' /\ Fresh(graph.edited)'
    BY <1>0, <2>2 DEF Known, Fresh
  <2>4. \A slug \in Slugs : Placed(slug)'
    BY <2>1, <2>2 DEF Known, Placed
  <2> QED BY <1>0, <2>1, <2>2, <2>3, <2>4 DEF Known, Untouched
<1>4. ASSUME NEW slug \in Slugs, Describe(slug) PROVE PostInv'
  <2>1. outputs.quality # "passed"
    BY <1>4, NotPassedYet
  <2>2. /\ outputs'.editor = outputs.editor /\ outputs'.quality = outputs.quality
        /\ outputs'.seo.slug = slug
        /\ graph'.node = "duplicate_check" /\ graph'.edited = graph.edited
        /\ UNCHANGED <<target, judged, texts>>
    BY <1>4 DEF Describe
  <2>3. outputs'.seo # NoSeo
    BY <2>2, NoSlugAssumption DEF NoSeo
  <2>4. Fresh(outputs.editor)
    BY <1>4 DEF Describe, RecordInv, HasEditor, PastEditor
  <2>5. \A s \in Slugs : Placed(s)'
    BY <2>2, <2>4 DEF Placed, Fresh
  <2> QED BY <1>0, <2>1, <2>2, <2>3, <2>4, <2>5 DEF Known, Fresh
<1>5. ASSUME NEW verdict \in {"passed", "rejected"}, JudgeQuality(verdict) PROVE PostInv'
  <2>1. outputs.quality # "passed"
    BY <1>5, NotPassedYet
  <2>2. CurrentArticle(graph) = graph.edited /\ outputs.editor = graph.edited
    BY <1>5 DEF JudgeQuality, CurrentArticle, GraphShape, RecordInv, HasEditor, PastEditor
  <2>3. /\ outputs'.editor = outputs.editor /\ outputs'.seo = outputs.seo /\ outputs'.quality = verdict
        /\ graph'.edited = graph.edited /\ graph'.completed = graph.completed
        /\ graph'.node \in PastSeo
        /\ UNCHANGED <<target, texts>>
    BY <1>5 DEF JudgeQuality
  <2>4. judged.gate = {}
    BY <2>1
  <2>5. /\ judged'.approver = judged.approver
        /\ judged'.gate = IF verdict = "passed" THEN {outputs.editor} ELSE {}
    <3>1. CASE verdict = "passed"
      <4>1. judged' = [judged EXCEPT !.gate = judged.gate \cup {outputs.editor}]
        BY <1>5, <2>2, <3>1 DEF JudgeQuality
      <4> QED BY <2>4, <3>1, <4>1
    <3>2. CASE verdict # "passed"
      BY <1>5, <2>4, <3>2 DEF JudgeQuality
    <3> QED BY <3>1, <3>2
  <2> QED BY <1>0, <2>1, <2>3, <2>5 DEF Known, Untouched, Placed
<1>6. ASSUME NEW verdict \in {"passed", "rejected"}, ReviewEditorially(verdict) PROVE PostInv'
  <2>1. /\ outputs'.editor = outputs.editor /\ outputs'.seo = outputs.seo /\ outputs'.quality = outputs.quality
        /\ judged'.approver = judged.approver /\ judged'.gate = judged.gate
        /\ graph'.edited = graph.edited /\ graph'.completed = graph.completed
        /\ graph'.node \in PastSeo
        /\ UNCHANGED <<target, texts>>
    BY <1>6 DEF ReviewEditorially
  <2> QED BY <1>0, <2>1 DEF Known, Untouched, Placed
<1>7. CASE Regenerate
  BY <1>0, <1>7 DEF Regenerate, Known, Untouched, Placed
<1>8. ASSUME NEW result \in {"ok", "error"}, SendToTarget(result) PROVE PostInv'
  <2>1. /\ graph.seo.slug \in Slugs /\ CurrentArticle(graph) = graph.edited /\ graph.edited # 0
        /\ outputs.editor = graph.edited /\ outputs.seo = graph.seo /\ outputs.quality = "passed"
    BY <1>8 DEF SendToTarget, CurrentArticle, GraphShape, RecordInv, HasEditor, PastEditor, Passed
  <2>2. /\ graph'.node = "publisher_record" /\ graph'.edited = graph.edited
        /\ graph'.completed = graph.completed /\ UNCHANGED <<outputs, judged, texts>>
    BY <1>8 DEF SendToTarget
  <2>3. \A s \in Slugs : \/ target'[s] = target[s]
                         \/ s = graph.seo.slug /\ target'[s].text = graph.edited
    BY <1>8, <2>1 DEF SendToTarget, Publish, Posted
  <2>4. outputs.seo # NoSeo
    BY <2>1, NoSlugAssumption DEF NoSeo
  <2>5. Known'
    BY <1>0, <2>2, <2>3 DEF Known
  <2>6. \A s \in Slugs : Placed(s)'
    BY <2>1, <2>2, <2>3 DEF Placed
  <2> QED BY <1>0, <2>1, <2>2, <2>4, <2>5, <2>6
<1>9. CASE RecordPublish
  BY <1>0, <1>9 DEF RecordPublish, Known, Untouched, Placed
<1> QED BY <1>1, <1>2, <1>3, <1>4, <1>5, <1>6, <1>7, <1>8, <1>9 DEF InsideAction

LEMMA OthersKeepPosts ==
    ASSUME TInv, PostInv, OtherAction, Straight
    PROVE  Straight' => PostInv'
<1> USE DEF TInv, SInv, LInv, TypeOK, Graphs, OutputRows, ArticleRow, Posts, Straight, PostInv,
            HasSeo, PastSeo, PastGate
<1>0. UNCHANGED <<outputs, texts>> /\ judged'.gate = judged.gate /\ judged.approver \subseteq judged'.approver
  <2>1. CASE \E override \in BOOLEAN : Approve(override)
    BY <2>1 DEF Approve
  <2>2. UNCHANGED <<outputs, judged, texts>> \/ \E override \in BOOLEAN : Approve(override)
    BY DEF OtherAction, Request, EndAction, Begin, Resume, Revise, Reject, RecoverStale,
           StopAsTopicDuplicate, MarkRunning, FailStep, StopAsDuplicate, Finish, CompleteApproval,
           Crash, SendApproved, vars
  <2> QED BY <2>1, <2>2
<1>1. UNCHANGED target => \A slug \in Slugs : Placed(slug)'
  BY <1>0 DEF Placed
<1>2. ASSUME graph' = Idle \/ graph' = graph, UNCHANGED <<article, target>> PROVE PostInv'
  BY <1>0, <1>1, <1>2 DEF Idle, Known, Untouched, Fresh
<1>3. ASSUME NEW force \in BOOLEAN, NEW topicSeen \in BOOLEAN, Begin(force, topicSeen)
      PROVE  PostInv'
  <2>1. graph'.node = "begin" /\ graph'.edited = 0 /\ graph'.completed = {} /\ UNCHANGED <<article, target>>
    BY <1>3, IdleType DEF Begin, Idle
  <2> QED BY <1>0, <1>1, <2>1 DEF Known, Untouched
<1>4. ASSUME NEW force \in BOOLEAN, Resume(force) PROVE PostInv'
  <2>1. UNCHANGED <<article, target>>
    BY <1>4 DEF Resume
  <2> QED BY <1>0, <1>1, <1>4, <2>1, Restored DEF Known, Untouched
<1>5. CASE Revise
  BY <1>5 DEF Revise, Runs, Histories
<1>6. ASSUME \/ article' = article
             \/ article # NoArticle /\ article'.text = article.text /\ article'.slug = article.slug,
             graph' = Idle \/ graph' = graph, UNCHANGED target
      PROVE  PostInv'
  BY <1>0, <1>1, <1>6 DEF Idle, Known, Untouched, Fresh, NoArticle
<1>7. CASE Reject \/ CompleteApproval \/ \E override \in BOOLEAN : Approve(override)
  <2>1. \/ article' = article
        \/ article # NoArticle /\ article'.text = article.text /\ article'.slug = article.slug
    <3>1. CASE Reject
      BY <3>1 DEF Reject, RejectedArticle
    <3>2. CASE CompleteApproval
      BY <3>2 DEF CompleteApproval, PublishedArticle, RowShape
    <3>3. CASE \E override \in BOOLEAN : Approve(override)
      BY <3>3 DEF Approve, ApprovedArticle, MayApprove
    <3> QED BY <1>7, <3>1, <3>2, <3>3
  <2>2. UNCHANGED <<graph, target>>
    BY <1>7 DEF Reject, CompleteApproval, Approve
  <2> QED BY <1>6, <2>1, <2>2
<1>8. CASE RecoverStale \/ StopAsTopicDuplicate \/ FailStep \/ StopAsDuplicate \/ Crash \/ UNCHANGED vars
  BY <1>2, <1>8 DEF RecoverStale, StopAsTopicDuplicate, FailStep, StopAsDuplicate, Crash, vars
<1>9. CASE Finish
  <2>1. /\ graph' = Idle /\ UNCHANGED target
        /\ article'.text = graph.edited /\ article'.slug = graph.seo.slug
    BY <1>9 DEF Finish, FinishedArticle
  <2>2. outputs.seo = graph.seo /\ graph.seo.slug \in Slugs
    BY <1>9 DEF Finish, RecordInv, GraphShape
  <2>3. outputs.seo # NoSeo
    BY <2>2, NoSlugAssumption DEF NoSeo
  <2> QED BY <1>0, <1>1, <2>1, <2>2, <2>3 DEF Idle, Known
<1>10. CASE MarkRunning
  <2>1. /\ graph'.node \in {"read_sources", "planner"} /\ graph'.edited = graph.edited
        /\ graph'.completed = graph.completed /\ graph.node \in {"begin", "mark_running"}
        /\ UNCHANGED <<article, target>>
    BY <1>10 DEF MarkRunning
  <2> QED BY <1>0, <1>1, <2>1 DEF Known, Untouched
<1>11. ASSUME NEW result \in {"ok", "error"}, SendApproved(result) PROVE PostInv'
  <2>1. UNCHANGED <<graph, article, judged>> /\ graph = Idle
    BY <1>11 DEF SendApproved
  <2>2. article # NoArticle /\ article.slug \in Slugs /\ article.text \in judged.approver
    BY <1>11 DEF SendApproved, RowShape, ApprovalInv
  <2>3. \A s \in Slugs : \/ target'[s] = target[s]
                         \/ s = article.slug /\ target'[s].text = article.text
    BY <1>11, <2>2 DEF SendApproved, Publish, Posted
  <2>4. Known'
    BY <1>0, <2>1, <2>3 DEF Known
  <2>5. \A s \in Slugs : Placed(s)'
    <3> SUFFICES ASSUME NEW s \in Slugs PROVE Placed(s)'
      OBVIOUS
    <3>1. CASE target'[s] = target[s]
      BY <1>0, <3>1 DEF Placed
    <3>2. CASE s = article.slug /\ target'[s].text = article.text
      BY <1>0, <2>1, <2>2, <3>2 DEF Placed
    <3> QED BY <2>3, <3>1, <3>2
  <2>6. outputs.seo # NoSeo
    BY <2>2 DEF Untouched
  <2> QED BY <1>0, <2>1, <2>4, <2>5, <2>6 DEF Idle
<1> QED BY <1>3, <1>4, <1>5, <1>7, <1>8, <1>9, <1>10, <1>11 DEF OtherAction, Request, EndAction

(* However often a run that is not revised is retried, its text has one    *)
(* post, unless a text the gate refused was approved.                      *)
THEOREM OnePost == Spec => []OnePostPerArticle
<1> DEFINE Inv == TInv /\ (Straight => PostInv)
<1>1. Init => Inv
  <2> SUFFICES ASSUME Init PROVE Inv
    OBVIOUS
  <2>1. TInv
    BY InitHasTexts
  <2>2. \A slug \in Slugs : target[slug].text = 0
    BY DEF Init, NoPost
  <2> QED BY <2>1, <2>2 DEF Init, PostInv, Known, Untouched, Fresh, Placed, HasSeo, PastSeo, PastGate,
             Idle, NoOutputs, NoArticle
<1>2. Inv /\ [Next]_vars => Inv'
  <2> SUFFICES ASSUME Inv, [Next]_vars, Straight' PROVE Inv'
    BY NextKeepsTexts
  <2>1. TInv' /\ Straight
    BY NextKeepsTexts, ConfigIsFixed, RevisionIsKept DEF Straight, TInv, SInv, LInv
  <2> QED BY <2>1, InsideOrOther, InsideKeepsPosts, OthersKeepPosts
<1>3. Inv => OnePostPerArticle
  <2> SUFFICES ASSUME Inv, Straight, \A text \in judged.approver : Judged(text)
               PROVE  Cardinality({slug \in Slugs : target[slug].text # 0}) <= 1
    BY DEF OnePostPerArticle, Straight
  <2>1. {slug \in Slugs : target[slug].text # 0} \subseteq {outputs.seo.slug}
    BY DEF PostInv, Placed, Judged
  <2>2. IsFiniteSet({outputs.seo.slug}) /\ Cardinality({outputs.seo.slug}) = 1
    BY FS_Singleton
  <2> QED BY <2>1, <2>2, FS_Subset
<1> QED BY <1>1, <1>2, <1>3, PTL DEF Spec
=============================================================================
