----------------------------- MODULE ArticleRun -----------------------------
(***************************************************************************)
(* One run of the article workflow (packages/graph), from the request for  *)
(* an article to the end of its life: the graph of steps with the quality  *)
(* gate and its regeneration loop, the duplicate check, the publication    *)
(* policy, the step records a run is resumed from, and what an operator    *)
(* may do to the stored article (resume, revise, approve, reject).  One    *)
(* process works on the run at a time; it can fail at any step that calls  *)
(* out and die between any two steps.                                      *)
(*                                                                         *)
(* RunRoutes is about what happens when several requests act at once.      *)
(***************************************************************************)
EXTENDS RunStore, FiniteSets

CONSTANT
    Configs    \* the configurations a run is looked at under

VARIABLES
    config,    \* the configuration of the process and of the request
    run,       \* the row of the workflows table
    outputs,   \* the latest recorded success of each step
    article,   \* the row of the articles table
    graph,     \* the graph state of the executing process
    approval,  \* how far an approve has come
    target,    \* the posts of the publishing target, by slug
    texts,     \* how many texts the agents have produced
    judged,    \* the texts the gate, the review and an approver let pass
    budget     \* what is left of the bounds

store == <<run, outputs, article>>
vars  == <<config, run, outputs, article, graph, approval, target, texts, judged, budget>>

-----------------------------------------------------------------------------
Steps == {"read_sources", "planner", "find_links", "writer", "editor", "seo",
          "duplicate_check", "quality", "regenerate", "editorial_review",
          "classification", "publisher"}

(* The steps that call a provider, the store or the target and can throw.  *)
(* The publisher manager turns every exception into a result.              *)
FallibleSteps == Steps \ {"quality", "regenerate", "publisher"}

Nodes == Steps \cup {"idle", "begin", "mark_running", "publisher_record", "end"}

Verdicts == {"none", "passed", "rejected"}
Results  == {"none", "ok", "error"}

(* What the SEO agent returns: the slug, and the text it describes.        *)
SeoOutputs == [slug : Slugs \cup {NoSlug}, about : Nat]
NoSeo      == [slug |-> NoSlug, about |-> 0]

(* Whether the run was revised, and whether it was resumed after that.     *)
Histories == {"straight", "revised", "revision_resumed"}

Runs == [status : Statuses, failedStep : Steps \cup {"none", "duplicate_topic_check"},
         topicSeen : BOOLEAN, force : BOOLEAN, history : Histories]

OutputRows == [read_sources : BOOLEAN, planner : BOOLEAN, find_links : BOOLEAN,
               writer : Nat, editor : Nat, seo : SeoOutputs,
               duplicate_check : {"none", "clear", "duplicate"},
               quality : Verdicts, editorial_review : Verdicts,
               classification : BOOLEAN, publisher : Results]

NoOutputs == [read_sources |-> FALSE, planner |-> FALSE, find_links |-> FALSE,
              writer |-> 0, editor |-> 0, seo |-> NoSeo, duplicate_check |-> "none",
              quality |-> "none", editorial_review |-> "none",
              classification |-> FALSE, publisher |-> "none"]

Graphs == [node : Nodes, article : Nat, edited : Nat, seo : SeoOutputs,
           duplicate : BOOLEAN, quality : Verdicts, published : Results,
           regenerations : Nat, completed : SUBSET Steps,
           force : BOOLEAN, ownSlug : Slugs \cup {NoSlug}]

Idle == [node |-> "idle", article |-> 0, edited |-> 0, seo |-> NoSeo,
         duplicate |-> FALSE, quality |-> "none", published |-> "none",
         regenerations |-> 0, completed |-> {}, force |-> FALSE, ownSlug |-> NoSlug]

(* A post of the target; a post somebody else wrote has text 0.            *)
Posts  == [state : {"none", "draft", "live"}, text : Nat]
NoPost == [state |-> "none", text |-> 0]

(* Bounds: executions of the run (begin, resume, revise), revisions among  *)
(* them, and mishaps: failures, crashes and lost records.                  *)
Budgets == [executions : Nat, revisions : Nat, mishaps : Nat]

Policies == {"draft", "publish_after_approval", "publish_if_gate_passes"}

Configurations ==
    [policy : Policies,                     \* OPENBLOG_PUBLICATION_POLICY
     onExisting : {"update", "conflict"},   \* what the target does with a taken slug
     storedElsewhere : SUBSET Slugs,        \* slugs of the stored articles of other runs
     sources : BOOLEAN,                     \* the brief names source pages
     links : BOOLEAN,                       \* internal links are offered to the writer
     review : BOOLEAN,                      \* the editorial review runs after the gate
     maxRegenerations : Nat,                \* regenerations allowed by the gate
     recordsLost : BOOLEAN,                 \* writing a step record may fail
     bounds : Budgets]

ASSUME RunAssumption == Configs \subseteq Configurations

TypeOK ==
    /\ config \in Configs
    /\ run \in Runs
    /\ outputs \in OutputRows
    /\ article \in ArticleRow
    /\ graph \in Graphs
    /\ approval \in {"none", "publish", "ok", "error"}
    /\ target \in [Slugs -> Posts]
    /\ texts \in Nat
    /\ judged \in [gate : SUBSET Nat, review : SUBSET Nat, approver : SUBSET Nat]
    /\ budget \in Budgets

(* The target may hold posts of others from the start.                     *)
Init ==
    /\ config \in Configs
    /\ run = [status |-> "none", failedStep |-> "none", topicSeen |-> FALSE,
              force |-> FALSE, history |-> "straight"]
    /\ outputs = NoOutputs
    /\ article = NoArticle
    /\ graph = Idle
    /\ approval = "none"
    /\ target \in [Slugs -> {NoPost, [state |-> "live", text |-> 0]}]
    /\ texts = 0
    /\ judged = [gate |-> {}, review |-> {}, approver |-> {}]
    /\ budget = config.bounds

-----------------------------------------------------------------------------
(* Requests.  Each one that executes the run ends with the graph at        *)
(* "begin" or "mark_running"; nothing else works on the run meanwhile.     *)

Quiet == graph = Idle /\ approval = "none"

SpendExecution ==
    /\ budget.executions > 0
    /\ budget' = [budget EXCEPT !.executions = @ - 1]

SpendMishap ==
    /\ budget.mishaps > 0
    /\ budget' = [budget EXCEPT !.mishaps = @ - 1]

(* begin: a published run of the same topic is noted in the new row.       *)
Begin(force, topicSeen) ==
    /\ run.status = "none"
    /\ SpendExecution
    /\ run' = [run EXCEPT !.status = "started", !.force = force, !.topicSeen = topicSeen]
    /\ graph' = [Idle EXCEPT !.node = "begin", !.force = force]
    /\ UNCHANGED <<config, outputs, article, approval, target, texts, judged>>

(* updateStatus: a status is written together with the step that failed,   *)
(* or with none.                                                           *)
WithStatus(status, failedStep) ==
    [run EXCEPT !.status = status, !.failedStep = failedStep]

StopAsTopicDuplicate ==
    /\ graph.node = "begin"
    /\ run.topicSeen /\ ~graph.force
    /\ run' = WithStatus("duplicate", "duplicate_topic_check")
    /\ graph' = Idle
    /\ UNCHANGED <<config, outputs, article, approval, target, texts, judged, budget>>

(* Slip: only a new topic is executed, forced or not.                      *)
MarkRunningUnforced ==
    /\ graph.node = "mark_running" \/ (graph.node = "begin" /\ ~run.topicSeen)
    /\ run' = WithStatus("running", "none")
    /\ graph' = [graph EXCEPT !.node = IF config.sources THEN "read_sources" ELSE "planner"]
    /\ UNCHANGED <<config, outputs, article, approval, target, texts, judged, budget>>

(* markRunning, then the entry of the graph.                               *)
MarkRunning ==
    /\ \/ graph.node = "mark_running"
       \/ graph.node = "begin" /\ (graph.force \/ ~run.topicSeen)
    /\ run' = WithStatus("running", "none")
    /\ graph' = [graph EXCEPT !.node = IF config.sources THEN "read_sources" ELSE "planner"]
    /\ UNCHANGED <<config, outputs, article, approval, target, texts, judged, budget>>

(***************************************************************************)
(* restoreState: the latest recorded success of every step is reused, but  *)
(* a step whose output says that a duplicate was found, that the article   *)
(* was refused or that the target did not confirm is not a completed one.  *)
(***************************************************************************)
RecordedSteps(o) ==
    {s \in {"read_sources", "planner", "find_links", "classification"} : o[s]}
    \cup {s \in {"writer", "editor"} : o[s] # 0}
    \cup {s \in {"seo"} : o[s] # NoSeo}
    \cup {s \in {"duplicate_check", "quality", "editorial_review", "publisher"} : o[s] # "none"}

Inconclusive(o) ==
    {s \in {"duplicate_check"} : o[s] = "duplicate"}
    \cup {s \in {"quality", "editorial_review"} : o[s] = "rejected"}
    \cup {s \in {"publisher"} : o[s] = "error"}

(* Slips: the slug is chosen anew; a publish that was not confirmed counts *)
(* as done.                                                                *)
CompletedWithoutSlug(o) == RecordedSteps(o) \ (Inconclusive(o) \cup {"seo"})

CompletedWithLostPublish(o) == RecordedSteps(o) \ (Inconclusive(o) \ {"publisher"})

CompletedSteps(o) == RecordedSteps(o) \ Inconclusive(o)

RestoredGraph(o) ==
    [Idle EXCEPT !.article   = o.writer,
                 !.edited    = o.editor,
                 !.seo       = o.seo,
                 !.quality   = IF o.quality = "passed" THEN "passed" ELSE "none",
                 !.published = IF o.publisher = "ok" THEN "ok" ELSE "none",
                 !.completed = CompletedSteps(o)]

(* The force of the first request is not carried over.                     *)
Resume(force) ==
    /\ Quiet
    /\ MayResume(run.status)
    /\ SpendExecution
    /\ run' = [run EXCEPT !.history = IF @ = "straight" THEN @ ELSE "revision_resumed"]
    /\ graph' = [RestoredGraph(outputs) EXCEPT !.node = "mark_running", !.force = force]
    /\ UNCHANGED <<config, outputs, article, approval, target, texts, judged>>

(* Slip: only the texts and the gate are done again.                       *)
KeptWithReview(o) ==
    CompletedSteps(o) \ {"writer", "editor", "seo", "duplicate_check", "quality"}

(* Only what the writer starts from is kept, and only if the outline is    *)
(* still there.  The slug of a draft that was sent is that of the article. *)
KeptByRevision(o) ==
    IF o.planner THEN {"read_sources", "planner", "find_links"} \cap CompletedSteps(o)
    ELSE {}

Revise ==
    /\ Quiet
    /\ MayReview(run.status)
    /\ budget.executions > 0 /\ budget.revisions > 0
    /\ budget' = [budget EXCEPT !.executions = @ - 1, !.revisions = @ - 1]
    /\ run' = [run EXCEPT !.history = IF @ = "straight" THEN "revised" ELSE @]
    /\ graph' = [Idle EXCEPT !.node      = "mark_running",
                             !.force     = run.force,
                             !.completed = KeptByRevision(outputs),
                             !.ownSlug   = IF outputs.publisher = "ok" THEN article.slug
                                           ELSE NoSlug]
    /\ UNCHANGED <<config, outputs, article, approval, target, texts, judged>>

Reject ==
    /\ Quiet
    /\ MayReview(run.status)
    /\ run' = WithStatus("rejected", "none")
    /\ article' = RejectedArticle(article)
    /\ UNCHANGED <<config, outputs, graph, approval, target, texts, judged, budget>>

(* recoverStaleRuns, on a run whose process is dead.                       *)
RecoverStale ==
    /\ Quiet
    /\ run.status \in ActiveStatuses
    /\ run' = WithStatus("interrupted", "none")
    /\ UNCHANGED <<config, outputs, article, graph, approval, target, texts, judged, budget>>

-----------------------------------------------------------------------------
(* The graph.                                                              *)

(* Slip: the publisher runs under every policy.                            *)
PublisherUnderAnyPolicy(g) == IF g.quality = "passed" THEN "publisher" ELSE "end"

AfterClassification(g) ==
    IF g.quality = "passed" /\ config.policy # "publish_after_approval" THEN "publisher" ELSE "end"

(* The edges, on the state after the step.                                 *)
After(g, s) ==
    CASE s = "read_sources"     -> "planner"
      [] s = "planner"          -> IF config.links THEN "find_links" ELSE "writer"
      [] s = "find_links"       -> "writer"
      [] s = "writer"           -> "editor"
      [] s = "editor"           -> "seo"
      [] s = "seo"              -> "duplicate_check"
      [] s = "duplicate_check"  -> IF g.duplicate /\ ~g.force THEN "end" ELSE "quality"
      [] s = "quality"          -> IF g.quality = "passed"
                                   THEN IF config.review THEN "editorial_review"
                                        ELSE "classification"
                                   ELSE IF g.regenerations < config.maxRegenerations
                                        THEN "regenerate" ELSE "classification"
      [] s = "regenerate"       -> "writer"
      [] s = "editorial_review" -> "classification"
      [] s = "classification"   -> AfterClassification(g)
      [] s = "publisher"        -> "end"

Executes(s) == graph.node = s /\ s \notin graph.completed

Leave(s, g) == graph' = [g EXCEPT !.node = After(g, s)]

(* Recording is attempted after the step succeeded; a record that cannot   *)
(* be written is only logged.                                              *)
Record(o) ==
    \/ outputs' = o /\ UNCHANGED budget
    \/ config.recordsLost /\ SpendMishap /\ UNCHANGED outputs

Skip ==
    /\ graph.node \in graph.completed
    /\ Leave(graph.node, graph)
    /\ UNCHANGED <<config, run, outputs, article, approval, target, texts, judged, budget>>

ReadSources ==
    /\ Executes("read_sources")
    /\ Leave("read_sources", graph)
    /\ Record([outputs EXCEPT !.read_sources = TRUE])
    /\ UNCHANGED <<config, run, article, approval, target, texts, judged>>

Plan ==
    /\ Executes("planner")
    /\ Leave("planner", graph)
    /\ Record([outputs EXCEPT !.planner = TRUE])
    /\ UNCHANGED <<config, run, article, approval, target, texts, judged>>

FindLinks ==
    /\ Executes("find_links")
    /\ Leave("find_links", graph)
    /\ Record([outputs EXCEPT !.find_links = TRUE])
    /\ UNCHANGED <<config, run, article, approval, target, texts, judged>>

Write ==
    /\ Executes("writer")
    /\ texts' = texts + 1
    /\ Leave("writer", [graph EXCEPT !.article = texts'])
    /\ Record([outputs EXCEPT !.writer = texts'])
    /\ UNCHANGED <<config, run, article, approval, target, judged>>

Edit ==
    /\ Executes("editor")
    /\ texts' = texts + 1
    /\ Leave("editor", [graph EXCEPT !.edited = texts'])
    /\ Record([outputs EXCEPT !.editor = texts'])
    /\ UNCHANGED <<config, run, article, approval, target, judged>>

(* currentArticle: the edited text once there is one.                      *)
CurrentArticle(g) == IF g.edited # 0 THEN g.edited ELSE g.article

Describe(slug) ==
    /\ Executes("seo")
    /\ LET seo == [slug |-> slug, about |-> CurrentArticle(graph)]
       IN  /\ Leave("seo", [graph EXCEPT !.seo = seo])
           /\ Record([outputs EXCEPT !.seo = seo])
    /\ UNCHANGED <<config, run, article, approval, target, texts, judged>>

(* findDuplicate: an article of another run that was published or waits    *)
(* for a decision.                                                         *)
StoredDuplicate(slug) == slug \in config.storedElsewhere

(* findExisting: a post of the target, unless it is the draft this run is  *)
(* revising.                                                               *)
RemoteDuplicate(slug) == target[slug] # NoPost /\ graph.ownSlug # slug

CheckDuplicate ==
    /\ Executes("duplicate_check")
    /\ LET slug  == graph.seo.slug
           found == StoredDuplicate(slug) \/ RemoteDuplicate(slug)
       IN  /\ Leave("duplicate_check", [graph EXCEPT !.duplicate = found])
           /\ Record([outputs EXCEPT !.duplicate_check = IF found THEN "duplicate" ELSE "clear"])
    /\ UNCHANGED <<config, run, article, approval, target, texts, judged>>

(* The gate: a deterministic judgement of the text, but the limits it      *)
(* applies are configuration, which may change between two executions.     *)
JudgeQuality(verdict) ==
    /\ Executes("quality")
    /\ Leave("quality", [graph EXCEPT !.quality = verdict])
    /\ Record([outputs EXCEPT !.quality = verdict])
    /\ judged' = IF verdict = "passed"
                 THEN [judged EXCEPT !.gate = @ \cup {CurrentArticle(graph)}] ELSE judged
    /\ UNCHANGED <<config, run, article, approval, target, texts>>

ReviewEditorially(verdict) ==
    /\ Executes("editorial_review")
    /\ Leave("editorial_review",
             IF verdict = "passed" THEN graph ELSE [graph EXCEPT !.quality = "rejected"])
    /\ Record([outputs EXCEPT !.editorial_review = verdict])
    /\ judged' = IF verdict = "passed"
                 THEN [judged EXCEPT !.review = @ \cup {CurrentArticle(graph)}] ELSE judged
    /\ UNCHANGED <<config, run, article, approval, target, texts>>

(* The steps to redo are taken off the completed ones of this execution;   *)
(* their records stay.                                                     *)
Regenerate ==
    /\ Executes("regenerate")
    /\ Leave("regenerate",
             [graph EXCEPT !.regenerations = @ + 1,
                           !.completed = @ \ {"writer", "editor", "seo", "duplicate_check",
                                              "quality", "editorial_review"}])
    /\ UNCHANGED <<config, run, outputs, article, approval, target, texts, judged, budget>>

Classify ==
    /\ Executes("classification")
    /\ Leave("classification", graph)
    /\ Record([outputs EXCEPT !.classification = TRUE])
    /\ UNCHANGED <<config, run, article, approval, target, texts, judged>>

(***************************************************************************)
(* The target looks the slug up first.  An existing post is updated, or    *)
(* refused as a conflict; an update never takes a live post offline.  The  *)
(* request can fail, also after the target has carried it out.             *)
(***************************************************************************)
Posted(slug, text, live) ==
    [target EXCEPT ![slug] = [state |-> IF live \/ @.state = "live" THEN "live" ELSE "draft",
                              text  |-> text]]

Publish(slug, text, live, result) ==
    IF target[slug] # NoPost /\ config.onExisting = "conflict"
    THEN result = "error" /\ UNCHANGED <<target, budget>>
    ELSE \/ result = "ok" /\ target' = Posted(slug, text, live) /\ UNCHANGED budget
         \/ result = "error" /\ SpendMishap /\ target' \in {target, Posted(slug, text, live)}

SendToTarget(result) ==
    /\ Executes("publisher")
    /\ Publish(graph.seo.slug, CurrentArticle(graph), config.policy = "publish_if_gate_passes", result)
    /\ graph' = [graph EXCEPT !.published = result, !.node = "publisher_record"]
    /\ UNCHANGED <<config, run, outputs, article, approval, texts, judged>>

RecordPublish ==
    /\ graph.node = "publisher_record"
    /\ Leave("publisher", graph)
    /\ Record([outputs EXCEPT !.publisher = graph.published])
    /\ UNCHANGED <<config, run, article, approval, target, texts, judged>>

(* A step that throws ends the execution: failWorkflow.                    *)
FailStep ==
    /\ graph.node \in FallibleSteps /\ Executes(graph.node)
    /\ SpendMishap
    /\ run' = WithStatus("failed", graph.node)
    /\ graph' = Idle
    /\ UNCHANGED <<config, outputs, article, approval, target, texts, judged>>

StopAsDuplicate ==
    /\ graph.node = "end"
    /\ graph.duplicate /\ ~graph.force
    /\ run' = WithStatus("duplicate", "duplicate_check")
    /\ graph' = Idle
    /\ UNCHANGED <<config, outputs, article, approval, target, texts, judged, budget>>

(* Slip: a publish nobody confirmed.                                       *)
OutcomeUnconfirmed(g) ==
    IF g.quality # "passed" THEN "needs_review"
    ELSE IF config.policy = "publish_if_gate_passes" THEN "published" ELSE "awaiting_approval"

(* The status an execution that reached the end of the graph is given.     *)
OutcomeOf(g) ==
    IF g.quality # "passed" THEN "needs_review"
    ELSE IF config.policy = "publish_after_approval" THEN "awaiting_approval"
    ELSE IF g.published # "ok" THEN "failed"
    ELSE IF config.policy = "draft" THEN "awaiting_approval" ELSE "published"

(* finishWorkflow: the status and the article row in one transaction.      *)
Finish ==
    /\ graph.node = "end"
    /\ graph.force \/ ~graph.duplicate
    /\ LET status == OutcomeOf(graph)
       IN  /\ run' = WithStatus(status, CASE status = "needs_review" -> "quality"
                                           [] status = "failed" -> "publisher"
                                           [] OTHER -> "none")
           /\ article' = FinishedArticle(status, graph.edited, graph.seo.slug,
                                         graph.quality = "passed")
    /\ graph' = Idle
    /\ UNCHANGED <<config, outputs, approval, target, texts, judged, budget>>

-----------------------------------------------------------------------------
(* approve: the decision is stored, the stored article is sent live, and   *)
(* only a confirmed publish makes the run published.                       *)

Approve(override) ==
    /\ Quiet
    /\ MayApprove(run.status, article, override)
    /\ article' = ApprovedArticle(article, override)
    /\ approval' = "publish"
    /\ judged' = [judged EXCEPT !.approver = @ \cup {article.text}]
    /\ UNCHANGED <<config, run, outputs, graph, target, texts, budget>>

SendApproved(result) ==
    /\ approval = "publish"
    /\ Publish(article.slug, article.text, TRUE, result)
    /\ approval' = result
    /\ UNCHANGED <<config, run, outputs, article, graph, texts, judged>>

CompleteApproval ==
    /\ approval \in {"ok", "error"}
    /\ article' = PublishedArticle(article, approval = "ok")
    /\ run' = IF approval = "ok" THEN WithStatus("published", "none") ELSE run
    /\ approval' = "none"
    /\ UNCHANGED <<config, outputs, graph, target, texts, judged, budget>>

(* The process dies: what it held is lost, what it stored is not.          *)
Crash ==
    /\ ~Quiet
    /\ SpendMishap
    /\ graph' = Idle
    /\ approval' = "none"
    /\ UNCHANGED <<config, run, outputs, article, target, texts, judged>>

-----------------------------------------------------------------------------
Request ==
    \/ \E force, topicSeen \in BOOLEAN : Begin(force, topicSeen)
    \/ \E force \in BOOLEAN : Resume(force)
    \/ Revise
    \/ Reject
    \/ RecoverStale
    \/ \E override \in BOOLEAN : Approve(override)

(* The steps of the process that executes or approves the run.             *)
Progress ==
    \/ StopAsTopicDuplicate
    \/ MarkRunning
    \/ Skip
    \/ ReadSources \/ Plan \/ FindLinks \/ Write \/ Edit
    \/ \E slug \in Slugs : Describe(slug)
    \/ CheckDuplicate
    \/ \E verdict \in {"passed", "rejected"} : JudgeQuality(verdict)
    \/ \E verdict \in {"passed", "rejected"} : ReviewEditorially(verdict)
    \/ Regenerate
    \/ Classify
    \/ \E result \in {"ok", "error"} : SendToTarget(result)
    \/ RecordPublish
    \/ FailStep
    \/ StopAsDuplicate
    \/ Finish
    \/ \E result \in {"ok", "error"} : SendApproved(result)
    \/ CompleteApproval

Next == Request \/ Progress \/ Crash

Spec == Init /\ [][Next]_vars

(* Every call a step makes has a timeout, so a live process always gets    *)
(* to the end of the step it is in; nothing obliges anybody to ask for     *)
(* anything, and nothing prevents a crash.                                 *)
FairSpec == Spec /\ WF_vars(Progress)

-----------------------------------------------------------------------------
(* A text goes to the target in one of two ways: the publisher step sends  *)
(* it, or an approval that overrides nothing does.  Either way this very   *)
(* text passed the quality gate, and the editorial review if there is one  *)
(* (edges of quality and classification, restoreState, gate_passed of the  *)
(* article row).                                                           *)
Judged(text) == text \in judged.gate /\ (config.review => text \in judged.review)

NothingUnjudgedIsSent ==
    /\ Executes("publisher") => Judged(CurrentArticle(graph))
    /\ approval = "publish" /\ ~article.override => Judged(article.text)

(* The step records are about one text as long as none is lost and no      *)
(* revision is resumed.                                                    *)
RecordsAgree == ~config.recordsLost /\ run.history # "revision_resumed"

(* A resumed, regenerated or revised text is never sent on the verdict of  *)
(* an earlier one, unless step records are lost or a revision is resumed   *)
(* (restoreState, regenerate node, revise).                                *)
OnlyJudgedTextIsSent == RecordsAgree => NothingUnjudgedIsSent

(* A run that says published has its stored text live under its stored     *)
(* slug, and the article row agrees, whatever was revised, retried or cut  *)
(* short before (finishWorkflow, completeApproval).  Excepted is a run     *)
(* that is published without an approval: it reuses a publish on record,   *)
(* of another text if a record was lost, or though an approval of another  *)
(* text has replaced the post since.                                       *)
PublishedIsLive ==
    /\ run.status = "published"
    /\ ~article.approved => ~config.recordsLost /\ judged.approver \subseteq {article.text}
    =>
        /\ article.reviewState = "published"
        /\ target[article.slug] = [state |-> "live", text |-> article.text]

(* Unless drafts are sent, no text of the run becomes visible to readers   *)
(* but by an approval, or because the policy publishes what passes the     *)
(* gate (publicationPolicy, publisher step, approve).  A draft sent under  *)
(* the slug of a live post is visible: WordPress leaves it live.           *)
LiveOnlyByDecision ==
    \/ config.policy = "publish_after_approval"
    \/ config.policy = "publish_if_gate_passes" /\ RecordsAgree
    =>
        \A slug \in Slugs :
            target[slug].state = "live" /\ target[slug].text # 0 =>
                \/ target[slug].text \in judged.approver
                \/ config.policy = "publish_if_gate_passes" /\ Judged(target[slug].text)

(* However often a run that is not revised fails, dies, is resumed and     *)
(* approved, its text is under one slug of the target: a retry updates the *)
(* post the lost attempt left, it does not add one (restoreState keeps the *)
(* slug, the publisher looks it up).  An approver who overrides the gate   *)
(* is the exception: the refused text may be approved while a later one,   *)
(* under another slug, is already at the target.                           *)
OnePostPerArticle ==
    ~config.recordsLost /\ run.history = "straight"
        /\ (\A text \in judged.approver : Judged(text)) =>
        Cardinality({slug \in Slugs : target[slug].text # 0}) <= 1

(* A resume of a failed run executes the failed step again: it is not      *)
(* among the steps taken as done from an earlier attempt (restoreState).   *)
FailedStepIsRepeated ==
    (run.status = "failed" /\ \E force \in BOOLEAN : Resume(force))
        => run.failedStep \notin graph'.completed

ResumeRepeatsFailedStep == [][FailedStepIsRepeated]_vars

(* It does so as long as every step has been completed once at most.       *)
ResumeRepeatsFirstPass ==
    [][config.maxRegenerations = 0 /\ run.history = "straight"
         => FailedStepIsRepeated]_vars

(* Seen from outside, the status of the run moves as RunLifecycle says.    *)
Lifecycle == INSTANCE RunLifecycle WITH status <- run.status

LifecycleSpec == Lifecycle!Spec

(* An execution or approval that is not killed comes to its end: the       *)
(* regeneration loop terminates and no node waits for what never comes.    *)
ExecutionEnds == ~Quiet ~> Quiet
=============================================================================
