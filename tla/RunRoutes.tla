------------------------------ MODULE RunRoutes ------------------------------
(***************************************************************************)
(* The HTTP routes that act on one run (apps/server, routes/runs.ts) while *)
(* the queue executes it in the background.  A handler runs between two    *)
(* events of the process without being interrupted: what it awaits is      *)
(* answered by the in-process store.  Only three things take time and let  *)
(* other requests in: waiting for a worker, executing the graph, and the   *)
(* publish of an approval.                                                 *)
(*                                                                         *)
(* ArticleRun is about what an execution does; here it has a text, a new   *)
(* one or one of before, may send it as a draft, and ends in some outcome. *)
(***************************************************************************)
EXTENDS RunStore

CONSTANTS
    Requests,       \* the requests; each is made once at most
    MaxRestarts     \* bound: deaths of the server process

RequestKinds == {"resume", "revise", "approve", "reject"}

ASSUME RoutesAssumption == MaxRestarts \in Nat

VARIABLES
    status,    \* the status of the run
    article,   \* its article row
    inFlight,  \* whether the run is in the set of queued or executing runs
    job,       \* the background work each request has queued
    sending,   \* the text that the publish of each request is about
    target,    \* the post of the publishing target under the slug of the run
    texts,     \* how many texts were produced
    approved,  \* the texts that were approved
    restarts   \* what is left of the bound

vars == <<status, article, inFlight, job, sending, target, texts, approved, restarts>>

(* A request nobody has made yet is "new"; one that was answered without   *)
(* background work, or whose work is over, is "done".                      *)
Phases == {"new", "queued", "executing", "sent", "approving", "confirmed", "refused", "done"}

Jobs == [kind : {"none", "begin"} \cup RequestKinds, phase : Phases]

Working(r) == job[r].phase \in {"queued", "executing", "sent"}

TypeOK ==
    /\ status \in Statuses
    /\ article \in ArticleRow
    /\ inFlight \in BOOLEAN
    /\ job \in [Requests -> Jobs]
    /\ sending \in [Requests -> Nat]
    /\ target \in [state : {"none", "draft", "live"}, text : Nat]
    /\ texts \in Nat
    /\ approved \in SUBSET Nat
    /\ restarts \in Nat

Init ==
    /\ status = "none"
    /\ article = NoArticle
    /\ inFlight = FALSE
    /\ job = [r \in Requests |-> [kind |-> "none", phase |-> "new"]]
    /\ sending = [r \in Requests |-> 0]
    /\ target = [state |-> "none", text |-> 0]
    /\ texts = 0
    /\ approved = {}
    /\ restarts = MaxRestarts

New(r) == job[r].phase = "new"

Enter(r, kind, phase) == job' = [job EXCEPT ![r] = [kind |-> kind, phase |-> phase]]

Advance(r, phase) == job' = [job EXCEPT ![r].phase = phase]

-----------------------------------------------------------------------------
(* POST /runs: the run is stored and queued.                               *)
Begin(r) ==
    /\ New(r) /\ status = "none"
    /\ status' = "started"
    /\ inFlight' = TRUE
    /\ Enter(r, "begin", "queued")
    /\ UNCHANGED <<article, sending, target, texts, approved, restarts>>

(* POST /runs/:id/resume, unless it is refused (409) or the queue is full. *)
Resume(r) ==
    /\ New(r)
    /\ MayResume(status)
    /\ ~inFlight
    /\ inFlight' = TRUE
    /\ Enter(r, "resume", "queued")
    /\ UNCHANGED <<status, article, sending, target, texts, approved, restarts>>

(* Slips: the runs in flight are not looked at.                            *)
ReviseInFlight(r) ==
    /\ New(r)
    /\ MayReview(status)
    /\ inFlight' = TRUE
    /\ Enter(r, "revise", "queued")
    /\ UNCHANGED <<status, article, sending, target, texts, approved, restarts>>

RejectInFlight(r) ==
    /\ New(r)
    /\ MayReview(status)
    /\ status' = "rejected"
    /\ article' = RejectedArticle(article)
    /\ Enter(r, "reject", "done")
    /\ UNCHANGED <<inFlight, sending, target, texts, approved, restarts>>

(* POST /runs/:id/revise: what is revised is read now, executed later.     *)
Revise(r) ==
    /\ New(r)
    /\ ~inFlight
    /\ MayReview(status)
    /\ inFlight' = TRUE
    /\ Enter(r, "revise", "queued")
    /\ UNCHANGED <<status, article, sending, target, texts, approved, restarts>>

(* POST /runs/:id/reject                                                   *)
Reject(r) ==
    /\ New(r)
    /\ ~inFlight
    /\ MayReview(status)
    /\ status' = "rejected"
    /\ article' = RejectedArticle(article)
    /\ Enter(r, "reject", "done")
    /\ UNCHANGED <<inFlight, sending, target, texts, approved, restarts>>

(* POST /runs/:id/approve, which does not look at the runs in flight.  The *)
(* article is read once; the request waits while the target publishes it,  *)
(* which may also fail after the target has carried it out.                *)
Approve(r, override) ==
    /\ New(r)
    /\ MayApprove(status, article, override)
    /\ article' = ApprovedArticle(article, override)
    /\ sending' = [sending EXCEPT ![r] = article.text]
    /\ approved' = approved \cup {article.text}
    /\ Enter(r, "approve", "approving")
    /\ UNCHANGED <<status, inFlight, target, texts, restarts>>

PublishApproved(r) ==
    /\ job[r].phase = "approving"
    /\ LET live == [state |-> "live", text |-> sending[r]]
       IN  \/ target' = live /\ Advance(r, "confirmed")
           \/ target' \in {target, live} /\ Advance(r, "refused")
    /\ UNCHANGED <<status, article, inFlight, sending, texts, approved, restarts>>

CompleteApproval(r) ==
    /\ job[r].phase \in {"confirmed", "refused"}
    /\ LET success == job[r].phase = "confirmed"
       IN  /\ article' = PublishedArticle(article, success)
           /\ status' = IF success THEN "published" ELSE status
    /\ Advance(r, "done")
    /\ UNCHANGED <<inFlight, sending, target, texts, approved, restarts>>

-----------------------------------------------------------------------------
(* Slips: a queued resume does not look at the run again; a run whose job  *)
(* was dropped stays in flight.                                            *)
StartUnchecked(r) ==
    /\ job[r].phase = "queued"
    /\ status' = "running"
    /\ Advance(r, "executing")
    /\ UNCHANGED <<article, inFlight, sending, target, texts, approved, restarts>>

DropInFlight(r) ==
    /\ job[r].phase = "queued"
    /\ \/ job[r].kind = "resume" /\ ~MayResume(status) /\ UNCHANGED status
       \/ job[r].kind = "begin" /\ status' = "duplicate"
    /\ Advance(r, "done")
    /\ UNCHANGED <<article, inFlight, sending, target, texts, approved, restarts>>

(* The queue starts a job when a worker is free.  A resume loads the run   *)
(* again and refuses what was decided meanwhile; a revision goes on with   *)
(* what it loaded; a new run may be stopped as a duplicate of a topic.     *)
StartJob(r) ==
    /\ job[r].phase = "queued"
    /\ job[r].kind = "resume" => MayResume(status)
    /\ status' = "running"
    /\ Advance(r, "executing")
    /\ UNCHANGED <<article, inFlight, sending, target, texts, approved, restarts>>

(* The job ends without an execution; the run is in flight no more.        *)
DropJob(r) ==
    /\ job[r].phase = "queued"
    /\ \/ job[r].kind = "resume" /\ ~MayResume(status) /\ UNCHANGED status
       \/ job[r].kind = "begin" /\ status' = "duplicate"
    /\ inFlight' = FALSE
    /\ Advance(r, "done")
    /\ UNCHANGED <<article, sending, target, texts, approved, restarts>>

(* The text of an execution is new; a resume may also restore one that was *)
(* recorded, not always the last if a record was lost.                     *)
Restored(r) == IF job[r].kind = "resume" THEN 1..texts ELSE {}

Produced(text) == texts' = IF text > texts THEN text ELSE texts

(* The publisher step of the draft policy: a live post stays live.         *)
SendDraft(r) ==
    /\ job[r].phase = "executing"
    /\ \E text \in {texts + 1} \cup Restored(r) :
         /\ Produced(text)
         /\ sending' = [sending EXCEPT ![r] = text]
         /\ target' = [state |-> IF target.state = "live" THEN "live" ELSE "draft",
                       text |-> text]
    /\ Advance(r, "sent")
    /\ UNCHANGED <<status, article, inFlight, approved, restarts>>

(* The end of an execution that sent its draft; the target may have failed *)
(* after it carried the request out.                                       *)
FinishSent(r) ==
    /\ job[r].phase = "sent"
    /\ status' \in {"awaiting_approval", "failed"}
    /\ \E slug \in Slugs : article' = FinishedArticle(status', sending[r], slug, TRUE)
    /\ inFlight' = FALSE
    /\ Advance(r, "done")
    /\ UNCHANGED <<sending, target, texts, approved, restarts>>

(* The end of one that did not: the gate refused the text, the target did  *)
(* not take it, the text was sent before and the record of that restored,  *)
(* or a step threw or found a duplicate and nothing is kept.               *)
FinishUnsent(r) ==
    /\ job[r].phase = "executing"
    /\ \/ /\ status' \in {"needs_review", "failed"}
          /\ \E text \in {texts + 1} \cup Restored(r), slug \in Slugs :
               /\ Produced(text)
               /\ article' = FinishedArticle(status', text, slug, status' = "failed")
       \/ /\ status' = "awaiting_approval"
          /\ target.state # "none"
          /\ \E text \in Restored(r), slug \in Slugs :
               article' = FinishedArticle(status', text, slug, TRUE)
          /\ UNCHANGED texts
       \/ status' \in {"failed", "duplicate"} /\ UNCHANGED <<article, texts>>
    /\ inFlight' = FALSE
    /\ Advance(r, "done")
    /\ UNCHANGED <<sending, target, approved, restarts>>

(* The process dies with all it had in memory.  The next one marks the run *)
(* as interrupted if it was active and not heard of for long enough.       *)
Restart ==
    /\ restarts > 0
    /\ restarts' = restarts - 1
    /\ \/ status \in ActiveStatuses /\ status' = "interrupted"
       \/ UNCHANGED status
    /\ inFlight' = FALSE
    /\ job' = [r \in Requests |-> IF New(r) THEN job[r] ELSE [job[r] EXCEPT !.phase = "done"]]
    /\ UNCHANGED <<article, sending, target, texts, approved>>

-----------------------------------------------------------------------------
Request(r) ==
    \/ Begin(r)
    \/ Resume(r)
    \/ Revise(r)
    \/ Reject(r)
    \/ \E override \in BOOLEAN : Approve(r, override)

Background(r) ==
    \/ StartJob(r) \/ DropJob(r) \/ SendDraft(r) \/ FinishSent(r) \/ FinishUnsent(r)

Next ==
    \/ \E r \in Requests :
         \/ Request(r) \/ Background(r)
         \/ PublishApproved(r) \/ CompleteApproval(r)
    \/ Restart

Spec == Init /\ [][Next]_vars

(* Workers become free and executions end; so do the publishes of          *)
(* approvals.  Nobody has to make a request, and no process has to die.    *)
FairSpec ==
    /\ Spec
    /\ \A r \in Requests :
         WF_vars(Background(r)) /\ WF_vars(PublishApproved(r)) /\ WF_vars(CompleteApproval(r))

-----------------------------------------------------------------------------
(* Whatever requests come together, one execution of the run at most is    *)
(* queued or under way (inFlight in the handlers of begin, resume and      *)
(* revise).                                                                *)
OneExecution == \A r, q \in Requests : Working(r) /\ Working(q) => r = q

(* A run is refused as "already queued or running" if and only if it is:   *)
(* no end of a job, and no death of the process, leaves it in flight.      *)
InFlightIsTrue == inFlight <=> \E r \in Requests : Working(r)

(* A resume that waited for a worker does not undo what was decided in the *)
(* meantime: a published or rejected run changes only through a revision   *)
(* that was accepted before, an execution or an approval under way.        *)
OnlyResumesWait ==
    \A r \in Requests :
        \/ job[r].phase \in {"new", "done"}
        \/ job[r].phase = "queued" /\ job[r].kind = "resume"

DecisionsOutlastResumes ==
    [][OnlyResumesWait /\ status \in {"published", "rejected"} => UNCHANGED status]_vars

(* As long as nobody approves, the status of the run moves as RunLifecycle *)
(* says: no request gets between a decision and what was queued before.    *)
Lifecycle == INSTANCE RunLifecycle

LifecycleUnlessApproved ==
    [][approved = {} => Lifecycle!Next \/ UNCHANGED status]_vars

(* What readers see is a text somebody approved (draft policy).            *)
LiveIsApproved == target.state = "live" => target.text \in approved

(* A run in flight comes out of it, so that it can be acted on again.      *)
FlightEnds == inFlight ~> ~inFlight
=============================================================================
