------------------------------ MODULE RunStore ------------------------------
(***************************************************************************)
(* The rows the memory store keeps of one run, and what each operation of  *)
(* MemoryService does to them (packages/storage).  Every operation is one  *)
(* synchronous SQLite transaction, so a module that uses these operators   *)
(* applies them in a single step.                                          *)
(*                                                                         *)
(* Texts are numbers: 0 stands for "no text", and every text an agent      *)
(* produces has a number of its own.                                       *)
(***************************************************************************)
EXTENDS Naturals

CONSTANTS
    Slugs,     \* the slugs the SEO agent may choose from
    NoSlug     \* the slug of an article that has none yet

ASSUME NoSlugAssumption == NoSlug \notin Slugs

(* The status column of the workflows table; "none" is a run with no row.  *)
Statuses == {"none", "started", "running", "published", "awaiting_approval",
             "needs_review", "failed", "duplicate", "rejected", "interrupted"}

(* The statuses of a run some process may be executing.                    *)
ActiveStatuses == {"started", "running"}

(* The statuses in which a reviewer may reject or revise a run.            *)
ReviewableStatuses == {"needs_review", "awaiting_approval"}

ReviewStates == {"none", "needs_review", "approved", "published", "rejected"}

(***************************************************************************)
(* The row of the articles table, unique per run.  `approved` says whether *)
(* approved_by is set, `override` whether an override reason is.           *)
(***************************************************************************)
ArticleRow == [text        : Nat,
               slug        : Slugs \cup {NoSlug},
               gatePassed  : BOOLEAN,
               reviewState : ReviewStates,
               approved    : BOOLEAN,
               override    : BOOLEAN]

NoArticle == [text |-> 0, slug |-> NoSlug, gatePassed |-> FALSE,
              reviewState |-> "none", approved |-> FALSE, override |-> FALSE]

(* What finishWorkflow stores: the approval columns start empty again.     *)
FinishedArticle(status, text, slug, gatePassed) ==
    [text        |-> text,
     slug        |-> slug,
     gatePassed  |-> gatePassed,
     reviewState |-> IF status = "published" THEN "published" ELSE "needs_review",
     approved    |-> FALSE,
     override    |-> FALSE]

(* markApproved: a reason is stored only for an article the gate refused.  *)
ApprovedArticle(article, override) ==
    [article EXCEPT !.reviewState = "approved",
                    !.approved = TRUE,
                    !.override = override /\ ~article.gatePassed]

(* recordApprovalPublish: an UPDATE, without effect when there is no row.  *)
PublishedArticle(article, success) ==
    [article EXCEPT !.reviewState = IF success THEN "published" ELSE "approved"]

(* markRejected: an UPDATE, without effect when there is no row.           *)
RejectedArticle(article) ==
    IF article = NoArticle THEN article
    ELSE [article EXCEPT !.reviewState = "rejected"]

(* Slips: what is published is approved again, is sent back again, and     *)
(* what is rejected is resumed.                                            *)
MayApproveAgain(status, article, override) ==
    /\ article # NoArticle
    /\ status # "rejected"
    /\ article.reviewState # "rejected"
    /\ article.gatePassed \/ override

MayReviewPublished(status) == status \in ReviewableStatuses \cup {"published"}

MayResumeRejected(status) == status \notin {"none", "published"}

(***************************************************************************)
(* The checks the workflow makes on a loaded run before it acts.           *)
(***************************************************************************)
MayApprove(status, article, override) ==
    /\ article # NoArticle
    /\ status # "rejected"
    /\ article.reviewState \notin {"rejected", "published"}
    /\ article.gatePassed \/ override

MayReview(status) == status \in ReviewableStatuses

MayResume(status) == status \notin {"none", "published", "rejected"}
=============================================================================
