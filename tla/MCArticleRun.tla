---------------------------- MODULE MCArticleRun ----------------------------
(***************************************************************************)
(* Instances of ArticleRun for TLC: the configurations each run of the     *)
(* model checker looks at.                                                 *)
(***************************************************************************)
EXTENDS ArticleRun

(* Drafts, with the optional steps of the graph: the longest way.          *)
Full == [policy |-> "draft", onExisting |-> "update", storedElsewhere |-> {},
         sources |-> TRUE, links |-> TRUE, review |-> TRUE,
         maxRegenerations |-> 1, recordsLost |-> FALSE,
         bounds |-> [executions |-> 3, revisions |-> 0, mishaps |-> 1]]

(* Without the steps that only precede the first text.                     *)
Short == [Full EXCEPT !.sources = FALSE, !.links = FALSE]

(* A run nobody revises, with a failure or a crash, and with both; drafts  *)
(* that are sent back, regenerated or resumed again; the two other         *)
(* policies; a gate that is asked once, with records that get lost; a      *)
(* target that refuses the slugs it has.                                   *)
SafetyConfigs ==
    {Full,
     [Short EXCEPT !.maxRegenerations = 0, !.bounds.mishaps = 2],
     [Short EXCEPT !.bounds.executions = 2, !.bounds.revisions = 1],
     [Short EXCEPT !.maxRegenerations = 0, !.bounds.revisions = 1],
     [Short EXCEPT !.policy = "publish_if_gate_passes", !.review = FALSE,
                   !.bounds.mishaps = 2],
     [Short EXCEPT !.policy = "publish_after_approval", !.recordsLost = TRUE,
                   !.bounds.executions = 2, !.bounds.revisions = 1],
     [Short EXCEPT !.maxRegenerations = 0, !.recordsLost = TRUE],
     [Short EXCEPT !.policy = "publish_if_gate_passes", !.onExisting = "conflict"]}

(* A slug that is taken, two regenerations, failing steps, lost records.   *)
EndsConfigs ==
    {[Full EXCEPT !.storedElsewhere = Slugs, !.maxRegenerations = 2, !.recordsLost = TRUE,
                  !.bounds.executions = 2]}

AllConfigs == SafetyConfigs \cup EndsConfigs

(* A regenerated article that fails; a revision that is resumed.           *)
RegeneratedConfigs == {[Short EXCEPT !.bounds.executions = 2]}

RevisedConfigs ==
    {[Short EXCEPT !.maxRegenerations = 0, !.bounds.revisions = 1]}
=============================================================================
