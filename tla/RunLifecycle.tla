---------------------------- MODULE RunLifecycle ----------------------------
(***************************************************************************)
(* What the status of a run promises to whoever reads it: the order of the *)
(* statuses that the comment of WorkflowStatus (storage, models.ts) lists. *)
(* A run is executed (started, running) and ends in an outcome; a run that *)
(* is neither published nor rejected can be executed again; a stored       *)
(* article can be published by a reviewer; published and rejected are the  *)
(* end of a run.                                                           *)
(***************************************************************************)
VARIABLE status

Outcomes == {"published", "awaiting_approval", "needs_review", "failed", "duplicate"}

Terminal == {"published", "rejected"}

Init == status = "none"

Begin == status = "none" /\ status' = "started"

(* The execution of a run that was begun, revised or resumed.              *)
Execute == status \notin Terminal \cup {"none"} /\ status' = "running"

StopAsDuplicate == status = "started" /\ status' = "duplicate"

End == status = "running" /\ status' \in Outcomes

(* The process of an active run is presumed dead.                          *)
Interrupt == status \in {"started", "running"} /\ status' = "interrupted"

(* Only a run that was executed before can have a stored article.          *)
Approve == status \notin Terminal \cup {"none", "started"} /\ status' = "published"

Reject == status \in {"needs_review", "awaiting_approval"} /\ status' = "rejected"

Next == Begin \/ Execute \/ StopAsDuplicate \/ End \/ Interrupt \/ Approve \/ Reject

Spec == Init /\ [][Next]_status
=============================================================================
