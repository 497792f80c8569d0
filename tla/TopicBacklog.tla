---------------------------- MODULE TopicBacklog ----------------------------
(***************************************************************************)
(* The rows of topic_candidates and what the operations of the backlog      *)
(* store (packages/storage, backlog/store.ts) make of a row.  A candidate   *)
(* is the identity that its URL and its normalized title give it; a score   *)
(* is a small number.  A brief, with the title as its topic, is either      *)
(* "usable", or "refused" when a run is to begin with it.                   *)
(***************************************************************************)
EXTENDS Integers

CONSTANTS
    Candidates,   \* the topics the sources can offer
    Scores,       \* what scoring can give them
    AutoAccept    \* OPENBLOG_RESEARCH_AUTO_ACCEPT_MIN_SCORE

ASSUME BacklogAssumption == Scores \subseteq Nat /\ AutoAccept \in Nat

Briefs == {"usable", "refused"}

CandidateStatuses == {"absent", "new", "accepted", "dropped", "used"}

(* The run is 0 until one was started from the candidate.  raced is no      *)
(* column: it tells that a decision was written over one it had not read.   *)
CandidateRows ==
    [status : CandidateStatuses, score : Nat, brief : Briefs, run : Nat, raced : BOOLEAN]

Absent == [status |-> "absent", score |-> 0, brief |-> "usable", run |-> 0, raced |-> FALSE]

(* Slip: one that was dropped is offered again.                             *)
UpsertedAgain(row, score) ==
    IF row.status = "used" THEN row
    ELSE [row EXCEPT !.status = IF score >= AutoAccept THEN "accepted" ELSE "new",
                     !.score = score]

(* A collected candidate is stored, or scored again while nobody has        *)
(* decided on it; either may accept it automatically.                       *)
Upserted(row, score) ==
    IF row.status \notin {"absent", "new"} THEN row
    ELSE [row EXCEPT !.status = IF score >= AutoAccept THEN "accepted" ELSE "new",
                     !.score = score]

(* Slip: the first row is taken before its status is looked at.             *)
BestOfAll(backlog) ==
    {x \in Candidates : /\ backlog[x].status = "accepted"
                        /\ \A y \in Candidates : backlog[y].score <= backlog[x].score}

(* The accepted candidates no other accepted one outscores; which of them   *)
(* comes first is a matter of dates.                                        *)
Best(backlog) ==
    LET accepted == {x \in Candidates : backlog[x].status = "accepted"}
    IN  {x \in accepted : \A y \in accepted : backlog[y].score <= backlog[x].score}

MayDecide(status) == status \notin {"absent", "used"}

(* Slip: a candidate that has started a run may start another.              *)
MayMarkAgain(status) == status \notin {"absent", "dropped"}

MayMark(status) == status \notin {"absent", "used", "dropped"}

(* A row that was read in some status and is written now.                   *)
Raced(row, read) == row.raced \/ row.status # read

Accepted(row, read, brief) ==
    [row EXCEPT !.status = "accepted", !.brief = brief, !.raced = Raced(row, read)]

Dropped(row, read) == [row EXCEPT !.status = "dropped", !.raced = Raced(row, read)]

Used(row, read, run) ==
    [row EXCEPT !.status = "used", !.run = run, !.raced = Raced(row, read)]
=============================================================================
