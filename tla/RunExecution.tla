---------------------------- MODULE RunExecution ----------------------------
(***************************************************************************)
(* The executions of one run as an operator sees them from outside: the    *)
(* model calls under the budget, the outcome that is stored, and the       *)
(* message about it (execute and announce, packages/graph).  The message   *)
(* is part of the execution: the run is in flight until notify returns.    *)
(***************************************************************************)
EXTENDS ModelCalls, Notifier

vars == <<callVars, noticeVars>>

TypeOK == CallsTypeOK /\ NoticeTypeOK

Init == CallsInit /\ NoticeInit

Begin == ~Sending /\ Execute /\ UNCHANGED noticeVars

Ask == CallStep /\ UNCHANGED noticeVars

(* A budget that is used up is an event of its own.                        *)
Event ==
    CASE call.code = "none" -> "completed"
      [] call.code = "budget_exceeded" -> "budget_exceeded"
      [] OTHER -> "failed"

(* Slip: the message goes out first.                                       *)
EndToldFirst ==
    /\ call.phase = "ended"
    /\ ~Sending
    /\ Notify(Event)
    /\ UNCHANGED callVars

(* The outcome is stored, then announced.                                  *)
End == Store /\ Notify(Event)

Tell == Deliver /\ UNCHANGED callVars

(* A death during an execution, or while its outcome is being told.        *)
Crash ==
    \/ Die /\ Lose
    \/ Sending /\ Lose /\ UNCHANGED callVars

Next == Begin \/ Ask \/ End \/ Tell \/ Crash

Spec == Init /\ [][Next]_vars

(* Providers and webhooks answer or time out, and the process goes on; an  *)
(* operator need not resume, and nothing has to be lost.                   *)
FairSpec == Spec /\ WF_vars(Ask) /\ WF_vars(End) /\ WF_vars(Tell)

-----------------------------------------------------------------------------
(* The message is about the outcome that is stored, and about one that has *)
(* exceeded its budget only if it has (execute: "called right after the    *)
(* outcome of a run is stored").                                           *)
ToldIsStored ==
    Sending =>
        \/ notice.event = "completed" /\ run.status = "completed"
        \/ notice.event = "failed" /\ run.status = "failed"
        \/ notice.event = "budget_exceeded" /\ run.status = "failed" /\ spent > Budget

(* Nothing is repeated without bound, and no message without need.         *)
RetriesBounded == RequestsBounded /\ NoNeedlessRepeat

(* Every execution comes to an end, whatever the providers do, and so does *)
(* the delivery of its message.                                            *)
ExecutionsEnd ==
    /\ run.status = "running" ~> run.status # "running"
    /\ Sending ~> ~Sending
=============================================================================
