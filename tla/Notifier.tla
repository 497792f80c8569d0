------------------------------ MODULE Notifier ------------------------------
(***************************************************************************)
(* The webhook notifier (packages/notify): one message for one outcome,    *)
(* tried a bounded number of times.  An attempt that is not answered in    *)
(* time may have arrived all the same.                                     *)
(***************************************************************************)
EXTENDS Naturals

CONSTANTS
    NotifyEvents,    \* OPENBLOG_NOTIFY_EVENTS
    NotifyAttempts   \* attempts in total

(* A run that is over without an error (awaiting approval, up for review,  *)
(* published), one that has failed, and one that is over its budget.       *)
NotifyKinds == {"completed", "failed", "budget_exceeded"}

ASSUME NotifierAssumption ==
    /\ NotifyEvents \subseteq NotifyKinds
    /\ NotifyAttempts \in Nat \ {0}

VARIABLES
    notice,     \* the notification that is being delivered
    received,   \* how often the webhook has got it
    unanswered  \* how many of its attempts were not answered, or with an error

noticeVars == <<notice, received, unanswered>>

Notices == [event : NotifyKinds \cup {"none"}, attempt : Nat]
NoNotice == [event |-> "none", attempt |-> 0]

NoticeTypeOK ==
    /\ notice \in Notices
    /\ received \in Nat
    /\ unanswered \in Nat

NoticeInit == notice = NoNotice /\ received = 0 /\ unanswered = 0

(* Only the configured events are sent.                                    *)
Notify(event) ==
    /\ notice' = IF event \in NotifyEvents
                 THEN [event |-> event, attempt |-> 1]
                 ELSE NoNotice
    /\ received' = 0
    /\ unanswered' = 0

Sending == notice.attempt > 0

(* 2xx.                                                                    *)
Delivered ==
    /\ Sending
    /\ received' = received + 1
    /\ notice' = NoNotice
    /\ UNCHANGED unanswered

(* A 4xx other than 429: the message is wrong, or the address.             *)
Unwanted ==
    /\ Sending
    /\ notice' = NoNotice
    /\ UNCHANGED <<received, unanswered>>

(* Slip: one attempt more.                                                 *)
AfterFailureOnceMore ==
    IF notice.attempt <= NotifyAttempts
    THEN [notice EXCEPT !.attempt = @ + 1]
    ELSE NoNotice

AfterFailure ==
    IF notice.attempt < NotifyAttempts
    THEN [notice EXCEPT !.attempt = @ + 1]
    ELSE NoNotice

(* A timeout, a broken connection, 429 or 5xx: the message has arrived or  *)
(* not.                                                                    *)
Undelivered ==
    /\ Sending
    /\ notice' = AfterFailure
    /\ unanswered' = unanswered + 1
    /\ \/ received' = received + 1
       \/ UNCHANGED received

Deliver == Delivered \/ Unwanted \/ Undelivered

(* The process dies and the message with it: there is no outbox.           *)
Lose == notice' = NoNotice /\ UNCHANGED <<received, unanswered>>

-----------------------------------------------------------------------------
(* A message that was confirmed is not repeated: the webhook gets it twice *)
(* only if it left an attempt unanswered (attempt, notify).                *)
NoNeedlessRepeat ==
    /\ received <= 1 + unanswered
    /\ received <= NotifyAttempts
=============================================================================
