--------------------------- MODULE RunRoutesProofs ---------------------------
(***************************************************************************)
(* What holds of the routes for any number of requests and restarts: one   *)
(* execution at a time, a set of runs in flight that tells the truth, and, *)
(* as long as nobody approves, the order of the statuses.                  *)
(***************************************************************************)
EXTENDS RunRoutes, TLAPS

-----------------------------------------------------------------------------
(* Types.                                                                  *)

LEMMA AdvanceType ==
    ASSUME TypeOK, NEW r \in Requests, NEW phase \in Phases, Advance(r, phase)
    PROVE  job' \in [Requests -> Jobs]
  BY DEF TypeOK, Advance, Jobs

LEMMA EnterType ==
    ASSUME TypeOK, NEW r \in Requests, NEW kind \in {"begin"} \cup RequestKinds,
           NEW phase \in Phases, Enter(r, kind, phase)
    PROVE  job' \in [Requests -> Jobs]
  BY DEF TypeOK, Enter, Jobs

LEMMA InitHasTypes == Init => TypeOK
<1> SUFFICES ASSUME Init PROVE TypeOK
  OBVIOUS
<1>1. article \in ArticleRow
  BY DEF Init, NoArticle, ArticleRow, ReviewStates
<1>2. job \in [Requests -> Jobs]
  BY DEF Init, Jobs, Phases
<1>3. sending \in [Requests -> Nat] /\ status \in Statuses /\ restarts \in Nat
  BY RoutesAssumption DEF Init, Statuses
<1>4. approved \in SUBSET Nat
  BY DEF Init
<1>5. target \in [state : {"none", "draft", "live"}, text : Nat]
  BY DEF Init
<1> QED BY <1>1, <1>2, <1>3, <1>4, <1>5 DEF Init, TypeOK

LEMMA RequestHasTypes ==
    ASSUME TypeOK, NEW r \in Requests, Request(r)
    PROVE  TypeOK'
<1> USE DEF TypeOK
<1>0. /\ {"resume", "revise", "approve", "reject"} = RequestKinds
      /\ {"queued", "approving", "done"} \subseteq Phases
  BY DEF RequestKinds, Phases
<1>1. CASE Begin(r)
  <2>1. job' \in [Requests -> Jobs]
    BY <1>0, <1>1, EnterType DEF Begin
  <2> QED BY <1>1, <2>1 DEF Begin, Statuses
<1>2. CASE Resume(r)
  <2>1. job' \in [Requests -> Jobs]
    BY <1>0, <1>2, EnterType DEF Resume
  <2> QED BY <1>2, <2>1 DEF Resume
<1>3. CASE Revise(r)
  <2>1. job' \in [Requests -> Jobs]
    BY <1>0, <1>3, EnterType DEF Revise
  <2> QED BY <1>3, <2>1 DEF Revise
<1>4. CASE Reject(r)
  <2>1. job' \in [Requests -> Jobs]
    BY <1>0, <1>4, EnterType DEF Reject
  <2>2. article' \in ArticleRow
    BY <1>4 DEF Reject, RejectedArticle, ArticleRow, ReviewStates
  <2> QED BY <1>4, <2>1, <2>2 DEF Reject, Statuses
<1>5. ASSUME NEW override \in BOOLEAN, Approve(r, override) PROVE TypeOK'
  <2>1. job' \in [Requests -> Jobs]
    BY <1>0, <1>5, EnterType DEF Approve
  <2>2. article' \in ArticleRow /\ article.text \in Nat
    BY <1>5 DEF Approve, ApprovedArticle, ArticleRow, ReviewStates
  <2> QED BY <1>5, <2>1, <2>2 DEF Approve
<1> QED BY <1>1, <1>2, <1>3, <1>4, <1>5 DEF Request

LEMMA BackgroundHasTypes ==
    ASSUME TypeOK, NEW r \in Requests, Background(r)
    PROVE  TypeOK'
<1> USE DEF TypeOK
<1>1. job' \in [Requests -> Jobs]
  <2>1. {"executing", "sent", "done"} \subseteq Phases
    BY DEF Phases
  <2> QED BY <2>1, AdvanceType
          DEF Background, StartJob, DropJob, SendDraft, FinishSent, FinishUnsent
<1>2. CASE StartJob(r) \/ DropJob(r)
  BY <1>1, <1>2 DEF StartJob, DropJob, Statuses
<1>texts. ASSUME NEW text \in {texts + 1} \cup Restored(r)
          PROVE  text \in Nat /\ (Produced(text) => texts' \in Nat)
  BY DEF Restored, Produced
<1>3. CASE SendDraft(r)
  <2>1. PICK text \in {texts + 1} \cup Restored(r) :
          /\ Produced(text)
          /\ sending' = [sending EXCEPT ![r] = text]
          /\ target' = [state |-> IF target.state = "live" THEN "live" ELSE "draft",
                        text |-> text]
    BY <1>3 DEF SendDraft
  <2>2. text \in Nat /\ texts' \in Nat
    BY <1>texts, <2>1
  <2> QED BY <1>1, <1>3, <2>1, <2>2 DEF SendDraft
<1>4. \A s \in Statuses, slug \in Slugs, text \in Nat, gatePassed \in BOOLEAN :
        FinishedArticle(s, text, slug, gatePassed) \in ArticleRow
  BY DEF FinishedArticle, ArticleRow, ReviewStates
<1>5. CASE FinishSent(r)
  <2>1. status' \in Statuses
    BY <1>5 DEF FinishSent, Statuses
  <2>2. PICK slug \in Slugs : article' = FinishedArticle(status', sending[r], slug, TRUE)
    BY <1>5 DEF FinishSent
  <2>3. FinishedArticle(status', sending[r], slug, TRUE) \in ArticleRow
    BY <1>4, <2>1
  <2> QED BY <1>1, <1>5, <2>1, <2>2, <2>3 DEF FinishSent
<1>6. CASE FinishUnsent(r)
  <2>1. status' \in Statuses
    BY <1>6 DEF FinishUnsent, Statuses
  <2>2. CASE UNCHANGED <<article, texts>>
    BY <1>1, <1>6, <2>1, <2>2 DEF FinishUnsent
  <2>3. ASSUME NEW text \in {texts + 1} \cup Restored(r), NEW slug \in Slugs,
               NEW gatePassed \in BOOLEAN, Produced(text) \/ UNCHANGED texts,
               article' = FinishedArticle(status', text, slug, gatePassed)
        PROVE  TypeOK'
    <3>1. text \in Nat /\ texts' \in Nat
      BY <1>texts, <2>3
    <3>2. article' \in ArticleRow
      BY <1>4, <2>1, <2>3, <3>1
    <3> QED BY <1>1, <1>6, <2>1, <3>1, <3>2 DEF FinishUnsent
  <2>4. (status' = "failed") \in BOOLEAN
    OBVIOUS
  <2> QED BY <1>6, <2>2, <2>3, <2>4 DEF FinishUnsent
<1> QED BY <1>2, <1>3, <1>5, <1>6 DEF Background

LEMMA PublishHasTypes ==
    ASSUME TypeOK, NEW r \in Requests, PublishApproved(r) \/ CompleteApproval(r)
    PROVE  TypeOK'
<1> USE DEF TypeOK
<1>1. job' \in [Requests -> Jobs]
  <2>1. {"confirmed", "refused", "done"} \subseteq Phases
    BY DEF Phases
  <2> QED BY <2>1, AdvanceType DEF PublishApproved, CompleteApproval
<1>2. CASE PublishApproved(r)
  BY <1>1, <1>2 DEF PublishApproved
<1>3. CASE CompleteApproval(r)
  <2>1. article' \in ArticleRow
    BY <1>3 DEF CompleteApproval, PublishedArticle, ArticleRow, ReviewStates
  <2> QED BY <1>1, <1>3, <2>1 DEF CompleteApproval, Statuses
<1> QED BY <1>2, <1>3

LEMMA RestartHasTypes == TypeOK /\ Restart => TypeOK'
<1> SUFFICES ASSUME TypeOK, Restart PROVE TypeOK'
  OBVIOUS
<1>1. job' \in [Requests -> Jobs]
  BY DEF TypeOK, Restart, Jobs, Phases
<1>2. restarts' \in Nat /\ status' \in Statuses
  BY DEF TypeOK, Restart, Statuses
<1> QED BY <1>1, <1>2 DEF TypeOK, Restart

LEMMA NextHasTypes == TypeOK /\ [Next]_vars => TypeOK'
<1>1. TypeOK /\ UNCHANGED vars => TypeOK'
  BY DEF TypeOK, vars
<1> QED BY <1>1, RequestHasTypes, BackgroundHasTypes, PublishHasTypes, RestartHasTypes DEF Next

(* Every variable of the routes keeps its type.                            *)
THEOREM TypeCorrect == Spec => []TypeOK
  BY InitHasTypes, NextHasTypes, PTL DEF Spec

-----------------------------------------------------------------------------
(* One execution at a time.  A begin needs no check of its own: before the *)
(* run is stored no request can name it.                                   *)

FInv ==
    /\ TypeOK
    /\ OneExecution
    /\ InFlightIsTrue
    /\ status = "none" => article = NoArticle /\ \A r \in Requests : New(r)

(* How the phases of the other requests and of this one change.            *)
LEMMA OnlyOwnPhaseChanges ==
    ASSUME TypeOK, NEW r \in Requests, NEW q \in Requests, q # r,
           Request(r) \/ Background(r) \/ PublishApproved(r) \/ CompleteApproval(r)
    PROVE  job'[q] = job[q]
  BY DEF TypeOK, Request, Background, Begin, Resume, Revise, Reject, Approve, Enter, Advance,
         StartJob, DropJob, SendDraft, FinishSent, FinishUnsent, PublishApproved,
         CompleteApproval

LEMMA EnterPhase ==
    ASSUME TypeOK, NEW r \in Requests, NEW kind, NEW phase, Enter(r, kind, phase)
    PROVE  job'[r].phase = phase /\ job'[r].kind = kind
  BY DEF TypeOK, Enter

LEMMA AdvancePhase ==
    ASSUME TypeOK, NEW r \in Requests, NEW phase, Advance(r, phase)
    PROVE  job'[r].phase = phase /\ job'[r].kind = job[r].kind
  BY DEF TypeOK, Advance, Jobs

LEMMA InitFlight == Init => FInv
  BY InitHasTypes DEF Init, FInv, OneExecution, InFlightIsTrue, Working, New

LEMMA RequestKeepsFlight ==
    ASSUME FInv, NEW r \in Requests, Request(r)
    PROVE  FInv'
<1>1. TypeOK'
  BY RequestHasTypes DEF FInv
<1>2. New(r) /\ ~Working(r)
  BY DEF Request, Begin, Resume, Revise, Reject, Approve, New, Working
<1>3. \A q \in Requests : q # r => job'[q] = job[q]
  BY OnlyOwnPhaseChanges DEF FInv
<1>4. CASE Begin(r) \/ Resume(r) \/ Revise(r)
  <2>1. \A q \in Requests : ~Working(q)
    BY <1>4 DEF FInv, InFlightIsTrue, Begin, Resume, Revise, New, Working
  <2>2. Working(r)'
    BY <1>4, EnterPhase DEF FInv, Begin, Resume, Revise, Working
  <2>3. \A q \in Requests : q # r => ~Working(q)'
    BY <1>3, <2>1 DEF Working
  <2>4. inFlight' = TRUE /\ status' # "none"
    BY <1>4 DEF Begin, Resume, Revise, MayResume, MayReview, ReviewableStatuses
  <2> QED BY <1>1, <2>2, <2>3, <2>4 DEF FInv, OneExecution, InFlightIsTrue
<1>5. CASE Reject(r) \/ \E override \in BOOLEAN : Approve(r, override)
  <2>1. job'[r].phase \in {"done", "approving"}
    BY <1>5, EnterPhase DEF FInv, Reject, Approve
  <2>2. ~Working(r)'
    BY <2>1 DEF Working
  <2>3. \A q \in Requests : Working(q)' <=> Working(q)
    BY <1>2, <1>3, <2>2 DEF Working
  <2>4. UNCHANGED inFlight
    BY <1>5 DEF Reject, Approve
  <2>5. CASE Reject(r)
    BY <1>1, <2>3, <2>4, <2>5 DEF FInv, OneExecution, InFlightIsTrue, Reject
  <2>6. CASE \E override \in BOOLEAN : Approve(r, override)
    <3>1. status # "none" /\ UNCHANGED status
      BY <2>6 DEF Approve, MayApprove, FInv
    <3> QED BY <1>1, <2>3, <2>4, <2>6, <3>1 DEF FInv, OneExecution, InFlightIsTrue, Approve
  <2> QED BY <1>5, <2>5, <2>6
<1> QED BY <1>4, <1>5 DEF Request

LEMMA BackgroundKeepsFlight ==
    ASSUME FInv, NEW r \in Requests, Background(r)
    PROVE  FInv'
<1>1. TypeOK'
  BY BackgroundHasTypes DEF FInv
<1>2. Working(r) /\ \A q \in Requests : q # r => ~Working(q)
  BY DEF FInv, OneExecution, Background, StartJob, DropJob, SendDraft, FinishSent,
         FinishUnsent, Working
<1>3. \A q \in Requests : q # r => ~Working(q)'
  BY <1>2, OnlyOwnPhaseChanges DEF FInv, Working
<1>4. status # "none" /\ status' # "none"
  <2>1. status # "none"
    BY <1>2 DEF FInv, New, Working
  <2> QED BY <2>1 DEF Background, StartJob, DropJob, SendDraft, FinishSent, FinishUnsent
<1>5. CASE StartJob(r) \/ SendDraft(r)
  <2>1. Working(r)' /\ inFlight' = inFlight
    BY <1>5, AdvancePhase DEF FInv, StartJob, SendDraft, Working
  <2> QED BY <1>1, <1>2, <1>3, <1>4, <2>1 DEF FInv, OneExecution, InFlightIsTrue
<1>6. CASE DropJob(r) \/ FinishSent(r) \/ FinishUnsent(r)
  <2>1. ~Working(r)' /\ inFlight' = FALSE
    BY <1>6, AdvancePhase DEF FInv, DropJob, FinishSent, FinishUnsent, Working
  <2> QED BY <1>1, <1>3, <1>4, <2>1 DEF FInv, OneExecution, InFlightIsTrue
<1> QED BY <1>5, <1>6 DEF Background

LEMMA PublishKeepsFlight ==
    ASSUME FInv, NEW r \in Requests, PublishApproved(r) \/ CompleteApproval(r)
    PROVE  FInv'
<1>1. TypeOK'
  BY PublishHasTypes DEF FInv
<1>2. job'[r].phase \in {"confirmed", "refused", "done"}
  BY AdvancePhase DEF FInv, PublishApproved, CompleteApproval
<1>3. ~Working(r) /\ ~Working(r)' /\ ~New(r)
  BY <1>2 DEF PublishApproved, CompleteApproval, Working, New
<1>4. \A q \in Requests : Working(q)' <=> Working(q)
  BY <1>3, OnlyOwnPhaseChanges DEF FInv, Working
<1>5. status # "none" /\ status' # "none"
  <2>1. status # "none"
    BY <1>3 DEF FInv
  <2> QED BY <2>1 DEF PublishApproved, CompleteApproval
<1>6. UNCHANGED inFlight
  BY DEF PublishApproved, CompleteApproval
<1> QED BY <1>1, <1>4, <1>5, <1>6 DEF FInv, OneExecution, InFlightIsTrue

LEMMA RestartKeepsFlight == FInv /\ Restart => FInv'
<1> SUFFICES ASSUME FInv, Restart PROVE FInv'
  OBVIOUS
<1>1. TypeOK'
  BY RestartHasTypes DEF FInv
<1>2. \A r \in Requests : job'[r].phase \in {"new", "done"} /\ (New(r) => New(r)')
  BY DEF FInv, TypeOK, Restart, Jobs, New
<1>3. \A r \in Requests : ~Working(r)'
  BY <1>2 DEF Working
<1>4. inFlight' = FALSE /\ article' = article /\ (status' = "none" => status = "none")
  BY DEF Restart
<1> QED BY <1>1, <1>2, <1>3, <1>4 DEF FInv, OneExecution, InFlightIsTrue

LEMMA NextKeepsFlight == FInv /\ [Next]_vars => FInv'
<1>1. FInv /\ UNCHANGED vars => FInv'
  BY DEF FInv, TypeOK, OneExecution, InFlightIsTrue, Working, New, vars
<1> QED BY <1>1, RequestKeepsFlight, BackgroundKeepsFlight, PublishKeepsFlight,
           RestartKeepsFlight DEF Next

(* The set of runs in flight agrees with the phases of the jobs.           *)
THEOREM FlightInvariant == Spec => []FInv
  BY InitFlight, NextKeepsFlight, PTL DEF Spec

(* However many requests come, one execution is queued or under way.       *)
THEOREM ExecutesOnce == Spec => []OneExecution
  BY FlightInvariant, PTL DEF FInv

(* The set of runs in flight neither forgets a run nor keeps one.          *)
THEOREM FlightIsTrue == Spec => []InFlightIsTrue
  BY FlightInvariant, PTL DEF FInv

(* A resume that waited in the queue does not undo a decision.             *)
THEOREM DecisionsOutlast == Spec => DecisionsOutlastResumes
<1>1. FInv /\ [Next]_vars
        => [OnlyResumesWait /\ status \in {"published", "rejected"} => UNCHANGED status]_vars
  <2> SUFFICES ASSUME FInv, Next, OnlyResumesWait, status \in {"published", "rejected"}
               PROVE  UNCHANGED status
    OBVIOUS
  <2>1. ASSUME NEW r \in Requests, Request(r) PROVE UNCHANGED status
    BY <2>1 DEF Request, Begin, Resume, Revise, Reject, Approve, MayReview, ReviewableStatuses
  <2>2. ASSUME NEW r \in Requests, Background(r) PROVE UNCHANGED status
    BY <2>2 DEF OnlyResumesWait, Background, StartJob, DropJob, SendDraft, FinishSent,
                FinishUnsent, MayResume
  <2>3. ASSUME NEW r \in Requests, PublishApproved(r) \/ CompleteApproval(r)
        PROVE  UNCHANGED status
    BY <2>3 DEF OnlyResumesWait, PublishApproved, CompleteApproval
  <2>4. CASE Restart
    BY <2>4 DEF Restart, ActiveStatuses
  <2> QED BY <2>1, <2>2, <2>3, <2>4 DEF Next
<1> QED BY <1>1, FlightInvariant, PTL DEF Spec, DecisionsOutlastResumes

-----------------------------------------------------------------------------
(* The order of the statuses, as long as nobody approves.  Approvals are   *)
(* what breaks it: they do not look at the runs in flight.                 *)

Undecided ==
    \A r \in Requests :
         /\ job[r].phase \in {"new", "queued", "executing", "sent", "done"}
         /\ job[r].phase \in {"executing", "sent"} => status = "running"
         /\ job[r].phase = "queued" =>
              \/ job[r].kind = "resume"
              \/ job[r].kind = "begin" /\ status = "started"
              \/ job[r].kind = "revise" /\ MayReview(status)

DInv == FInv /\ (approved = {} => Undecided)

LEMMA InitDecides == Init => DInv
  BY InitFlight DEF Init, DInv, Undecided

LEMMA RequestDecides ==
    ASSUME FInv, Undecided, NEW r \in Requests, Begin(r) \/ Resume(r) \/ Revise(r) \/ Reject(r)
    PROVE  Undecided' /\ [Lifecycle!Next]_status
<1>1. \A q \in Requests : q # r => job'[q] = job[q]
  BY OnlyOwnPhaseChanges DEF FInv, Request
<1>2. ~inFlight /\ \A q \in Requests : job[q].phase \in {"new", "done"}
  <2>1. CASE Begin(r)
    BY <2>1 DEF Begin, Undecided, FInv, New, InFlightIsTrue, Working
  <2>2. CASE Resume(r) \/ Revise(r) \/ Reject(r)
    BY <2>2 DEF Resume, Revise, Reject, Undecided, FInv, InFlightIsTrue, Working
  <2> QED BY <2>1, <2>2
<1>3. \A q \in Requests : q # r => job'[q].phase \in {"new", "done"}
  BY <1>1, <1>2
<1>4. CASE Begin(r)
  <2>1. job'[r].phase = "queued" /\ job'[r].kind = "begin" /\ status' = "started"
    BY <1>4, EnterPhase DEF Begin, Undecided, FInv
  <2> QED BY <1>3, <1>4, <2>1 DEF Undecided, Begin, Lifecycle!Next, Lifecycle!Begin
<1>5. CASE Resume(r)
  <2>1. job'[r].phase = "queued" /\ job'[r].kind = "resume" /\ UNCHANGED status
    BY <1>5, EnterPhase DEF Resume, Undecided, FInv
  <2> QED BY <1>3, <2>1 DEF Undecided
<1>6. CASE Revise(r)
  <2>1. /\ job'[r].phase = "queued" /\ job'[r].kind = "revise"
        /\ UNCHANGED status /\ MayReview(status)
    BY <1>6, EnterPhase DEF Revise, Undecided, FInv
  <2> QED BY <1>3, <2>1 DEF Undecided, MayReview
<1>7. CASE Reject(r)
  <2>1. job'[r].phase = "done"
    BY <1>7, EnterPhase DEF Reject, Undecided, FInv
  <2> QED BY <1>3, <1>7, <2>1
          DEF Undecided, Reject, MayReview, ReviewableStatuses, Lifecycle!Next, Lifecycle!Reject
<1> QED BY <1>4, <1>5, <1>6, <1>7

LEMMA BackgroundDecides ==
    ASSUME FInv, Undecided, NEW r \in Requests, Background(r)
    PROVE  Undecided' /\ [Lifecycle!Next]_status
<1>1. Working(r) /\ status # "none"
  BY DEF Undecided, FInv, New, Background, StartJob, DropJob, SendDraft, FinishSent, FinishUnsent,
         Working
<1>2. \A q \in Requests : q # r => job[q].phase \in {"new", "done"}
  BY <1>1 DEF Undecided, FInv, OneExecution, Working
<1>3. \A q \in Requests : q # r => job'[q].phase \in {"new", "done"}
  BY <1>2, OnlyOwnPhaseChanges DEF FInv
<1>4. CASE StartJob(r)
  <2>1. job'[r].phase = "executing" /\ status' = "running"
    BY <1>4, AdvancePhase DEF StartJob, Undecided, FInv
  <2>2. status \notin Lifecycle!Terminal \cup {"none"}
    BY <1>1, <1>4 DEF Undecided, StartJob, MayResume, MayReview, ReviewableStatuses, Lifecycle!Terminal
  <2> QED BY <1>3, <2>1, <2>2 DEF Undecided, Lifecycle!Next, Lifecycle!Execute
<1>5. CASE DropJob(r)
  <2>1. job'[r].phase = "done"
    BY <1>5, AdvancePhase DEF DropJob, Undecided, FInv
  <2> QED BY <1>3, <1>5, <2>1
          DEF Undecided, DropJob, Lifecycle!Next, Lifecycle!StopAsDuplicate
<1>6. CASE SendDraft(r)
  <2>1. job'[r].phase = "sent" /\ UNCHANGED status /\ status = "running"
    BY <1>6, AdvancePhase DEF SendDraft, Undecided, FInv
  <2> QED BY <1>3, <2>1 DEF Undecided
<1>7. CASE FinishSent(r) \/ FinishUnsent(r)
  <2>1. job'[r].phase = "done" /\ status = "running"
    BY <1>7, AdvancePhase DEF FinishSent, FinishUnsent, Undecided, FInv
  <2>2. status' \in Lifecycle!Outcomes
    BY <1>7 DEF FinishSent, FinishUnsent, Lifecycle!Outcomes
  <2> QED BY <1>3, <2>1, <2>2 DEF Undecided, Lifecycle!Next, Lifecycle!End
<1> QED BY <1>4, <1>5, <1>6, <1>7 DEF Background

LEMMA RestartDecides ==
    ASSUME FInv, Restart
    PROVE  Undecided' /\ [Lifecycle!Next]_status
<1>1. \A r \in Requests : job'[r].phase \in {"new", "done"}
  BY DEF Restart, FInv, TypeOK, Jobs, New
<1>2. [Lifecycle!Next]_status
  BY DEF Restart, ActiveStatuses, Lifecycle!Next, Lifecycle!Interrupt
<1> QED BY <1>1, <1>2 DEF Undecided

(* What was approved stays approved.                                       *)
LEMMA ApprovedStays ==
    ASSUME TypeOK, [Next]_vars
    PROVE  approved \subseteq approved'
<1>1. ASSUME NEW r \in Requests, NEW override \in BOOLEAN, Approve(r, override)
      PROVE  approved \subseteq approved'
  BY <1>1 DEF Approve, TypeOK
<1>2. ASSUME NEW r \in Requests, PublishApproved(r)
      PROVE  approved \subseteq approved'
  BY <1>2 DEF PublishApproved, TypeOK
<1>3. ASSUME NEW r \in Requests,
             \/ Begin(r) \/ Resume(r) \/ Revise(r) \/ Reject(r)
             \/ Background(r) \/ CompleteApproval(r)
      PROVE  UNCHANGED approved
  BY <1>3 DEF Begin, Resume, Revise, Reject, Background, StartJob, DropJob, SendDraft,
              FinishSent, FinishUnsent, CompleteApproval
<1>4. CASE Restart \/ UNCHANGED vars
  BY <1>4 DEF Restart, vars
<1> QED BY <1>1, <1>2, <1>3, <1>4 DEF Next, Request

(* Whatever is resumed, revised and rejected at once, with any number of   *)
(* requests and deaths of the server: until somebody approves, the status  *)
(* of the run moves as RunLifecycle says.                                  *)
THEOREM DecidesInOrder == Spec => LifecycleUnlessApproved
<1>1. ASSUME DInv, [Next]_vars
      PROVE  /\ DInv'
             /\ approved = {} => Lifecycle!Next \/ UNCHANGED status
  <2>1. FInv'
    BY <1>1, NextKeepsFlight DEF DInv
  <2>2. SUFFICES ASSUME approved = {}
                 PROVE  /\ approved' = {} => Undecided'
                        /\ Lifecycle!Next \/ UNCHANGED status
    <3>1. approved \subseteq approved'
      BY <1>1, ApprovedStays DEF DInv, FInv
    <3> QED BY <2>1, <3>1 DEF DInv
  <2>3. FInv /\ Undecided
    BY <1>1, <2>2 DEF DInv
  <2>4. CASE UNCHANGED vars
    BY <2>3, <2>4 DEF Undecided, vars, MayReview
  <2>5. CASE Restart
    BY <2>3, <2>5, RestartDecides
  <2>6. ASSUME NEW r \in Requests, Begin(r) \/ Resume(r) \/ Revise(r) \/ Reject(r)
        PROVE  Undecided' /\ [Lifecycle!Next]_status
    BY <2>3, <2>6, RequestDecides
  <2>7. ASSUME NEW r \in Requests, NEW override \in BOOLEAN, Approve(r, override)
        PROVE  approved' # {} /\ UNCHANGED status
    BY <2>3, <2>7 DEF Approve, FInv, TypeOK
  <2>8. ASSUME NEW r \in Requests, Background(r)
        PROVE  Undecided' /\ [Lifecycle!Next]_status
    BY <2>3, <2>8, BackgroundDecides
  <2>9. ~\E r \in Requests : PublishApproved(r) \/ CompleteApproval(r)
    BY <2>3 DEF Undecided, PublishApproved, CompleteApproval
  <2> QED BY <1>1, <2>4, <2>5, <2>6, <2>7, <2>8, <2>9 DEF Next, Request
<1>2. DInv /\ [Next]_vars
        => DInv' /\ [approved = {} => Lifecycle!Next \/ UNCHANGED status]_vars
  BY <1>1
<1> QED BY <1>2, InitDecides, PTL DEF Spec, LifecycleUnlessApproved
=============================================================================
