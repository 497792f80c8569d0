------------------------------ MODULE Research ------------------------------
(***************************************************************************)
(* A collection of topics from its start to the proposals of the model     *)
(* (packages/app, research.ts, and backlog/store.ts): the sources are      *)
(* read, their entries merged, scored and stored beside what the backlog   *)
(* has, and for the best new ones the model is asked for an angle.         *)
(* Meanwhile people decide on candidates and ask for angles themselves     *)
(* (routes/topics.ts).                                                     *)
(*                                                                         *)
(* In TopicBacklog a candidate is one identity; here a row has a URL and a *)
(* title, and is found by either.                                          *)
(***************************************************************************)
EXTENDS SourceReading, CandidateMerge, TopicBacklog

CONSTANTS
    Urls,           \* the URLs of entries; the titles are Candidates
    Weights,        \* the weights of sources
    MaxEntries,     \* MAX_SITEMAP_ENTRIES
    MaxFeed,        \* bound: entries of a feed
    EnrichLimit,    \* OPENBLOG_RESEARCH_ENRICH_LIMIT, 0 for no OPENBLOG_RESEARCH_ENRICH
    MaxCost,        \* OPENBLOG_RESEARCH_MAX_COST
    MaxProposal,    \* the most the replies for one proposal report, invalid ones included
    MaxDecisions,   \* bound: decisions of people
    MaxRequests     \* bound: proposals people ask for

ASSUME ResearchAssumption ==
    /\ {MaxEntries, MaxFeed, EnrichLimit, MaxCost, MaxProposal, MaxDecisions, MaxRequests} \subseteq Nat
    /\ IsFiniteSet(Sources) /\ Weights \subseteq Nat
    /\ Urls # {} /\ Candidates # {}

VARIABLES
    phase,       \* of the collection
    offered,     \* the entries of all sources, until they are stored
    merged,      \* the numbers of those that were kept
    rows,        \* topic_candidates, oldest first
    round,       \* the round of proposals
    awaited,     \* the rows people have asked a proposal for
    decisions,   \* how many decisions people have made
    requests     \* how many proposals they have asked for

vars == <<fetches, reading, phase, offered, merged, rows, round, awaited, decisions, requests>>

NewRow(url, title) ==
    [url |-> url, title |-> title, status |-> "absent", score |-> 0, brief |-> "usable",
     run |-> 0, raced |-> FALSE, enriched |-> FALSE]

Rows == [url : Urls, title : Candidates, status : CandidateStatuses \ {"absent"}, score : Nat,
         brief : Briefs, run : Nat, raced : BOOLEAN, enriched : BOOLEAN]

(* The rows still to be asked about, best first; the one that is (or 0);   *)
(* what the round has counted, and what the replies reported.              *)
Rounds == [todo : Seq(Nat), asked : Nat, costUsd : Nat, spent : Nat]

NoRound == [todo |-> <<>>, asked |-> 0, costUsd |-> 0, spent |-> 0]

Phases == {"idle", "reading", "merged", "enriching", "done"}

TypeOK ==
    /\ ReadingTypeOK
    /\ phase \in Phases
    /\ offered \in Seq(Entries(Urls, Candidates, Weights))
    /\ merged \in Seq(Nat)
    /\ rows \in Seq(Rows)
    /\ round \in Rounds
    /\ awaited \subseteq DOMAIN rows
    /\ decisions \in 0..MaxDecisions /\ requests \in 0..MaxRequests

(* What earlier collections and decisions have left: one row at most;      *)
(* which URL, title and score it has makes no difference.                  *)
Init ==
    /\ ReadingInit
    /\ phase = "idle"
    /\ offered = <<>> /\ merged = <<>>
    /\ \/ rows = <<>>
       \/ \E status \in CandidateStatuses \ {"absent"} :
            rows = <<[NewRow(CHOOSE u \in Urls : TRUE, CHOOSE t \in Candidates : TRUE)
                        EXCEPT !.status = status]>>
    /\ round = NoRound
    /\ awaited = {} /\ decisions = 0 /\ requests = 0

peopleVars == <<awaited, decisions, requests>>
collectVars == <<fetches, reading, phase, offered, merged>>

-----------------------------------------------------------------------------
Collect ==
    /\ phase = "idle"
    /\ StartReading
    /\ phase' = "reading"
    /\ UNCHANGED <<offered, merged, rows, round, peopleVars>>

Read(s) ==
    /\ phase = "reading"
    /\ ReadStep(s)
    /\ UNCHANGED <<phase, offered, merged, rows, round, peopleVars>>

(* What a source's filters keep of its entries, up to the limit of their   *)
(* number.                                                                 *)
Kept(s, weight) ==
    LET most == IF reading[s].status = "failed" THEN 0
                ELSE IF s \in Sitemaps THEN MaxEntries
                ELSE MaxFeed
    IN  UNION {[1..n -> Entries(Urls, Candidates, {weight})] : n \in 0..most}

(* The entries of all sources, one source after the other.                 *)
Offers(weight) ==
    FoldLeft(LAMBDA lists, s : {l \o k : l \in lists, k \in Kept(s, weight[s])},
             {<<>>}, SetToSeq(Sources))

(* When every source was read or has failed.                               *)
Merge ==
    /\ phase = "reading" /\ phase' = "merged"
    /\ \A s \in Sources : reading[s].status \in {"ok", "failed"}
    /\ \E weight \in [Sources -> Weights] : offered' \in Offers(weight)
    /\ merged' = MergedList(offered')
    /\ reading' = [s \in Sources |-> NotRead]
    /\ UNCHANGED <<fetches, rows, round, peopleVars>>

-----------------------------------------------------------------------------
(* Slip: only the URL is looked up.                                        *)
FoundByUrl(stored, input) == {i \in DOMAIN stored : stored[i].url = input.url}

(* The row of a candidate that is stored already.                          *)
Found(stored, input) ==
    LET byUrl == {i \in DOMAIN stored : stored[i].url = input.url}
    IN  IF byUrl # {} THEN byUrl ELSE {i \in DOMAIN stored : stored[i].title = input.title}

(* created has the rows as they were when they were inserted.              *)
Inserted(store, input) ==
    LET row == Upserted(NewRow(input.url, input.title), input.score)
    IN  [rows    |-> Append(store.rows, row),
         created |-> store.created \cup
                       {[id |-> Len(store.rows) + 1, status |-> row.status, score |-> row.score]}]

UpsertedInput(store, input) ==
    IF Found(store.rows, input) = {}
    THEN Inserted(store, input)
    ELSE LET i == CHOOSE i \in Found(store.rows, input) : TRUE
         IN  [store EXCEPT !.rows[i] = Upserted(@, input.score)]

UpsertCollected(inputs) == FoldLeft(UpsertedInput, [rows |-> rows, created |-> {}], inputs)

Before(a, b) == a.score > b.score \/ (a.score = b.score /\ a.id < b.id)

Place(some, x) == Cardinality({y \in some : Before(y, x)}) + 1

(* What was created, best first: the sort keeps the order of equals.       *)
BestFirst(some) == [k \in 1..Cardinality(some) |-> (CHOOSE x \in some : Place(some, x) = k).id]

FirstOf(list, limit) == SubSeq(list, 1, IF limit < Len(list) THEN limit ELSE Len(list))

(* scoreCandidate: what a published or parked article covers is dropped,   *)
(* an entry with its title as any other; the rest get a score.             *)
Scorings(entries) ==
    UNION {[{e \in entries : offered[e].title \notin covered} -> Scores] :
             covered \in SUBSET {offered[e].title : e \in entries}}

(* The candidates are sorted by date, scored and stored in one             *)
(* transaction; what it has created goes into a round.                     *)
Store ==
    /\ phase = "merged" /\ phase' = "enriching"
    /\ \E score \in Scorings(Range(merged)) :
       \E order \in SetToSeqs(DOMAIN score) :
         LET inputs == [k \in DOMAIN order |-> [url   |-> offered[order[k]].url,
                                                title |-> offered[order[k]].title,
                                                score |-> score[order[k]]]]
             store  == UpsertCollected(inputs)
             fresh  == {c \in store.created : c.status = "new"}
         IN  /\ rows' = store.rows
             /\ round' = [NoRound EXCEPT !.todo = FirstOf(BestFirst(fresh), EnrichLimit)]
    /\ offered' = <<>> /\ merged' = <<>>
    /\ UNCHANGED <<fetches, reading, peopleVars>>

(* ORDER BY score DESC; equals come by dates, which are left out: in any   *)
(* order.                                                                  *)
ByScore(some) ==
    {list \in SetToSeqs(some) : \A k, l \in DOMAIN list : k < l => rows[list[k]].score >= rows[list[l]].score}

(* `topics enrich --top`: a round for the rows that have no proposal.      *)
EnrichTop ==
    /\ phase = "idle"
    /\ \E list \in ByScore({i \in DOMAIN rows : rows[i].status = "new" /\ ~rows[i].enriched}) :
         round' = [NoRound EXCEPT !.todo = FirstOf(list, EnrichLimit)]
    /\ phase' = "enriching"
    /\ UNCHANGED <<fetches, reading, offered, merged, rows, peopleVars>>

-----------------------------------------------------------------------------
BudgetReached == round.costUsd >= MaxCost

Ask ==
    /\ phase = "enriching" /\ round.asked = 0 /\ round.todo # <<>>
    /\ ~BudgetReached
    /\ round' = [round EXCEPT !.asked = Head(round.todo), !.todo = Tail(round.todo)]
    /\ UNCHANGED <<collectVars, rows, peopleVars>>

(* setEnrichment: nothing else of the row is written.                      *)
WithProposal(i) == [rows EXCEPT ![i].enriched = TRUE]

Proposed ==
    /\ round.asked # 0
    /\ rows' = WithProposal(round.asked)
    /\ \E cost \in 0..MaxProposal :
         round' = [round EXCEPT !.asked = 0, !.costUsd = @ + cost, !.spent = @ + cost]
    /\ UNCHANGED <<collectVars, peopleVars>>

(* No reply, or none that is valid after all attempts: what was paid for   *)
(* those is not counted.                                                   *)
ProposalFails ==
    /\ round.asked # 0
    /\ \E cost \in 0..MaxProposal :
         round' = [round EXCEPT !.asked = 0, !.spent = @ + cost]
    /\ UNCHANGED <<collectVars, rows, peopleVars>>

RoundEnds ==
    /\ phase = "enriching" /\ round.asked = 0
    /\ round.todo = <<>> \/ BudgetReached
    /\ round' = NoRound
    /\ phase' = "done"
    /\ UNCHANGED <<fetches, reading, offered, merged, rows, peopleVars>>

-----------------------------------------------------------------------------
(* A person accepts (with a brief of the person's own, one made from the   *)
(* proposal, or the one there is), drops, or starts a run.                 *)
SpendDecision ==
    /\ decisions < MaxDecisions
    /\ decisions' = decisions + 1
    /\ UNCHANGED <<collectVars, round, awaited, requests>>

AcceptCandidate(i) ==
    /\ MayDecide(rows[i].status)
    /\ \E brief \in Briefs :
         rows' = [rows EXCEPT ![i] = Accepted(rows[i], rows[i].status, brief)]
    /\ SpendDecision

DropCandidate(i) ==
    /\ MayDecide(rows[i].status)
    /\ rows' = [rows EXCEPT ![i] = Dropped(rows[i], rows[i].status)]
    /\ SpendDecision

UseCandidate(i) ==
    /\ MayMark(rows[i].status)
    /\ rows' = [rows EXCEPT ![i] = Used(rows[i], rows[i].status, 1)]
    /\ SpendDecision

RequestProposal(i) ==
    /\ requests < MaxRequests /\ i \notin awaited
    /\ requests' = requests + 1
    /\ awaited' = awaited \cup {i}
    /\ UNCHANGED <<collectVars, rows, round, decisions>>

RequestEnds(i) ==
    /\ i \in awaited
    /\ awaited' = awaited \ {i}
    /\ rows' \in {rows, WithProposal(i)}
    /\ UNCHANGED <<collectVars, round, decisions, requests>>

RoundStep == Ask \/ Proposed \/ ProposalFails \/ RoundEnds

Next ==
    \/ Collect \/ EnrichTop
    \/ \E s \in Sources : Read(s)
    \/ Merge \/ Store \/ RoundStep
    \/ \E i \in DOMAIN rows :
         \/ AcceptCandidate(i) \/ DropCandidate(i) \/ UseCandidate(i)
         \/ RequestProposal(i) \/ RequestEnds(i)

Spec == Init /\ [][Next]_vars

(* Servers of sources may never answer: the fetcher goes on without them.  *)
(* The model answers in the end, because its calls have a time limit.      *)
FairSpec ==
    /\ Spec
    /\ \A s \in Sources :
         /\ WF_vars(phase = "reading" /\ ReadingGoesOn(s)
                    /\ UNCHANGED <<phase, offered, merged, rows, round, peopleVars>>)
         /\ WF_vars(phase = "reading" /\ Deadline(s)
                    /\ UNCHANGED <<reading, phase, offered, merged, rows, round, peopleVars>>)
    /\ WF_vars(Merge \/ Store \/ RoundStep)

-----------------------------------------------------------------------------
(* However entries share a URL with one and a title with another, and in   *)
(* whatever order they are offered: no group of them is lost, none comes   *)
(* out twice but under a title that bridges two URLs, and with two weights *)
(* the heavier source wins, also when the entry it beats was replaced      *)
(* before and is still led to by an alias (collectTopicCandidates).        *)
(* That is less than operations.md:191 and collect.ts:39-40 promise: the   *)
(* code keeps some titles twice, and of three weights may lose the top.    *)
EntriesCollapse == phase = "merged" => Collapses(offered, merged)

(* The backlog holds an article once, whatever its entries share with each *)
(* other and with what was stored before (upsertCollected).                *)
RowsApart ==
    \A i, j \in DOMAIN rows : i # j => ~SameUrlOrTitle(rows[i], rows[j])

(* Only a person changes what has been decided: neither a collection nor a *)
(* proposal that was asked for before the decision touches it              *)
(* (upsertCollected, setEnrichment).                                       *)
DecisionsKept ==
    [][\A i \in DOMAIN rows :
         rows[i].status # "new" /\ decisions' = decisions
         => [rows'[i] EXCEPT !.enriched = rows[i].enriched] = rows[i]]_vars

(* A collection ends, whatever its sources answer or do not answer         *)
(* (fetcher.ts, sitemap.ts).                                               *)
CollectEnds == phase = "reading" ~> phase = "done"

(* What docs/DECISIONS.md:276 says of a round: it stops before the next    *)
(* candidate once the cost it has incurred reaches the limit.              *)
RoundStopsAtCost == [][Ask => round.spent < MaxCost]_vars
=============================================================================
