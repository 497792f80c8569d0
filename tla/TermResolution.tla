--------------------------- MODULE TermResolution ---------------------------
(***************************************************************************)
(* The tags and the category of a post on WordPress (packages/publishers,  *)
(* taxonomy): names are looked up in a list that one provider object reads *)
(* once and keeps for a while, for all publishes of the process.  A tag    *)
(* that is not in the list may be created; a category never is.            *)
(*                                                                         *)
(* Between a request and its answer other publishes go on.  The list is    *)
(* read whole: that of a blog with more than MAX_PAGES * PER_PAGE terms    *)
(* would be cut off, and the pages are taken as of one moment.             *)
(***************************************************************************)
EXTENDS FiniteSets

CONSTANTS
    Publishes,     \* the publishes of the process
    Tags,          \* the names an article may be tagged with
    NoTag,         \* not a name
    AllowCreate    \* OPENBLOG_TAXONOMY_ALLOW_CREATE

ASSUME TermsAssumption == NoTag \notin Tags

VARIABLES
    terms,      \* the tags WordPress has
    cache,      \* the list the provider keeps
    resolving,  \* how far each publish is with its names
    made,       \* the tags the process knows it has created
    crossed     \* whether a tag was being created while another was, or the list read

termVars == <<terms, cache, resolving, made, crossed>>

Resolutions == [phase : {"idle", "category", "next", "fetching", "posting", "resolved", "failed"},
                todo : SUBSET Tags, tag : Tags \cup {NoTag}, entries : SUBSET Tags]

NotResolving == [phase |-> "idle", todo |-> {}, tag |-> NoTag, entries |-> {}]

TermsTypeOK ==
    /\ terms \in SUBSET Tags
    /\ cache \in [filled : BOOLEAN, entries : SUBSET Tags]
    /\ resolving \in [Publishes -> Resolutions]
    /\ made \in SUBSET Tags
    /\ crossed \in BOOLEAN

TermsInit ==
    /\ terms \in SUBSET Tags
    /\ cache = [filled |-> FALSE, entries |-> {}]
    /\ resolving = [p \in Publishes |-> NotResolving]
    /\ made = {}
    /\ crossed = FALSE

-----------------------------------------------------------------------------
StartResolving(p, names) ==
    resolving' = [resolving EXCEPT ![p] = [NotResolving EXCEPT !.phase = "category", !.todo = names]]

(* The category or the default one is in the list, or the publish fails.   *)
ResolveCategory(p) ==
    /\ resolving[p].phase = "category"
    /\ \E next \in {"next", "failed"} : resolving' = [resolving EXCEPT ![p].phase = next]
    /\ UNCHANGED <<terms, cache, made, crossed>>

Posting(p) == resolving[p].phase = "posting"

(* Slip: a name that is found is looked up again.                          *)
MatchedAgain(r, t, entries) ==
    IF t \in entries \/ ~AllowCreate
    THEN [r EXCEPT !.phase = "next", !.entries = {}]
    ELSE [r EXCEPT !.phase = "posting", !.todo = @ \ {t}, !.tag = t, !.entries = entries]

(* A name that is in the list is done, and so is one that must not be      *)
(* created: the post goes without it.                                      *)
Matched(r, t, entries) ==
    IF t \in entries \/ ~AllowCreate
    THEN [r EXCEPT !.phase = "next", !.todo = @ \ {t}, !.entries = {}]
    ELSE [r EXCEPT !.phase = "posting", !.todo = @ \ {t}, !.tag = t, !.entries = entries]

(* A request for a tag, or the list, while another publish creates a tag.  *)
Crossing(r, others) ==
    \E q \in others : \/ r.phase = "posting" /\ resolving[q].phase \in {"fetching", "posting"}
                      \/ r.phase = "fetching" /\ Posting(q)

Turn(p, r) ==
    /\ resolving' = [resolving EXCEPT ![p] = r]
    /\ crossed' = (crossed \/ Crossing(r, Publishes \ {p}))

(* The list is asked for, and WordPress answers with what it has.          *)
Asked(r) == [r EXCEPT !.phase = "fetching", !.entries = terms]

(* A name is sought in a list that is kept.  Before a tag is created the   *)
(* list is looked at once more, and asked for again if it has just become  *)
(* too old; the name is not sought in the new one.                         *)
Seek(p, t, list) ==
    \/ /\ cache' = list
       /\ Turn(p, Matched(resolving[p], t, list.entries))
    \/ /\ Matched(resolving[p], t, list.entries).phase = "posting"
       /\ cache' = [list EXCEPT !.filled = FALSE]
       /\ Turn(p, Asked(Matched(resolving[p], t, list.entries)))

(* The next name, if the list is there; otherwise the list is asked for.   *)
NextName(p) ==
    /\ resolving[p].phase = "next"
    /\ \/ /\ resolving[p].todo = {}
          /\ Turn(p, [resolving[p] EXCEPT !.phase = "resolved"])
          /\ UNCHANGED cache
       \/ /\ cache.filled
          /\ \E t \in resolving[p].todo : Seek(p, t, cache)
       \/ /\ ~cache.filled
          /\ resolving[p].todo # {}
          /\ Turn(p, Asked(resolving[p]))
          /\ UNCHANGED cache
    /\ UNCHANGED <<terms, made>>

(* The answer is here and kept: for the names to come, or for the tag that *)
(* is to be created.                                                       *)
Answered(p) == [filled |-> TRUE, entries |-> resolving[p].entries]

FetchAll(p) ==
    /\ resolving[p].phase = "fetching"
    /\ \/ /\ resolving[p].tag = NoTag
          /\ \E t \in resolving[p].todo : Seek(p, t, Answered(p))
       \/ /\ resolving[p].tag # NoTag
          /\ cache' = Answered(p)
          /\ Turn(p, [resolving[p] EXCEPT !.phase = "posting"])
    /\ UNCHANGED <<terms, made>>

Failing(p) == resolving' = [resolving EXCEPT ![p] = [NotResolving EXCEPT !.phase = "failed"]]

FetchFails(p) ==
    /\ resolving[p].phase = "fetching"
    /\ Failing(p)
    /\ UNCHANGED <<terms, cache, made, crossed>>

(* Slip: the new tag is not put into the list.                             *)
WithoutCreated(p) == resolving[p].entries

(* The list the creation started from, and the new tag.                    *)
WithCreated(p) == resolving[p].entries \cup {resolving[p].tag}

(* WordPress creates the tag, unless there is one of that name.            *)
CreateTag(p) ==
    /\ Posting(p)
    /\ resolving[p].tag \notin terms
    /\ terms' = terms \cup {resolving[p].tag}
    /\ cache' = [filled |-> TRUE, entries |-> WithCreated(p)]
    /\ made' = made \cup {resolving[p].tag}
    /\ resolving' = [resolving EXCEPT ![p].phase = "next", ![p].tag = NoTag,
                                      ![p].entries = {}]
    /\ UNCHANGED crossed

(* It refuses a name it has; or the answer gets lost, after the tag was    *)
(* created or before.                                                      *)
CreateFails(p) ==
    /\ Posting(p)
    /\ Failing(p)
    /\ \/ UNCHANGED terms
       \/ terms' = terms \cup {resolving[p].tag}
    /\ UNCHANGED <<cache, made, crossed>>

(* The list is too old.                                                    *)
Expire ==
    /\ cache.filled
    /\ cache' = [cache EXCEPT !.filled = FALSE]
    /\ UNCHANGED <<terms, resolving, made, crossed>>

ResolveStep(p) ==
    \/ ResolveCategory(p) \/ NextName(p)
    \/ FetchAll(p) \/ FetchFails(p)
    \/ CreateTag(p) \/ CreateFails(p)

-----------------------------------------------------------------------------
(* A tag the process has created is in the list as long as the list is     *)
(* kept, so that it is not created again (createOne: "the next lookup in   *)
(* this run must not lose or re-create it"), unless a publish was creating *)
(* a tag while another did or read the list: either puts back a list that  *)
(* is older than the tag.                                                  *)
CreatedIsListed == cache.filled /\ ~crossed => made \subseteq cache.entries
=============================================================================
