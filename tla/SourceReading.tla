--------------------------- MODULE SourceReading ---------------------------
(***************************************************************************)
(* The topic sources of a collection, read side by side (packages/         *)
(* research, feed.ts, sitemap.ts, the first half of collect.ts).  A feed   *)
(* is one page.  A sitemap may be an index of sitemaps, which are read one *)
(* after the other, to a depth and a number that are limited: an index may *)
(* list itself.  What the entries are is decided when they are merged.     *)
(***************************************************************************)
EXTENDS ContentFetch, Sequences

CONSTANTS
    Sitemaps,      \* the sources that are sitemaps; the others are feeds
    MaxDepth,      \* MAX_SITEMAP_DEPTH
    MaxChildren,   \* MAX_CHILD_SITEMAPS
    MaxListed      \* bound: sitemaps an index lists

ASSUME ReadingAssumption ==
    /\ Sitemaps \subseteq Sources
    /\ {MaxDepth, MaxChildren, MaxListed} \subseteq Nat

VARIABLE reading

(* pending has, for each index on the way to the present page, how many of *)
(* its sitemaps were not looked at.                                        *)
Readings ==
    [status : {"idle", "reading", "ok", "failed"}, pending : Seq(Nat),
     children : 0..MaxChildren]

NotRead == [status |-> "idle", pending |-> <<>>, children |-> 0]

ReadingTypeOK == FetchTypeOK /\ reading \in [Sources -> Readings]

ReadingInit == FetchInit /\ reading = [s \in Sources |-> NotRead]

-----------------------------------------------------------------------------
StartReading ==
    /\ reading' = [s \in Sources |-> [NotRead EXCEPT !.status = "reading"]]
    /\ fetches' = [s \in Sources |-> Fetching]

Depth(r) == Len(r.pending) + 1

(* The source is done: the fetch is forgotten.                             *)
Ended(s, status) ==
    /\ reading' = [reading EXCEPT ![s] = [NotRead EXCEPT !.status = status]]
    /\ Turns(s, NoFetch)

Unread(r) == {k \in DOMAIN r.pending : r.pending[k] > 0}

(* The next sitemap of the innermost index that has one; every index stops *)
(* when the limit is reached.                                              *)
Proceed(s, r) ==
    IF Unread(r) = {} \/ r.children = MaxChildren
    THEN Ended(s, "ok")
    ELSE LET k    == CHOOSE k \in Unread(r) : \A l \in Unread(r) : l <= k
             left == [SubSeq(r.pending, 1, k) EXCEPT ![k] = @ - 1]
         IN  /\ reading' = [reading EXCEPT
                               ![s] = [r EXCEPT !.pending = left, !.children = @ + 1]]
             /\ Turns(s, Fetching)

HasPage(s) == reading[s].status = "reading" /\ fetches[s].phase = "over" /\ fetches[s].result = "ok"

(* A feed, or a set of URLs.                                               *)
ReadEntries(s) == HasPage(s) /\ Proceed(s, reading[s])

(* An index: its sitemaps of this site, unless it is too deep.             *)
ReadIndex(s) ==
    /\ HasPage(s)
    /\ s \in Sitemaps
    /\ \E listed \in 0..MaxListed :
         Proceed(s, IF Depth(reading[s]) < MaxDepth
                    THEN [reading[s] EXCEPT !.pending = Append(@, listed)]
                    ELSE reading[s])

(* A page that is not there or not what it should be fails the source, or  *)
(* is one sitemap less.                                                    *)
Broken(s) ==
    /\ reading[s].status = "reading" /\ fetches[s].phase = "over"
    /\ IF reading[s].pending = <<>>
       THEN Ended(s, "failed")
       ELSE Proceed(s, reading[s])

ReadStep(s) ==
    \/ (FetchStep(s) \/ Deadline(s)) /\ UNCHANGED reading
    \/ ReadEntries(s) \/ ReadIndex(s) \/ Broken(s)

(* What happens for sure: the fetcher goes on, its timer fires, and a page *)
(* that has come is parsed.                                                *)
ReadingGoesOn(s) ==
    \/ FetchGoesOn(s) /\ UNCHANGED reading
    \/ ReadEntries(s) \/ ReadIndex(s) \/ Broken(s)
=============================================================================
