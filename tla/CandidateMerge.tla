--------------------------- MODULE CandidateMerge ---------------------------
(***************************************************************************)
(* How the entries of several sources become one list (packages/research,  *)
(* collect.ts).  An entry is a URL and a title, both in the form they are  *)
(* compared in, and the weight of its source; entries are numbered in the  *)
(* order they are offered in, and the list is one of numbers.  Every entry *)
(* has a URL that can be compared: feed.ts and sitemap.ts drop the others. *)
(* Dates and summaries, which a dropped entry lends to the one that is     *)
(* kept, are left out, and so is the final order by date.                  *)
(***************************************************************************)
EXTENDS Integers, Sequences, SequencesExt

Entries(urls, titles, weights) == [url : urls, title : titles, weight : weights]

(* No position in a list: indexOf says -1, and a write there is lost.      *)
NoPosition == 0

(* merged, and what byUrl and byTitle lead to: 0 for nothing.              *)
NothingMerged(offered) ==
    [list  |-> <<>>,
     url   |-> [u \in {offered[i].url : i \in DOMAIN offered} |-> 0],
     title |-> [t \in {offered[i].title : i \in DOMAIN offered} |-> 0]]

(* The entry this one is taken for: the URL decides before the title.      *)
ExistingFor(entry, m) == IF m.url[entry.url] # 0 THEN m.url[entry.url] ELSE m.title[entry.title]

PositionOf(e, list) ==
    IF \E k \in DOMAIN list : list[k] = e THEN CHOOSE k \in DOMAIN list : list[k] = e ELSE NoPosition

Winner(offered, i, existing) ==
    IF offered[i].weight > offered[existing].weight THEN i ELSE existing

(* Slip: the entry that has lost is taken out, and its place given up.     *)
ReplacedByNothing(list, existing, winner) ==
    IF winner = existing THEN list ELSE SelectSeq(list, LAMBDA e : e # existing)

(* A winner takes the place of the entry it has beaten, if that has one.   *)
Replaced(list, existing, winner) ==
    IF PositionOf(existing, list) = NoPosition THEN list
    ELSE [list EXCEPT ![PositionOf(existing, list)] = winner]

WithEntry(offered, m, i) ==
    LET entry    == offered[i]
        existing == ExistingFor(entry, m)
        winner   == Winner(offered, i, existing)
    IN  IF existing = 0
        THEN [list  |-> Append(m.list, i),
              url   |-> [m.url EXCEPT ![entry.url] = i],
              title |-> [m.title EXCEPT ![entry.title] = i]]
        ELSE [list  |-> Replaced(m.list, existing, winner),
              url   |-> [m.url EXCEPT ![entry.url] = winner, ![offered[existing].url] = winner],
              title |-> [m.title EXCEPT ![entry.title] = winner,
                                        ![offered[existing].title] = winner]]

(* The numbers of the entries that are kept.                               *)
MergedList(offered) ==
    FoldLeft(LAMBDA m, i : WithEntry(offered, m, i), NothingMerged(offered),
             [i \in DOMAIN offered |-> i]).list

-----------------------------------------------------------------------------
SameUrlOrTitle(a, b) == a.url = b.url \/ a.title = b.title

(* No entry outside the group shares a URL or a title with one in it.      *)
Apart(offered, group) ==
    \A i \in group : \A j \in DOMAIN offered \ group : ~SameUrlOrTitle(offered[i], offered[j])

(* Two entries of the group have between them all weights it offers.       *)
TwoWeights(offered, group) ==
    \E i, j \in group :
       \A l \in group : offered[l].weight \in {offered[i].weight, offered[j].weight}

Heaviest(offered, group) ==
    {i \in group : \A j \in group : offered[j].weight <= offered[i].weight}

(* An entry of this title has the URL of one with another title.           *)
Bridges(offered, title) ==
    \E i, j \in DOMAIN offered :
       offered[i].title = title /\ offered[j].title # title /\ offered[i].url = offered[j].url

(* Nothing is made up; of the entries that hang together over URLs and     *)
(* titles they share, one at least is kept, a heaviest one where they come *)
(* with two weights at most; no URL is kept twice, and no title but one    *)
(* that shares a URL with another title (collectTopicCandidates).          *)
Collapses(offered, list) ==
    /\ \A k \in DOMAIN list : list[k] \in DOMAIN offered
    /\ \A group \in SUBSET DOMAIN offered :
         group # {} /\ Apart(offered, group) =>
           \E k \in DOMAIN list :
              list[k] \in IF TwoWeights(offered, group) THEN Heaviest(offered, group) ELSE group
    /\ \A k, l \in DOMAIN list : k # l =>
         LET a == offered[list[k]]
             b == offered[list[l]]
         IN  a.url # b.url /\ (a.title = b.title => Bridges(offered, a.title))
=============================================================================
