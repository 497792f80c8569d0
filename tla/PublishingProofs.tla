-------------------------- MODULE PublishingProofs --------------------------
(***************************************************************************)
(* What publishes that overlap may do to the posts of an article and to    *)
(* the list of tags, for any number of publishes, tags, edits and late     *)
(* writes, and for each publisher.                                         *)
(***************************************************************************)
EXTENDS Publishing, FiniteSetTheorems, TLAPS

(* A list that is being read, or was read for a creation, has every tag    *)
(* the process has created.                                                *)
Asking(p) == resolving[p].phase \in {"fetching", "posting"}

ListsKept ==
    ~crossed =>
        /\ cache.filled => made \subseteq cache.entries
        /\ \A p \in Publishes : Asking(p) => made \subseteq resolving[p].entries
        /\ \A p, q \in Publishes : p # q /\ Posting(p) => ~Asking(q)

NamesTags ==
    \A p \in Publishes : /\ Posting(p) => resolving[p].tag \in Tags
                         /\ resolving[p].tag # NoTag => Asking(p)

TermInv == TermsTypeOK /\ made \subseteq terms /\ ListsKept /\ NamesTags

(* The first post of an article has its slug, so a look-up finds nothing   *)
(* only if there is no post; a write that found nothing is alone.          *)
FirstIsOwn == posts # <<>> => posts[1].own

Creating(p) == pub[p].phase = "write" /\ pub[p].write.found = 0

OneCreation ==
    ~raced =>
        /\ Len(posts) <= 1
        /\ \A p \in Publishes : Creating(p) => posts = <<>>
        /\ \A w \in late : w.found = 0 => posts = <<>>
        /\ \A p, q \in Publishes : Creating(p) /\ Creating(q) => p = q
        /\ \A p \in Publishes, w \in late : ~(Creating(p) /\ w.found = 0)
        /\ \A v, w \in late : v.found = 0 /\ w.found = 0 => v = w

PostInv == ~IsMarkdown => FirstIsOwn /\ OneCreation

(* One file; who is to write over it has seen a draft that is still there. *)
FileInv ==
    IsMarkdown =>
        /\ late = {}
        /\ Len(posts) <= 1
        /\ ~raced =>
             /\ \A p, q \in Publishes :
                  pub[p].phase = "write" /\ pub[q].phase = "write" => p = q
             /\ \A p \in Publishes :
                  pub[p].phase = "write" /\ pub[p].write.found # 0 =>
                     \A i \in DOMAIN posts : posts[i].state = "draft"

IInv == TypeOK /\ TermInv /\ PostInv /\ FileInv

-----------------------------------------------------------------------------
LEMMA NotResolvingTypes ==
    /\ NotResolving \in Resolutions /\ NotResolving.phase = "idle" /\ NotResolving.tag = NoTag
    /\ \A ph \in {"category", "failed"}, names \in SUBSET Tags :
         /\ [NotResolving EXCEPT !.phase = ph] \in Resolutions
         /\ [NotResolving EXCEPT !.phase = ph].phase = ph
         /\ [NotResolving EXCEPT !.phase = ph].tag = NoTag
         /\ [NotResolving EXCEPT !.phase = ph, !.todo = names] \in Resolutions
         /\ [NotResolving EXCEPT !.phase = ph, !.todo = names].phase = ph
         /\ [NotResolving EXCEPT !.phase = ph, !.todo = names].tag = NoTag
  BY DEF NotResolving, Resolutions

(* A name is done, or asked to be created with the list it was sought in.  *)
LEMMA MatchedTypes ==
    ASSUME NEW r \in Resolutions, NEW t \in r.todo, NEW entries \in SUBSET Tags
    PROVE  /\ Matched(r, t, entries) \in Resolutions
           /\ \/ /\ Matched(r, t, entries).phase = "next"
                 /\ Matched(r, t, entries).tag = r.tag
              \/ /\ Matched(r, t, entries).phase = "posting"
                 /\ Matched(r, t, entries).entries = entries
                 /\ Matched(r, t, entries).tag = t
  BY DEF Matched, Resolutions

LEMMA AskedTypes ==
    ASSUME TermsTypeOK, NEW r \in Resolutions
    PROVE  /\ Asked(r) \in Resolutions
           /\ Asked(r).phase = "fetching" /\ Asked(r).entries = terms
           /\ Asked(r).todo = r.todo /\ Asked(r).tag = r.tag
  BY DEF Asked, Resolutions, TermsTypeOK

(* What a publish turns to once it has looked into a list.                 *)
LEMMA SeekTurns ==
    ASSUME TermInv, NEW p \in Publishes, NEW t \in resolving[p].todo,
           NEW list \in [filled : BOOLEAN, entries : SUBSET Tags], Seek(p, t, list),
           ~crossed => made \subseteq list.entries, resolving[p].tag = NoTag
    PROVE  \E turned \in Resolutions :
             /\ Turn(p, turned)
             /\ ~crossed /\ turned.phase \in {"fetching", "posting"} => made \subseteq turned.entries
             /\ turned.phase = "posting" => turned.tag \in Tags
             /\ turned.tag # NoTag => turned.phase \in {"fetching", "posting"}
             /\ cache' \in [filled : BOOLEAN, entries : SUBSET Tags]
             /\ ~crossed /\ cache'.filled => made \subseteq cache'.entries
<1> DEFINE r == resolving[p]
           m == Matched(r, t, list.entries)
<1>0. /\ TermsTypeOK /\ r \in Resolutions /\ list.entries \in SUBSET Tags /\ made \subseteq terms
      /\ t \in Tags
  BY DEF TermInv, TermsTypeOK, Resolutions
<1>1. /\ m \in Resolutions
      /\ \/ m.phase = "next" /\ m.tag = NoTag
         \/ m.phase = "posting" /\ m.entries = list.entries /\ m.tag = t
  BY <1>0, MatchedTypes
<1> HIDE DEF m
<1>2. CASE cache' = list /\ Turn(p, m)
  BY <1>0, <1>1, <1>2
<1>3. CASE m.phase = "posting" /\ cache' = [list EXCEPT !.filled = FALSE] /\ Turn(p, Asked(m))
  <2>1. /\ Asked(m) \in Resolutions /\ Asked(m).phase = "fetching" /\ Asked(m).entries = terms
        /\ Asked(m).tag = m.tag
    BY <1>0, <1>1, AskedTypes
  <2>2. cache' \in [filled : BOOLEAN, entries : SUBSET Tags] /\ ~cache'.filled
    BY <1>3
  <2> QED BY <1>0, <1>1, <1>3, <2>1, <2>2
<1> QED BY <1>2, <1>3 DEF Seek, m

(* One publish turns to something else: the lists it and the others have   *)
(* are good as long as nothing has crossed.                                *)
LEMMA TurnKeepsLists ==
    ASSUME TermInv, NEW p \in Publishes, NEW r \in Resolutions,
           resolving' = [resolving EXCEPT ![p] = r],
           crossed => crossed',
           ~crossed' => ~Crossing(r, Publishes \ {p}),
           made' = made,
           ~crossed /\ cache'.filled => made \subseteq cache'.entries,
           ~crossed /\ r.phase \in {"fetching", "posting"} => made \subseteq r.entries,
           r.phase = "posting" => r.tag \in Tags,
           r.tag # NoTag => r.phase \in {"fetching", "posting"}
    PROVE  ListsKept' /\ NamesTags'
<1>named. NamesTags'
  BY DEF TermInv, TermsTypeOK, NamesTags, Posting, Asking
<1> SUFFICES ASSUME ~crossed'
             PROVE  /\ cache'.filled => made' \subseteq cache'.entries
                    /\ \A q \in Publishes : Asking(q)' => made' \subseteq resolving'[q].entries
                    /\ \A q, s \in Publishes : q # s /\ Posting(q)' => ~Asking(s)'
  BY <1>named DEF ListsKept
<1>0. ~crossed /\ resolving \in [Publishes -> Resolutions]
  BY DEF TermInv, TermsTypeOK
<1>1. /\ resolving'[p] = r
      /\ \A q \in Publishes \ {p} : resolving'[q] = resolving[q]
  BY <1>0
<1>2. cache'.filled => made' \subseteq cache'.entries
  BY <1>0
<1>3. ASSUME NEW q \in Publishes, Asking(q)' PROVE made' \subseteq resolving'[q].entries
  <2>1. CASE q = p
    BY <1>0, <1>1, <1>3, <2>1 DEF Asking
  <2>2. CASE q # p
    BY <1>0, <1>1, <1>3, <2>2 DEF Asking, TermInv, ListsKept
  <2> QED BY <2>1, <2>2
<1>4. ASSUME NEW q \in Publishes, NEW s \in Publishes, q # s, Posting(q)', Asking(s)'
      PROVE  FALSE
  <2>0. \A o \in Publishes \ {p} :
          /\ r.phase = "posting" => resolving[o].phase \notin {"fetching", "posting"}
          /\ r.phase = "fetching" => ~Posting(o)
    BY DEF Crossing
  <2>1. CASE q = p
    BY <1>1, <1>4, <2>0, <2>1 DEF Posting, Asking
  <2>2. CASE s = p
    BY <1>1, <1>4, <2>0, <2>2 DEF Posting, Asking
  <2>3. CASE q # p /\ s # p
    BY <1>0, <1>1, <1>4, <2>3 DEF Posting, Asking, TermInv, ListsKept
  <2> QED BY <2>1, <2>2, <2>3
<1> QED BY <1>2, <1>3, <1>4

LEMMA ResolveKeepsTerms ==
    ASSUME TermInv, NEW p \in Publishes, ResolveStep(p)
    PROVE  TermInv'
<1> DEFINE r == resolving[p]
<1>0. /\ TermsTypeOK /\ ListsKept /\ NamesTags /\ made \subseteq terms /\ made \subseteq Tags
      /\ r \in Resolutions /\ resolving \in [Publishes -> Resolutions]
      /\ terms \in SUBSET Tags /\ cache \in [filled : BOOLEAN, entries : SUBSET Tags]
      /\ r.todo \subseteq Tags /\ r.entries \subseteq Tags /\ crossed \in BOOLEAN
  BY DEF TermInv, TermsTypeOK, Resolutions
<1> HIDE DEF r
<1>1. CASE ResolveCategory(p)
  <2>1. PICK next \in {"next", "failed"} : resolving' = [resolving EXCEPT ![p] = [r EXCEPT !.phase = next]]
    BY <1>0, <1>1 DEF ResolveCategory, r
  <2>2. /\ [r EXCEPT !.phase = next] \in Resolutions /\ [r EXCEPT !.phase = next].phase = next
        /\ [r EXCEPT !.phase = next].tag = NoTag
    BY <1>0, <1>1 DEF Resolutions, ResolveCategory, NamesTags, Asking, r
  <2>3. UNCHANGED <<terms, cache, made, crossed>> /\ ~Crossing([r EXCEPT !.phase = next], Publishes \ {p})
    BY <1>1, <2>2 DEF ResolveCategory, Crossing
  <2>4. ListsKept' /\ NamesTags'
    BY <1>0, <2>1, <2>2, <2>3, TurnKeepsLists DEF ListsKept
  <2> QED BY <1>0, <2>1, <2>2, <2>3, <2>4 DEF TermInv, TermsTypeOK
<1>turn. ASSUME NEW turned \in Resolutions, Turn(p, turned),
             ~crossed /\ turned.phase \in {"fetching", "posting"} => made \subseteq turned.entries,
             turned.phase = "posting" => turned.tag \in Tags,
             turned.tag # NoTag => turned.phase \in {"fetching", "posting"},
             cache' \in [filled : BOOLEAN, entries : SUBSET Tags],
             ~crossed /\ cache'.filled => made \subseteq cache'.entries,
             UNCHANGED <<terms, made>>
         PROVE  TermInv'
  <2>1. /\ resolving' = [resolving EXCEPT ![p] = turned]
        /\ crossed' = (crossed \/ Crossing(turned, Publishes \ {p}))
    BY <1>turn DEF Turn
  <2>2. ListsKept' /\ NamesTags'
    BY <1>0, <1>turn, <2>1, TurnKeepsLists
  <2>3. crossed' \in BOOLEAN
    BY <1>0, <2>1
  <2> QED BY <1>0, <1>turn, <2>1, <2>2, <2>3 DEF TermInv, TermsTypeOK
<1>seek. ASSUME NEW t \in r.todo, NEW list \in [filled : BOOLEAN, entries : SUBSET Tags],
                Seek(p, t, list), ~crossed => made \subseteq list.entries, r.tag = NoTag,
                UNCHANGED <<terms, made>>
         PROVE  TermInv'
  BY <1>turn, <1>seek, SeekTurns DEF r
<1>2. CASE NextName(p)
  <2>0. UNCHANGED <<terms, made>> /\ r.tag = NoTag
    BY <1>0, <1>2 DEF NextName, NamesTags, Asking, r
  <2>1. CASE Turn(p, [r EXCEPT !.phase = "resolved"]) /\ UNCHANGED cache
    <3>1. /\ [r EXCEPT !.phase = "resolved"] \in Resolutions
          /\ [r EXCEPT !.phase = "resolved"].phase = "resolved"
          /\ [r EXCEPT !.phase = "resolved"].tag = r.tag
      BY <1>0 DEF Resolutions
    <3> QED BY <1>0, <1>turn, <2>0, <2>1, <3>1 DEF ListsKept
  <2>2. CASE cache.filled /\ \E t \in r.todo : Seek(p, t, cache)
    BY <1>0, <1>seek, <2>0, <2>2 DEF ListsKept
  <2>3. CASE Turn(p, Asked(r)) /\ UNCHANGED cache
    BY <1>0, <1>turn, <2>0, <2>3, AskedTypes DEF ListsKept
  <2> QED BY <1>2, <2>1, <2>2, <2>3 DEF NextName, r
<1>3. CASE FetchAll(p)
  <2> DEFINE list == [filled |-> TRUE, entries |-> r.entries]
  <2>0. /\ r.phase = "fetching" /\ UNCHANGED <<terms, made>>
        /\ ~crossed => made \subseteq r.entries
    BY <1>0, <1>3 DEF FetchAll, ListsKept, Asking, r
  <2>1. list \in [filled : BOOLEAN, entries : SUBSET Tags]
    BY <1>0
  <2>2. CASE r.tag = NoTag /\ \E t \in r.todo : Seek(p, t, list)
    BY <1>seek, <2>0, <2>1, <2>2
  <2>3. CASE r.tag # NoTag /\ cache' = list /\ Turn(p, [r EXCEPT !.phase = "posting"])
    <3>1. /\ [r EXCEPT !.phase = "posting"] \in Resolutions
          /\ [r EXCEPT !.phase = "posting"].entries = r.entries
          /\ [r EXCEPT !.phase = "posting"].tag \in Tags
          /\ [r EXCEPT !.phase = "posting"].phase = "posting"
      BY <1>0, <2>3 DEF Resolutions
    <3> QED BY <1>turn, <2>0, <2>1, <2>3, <3>1
  <2> QED BY <1>3, <2>2, <2>3 DEF FetchAll, Answered, r
<1>4. CASE FetchFails(p) \/ CreateFails(p)
  <2> DEFINE failed == [NotResolving EXCEPT !.phase = "failed"]
  <2>1. failed \in Resolutions /\ failed.phase = "failed" /\ failed.tag = NoTag
    BY NotResolvingTypes
  <2>2. /\ resolving' = [resolving EXCEPT ![p] = failed]
        /\ UNCHANGED <<cache, made, crossed>>
        /\ terms \subseteq terms' /\ terms' \subseteq Tags
    BY <1>0, <1>4 DEF FetchFails, CreateFails, Failing, NamesTags, r
  <2>3. ~Crossing(failed, Publishes \ {p})
    BY <2>1 DEF Crossing
  <2>4. ListsKept' /\ NamesTags'
    BY <1>0, <2>1, <2>2, <2>3, TurnKeepsLists DEF ListsKept
  <2> QED BY <1>0, <2>1, <2>2, <2>4 DEF TermInv, TermsTypeOK
<1>5. CASE CreateTag(p)
  <2> DEFINE turned == [r EXCEPT !.phase = "next", !.tag = NoTag, !.entries = {}]
  <2>1. turned \in Resolutions /\ turned.phase = "next" /\ turned.tag = NoTag
    BY <1>0 DEF Resolutions
  <2>2. /\ resolving' = [resolving EXCEPT ![p] = turned]
        /\ UNCHANGED crossed /\ r.phase = "posting" /\ r.tag \in Tags
        /\ terms' = terms \cup {r.tag} /\ made' = made \cup {r.tag}
        /\ cache' = [filled |-> TRUE, entries |-> r.entries \cup {r.tag}]
    BY <1>0, <1>5 DEF CreateTag, Posting, WithCreated, Resolutions, NamesTags, r
  <2>3. ~crossed => made \subseteq r.entries /\ \A q \in Publishes \ {p} : ~Asking(q)
    BY <1>0, <2>2 DEF ListsKept, Asking, Posting, r
  <2>4. \A q \in Publishes : Asking(q)' => q # p /\ Asking(q)
    BY <1>0, <2>1, <2>2 DEF Asking
  <2>5. ListsKept' /\ NamesTags'
    BY <1>0, <2>1, <2>2, <2>3, <2>4 DEF ListsKept, NamesTags, Asking, Posting
  <2> QED BY <1>0, <2>1, <2>2, <2>5 DEF TermInv, TermsTypeOK
<1> QED BY <1>1, <1>2, <1>3, <1>4, <1>5 DEF ResolveStep

-----------------------------------------------------------------------------
LEMMA WriteTypes ==
    /\ NotPublishing \in Pubs /\ NotPublishing.phase = "idle"
    /\ \A want \in {"draft", "publish"} : [NoWrite EXCEPT !.want = want] \in Writes
  BY DEF NotPublishing, NoWrite, Pubs, Writes

(* What an update leaves of a post.                                        *)
LEMMA UpdatedKeeps ==
    ASSUME NEW post \in Posts, NEW w \in Writes
    PROVE  /\ Updated(post, w) \in Posts
           /\ Updated(post, w).own = post.own
           /\ post.state = "live" => Updated(post, w).state = "live"
<1>1. PICK v \in Nat : v = NextVersion(post)
  BY DEF NextVersion, Posts
<1>2. PICK s \in {"draft", "live", "torn"} : s = IF w.want = "publish" THEN StateOf(w) ELSE post.state
  BY DEF Posts, StateOf
<1>3. Updated(post, w) = [post EXCEPT !.version = v, !.state = s]
  BY <1>1, <1>2 DEF Updated
<1>4. /\ [post EXCEPT !.version = v, !.state = s] \in Posts
      /\ [post EXCEPT !.version = v, !.state = s].own = post.own
      /\ [post EXCEPT !.version = v, !.state = s].state = s
  BY DEF Posts
<1> QED BY <1>2, <1>3, <1>4 DEF StateOf

(* What a look-up leaves of a publish.                                     *)
LEMMA LookedTypes ==
    ASSUME NEW c \in Pubs, NEW i \in Nat, NEW v \in Nat
    PROVE  [c EXCEPT !.phase = "write", !.write.found = i, !.write.seen = v] \in Pubs
<1>1. c.write \in Writes /\ [c.write EXCEPT !.found = i, !.seen = v] \in Writes
  BY DEF Pubs, Writes
<1>2. [c EXCEPT !.phase = "write", !.write.found = i, !.write.seen = v]
        = [c EXCEPT !.phase = "write", !.write = [c.write EXCEPT !.found = i, !.seen = v]]
  BY DEF Pubs, Writes
<1>3. [c EXCEPT !.phase = "write", !.write = [c.write EXCEPT !.found = i, !.seen = v]] \in Pubs
  BY <1>1 DEF Pubs
<1> QED BY <1>2, <1>3

(* A write adds a post, with the slug if there is none, or updates one, or *)
(* replaces the file.                                                      *)
LEMMA ApplyWrites ==
    ASSUME TypeOK, NEW w \in Writes, Apply(w)
    PROVE  /\ posts' \in Seq(Posts)
           /\ IsMarkdown => Len(posts') = 1 /\ WritableFile(w)
           /\ ~IsMarkdown =>
                \/ /\ w.found = 0 /\ Len(posts') = Len(posts) + 1
                   /\ \A i \in DOMAIN posts : posts'[i] = posts[i]
                   /\ posts = <<>> => posts'[1].own
                \/ /\ w.found # 0 /\ DOMAIN posts' = DOMAIN posts /\ Len(posts') = Len(posts)
                   /\ \A i \in DOMAIN posts :
                        /\ posts'[i].own = posts[i].own
                        /\ posts[i].state = "live" => posts'[i].state = "live"
                        /\ posts'[i] # posts[i] => i = w.found /\ Current(w)
<1>0. posts \in Seq(Posts) /\ StateOf(w) \in {"draft", "live"}
  BY DEF TypeOK, StateOf
<1>1. CASE IsMarkdown
  <2>1. posts' = <<[own |-> TRUE, state |-> StateOf(w), version |-> 1]>> /\ WritableFile(w)
    BY <1>1 DEF Apply, WriteFile, File
  <2>2. [own |-> TRUE, state |-> StateOf(w), version |-> 1] \in Posts
    BY <1>0 DEF Posts
  <2> QED BY <1>1, <2>1, <2>2
<1>2. CASE ~IsMarkdown /\ w.found = 0
  <2>1. PICK own \in BOOLEAN : (own \/ Taken) /\ posts' = Created(w, own)
    BY <1>2 DEF Apply, WritePost
  <2> DEFINE post == [own |-> own, state |-> StateOf(w), version |-> 1]
  <2>2. post \in Posts /\ post.own = own /\ posts' = Append(posts, post)
    BY <1>0, <2>1 DEF Posts, Created
  <2> HIDE DEF post
  <2>3. /\ posts' \in Seq(Posts) /\ Len(posts') = Len(posts) + 1
        /\ \A i \in DOMAIN posts : posts'[i] = posts[i]
    BY <1>0, <2>2
  <2>4. ASSUME posts = <<>> PROVE posts'[1].own
    <3>1. ~Taken
      BY <2>4 DEF Taken
    <3>2. posts'[1] = post
      BY <2>2, <2>4
    <3> QED BY <2>1, <2>2, <3>1, <3>2
  <2> QED BY <1>2, <2>3, <2>4
<1>3. CASE ~IsMarkdown /\ w.found # 0
  <2>1. Current(w) /\ posts' = [posts EXCEPT ![w.found] = Updated(@, w)]
    BY <1>3 DEF Apply, WritePost
  <2>2. posts \in [1..Len(posts) -> Posts] /\ DOMAIN posts = 1..Len(posts) /\ Len(posts) \in Nat
    BY <1>0
  <2>3. \A i \in DOMAIN posts : posts'[i] = IF i = w.found THEN Updated(posts[i], w) ELSE posts[i]
    BY <2>1, <2>2
  <2>4. \A i \in DOMAIN posts : /\ posts'[i] \in Posts /\ posts'[i].own = posts[i].own
                                /\ posts[i].state = "live" => posts'[i].state = "live"
    BY <2>2, <2>3, UpdatedKeeps
  <2>5. DOMAIN posts' = DOMAIN posts /\ posts' = [i \in 1..Len(posts) |-> posts'[i]]
    BY <2>1, <2>2
  <2>6. posts' \in Seq(Posts) /\ Len(posts') = Len(posts)
    BY <2>2, <2>4, <2>5
  <2> QED BY <1>3, <2>1, <2>3, <2>4, <2>5, <2>6
<1> QED BY <1>1, <1>2, <1>3

(* A file that is torn is one file, written where it could be.             *)
LEMMA TearWrites ==
    ASSUME NEW w \in Writes, TearFile(w)
    PROVE  posts' \in Seq(Posts) /\ Len(posts') = 1 /\ WritableFile(w)
<1>1. PICK state \in {StateOf(w), "torn"} :
        posts' = <<[own |-> TRUE, state |-> state, version |-> 1]>>
  BY DEF TearFile, File
<1>2. [own |-> TRUE, state |-> state, version |-> 1] \in Posts
  BY DEF StateOf, Posts
<1> QED BY <1>1, <1>2 DEF TearFile

(* Types, apart from those of the tags.                                    *)
LEMMA NextHasTypes ==
    ASSUME TypeOK, TermsTypeOK', Next
    PROVE  TypeOK'
<1>0. /\ posts \in Seq(Posts) /\ pub \in [Publishes -> Pubs] /\ late \in SUBSET Writes
      /\ starts \in 0..MaxStarts /\ edits \in 0..MaxEdits /\ raced \in BOOLEAN
      /\ publisher \in Targets /\ {MaxStarts, TaggedCost, MaxEdits} \subseteq Nat
      /\ \A p \in Publishes : pub[p] \in Pubs /\ pub[p].write \in Writes
      /\ posts \in [1..Len(posts) -> Posts] /\ DOMAIN posts = 1..Len(posts) /\ Len(posts) \in Nat
  BY PublishingAssumption DEF TypeOK, Pubs, PublishingAssumption
<1>1. ASSUME NEW p \in Publishes, Done(p) PROVE pub' \in [Publishes -> Pubs]
  BY <1>0, <1>1, WriteTypes DEF Done
<1>2. ASSUME NEW p \in Publishes, Refuse(p) \/ Start(p) PROVE TypeOK'
  <2>0. PICK names \in SUBSET Tags : SpendStart(p, names)
    <3>1. {} \in SUBSET Tags
      OBVIOUS
    <3> QED BY <1>2, <3>1 DEF Refuse, Start
  <2>1. starts' \in 0..MaxStarts /\ UNCHANGED <<publisher, posts, late, edits, raced>>
    <3>1. \E cost \in Nat : starts + cost <= MaxStarts /\ starts' = starts + cost
      BY <1>0, <2>0 DEF SpendStart
    <3> QED BY <1>0, <1>2, <3>1 DEF Refuse, Start
  <2>2. pub' \in [Publishes -> Pubs]
    <3>1. CASE Refuse(p)
      BY <1>0, <3>1 DEF Refuse
    <3>2. CASE Start(p)
      <4>1. PICK want \in {"draft", "publish"}, revises \in BOOLEAN :
              pub' = [pub EXCEPT ![p] =
                        [phase |-> IF IsWordPress THEN "terms" ELSE "lookup",
                         revises |-> revises, write |-> [NoWrite EXCEPT !.want = want]]]
        BY <3>2 DEF Start
      <4>2. [phase |-> IF IsWordPress THEN "terms" ELSE "lookup",
             revises |-> revises, write |-> [NoWrite EXCEPT !.want = want]] \in Pubs
        BY WriteTypes DEF Pubs
      <4> QED BY <1>0, <4>1, <4>2
    <3> QED BY <1>2, <3>1, <3>2
  <2> QED BY <1>0, <2>1, <2>2 DEF TypeOK
<1>3. ASSUME NEW p \in Publishes, TermsDone(p) \/ LookUpFails(p) PROVE TypeOK'
  <2>1. [pub[p] EXCEPT !.phase = "lookup"] \in Pubs
    BY <1>0 DEF Pubs
  <2>2. pub' = [pub EXCEPT ![p].phase = "lookup"] \/ Done(p)
    BY <1>3 DEF TermsDone, LookUpFails
  <2>3. pub' \in [Publishes -> Pubs]
    BY <1>0, <1>1, <2>1, <2>2
  <2> QED BY <1>0, <1>3, <2>3 DEF TypeOK, TermsDone, LookUpFails
<1>4. ASSUME NEW p \in Publishes, LookUp(p) PROVE TypeOK'
  <2>1. ASSUME NEW i \in {0} \cup DOMAIN posts, Looked(p, i) PROVE pub' \in [Publishes -> Pubs]
    <3>1. i \in Nat /\ (IF i = 0 THEN 0 ELSE posts[i].version) \in Nat
      BY <1>0 DEF Posts
    <3>2. [pub[p] EXCEPT !.phase = "write", !.write.found = i,
                         !.write.seen = IF i = 0 THEN 0 ELSE posts[i].version] \in Pubs
      BY <1>0, <3>1, LookedTypes
    <3> QED BY <1>0, <2>1, <3>2 DEF Looked
  <2>2. Seen(p) \subseteq DOMAIN posts
    BY DEF Seen
  <2>3. pub' \in [Publishes -> Pubs] /\ raced' \in BOOLEAN
    BY <1>0, <1>1, <1>4, <2>1, <2>2 DEF LookUp
  <2> QED BY <1>0, <1>4, <2>3 DEF TypeOK, LookUp
<1>5. ASSUME NEW p \in Publishes, Write(p) \/ WriteFails(p) PROVE TypeOK'
  <2>1. pub' \in [Publishes -> Pubs]
    BY <1>1, <1>5 DEF Write, WriteFails
  <2>2. posts' \in Seq(Posts) /\ late' \in SUBSET Writes
    BY <1>0, <1>5, ApplyWrites, TearWrites DEF Write, WriteFails
  <2> QED BY <1>0, <1>5, <2>1, <2>2 DEF TypeOK, Write, WriteFails
<1>6. ASSUME NEW w \in late, Arrive(w) PROVE TypeOK'
  <2>1. posts' \in Seq(Posts) /\ late' \in SUBSET Writes
    BY <1>0, <1>6, ApplyWrites DEF Arrive
  <2> QED BY <1>0, <1>6, <2>1 DEF TypeOK, Arrive
<1>7. ASSUME NEW i \in DOMAIN posts, Edit(i) PROVE TypeOK'
  <2>1. PICK state \in {posts[i].state, "live"} :
          posts' = [posts EXCEPT ![i].state = state, ![i].version = NextVersion(posts[i])]
    BY <1>7 DEF Edit
  <2>2. [posts[i] EXCEPT !.state = state, !.version = NextVersion(posts[i])] \in Posts
    <3>1. PICK v \in Nat : v = NextVersion(posts[i])
      BY <1>0 DEF NextVersion, Posts
    <3>2. [posts[i] EXCEPT !.state = state, !.version = v] \in Posts
      BY <1>0 DEF Posts
    <3> QED BY <3>1, <3>2
  <2>3. posts' \in [1..Len(posts) -> Posts]
    BY <1>0, <2>1, <2>2
  <2>4. posts' \in Seq(Posts)
    BY <1>0, <2>3
  <2>5. edits' \in 0..MaxEdits
    BY <1>0, <1>7 DEF Edit
  <2>6. raced' \in BOOLEAN
    BY <1>0, <1>7 DEF Edit
  <2> QED BY <1>0, <1>7, <2>4, <2>5, <2>6 DEF TypeOK, Edit
<1>8. CASE UNCHANGED <<publisher, posts, pub, late, starts, edits, raced>>
  BY <1>0, <1>8 DEF TypeOK
<1> QED BY <1>2, <1>3, <1>4, <1>5, <1>6, <1>7, <1>8 DEF Next, Answer, Resolve

-----------------------------------------------------------------------------
(* A publish that is not about to write leaves the others and the posts    *)
(* as they are.                                                            *)
LEMMA OthersKeepPosts ==
    ASSUME TypeOK, PostInv, FileInv, NEW p \in Publishes,
           UNCHANGED <<publisher, posts, late, raced>>,
           \A q \in Publishes \ {p} : pub'[q] = pub[q],
           pub'[p].phase # "write"
    PROVE  PostInv' /\ FileInv'
<1>1. \A q \in Publishes : pub'[q].phase = "write" => pub[q].phase = "write" /\ pub'[q] = pub[q]
  OBVIOUS
<1>2. PostInv'
  BY <1>1 DEF PostInv, IsMarkdown, FirstIsOwn, OneCreation, Creating
<1>3. FileInv'
  BY <1>1 DEF FileInv, IsMarkdown
<1> QED BY <1>2, <1>3

LEMMA LookUpKeepsPosts ==
    ASSUME TypeOK, PostInv, FileInv, NEW p \in Publishes, LookUp(p)
    PROVE  PostInv' /\ FileInv'
<1>0. /\ posts \in Seq(Posts) /\ pub \in [Publishes -> Pubs] /\ UNCHANGED <<publisher, posts, late>>
      /\ posts # <<>> => 1 \in DOMAIN posts
      /\ \A i \in DOMAIN posts : i # 0
      /\ Len(posts) <= 1 => \A i, j \in DOMAIN posts : i = j
      /\ raced \in BOOLEAN
  BY DEF TypeOK, LookUp
<1>1. \A q \in Publishes : pub[q].phase = "write" => pub[q].write \in Pending
  BY DEF Pending
<1>2. \A w \in late : w \in Pending
  BY DEF Pending
<1>3. ASSUME NEW i \in {0} \cup DOMAIN posts, Looked(p, i)
      PROVE  /\ pub'[p].phase = "write" /\ pub'[p].write.found = i
             /\ \A q \in Publishes \ {p} : pub'[q] = pub[q]
  BY <1>0, <1>3 DEF Looked, Pubs, Writes
<1>4. CASE Seen(p) = {} /\ Looked(p, 0) /\ raced' = (raced \/ \E w \in Pending : Blind(w))
  <2>0. /\ ~raced' => ~raced /\ \A w \in Pending : ~IsMarkdown /\ w.found # 0
        /\ pub'[p].phase = "write" /\ pub'[p].write.found = 0
        /\ \A q \in Publishes \ {p} : pub'[q] = pub[q]
    BY <1>0, <1>3, <1>4 DEF Blind
  <2>1. CASE IsMarkdown
    BY <1>0, <1>1, <2>0, <2>1 DEF FileInv, PostInv, IsMarkdown
  <2>2. CASE ~IsMarkdown
    <3>1. posts = <<>>
      BY <1>0, <1>4, <2>2 DEF Seen, PostInv, FirstIsOwn
    <3>2. ~raced' => /\ \A q \in Publishes \ {p} : ~Creating(q)'
                     /\ \A w \in late : w.found # 0
      BY <1>1, <1>2, <2>0 DEF Creating
    <3>3. OneCreation'
      BY <1>0, <2>0, <2>2, <3>1, <3>2 DEF OneCreation, PostInv
    <3> QED BY <1>0, <2>2, <3>1, <3>3 DEF PostInv, FileInv, FirstIsOwn, IsMarkdown
  <2> QED BY <2>1, <2>2
<1>5. ASSUME NEW i \in Seen(p), Looked(p, i), raced' = (raced \/ (IsMarkdown /\ Pending # {}))
      PROVE  PostInv' /\ FileInv'
  <2>0. /\ i \in DOMAIN posts /\ i # 0
        /\ pub'[p].phase = "write" /\ pub'[p].write.found = i
        /\ \A q \in Publishes \ {p} : pub'[q] = pub[q]
    BY <1>0, <1>3, <1>5 DEF Seen
  <2>1. CASE IsMarkdown
    <3>1. posts[i].state = "draft"
      BY <1>5, <2>1 DEF Seen
    <3>2. ~raced' => ~raced /\ \A q \in Publishes : pub[q].phase # "write"
      BY <1>1, <1>5, <2>1
    <3>3. Len(posts) <= 1 /\ late = {}
      BY <2>1 DEF FileInv
    <3>4. \A j \in DOMAIN posts : posts[j].state = "draft"
      BY <1>0, <2>0, <3>1, <3>3
    <3> QED BY <1>0, <2>0, <2>1, <3>2, <3>3, <3>4 DEF PostInv, FileInv, IsMarkdown
  <2>2. CASE ~IsMarkdown
    <3>1. \A q \in Publishes : Creating(q)' => q # p /\ Creating(q)
      BY <2>0 DEF Creating
    <3>2. ~raced' => ~raced
      BY <1>5
    <3>3. OneCreation'
      BY <1>0, <2>2, <3>1, <3>2 DEF OneCreation, PostInv
    <3> QED BY <1>0, <2>2, <3>3 DEF PostInv, FileInv, FirstIsOwn, IsMarkdown
  <2> QED BY <2>1, <2>2
<1>6. CASE Done(p) /\ UNCHANGED raced
  <2>1. pub'[p].phase # "write" /\ \A q \in Publishes \ {p} : pub'[q] = pub[q]
    BY <1>0, <1>6, WriteTypes DEF Done
  <2> QED BY <1>0, <1>6, <2>1, OthersKeepPosts
<1> QED BY <1>4, <1>5, <1>6 DEF LookUp

(* The posts after a write that does not go to a file.                     *)
LEMMA WrittenPosts ==
    ASSUME TypeOK, PostInv, ~IsMarkdown, NEW w \in Writes, Apply(w)
    PROVE  /\ FirstIsOwn'
           /\ w.found # 0 => Len(posts') = Len(posts) /\ (posts = <<>> => posts' = <<>>)
           /\ w.found = 0 /\ posts = <<>> => Len(posts') = 1
<1>0. /\ posts \in Seq(Posts) /\ posts' \in Seq(Posts) /\ FirstIsOwn
      /\ posts # <<>> => 1 \in DOMAIN posts
      /\ DOMAIN posts = 1..Len(posts) /\ DOMAIN posts' = 1..Len(posts')
      /\ Len(posts) \in Nat /\ Len(posts') \in Nat
  BY ApplyWrites DEF TypeOK, PostInv
<1>1. CASE w.found = 0
  <2>1. /\ Len(posts') = Len(posts) + 1 /\ \A i \in DOMAIN posts : posts'[i] = posts[i]
        /\ posts = <<>> => posts'[1].own
    BY <1>1, ApplyWrites
  <2> QED BY <1>0, <1>1, <2>1 DEF FirstIsOwn
<1>2. CASE w.found # 0
  <2>1. /\ DOMAIN posts' = DOMAIN posts /\ Len(posts') = Len(posts)
        /\ \A i \in DOMAIN posts : posts'[i].own = posts[i].own
    BY <1>2, ApplyWrites
  <2>2. Len(posts') = Len(posts) /\ (posts = <<>> <=> posts' = <<>>)
    <3>1. \A s \in Seq(Posts) : s = <<>> <=> Len(s) = 0
      OBVIOUS
    <3> QED BY <1>0, <2>1, <3>1
  <2> QED BY <1>0, <1>2, <2>1, <2>2 DEF FirstIsOwn
<1> QED BY <1>1, <1>2

LEMMA WriteKeepsPosts ==
    ASSUME TypeOK, PostInv, FileInv, NEW p \in Publishes, Write(p) \/ WriteFails(p)
    PROVE  PostInv' /\ FileInv'
<1> DEFINE w == pub[p].write
<1>0. /\ posts \in Seq(Posts) /\ pub \in [Publishes -> Pubs] /\ UNCHANGED <<publisher, raced>>
      /\ pub[p].phase = "write" /\ w \in Writes /\ Len(<<>>) = 0
  BY DEF TypeOK, Write, WriteFails, Pubs
<1>1. pub'[p].phase # "write" /\ \A q \in Publishes \ {p} : pub'[q] = pub[q]
  BY <1>0, WriteTypes DEF Write, WriteFails, Done
<1>2. \A q \in Publishes : Creating(q)' => q # p /\ Creating(q)
  BY <1>1 DEF Creating
<1>3. w.found = 0 => Creating(p)
  BY <1>0 DEF Creating
<1>4. CASE UNCHANGED <<posts, late>>
  BY <1>0, <1>1, <1>4, OthersKeepPosts
<1>5. CASE Apply(w) /\ UNCHANGED late /\ ~IsMarkdown
  <2>1. FirstIsOwn'
    BY <1>0, <1>5, WrittenPosts
  <2>2. OneCreation'
    <3>1. CASE w.found # 0
      BY <1>0, <1>2, <1>5, <3>1, WrittenPosts DEF OneCreation, PostInv
    <3>2. CASE w.found = 0
      <4> SUFFICES ASSUME ~raced PROVE OneCreation'
        BY <1>0 DEF OneCreation
      <4>1. /\ posts = <<>> /\ \A q \in Publishes : ~Creating(q)'
            /\ \A v \in late : v.found # 0
        BY <1>2, <1>3, <1>5, <3>2 DEF OneCreation, PostInv
      <4>2. Len(posts') = 1
        BY <1>0, <1>5, <3>2, <4>1, WrittenPosts
      <4> QED BY <1>5, <4>1, <4>2 DEF OneCreation
    <3> QED BY <3>1, <3>2
  <2> QED BY <1>0, <1>5, <2>1, <2>2 DEF PostInv, FileInv, IsMarkdown
<1>6. CASE late' = late \cup {w} /\ UNCHANGED posts /\ ~IsMarkdown
  <2>1. OneCreation'
    <3>1. CASE w.found # 0
      BY <1>0, <1>2, <1>6, <3>1 DEF OneCreation, PostInv
    <3>2. CASE w.found = 0
      <4> SUFFICES ASSUME ~raced PROVE OneCreation'
        BY <1>0 DEF OneCreation
      <4>1. /\ posts = <<>> /\ \A q \in Publishes : ~Creating(q)'
            /\ \A v \in late : v.found # 0
        BY <1>2, <1>3, <1>6, <3>2 DEF OneCreation, PostInv
      <4> QED BY <1>0, <1>6, <4>1 DEF OneCreation
    <3> QED BY <3>1, <3>2
  <2> QED BY <1>0, <1>6, <2>1 DEF PostInv, FileInv, FirstIsOwn, IsMarkdown
<1>7. CASE (Apply(w) \/ TearFile(w)) /\ UNCHANGED late /\ IsMarkdown
  <2>1. Len(posts') = 1
    BY <1>0, <1>7, ApplyWrites, TearWrites
  <2>2. ~raced => \A q \in Publishes : pub'[q].phase # "write"
    BY <1>0, <1>1, <1>7 DEF FileInv
  <2> QED BY <1>0, <1>7, <2>1, <2>2 DEF PostInv, FileInv, IsMarkdown
<1> QED BY <1>4, <1>5, <1>6, <1>7 DEF Write, WriteFails

LEMMA ArrivalKeepsPosts ==
    ASSUME TypeOK, PostInv, FileInv, NEW w \in late, Arrive(w)
    PROVE  PostInv' /\ FileInv'
<1>0. /\ posts \in Seq(Posts) /\ UNCHANGED <<publisher, raced, pub>> /\ w \in Writes
      /\ late' = late \ {w} /\ Len(<<>>) = 0 /\ ~IsMarkdown /\ (Apply(w) \/ UNCHANGED posts)
  BY DEF TypeOK, Arrive, FileInv
<1>1. \A q \in Publishes : Creating(q)' <=> Creating(q)
  BY <1>0 DEF Creating
<1>2. CASE UNCHANGED posts
  BY <1>0, <1>1, <1>2 DEF PostInv, FileInv, OneCreation, FirstIsOwn, IsMarkdown
<1>3. CASE Apply(w)
  <2>1. FirstIsOwn'
    BY <1>0, <1>3, WrittenPosts
  <2>2. OneCreation'
    <3>1. CASE w.found # 0
      BY <1>0, <1>1, <1>3, <3>1, WrittenPosts DEF OneCreation, PostInv
    <3>2. CASE w.found = 0
      <4> SUFFICES ASSUME ~raced PROVE OneCreation'
        BY <1>0 DEF OneCreation
      <4>1. /\ posts = <<>> /\ \A q \in Publishes : ~Creating(q)'
            /\ \A v \in late' : v.found # 0
        BY <1>0, <1>1, <3>2 DEF OneCreation, PostInv
      <4>2. Len(posts') = 1
        BY <1>0, <1>3, <3>2, <4>1, WrittenPosts
      <4> QED BY <4>1, <4>2 DEF OneCreation
    <3> QED BY <3>1, <3>2
  <2> QED BY <1>0, <2>1, <2>2 DEF PostInv, FileInv, IsMarkdown
<1> QED BY <1>0, <1>2, <1>3

LEMMA EditKeepsPosts ==
    ASSUME TypeOK, PostInv, FileInv, NEW i \in DOMAIN posts, Edit(i)
    PROVE  PostInv' /\ FileInv'
<1>0. /\ posts \in [1..Len(posts) -> Posts] /\ DOMAIN posts = 1..Len(posts) /\ Len(posts) \in Nat
      /\ posts # <<>> /\ UNCHANGED <<publisher, pub, late>>
  BY DEF TypeOK, Edit
<1>1. PICK state \in {posts[i].state, "live"} :
        posts' = [posts EXCEPT ![i].state = state, ![i].version = NextVersion(posts[i])]
  BY DEF Edit
<1>2. /\ DOMAIN posts' = DOMAIN posts
      /\ \A j \in DOMAIN posts : posts'[j].own = posts[j].own
  BY <1>0, <1>1 DEF Posts
<1>3. Len(posts') = Len(posts) /\ posts' # <<>>
  BY <1>0, <1>1, <1>2
<1>4. CASE IsMarkdown
  <2>1. ~raced' => \A q \in Publishes : pub[q].phase # "write"
    <3>1. \A q \in Publishes : pub[q].phase = "write" => pub[q].write \in Pending
      BY DEF Pending
    <3>2. ~raced' => Pending = {}
      BY <1>4 DEF Edit
    <3> QED BY <3>1, <3>2
  <2> QED BY <1>0, <1>3, <1>4, <2>1 DEF PostInv, FileInv, IsMarkdown
<1>5. CASE ~IsMarkdown
  <2>1. ~raced' => ~raced
    BY DEF Edit
  <2>2. FirstIsOwn'
    BY <1>0, <1>2, <1>5 DEF FirstIsOwn, PostInv
  <2>3. OneCreation'
    BY <1>0, <1>3, <1>5, <2>1 DEF OneCreation, Creating, PostInv
  <2> QED BY <1>0, <1>5, <2>2, <2>3 DEF PostInv, FileInv, IsMarkdown
<1> QED BY <1>4, <1>5

-----------------------------------------------------------------------------
LEMMA InitIsInOrder == Init => IInv
<1> SUFFICES ASSUME Init PROVE IInv
  OBVIOUS
<1>1. TermInv
  BY NotResolvingTypes DEF Init, TermsInit, TermInv, TermsTypeOK, ListsKept, NamesTags, Asking, Posting
<1>2. TypeOK
  <2>1. 0 \in 0..MaxStarts /\ 0 \in 0..MaxEdits
    BY PublishingAssumption DEF PublishingAssumption
  <2>2. pub \in [Publishes -> Pubs] /\ posts \in Seq(Posts) /\ late \in SUBSET Writes
    BY WriteTypes DEF Init
  <2> QED BY <1>1, <2>1, <2>2 DEF Init, TypeOK, TermInv
<1>3. \A p \in Publishes : pub[p].phase = "idle"
  BY WriteTypes DEF Init
<1>4. PostInv /\ FileInv
  BY <1>3 DEF Init, PostInv, FileInv, FirstIsOwn, OneCreation, Creating
<1> QED BY <1>1, <1>2, <1>4 DEF IInv

LEMMA TermsKept == ASSUME TermInv, Next PROVE TermInv'
<1>0. /\ TermsTypeOK /\ ListsKept /\ NamesTags /\ made \subseteq terms
      /\ resolving \in [Publishes -> Resolutions]
  BY DEF TermInv, TermsTypeOK
<1>1. ASSUME UNCHANGED termVars PROVE TermInv'
  BY <1>1 DEF termVars, TermInv, TermsTypeOK, ListsKept, NamesTags, Asking, Posting
<1>2. ASSUME NEW p \in Publishes, NEW r \in Resolutions, r.phase \in {"idle", "category"}, r.tag = NoTag,
             resolving' = [resolving EXCEPT ![p] = r],
             UNCHANGED <<terms, cache, made, crossed>>
      PROVE  TermInv'
  <2>1. ~Crossing(r, Publishes \ {p})
    BY <1>2 DEF Crossing
  <2>2. ListsKept' /\ NamesTags'
    BY <1>0, <1>2, <2>1, TurnKeepsLists DEF ListsKept
  <2> QED BY <1>0, <1>2, <2>2 DEF TermInv, TermsTypeOK
<1>3. ASSUME NEW p \in Publishes, Start(p) PROVE TermInv'
  <2>1. CASE UNCHANGED resolving
    BY <1>1, <1>3, <2>1 DEF Start, termVars
  <2>2. CASE \E names \in SUBSET Tags : StartResolving(p, names)
    <3>1. PICK names \in SUBSET Tags : StartResolving(p, names)
      BY <2>2
    <3> DEFINE r == [NotResolving EXCEPT !.phase = "category", !.todo = names]
    <3>2. r \in Resolutions /\ r.phase = "category" /\ r.tag = NoTag /\ resolving' = [resolving EXCEPT ![p] = r]
      BY <3>1, NotResolvingTypes DEF StartResolving
    <3>3. UNCHANGED <<terms, cache, made, crossed>>
      BY <1>3 DEF Start
    <3> HIDE DEF r
    <3> QED BY <1>2, <3>2, <3>3
  <2> QED BY <1>3, <2>1, <2>2 DEF Start
<1>4. ASSUME NEW p \in Publishes, TermsDone(p) PROVE TermInv'
  BY <1>2, <1>4, NotResolvingTypes DEF TermsDone
<1>5. ASSUME NEW p \in Publishes, Resolve(p) PROVE TermInv'
  BY <1>5, ResolveKeepsTerms DEF Resolve
<1>6. ASSUME Expire PROVE TermInv'
  <2>1. /\ cache' \in [filled : BOOLEAN, entries : SUBSET Tags] /\ ~cache'.filled
        /\ UNCHANGED <<terms, resolving, made, crossed>>
    BY <1>0, <1>6 DEF Expire, TermsTypeOK
  <2> QED BY <1>0, <2>1 DEF TermInv, TermsTypeOK, ListsKept, NamesTags, Asking, Posting
<1>7. ASSUME NEW p \in Publishes,
             Refuse(p) \/ LookUp(p) \/ LookUpFails(p) \/ Write(p) \/ WriteFails(p)
      PROVE  TermInv'
  BY <1>1, <1>7 DEF Refuse, LookUp, LookUpFails, Write, WriteFails
<1>8. ASSUME (\E w \in late : Arrive(w)) \/ (\E i \in DOMAIN posts : Edit(i)) PROVE TermInv'
  BY <1>1, <1>8 DEF Arrive, Edit
<1> QED BY <1>3, <1>4, <1>5, <1>6, <1>7, <1>8 DEF Next, Answer

LEMMA PostsKept == ASSUME TypeOK, PostInv, FileInv, Next PROVE PostInv' /\ FileInv'
<1>0. pub \in [Publishes -> Pubs]
  BY DEF TypeOK
<1>1. ASSUME UNCHANGED <<publisher, posts, pub, late, raced>> PROVE PostInv' /\ FileInv'
  BY <1>1 DEF PostInv, FileInv, FirstIsOwn, OneCreation, Creating, IsMarkdown
<1>2. ASSUME NEW p \in Publishes, Refuse(p) \/ Resolve(p) PROVE PostInv' /\ FileInv'
  BY <1>1, <1>2 DEF Refuse, Resolve
<1>3. ASSUME NEW p \in Publishes, Start(p) \/ TermsDone(p) \/ LookUpFails(p)
      PROVE  PostInv' /\ FileInv'
  <2>1. pub'[p].phase # "write" /\ \A q \in Publishes \ {p} : pub'[q] = pub[q]
    BY <1>0, <1>3, WriteTypes DEF Start, TermsDone, LookUpFails, Done, Pubs
  <2>2. UNCHANGED <<publisher, posts, late, raced>>
    BY <1>3 DEF Start, TermsDone, LookUpFails
  <2> QED BY <2>1, <2>2, OthersKeepPosts
<1>4. ASSUME Expire /\ UNCHANGED <<publisher, posts, pub, late, starts, edits, raced>>
      PROVE  PostInv' /\ FileInv'
  BY <1>1, <1>4
<1> QED BY <1>2, <1>3, <1>4, LookUpKeepsPosts, WriteKeepsPosts, ArrivalKeepsPosts, EditKeepsPosts
        DEF Next, Answer

LEMMA NextStaysInOrder == IInv /\ [Next]_vars => IInv'
<1> SUFFICES ASSUME IInv, [Next]_vars PROVE IInv'
  OBVIOUS
<1>1. CASE UNCHANGED vars
  BY <1>1 DEF vars, termVars, IInv, TypeOK, TermInv, TermsTypeOK, ListsKept, NamesTags, Asking,
              Posting, PostInv, FileInv, FirstIsOwn, OneCreation, Creating, IsMarkdown
<1>2. CASE Next
  <2>1. TermInv'
    BY <1>2, TermsKept DEF IInv
  <2>2. TypeOK'
    BY <1>2, <2>1, NextHasTypes DEF IInv, TermInv
  <2>3. PostInv' /\ FileInv'
    BY <1>2, PostsKept DEF IInv
  <2> QED BY <2>1, <2>2, <2>3 DEF IInv
<1> QED BY <1>1, <1>2

LEMMA PublishesAreInOrder == Spec => []IInv
<1> QED BY InitIsInOrder, NextStaysInOrder, PTL DEF Spec

(* Every variable keeps its type, for any number of publishes and tags     *)
(* (publish of the three publishers, resolve of the taxonomy provider).    *)
THEOREM TypeCorrect == Spec => []TypeOK
<1>1. IInv => TypeOK
  BY DEF IInv
<1> QED BY <1>1, PublishesAreInOrder, PTL

(* The tags the process has created are in the list it keeps, unless       *)
(* creations have crossed (createOne).                                     *)
THEOREM TagsAreListed == Spec => []CreatedIsListed
<1>1. IInv => CreatedIsListed
  BY DEF IInv, TermInv, ListsKept, CreatedIsListed
<1> QED BY <1>1, PublishesAreInOrder, PTL

(* However often it is published, and whatever answers are lost or late,   *)
(* there is one post of an article unless publishes have raced.            *)
THEOREM PostedOnce == Spec => []OnePost
<1>1. IInv => OnePost
  BY DEF IInv, PostInv, FileInv, OneCreation, OnePost
<1> QED BY <1>1, PublishesAreInOrder, PTL

(* No publish takes a live post away, the late ones included (the status   *)
(* an update leaves out, isDraftFile).                                     *)
THEOREM LivePostsStay == Spec => LiveStays
<1> DEFINE Stays == publisher # "markdown_overwrite" /\ (IsMarkdown => ~raced) =>
                      \A i \in DOMAIN posts :
                        posts[i].state = "live" => i \in DOMAIN posts' /\ posts'[i].state = "live"
<1>1. IInv /\ [Next]_vars => [Stays]_vars
  <2> SUFFICES ASSUME IInv, Next, publisher # "markdown_overwrite", IsMarkdown => ~raced,
                      NEW i \in DOMAIN posts, posts[i].state = "live"
               PROVE  i \in DOMAIN posts' /\ posts'[i].state = "live"
    OBVIOUS
  <2>0. /\ TypeOK /\ posts \in [1..Len(posts) -> Posts] /\ DOMAIN posts = 1..Len(posts)
        /\ Len(posts) \in Nat /\ posts \in Seq(Posts)
    BY DEF IInv, TypeOK
  <2>1. CASE UNCHANGED posts
    BY <2>1
  <2>2. ASSUME NEW w \in Writes, Apply(w), ~IsMarkdown
        PROVE  i \in DOMAIN posts' /\ posts'[i].state = "live"
    <3>1. CASE w.found = 0
      <4>1. /\ Len(posts') = Len(posts) + 1 /\ posts'[i] = posts[i] /\ posts' \in Seq(Posts)
        BY <2>0, <2>2, <3>1, ApplyWrites
      <4> QED BY <2>0, <4>1
    <3>2. CASE w.found # 0
      BY <2>0, <2>2, <3>2, ApplyWrites
    <3> QED BY <3>1, <3>2
  <2>3. ASSUME NEW p \in Publishes, pub[p].phase = "write", IsMarkdown,
               Apply(pub[p].write) \/ TearFile(pub[p].write)
        PROVE  FALSE
    <3>1. WritableFile(pub[p].write)
      BY <2>3 DEF Apply, WriteFile, TearFile
    <3>2. pub[p].write.found # 0
      BY <2>0, <2>3, <3>1 DEF WritableFile, IsMarkdown
    <3>3. posts[i].state = "draft"
      BY <2>3, <3>2 DEF IInv, FileInv
    <3> QED BY <3>3
  <2>4. ASSUME NEW p \in Publishes, Write(p) \/ WriteFails(p)
        PROVE  i \in DOMAIN posts' /\ posts'[i].state = "live"
    <3>1. pub[p].write \in Writes /\ pub[p].phase = "write"
      BY <2>0, <2>4 DEF Write, WriteFails, TypeOK, Pubs
    <3> QED BY <2>1, <2>2, <2>3, <2>4, <3>1 DEF Write, WriteFails
  <2>5. ASSUME NEW w \in late, Arrive(w)
        PROVE  i \in DOMAIN posts' /\ posts'[i].state = "live"
    <3>1. w \in Writes /\ ~IsMarkdown
      BY <2>0, <2>5 DEF TypeOK, IInv, FileInv
    <3> QED BY <2>1, <2>2, <2>5, <3>1 DEF Arrive
  <2>6. ASSUME NEW j \in DOMAIN posts, Edit(j)
        PROVE  i \in DOMAIN posts' /\ posts'[i].state = "live"
    <3>1. PICK state \in {posts[j].state, "live"} :
            posts' = [posts EXCEPT ![j].state = state, ![j].version = NextVersion(posts[j])]
      BY <2>6 DEF Edit
    <3>2. DOMAIN posts' = DOMAIN posts /\ posts'[i].state = IF i = j THEN state ELSE posts[i].state
      BY <2>0, <3>1 DEF Posts
    <3> QED BY <3>1, <3>2
  <2>7. ASSUME NEW p \in Publishes,
               Refuse(p) \/ Start(p) \/ Resolve(p) \/ TermsDone(p) \/ LookUp(p) \/ LookUpFails(p)
        PROVE  UNCHANGED posts
    BY <2>7 DEF Refuse, Start, Resolve, TermsDone, LookUp, LookUpFails
  <2> QED BY <2>1, <2>4, <2>5, <2>6, <2>7 DEF Next, Answer
<1> QED BY <1>1, PublishesAreInOrder, PTL DEF Spec, LiveStays

(* On Ghost an edit is never undone by who has not seen it (updated_at).   *)
THEOREM EditsSurvive == Spec => ReplacesWhatItSaw
<1> DEFINE Saw == publisher = "ghost" /\ edits' = edits =>
                    \A i \in DOMAIN posts :
                      posts'[i] # posts[i] =>
                         \E w \in Pending : w.found = i /\ w.seen = posts[i].version
<1>1. IInv /\ [Next]_vars => [Saw]_vars
  <2> SUFFICES ASSUME IInv, Next, publisher = "ghost", edits' = edits,
                      NEW i \in DOMAIN posts, posts'[i] # posts[i]
               PROVE  \E w \in Pending : w.found = i /\ w.seen = posts[i].version
    OBVIOUS
  <2>0. TypeOK /\ ~IsMarkdown
    BY DEF IInv, IsMarkdown
  <2>1. ASSUME NEW w \in Writes, Apply(w) PROVE w.found = i /\ w.seen = posts[i].version
    BY <2>0, <2>1, ApplyWrites DEF Current
  <2>2. ASSUME NEW p \in Publishes, Write(p) \/ WriteFails(p)
        PROVE  pub[p].write \in Pending \cap Writes /\ Apply(pub[p].write)
    BY <2>0, <2>2 DEF Write, WriteFails, Pending, TypeOK, Pubs
  <2>3. ASSUME NEW w \in late, Arrive(w) PROVE w \in Pending \cap Writes /\ Apply(w)
    BY <2>0, <2>3 DEF Arrive, Pending, TypeOK
  <2>4. ASSUME NEW j \in DOMAIN posts, Edit(j) PROVE FALSE
    BY <2>0, <2>4 DEF Edit, TypeOK
  <2>5. ASSUME NEW p \in Publishes,
               Refuse(p) \/ Start(p) \/ Resolve(p) \/ TermsDone(p) \/ LookUp(p) \/ LookUpFails(p)
        PROVE  FALSE
    BY <2>5 DEF Refuse, Start, Resolve, TermsDone, LookUp, LookUpFails
  <2> QED BY <2>1, <2>2, <2>3, <2>4, <2>5 DEF Next, Answer
<1> QED BY <1>1, PublishesAreInOrder, PTL DEF Spec, ReplacesWhatItSaw
-----------------------------------------------------------------------------
(* How many requests a publish may still make: a name takes the list, the  *)
(* list once more, the creation, and the step to the next one; then the    *)
(* post is looked up and written.                                          *)
ResolvingLeft(r) ==
    CASE r.phase = "category" -> 4 * Cardinality(r.todo) + 4
      [] r.phase = "next"     -> 4 * Cardinality(r.todo) + 3
      [] r.phase = "fetching" /\ r.tag = NoTag -> 4 * Cardinality(r.todo) + 2
      [] r.phase = "fetching" /\ r.tag # NoTag -> 4 * Cardinality(r.todo) + 5
      [] r.phase = "posting"  -> 4 * Cardinality(r.todo) + 4
      [] r.phase \in {"resolved", "failed"} -> 1
      [] OTHER                -> 0

PublishLeft(p) ==
    CASE pub[p].phase = "terms"  -> ResolvingLeft(resolving[p]) + 2
      [] pub[p].phase = "lookup" -> 2
      [] pub[p].phase = "write"  -> 1
      [] pub[p].phase = "idle"   -> 0

(* Names are resolved for a publish that waits for them.                   *)
TermsAwaited ==
    \A p \in Publishes : pub[p].phase # "terms" => resolving[p].phase = "idle"

LEMMA ResolvingLeftType ==
    ASSUME IsFiniteSet(Tags), NEW r \in Resolutions
    PROVE  /\ ResolvingLeft(r) \in Nat
           /\ IsFiniteSet(r.todo) /\ Cardinality(r.todo) \in Nat
<1>1. IsFiniteSet(r.todo) /\ Cardinality(r.todo) \in Nat
  BY FS_Subset, FS_CardinalityType DEF Resolutions
<1> QED BY <1>1 DEF ResolvingLeft

LEMMA MatchedIsNearer ==
    ASSUME IsFiniteSet(Tags), NEW r \in Resolutions, NEW t \in r.todo,
           NEW entries \in SUBSET Tags, r.phase \in {"next", "fetching"}, r.tag = NoTag
    PROVE  /\ ResolvingLeft(Matched(r, t, entries)) < ResolvingLeft(r)
           /\ Matched(r, t, entries).phase = "posting" =>
                ResolvingLeft(Asked(Matched(r, t, entries))) < ResolvingLeft(r)
<1> DEFINE m == Matched(r, t, entries)
<1>0. t # NoTag
  BY TermsAssumption DEF TermsAssumption, Resolutions
<1>1. /\ m \in Resolutions /\ m.todo = r.todo \ {t} /\ m.phase \in {"next", "posting"}
      /\ m.phase = "posting" => m.tag # NoTag
  BY <1>0, MatchedTypes DEF Matched, Resolutions
<1>2. Cardinality(r.todo) \in Nat /\ Cardinality(r.todo \ {t}) = Cardinality(r.todo) - 1
      /\ Cardinality(r.todo \ {t}) \in Nat
  BY ResolvingLeftType, FS_RemoveElement, FS_CardinalityType
<1> HIDE DEF m
<1>3. ResolvingLeft(m) \in {4 * Cardinality(r.todo) - 1, 4 * Cardinality(r.todo)}
  BY <1>1, <1>2 DEF ResolvingLeft
<1>4. ResolvingLeft(r) \in {4 * Cardinality(r.todo) + 3, 4 * Cardinality(r.todo) + 2}
  BY DEF ResolvingLeft
<1>5. ASSUME m.phase = "posting" PROVE ResolvingLeft(Asked(m)) = 4 * Cardinality(r.todo) + 1
  <2>1. Asked(m).phase = "fetching" /\ Asked(m).todo = m.todo /\ Asked(m).tag # NoTag
    BY <1>1, <1>5 DEF Asked, Resolutions
  <2> QED BY <1>1, <1>2, <2>1 DEF ResolvingLeft
<1> QED BY <1>2, <1>3, <1>4, <1>5 DEF m

LEMMA ResolveGoesOn ==
    ASSUME IsFiniteSet(Tags), TermsTypeOK, NamesTags, NEW p \in Publishes, ResolveStep(p)
    PROVE  /\ ResolvingLeft(resolving'[p]) < ResolvingLeft(resolving[p])
           /\ resolving[p].phase # "idle"
           /\ \A q \in Publishes \ {p} : resolving'[q] = resolving[q]
<1> DEFINE r == resolving[p]
           Turns(t) == resolving' = [resolving EXCEPT ![p] = t]
           Goal == /\ ResolvingLeft(resolving'[p]) < ResolvingLeft(resolving[p])
                   /\ resolving[p].phase # "idle"
                   /\ \A q \in Publishes \ {p} : resolving'[q] = resolving[q]
<1> SUFFICES Goal
  OBVIOUS
<1>0. /\ r \in Resolutions /\ resolving \in [Publishes -> Resolutions]
      /\ cache.entries \in SUBSET Tags /\ r.entries \in SUBSET Tags
      /\ Cardinality(r.todo) \in Nat /\ ResolvingLeft(r) \in Nat
  <2>1. /\ r \in Resolutions /\ resolving \in [Publishes -> Resolutions]
        /\ cache.entries \in SUBSET Tags
    BY DEF TermsTypeOK
  <2> HIDE DEF r
  <2> QED BY <2>1, ResolvingLeftType DEF Resolutions
<1>1. ASSUME NEW t, Turns(t), ResolvingLeft(t) < ResolvingLeft(r), r.phase # "idle"
      PROVE  Goal
  BY <1>0, <1>1
<1>2. ASSUME NEW t, Turns(t), t.phase \in {"resolved", "failed"},
             r.phase \notin {"idle", "resolved", "failed"}
      PROVE  Goal
  <2>1. ResolvingLeft(t) = 1
    BY <1>2 DEF ResolvingLeft
  <2>2. r.phase \in {"category", "next", "fetching", "posting"}
    BY <1>0, <1>2 DEF Resolutions
  <2>3. ResolvingLeft(r) > 1
    BY <1>0, <2>2 DEF ResolvingLeft
  <2> QED BY <1>1, <1>2, <2>1, <2>2, <2>3
<1>seek. ASSUME NEW t \in r.todo, NEW list, list.entries \in SUBSET Tags, Seek(p, t, list),
                r.phase \in {"next", "fetching"}, r.tag = NoTag
         PROVE  Goal
  BY <1>0, <1>1, <1>seek, MatchedIsNearer DEF Seek, Turn
<1>3. CASE ResolveCategory(p)
  <2>1. PICK next \in {"next", "failed"} : Turns([r EXCEPT !.phase = next])
    BY <1>3 DEF ResolveCategory
  <2> DEFINE t == [r EXCEPT !.phase = next]
  <2>2. /\ r.phase = "category" /\ Turns(t)
        /\ t.phase = "failed" \/ (t.phase = "next" /\ t.todo = r.todo)
    BY <1>0, <1>3, <2>1 DEF ResolveCategory, Resolutions
  <2> HIDE DEF t
  <2>3. CASE t.phase = "failed"
    BY <1>2, <2>2, <2>3
  <2>4. CASE t.phase = "next" /\ t.todo = r.todo
    <3>1. ResolvingLeft(t) < ResolvingLeft(r)
      BY <1>0, <2>2, <2>4 DEF ResolvingLeft
    <3> QED BY <1>1, <2>2, <3>1
  <2> QED BY <2>2, <2>3, <2>4
<1>4. CASE NextName(p)
  <2>1. CASE Turn(p, [r EXCEPT !.phase = "resolved"])
    <3>1. [r EXCEPT !.phase = "resolved"].phase = "resolved"
      BY <1>0 DEF Resolutions
    <3> QED BY <1>2, <1>4, <2>1, <3>1 DEF NextName, Turn
  <2>0. r.phase = "next" /\ r.tag = NoTag
    BY <1>0, <1>4 DEF NextName, NamesTags, Asking
  <2>2. CASE \E t \in r.todo : Seek(p, t, cache)
    BY <1>0, <1>seek, <2>0, <2>2
  <2>3. CASE Turn(p, Asked(r))
    <3> DEFINE t == Asked(r)
    <3>1. t.phase = "fetching" /\ t.todo = r.todo /\ t.tag = NoTag /\ Turns(t)
      BY <1>0, <2>0, <2>3 DEF Turn, Resolutions, Asked
    <3> HIDE DEF t
    <3>2. ResolvingLeft(t) < ResolvingLeft(r)
      BY <1>0, <2>0, <3>1 DEF ResolvingLeft
    <3> QED BY <1>1, <2>0, <3>1, <3>2
  <2> QED BY <1>4, <2>1, <2>2, <2>3 DEF NextName
<1>5. CASE FetchAll(p)
  <2>1. CASE r.tag = NoTag /\ \E t \in r.todo : Seek(p, t, Answered(p))
    <3>1. r.phase = "fetching" /\ Answered(p).entries = r.entries
      BY <1>5 DEF FetchAll, Answered
    <3> QED BY <1>0, <1>seek, <2>1, <3>1
  <2>2. CASE r.tag # NoTag /\ Turn(p, [r EXCEPT !.phase = "posting"])
    <3> DEFINE t == [r EXCEPT !.phase = "posting"]
    <3>1. r.phase = "fetching" /\ t.phase = "posting" /\ t.todo = r.todo /\ Turns(t)
      BY <1>0, <1>5, <2>2 DEF FetchAll, Turn, Resolutions
    <3> HIDE DEF t
    <3>2. ResolvingLeft(t) < ResolvingLeft(r)
      BY <1>0, <2>2, <3>1 DEF ResolvingLeft
    <3> QED BY <1>1, <3>1, <3>2
  <2> QED BY <1>5, <2>1, <2>2 DEF FetchAll
<1>6. CASE FetchFails(p) \/ CreateFails(p)
  <2>1. Turns([NotResolving EXCEPT !.phase = "failed"]) /\ r.phase \in {"fetching", "posting"}
    BY <1>6 DEF FetchFails, CreateFails, Failing, Posting
  <2>2. [NotResolving EXCEPT !.phase = "failed"].phase = "failed"
    BY NotResolvingTypes
  <2> QED BY <1>2, <2>1, <2>2
<1>7. CASE CreateTag(p)
  <2> DEFINE t == [r EXCEPT !.phase = "next", !.tag = NoTag, !.entries = {}]
  <2>1. Turns(t) /\ r.phase = "posting" /\ t.phase = "next" /\ t.todo = r.todo
    BY <1>0, <1>7 DEF CreateTag, Posting, Resolutions
  <2> HIDE DEF t
  <2>2. ResolvingLeft(t) < ResolvingLeft(r)
    BY <1>0, <2>1 DEF ResolvingLeft
  <2> QED BY <1>1, <2>1, <2>2
<1> QED BY <1>3, <1>4, <1>5, <1>6, <1>7 DEF ResolveStep

(* A step of one publish, and what it leaves of the others.                *)
LEMMA AnswerGoesOn ==
    ASSUME IsFiniteSet(Tags), IInv, TermsAwaited, NEW p \in Publishes, Answer(p)
    PROVE  /\ PublishLeft(p)' < PublishLeft(p)
           /\ \A q \in Publishes \ {p} : pub'[q] = pub[q] /\ resolving'[q] = resolving[q]
           /\ pub'[p].phase # "terms" => resolving'[p].phase = "idle"
<1>0. /\ pub \in [Publishes -> Pubs] /\ TermsTypeOK
      /\ resolving \in [Publishes -> Resolutions]
      /\ ResolvingLeft(resolving[p]) \in Nat
  <2>1. TermsTypeOK /\ pub \in [Publishes -> Pubs] /\ resolving \in [Publishes -> Resolutions]
    BY DEF IInv, TypeOK, TermsTypeOK
  <2> QED BY <2>1, ResolvingLeftType
<1>1. CASE Resolve(p)
  <2>1. /\ ResolvingLeft(resolving'[p]) < ResolvingLeft(resolving[p])
        /\ resolving[p].phase # "idle" /\ pub' = pub
        /\ \A q \in Publishes \ {p} : resolving'[q] = resolving[q]
    BY <1>0, <1>1, ResolveGoesOn DEF Resolve, IInv, TermInv
  <2>2. pub[p].phase = "terms"
    BY <2>1 DEF TermsAwaited
  <2>3. ResolvingLeft(resolving'[p]) \in Nat
    <3>1. TermsTypeOK'
      BY <1>1, TermsKept DEF IInv, TermInv, Next, Answer
    <3> QED BY <3>1, ResolvingLeftType DEF TermsTypeOK
  <2>4. PublishLeft(p) = ResolvingLeft(resolving[p]) + 2
        /\ PublishLeft(p)' = ResolvingLeft(resolving'[p]) + 2
    BY <2>1, <2>2 DEF PublishLeft
  <2> QED BY <1>0, <2>1, <2>2, <2>3, <2>4
<1>2. CASE TermsDone(p)
  <2>1. /\ pub[p].phase = "terms" /\ pub'[p].phase \in {"lookup", "idle"}
        /\ resolving'[p] = NotResolving
        /\ \A q \in Publishes \ {p} : pub'[q] = pub[q] /\ resolving'[q] = resolving[q]
        /\ resolving[p].phase \in {"resolved", "failed"}
    BY <1>0, <1>2 DEF TermsDone, Done, NotPublishing, Pubs
  <2>2. ResolvingLeft(resolving[p]) = 1
    BY <2>1 DEF ResolvingLeft
  <2>3. PublishLeft(p) = 3 /\ PublishLeft(p)' \in {0, 2}
    BY <2>1, <2>2 DEF PublishLeft
  <2>4. PublishLeft(p)' < PublishLeft(p)
    BY <2>3
  <2> QED BY <2>1, <2>4, NotResolvingTypes
<1>3. CASE LookUp(p) \/ LookUpFails(p) \/ Write(p) \/ WriteFails(p)
  <2>done. ASSUME Done(p)
        PROVE  pub'[p].phase = "idle" /\ \A q \in Publishes \ {p} : pub'[q] = pub[q]
    BY <1>0, <2>done DEF Done, NotPublishing
  <2>looked. ASSUME NEW i, Looked(p, i)
        PROVE  pub'[p].phase = "write" /\ \A q \in Publishes \ {p} : pub'[q] = pub[q]
    BY <1>0, <2>looked DEF Looked, Pubs
  <2>1. /\ \/ pub[p].phase = "lookup" /\ pub'[p].phase \in {"write", "idle"}
           \/ pub[p].phase = "write" /\ pub'[p].phase = "idle"
        /\ resolving' = resolving
        /\ \A q \in Publishes \ {p} : pub'[q] = pub[q]
    BY <1>3, <2>done, <2>looked DEF LookUp, LookUpFails, Write, WriteFails, termVars
  <2>2. PublishLeft(p)' < PublishLeft(p)
    BY <2>1 DEF PublishLeft
  <2> QED BY <2>1, <2>2 DEF TermsAwaited
<1> QED BY <1>1, <1>2, <1>3 DEF Answer

(* What a step leaves alone.                                               *)
LEMMA StepsOfOthers ==
    ASSUME [Next]_vars
    PROVE  \/ UNCHANGED <<pub, resolving>>
           \/ \E p \in Publishes : Start(p) \/ Answer(p)
<1>1. ASSUME NEW p \in Publishes, Refuse(p) PROVE UNCHANGED <<pub, resolving>>
  BY <1>1 DEF Refuse, termVars
<1>2. ASSUME (\E w \in late : Arrive(w)) \/ (\E i \in DOMAIN posts : Edit(i))
      PROVE  UNCHANGED <<pub, resolving>>
  BY <1>2 DEF Arrive, Edit, termVars
<1>3. ASSUME Expire /\ UNCHANGED <<publisher, posts, pub, late, starts, edits, raced>>
      PROVE  UNCHANGED <<pub, resolving>>
  BY <1>3 DEF Expire
<1>4. ASSUME UNCHANGED vars PROVE UNCHANGED <<pub, resolving>>
  BY <1>4 DEF vars, termVars
<1> QED BY <1>1, <1>2, <1>3, <1>4 DEF Next

LEMMA StartGoesIn ==
    ASSUME IInv, NEW p \in Publishes, Start(p)
    PROVE  /\ pub[p].phase = "idle"
           /\ pub'[p].phase # "terms" => resolving'[p] = resolving[p]
           /\ \A q \in Publishes \ {p} : pub'[q] = pub[q] /\ resolving'[q] = resolving[q]
<1>0. pub \in [Publishes -> Pubs] /\ resolving \in [Publishes -> Resolutions]
  BY DEF IInv, TypeOK, TermsTypeOK
<1>1. PICK want \in {"draft", "publish"}, revises \in BOOLEAN :
        pub' = [pub EXCEPT ![p] =
                  [phase |-> IF IsWordPress THEN "terms" ELSE "lookup",
                   revises |-> revises, write |-> [NoWrite EXCEPT !.want = want]]]
  BY DEF Start
<1>2. /\ pub'[p].phase = (IF IsWordPress THEN "terms" ELSE "lookup")
      /\ \A q \in Publishes \ {p} : pub'[q] = pub[q]
  BY <1>0, <1>1
<1>3. /\ ~IsWordPress => resolving' = resolving
      /\ \A q \in Publishes \ {p} : resolving'[q] = resolving[q]
  BY <1>0 DEF Start, StartResolving
<1>4. pub[p].phase = "idle"
  BY DEF Start, SpendStart
<1> QED BY <1>2, <1>3, <1>4

LEMMA OthersStay ==
    ASSUME IsFiniteSet(Tags), IInv, TermsAwaited, Next,
           NEW p \in Publishes, ~Answer(p), pub[p].phase # "idle"
    PROVE  pub'[p] = pub[p] /\ resolving'[p] = resolving[p]
  BY StepsOfOthers, StartGoesIn, AnswerGoesOn

LEMMA TermsAreAwaited ==
    ASSUME IsFiniteSet(Tags), IInv, TermsAwaited, [Next]_vars
    PROVE  TermsAwaited'
<1>1. ASSUME NEW p \in Publishes, Start(p) PROVE TermsAwaited'
  BY <1>1, StartGoesIn DEF TermsAwaited
<1>2. ASSUME NEW p \in Publishes, Answer(p) PROVE TermsAwaited'
  BY <1>2, AnswerGoesOn DEF TermsAwaited
<1>3. CASE UNCHANGED <<pub, resolving>>
  BY <1>3 DEF TermsAwaited
<1> QED BY <1>1, <1>2, <1>3, StepsOfOthers

(* Every answer brings a publish nearer to its end, and nothing but its    *)
(* start takes it back, whatever the others do to the list of tags.        *)
PublishShrinks ==
    \A p \in Publishes :
        /\ Answer(p) => PublishLeft(p)' < PublishLeft(p)
        /\ pub[p].phase # "idle" => PublishLeft(p)' <= PublishLeft(p)

(* A publish ends: each answer makes a natural number smaller that is 0    *)
(* when the publish is over, and neither another publish nor a list of     *)
(* tags that gets too old makes it grow (resolve of the taxonomy provider, *)
(* publish of the three publishers).                                       *)
THEOREM PublishIsBounded ==
    ASSUME IsFiniteSet(Tags)
    PROVE  Spec => /\ [][PublishShrinks]_vars
                   /\ [](\A p \in Publishes : PublishLeft(p) \in Nat
                                              /\ (PublishLeft(p) = 0 <=> pub[p].phase = "idle"))
<1>1. Init => TermsAwaited
  BY NotResolvingTypes DEF Init, TermsInit, TermsAwaited
<1>2. IInv /\ TermsAwaited /\ [Next]_vars => TermsAwaited'
  BY TermsAreAwaited
<1>3. IInv => \A p \in Publishes : PublishLeft(p) \in Nat
                                   /\ (PublishLeft(p) = 0 <=> pub[p].phase = "idle")
  <2> SUFFICES ASSUME IInv, NEW p \in Publishes
               PROVE  PublishLeft(p) \in Nat /\ (PublishLeft(p) = 0 <=> pub[p].phase = "idle")
    OBVIOUS
  <2>1. resolving[p] \in Resolutions /\ pub[p] \in Pubs
    BY DEF IInv, TypeOK, TermsTypeOK
  <2>2. ResolvingLeft(resolving[p]) \in Nat
    BY <2>1, ResolvingLeftType
  <2> QED BY <2>1, <2>2 DEF PublishLeft, Pubs
<1>4. IInv /\ TermsAwaited /\ [Next]_vars => [PublishShrinks]_vars
  <2> SUFFICES ASSUME IInv, TermsAwaited, Next, NEW p \in Publishes
               PROVE  /\ Answer(p) => PublishLeft(p)' < PublishLeft(p)
                      /\ pub[p].phase # "idle" => PublishLeft(p)' <= PublishLeft(p)
    BY DEF PublishShrinks
  <2>1. Answer(p) => PublishLeft(p)' < PublishLeft(p)
    BY AnswerGoesOn
  <2>2. CASE Answer(p)
    <3>1. /\ pub' \in [Publishes -> Pubs] /\ resolving' \in [Publishes -> Resolutions]
          /\ pub \in [Publishes -> Pubs] /\ resolving \in [Publishes -> Resolutions]
      BY NextStaysInOrder DEF IInv, TypeOK, TermsTypeOK
    <3>2. PublishLeft(p) \in Nat /\ PublishLeft(p)' \in Nat
      BY <3>1, ResolvingLeftType DEF PublishLeft, Pubs
    <3> QED BY <2>1, <2>2, <3>2
  <2>3. CASE ~Answer(p) /\ pub[p].phase # "idle"
    <3>1. pub'[p] = pub[p] /\ resolving'[p] = resolving[p]
      BY <2>3, OthersStay
    <3>2. PublishLeft(p) \in Nat /\ PublishLeft(p)' = PublishLeft(p)
      BY <1>3, <3>1 DEF PublishLeft
    <3> QED BY <2>3, <3>2
  <2> QED BY <2>1, <2>2, <2>3
<1> QED BY <1>1, <1>2, <1>3, <1>4, PublishesAreInOrder, PTL DEF Spec
=============================================================================
