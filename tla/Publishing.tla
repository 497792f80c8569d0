----------------------------- MODULE Publishing -----------------------------
(***************************************************************************)
(* How an article reaches a publishing target (packages/publishers): the   *)
(* publisher looks for a post under the slug, then writes.  Several        *)
(* publishes of one slug may be under way, from the publisher step of a    *)
(* run, from an approval, from a repetition of either.  An answer may be   *)
(* lost, and a write whose time is up may still arrive.                    *)
(*                                                                         *)
(* ArticleRun takes a publish for a single step; this is what it consists  *)
(* of.                                                                     *)
(***************************************************************************)
EXTENDS TermResolution, Sequences, Naturals

CONSTANTS
    Targets,     \* the publishers and their settings that are looked at
    Tagged,      \* bound: those of them for which articles have tags
    MaxStarts,   \* bound: publishes in all, where
    TaggedCost,  \* one with tags counts as so many
    MaxEdits     \* bound: changes of the posts by people

ASSUME PublishingAssumption ==
    /\ Targets \subseteq {"wordpress", "wordpress_conflict", "ghost", "markdown", "markdown_overwrite"}
    /\ {MaxStarts, TaggedCost, MaxEdits} \subseteq Nat

VARIABLES
    publisher,  \* the publisher, and what it does with a post it finds
    posts,      \* the posts of the article on the target, in order of creation
    pub,        \* how far each publish is
    late,       \* writes nobody waits for any more
    starts,     \* what is used up of the bound on publishes
    edits,      \* how many changes by people
    raced       \* whether a publish looked while another had looked and not written

vars == <<termVars, publisher, posts, pub, late, starts, edits, raced>>

(* The slug of a post is the one of the article, or WordPress has changed  *)
(* it because it was taken.  Only Ghost keeps the version of a post.  A    *)
(* file that was written half-way may say nothing of its status.           *)
Posts == [own : BOOLEAN, state : {"draft", "live", "torn"}, version : Nat]

(* A write is meant for a post that was found, in some version, or for 0.  *)
Writes == [want : {"draft", "publish"}, found : Nat, seen : Nat]

Pubs == [phase : {"idle", "terms", "lookup", "write"}, revises : BOOLEAN, write : Writes]

NoWrite == [want |-> "draft", found |-> 0, seen |-> 0]
NotPublishing == [phase |-> "idle", revises |-> FALSE, write |-> NoWrite]

TypeOK ==
    /\ TermsTypeOK
    /\ publisher \in Targets
    /\ posts \in Seq(Posts)
    /\ pub \in [Publishes -> Pubs]
    /\ late \in SUBSET Writes
    /\ starts \in 0..MaxStarts
    /\ edits \in 0..MaxEdits
    /\ raced \in BOOLEAN

Init ==
    /\ TermsInit
    /\ publisher \in Targets
    /\ posts = <<>>
    /\ pub = [p \in Publishes |-> NotPublishing]
    /\ late = {}
    /\ starts = 0
    /\ edits = 0
    /\ raced = FALSE

IsWordPress == publisher \in {"wordpress", "wordpress_conflict"}
IsMarkdown  == publisher \in {"markdown", "markdown_overwrite"}

-----------------------------------------------------------------------------
(* The publish returns, with a result that says what has become of it.    *)
Done(p) == pub' = [pub EXCEPT ![p] = NotPublishing]

SpendStart(p, names) ==
    LET cost == IF names = {} THEN 1 ELSE TaggedCost
    IN  /\ pub[p].phase = "idle"
        /\ starts + cost <= MaxStarts
        /\ starts' = starts + cost

(* An article or a setting that is not usable: validate, before anything   *)
(* is asked of the target.                                                 *)
Refuse(p) ==
    /\ SpendStart(p, {})
    /\ UNCHANGED <<termVars, publisher, posts, pub, late, edits, raced>>

Start(p) ==
    /\ \E want \in {"draft", "publish"}, revises \in BOOLEAN :
         /\ revises => IsMarkdown
         /\ pub' = [pub EXCEPT ![p] =
                      [phase |-> IF IsWordPress THEN "terms" ELSE "lookup",
                       revises |-> revises, write |-> [NoWrite EXCEPT !.want = want]]]
    /\ IF IsWordPress
       THEN \E names \in SUBSET Tags :
              /\ names # {} => publisher \in Tagged
              /\ SpendStart(p, names)
              /\ StartResolving(p, names)
       ELSE SpendStart(p, {}) /\ UNCHANGED resolving
    /\ UNCHANGED <<terms, cache, made, crossed, publisher, posts, late, edits, raced>>

TermsDone(p) ==
    /\ pub[p].phase = "terms"
    /\ resolving' = [resolving EXCEPT ![p] = NotResolving]
    /\ \/ resolving[p].phase = "resolved" /\ pub' = [pub EXCEPT ![p].phase = "lookup"]
       \/ resolving[p].phase = "failed" /\ Done(p)
    /\ UNCHANGED <<terms, cache, made, crossed, publisher, posts, late, starts, edits, raced>>

(* A write that creates a post, or replaces a file it has seen a draft in. *)
Pending == {pub[q].write : q \in {r \in Publishes : pub[r].phase = "write"}} \cup late

Blind(w) == IsMarkdown \/ w.found = 0

(* The post with this slug; a Markdown file is looked at only by a publish *)
(* that may replace a draft.                                               *)
Seen(p) ==
    IF IsMarkdown
    THEN {i \in DOMAIN posts : /\ pub[p].write.want = "publish" \/ pub[p].revises
                               /\ posts[i].state = "draft"}
    ELSE {i \in DOMAIN posts : posts[i].own}

Looked(p, i) ==
    pub' = [pub EXCEPT ![p].phase = "write", ![p].write.found = i,
                       ![p].write.seen = IF i = 0 THEN 0 ELSE posts[i].version]

(* Slip: a look-up that fails has found nothing.                           *)
LookUpFailsOpen(p) ==
    /\ pub[p].phase = "lookup" /\ ~IsMarkdown
    /\ Looked(p, 0)
    /\ UNCHANGED <<termVars, publisher, posts, late, starts, edits, raced>>

LookUpFails(p) ==
    /\ pub[p].phase = "lookup" /\ ~IsMarkdown
    /\ Done(p)
    /\ UNCHANGED <<termVars, publisher, posts, late, starts, edits, raced>>

MayReplace == publisher # "wordpress_conflict"

LookUp(p) ==
    /\ pub[p].phase = "lookup"
    /\ \/ /\ Seen(p) = {}
          /\ Looked(p, 0)
          /\ raced' = (raced \/ \E w \in Pending : Blind(w))
       \/ /\ MayReplace
          /\ \E i \in Seen(p) : Looked(p, i)
          /\ raced' = (raced \/ (IsMarkdown /\ Pending # {}))
       \/ /\ ~MayReplace
          /\ Seen(p) # {}
          /\ Done(p)
          /\ UNCHANGED raced
    /\ UNCHANGED <<termVars, publisher, posts, late, starts, edits>>

StateOf(w) == IF w.want = "publish" THEN "live" ELSE "draft"

NextVersion(post) == IF publisher = "ghost" THEN post.version + 1 ELSE post.version

(* Slip: an update says what the article is to be, as a creation does.     *)
UpdatedAsCreated(post, w) == [post EXCEPT !.version = NextVersion(post), !.state = StateOf(w)]

(* An update leaves the status alone unless it is to publish.              *)
Updated(post, w) ==
    [post EXCEPT !.version = NextVersion(post),
                 !.state = IF w.want = "publish" THEN StateOf(w) ELSE @]

(* WordPress and Ghost give a post another slug if this one is taken;      *)
(* WordPress does so only for posts that are published.                    *)
Created(w, own) == Append(posts, [own |-> own, state |-> StateOf(w), version |-> 1])

Taken == \E i \in DOMAIN posts : posts[i].own

(* "wx" refuses a file that exists.                                        *)
WritableFile(w) == posts = <<>> \/ publisher = "markdown_overwrite" \/ w.found # 0

(* Slip: the version that was found is not sent.                           *)
CurrentUnchecked(w) == TRUE

(* Ghost takes an update only of the version it names.                     *)
Current(w) == publisher = "ghost" => posts[w.found].version = w.seen

File(state) == <<[own |-> TRUE, state |-> state, version |-> 1]>>

WriteFile(w) ==
    /\ WritableFile(w)
    /\ posts' = File(StateOf(w))

(* The file was opened, and a part of it written or nothing.               *)
TearFile(w) ==
    /\ WritableFile(w)
    /\ \E state \in {StateOf(w), "torn"} : posts' = File(state)

WritePost(w) ==
    \/ /\ w.found = 0
       /\ \E own \in BOOLEAN :
            /\ own \/ Taken
            /\ own /\ Taken => publisher # "ghost" /\ w.want = "draft"
            /\ posts' = Created(w, own)
    \/ /\ w.found # 0
       /\ Current(w)
       /\ posts' = [posts EXCEPT ![w.found] = Updated(@, w)]

Apply(w) == IF IsMarkdown THEN WriteFile(w) ELSE WritePost(w)

Write(p) ==
    /\ pub[p].phase = "write"
    /\ Apply(pub[p].write)
    /\ Done(p)
    /\ UNCHANGED <<termVars, publisher, late, starts, edits, raced>>

(* The target has refused, or it has not: the write is done and its answer *)
(* lost, not done, or on its way.  A file may be there in part.            *)
WriteFails(p) ==
    /\ pub[p].phase = "write"
    /\ Done(p)
    /\ \/ UNCHANGED <<posts, late>>
       \/ IsMarkdown /\ TearFile(pub[p].write) /\ UNCHANGED late
       \/ ~IsMarkdown /\ Apply(pub[p].write) /\ UNCHANGED late
       \/ ~IsMarkdown /\ late' = late \cup {pub[p].write} /\ UNCHANGED posts
    /\ UNCHANGED <<termVars, publisher, starts, edits, raced>>

Arrive(w) ==
    /\ late' = late \ {w}
    /\ Apply(w) \/ UNCHANGED posts
    /\ UNCHANGED <<termVars, publisher, pub, starts, edits, raced>>

(* Somebody changes a post on the target, or makes it live.                *)
Edit(i) ==
    /\ edits < MaxEdits
    /\ edits' = edits + 1
    /\ \E state \in {posts[i].state, "live"} :
         posts' = [posts EXCEPT ![i].state = state, ![i].version = NextVersion(posts[i])]
    /\ raced' = (raced \/ (IsMarkdown /\ Pending # {}))
    /\ UNCHANGED <<termVars, publisher, pub, late, starts>>

Resolve(p) ==
    /\ ResolveStep(p)
    /\ UNCHANGED <<publisher, posts, pub, late, starts, edits, raced>>

Answer(p) ==
    \/ Resolve(p) \/ TermsDone(p)
    \/ LookUp(p) \/ LookUpFails(p)
    \/ Write(p) \/ WriteFails(p)

Next ==
    \/ \E p \in Publishes : Refuse(p) \/ Start(p) \/ Answer(p)
    \/ \E w \in late : Arrive(w)
    \/ \E i \in DOMAIN posts : Edit(i)
    \/ Expire /\ UNCHANGED <<publisher, posts, pub, late, starts, edits, raced>>

Spec == Init /\ [][Next]_vars

(* Every request is answered or given up when its time is over.            *)
FairSpec == Spec /\ \A p \in Publishes : WF_vars(Answer(p))

-----------------------------------------------------------------------------
(* However often the publish of an article is repeated after a failure or  *)
(* a lost answer, there is one post of it, unless a publish looked for it  *)
(* while another had looked in vain and its write was still to come        *)
(* (findBySlug before every write; two approvals at once).                 *)
OnePost == ~raced => Len(posts) <= 1

(* A post that is live stays live, whatever is published after it, by      *)
(* whomever (the status an update leaves out).  A Markdown file is safe    *)
(* from all but those who saw a draft in it.                               *)
LiveStays ==
    [][publisher # "markdown_overwrite" /\ (IsMarkdown => ~raced) =>
         \A i \in DOMAIN posts :
            posts[i].state = "live" => i \in DOMAIN posts' /\ posts'[i].state = "live"]_vars

(* On Ghost a publish replaces what it has looked at and nothing that was  *)
(* written since, by a person or another publish (updated_at).             *)
ReplacesWhatItSaw ==
    [][publisher = "ghost" /\ edits' = edits =>
         \A i \in DOMAIN posts :
            posts'[i] # posts[i] =>
               \E w \in Pending : w.found = i /\ w.seen = posts[i].version]_vars

(* A publish that began is answered.                                       *)
PublishesEnd == \A p \in Publishes : pub[p].phase # "idle" ~> pub[p].phase = "idle"
=============================================================================
