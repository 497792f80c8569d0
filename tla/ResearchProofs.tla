--------------------------- MODULE ResearchProofs ---------------------------
(***************************************************************************)
(* What is proved of a collection, for any number of sources, entries,     *)
(* rows and decisions: the merge of every list of entries collapses it,    *)
(* rows stay apart, decisions are kept and responses are closed.           *)
(***************************************************************************)
EXTENDS Research, FiniteSetTheorems, WellFoundedInduction, TLAPS

-----------------------------------------------------------------------------
(* Induction over numbers, for sets of numbers: that < is well-founded on  *)
(* them says that the numbers outside of such a set have a least one.      *)

Less == OpToRel(<, Nat)

LEMMA NatSetInduction ==
    ASSUME NEW S, 0 \in S, \A n \in Nat : n \in S => n + 1 \in S
    PROVE  Nat \subseteq S
<1>1. IsWellFoundedOn(Less, Nat)
  BY Zenon, NatLessThanWellFounded DEF Less
<1>2. \A x, y \in Nat : <<x, y>> \in Less <=> x < y
  BY DEF Less, OpToRel
<1>3. SUFFICES ASSUME Nat \ S # {} PROVE FALSE
  OBVIOUS
<1>4. PICK x \in Nat \ S : \A y \in Nat \ S : <<y, x>> \notin Less
  <2>1. Nat \ S \subseteq Nat
    OBVIOUS
  <2> QED BY <1>1, <1>3, <2>1, WFMin
<1>5. x # 0
  OBVIOUS
<1>6. x - 1 \in Nat /\ (x - 1) + 1 = x /\ x - 1 < x
  BY <1>5
<1>7. x - 1 \in Nat \ S
  BY <1>6
<1> QED BY <1>2, <1>4, <1>6, <1>7

(* The same up to a bound.                                                 *)
LEMMA UpToInduction ==
    ASSUME NEW n \in Nat, NEW S, 0 \in S, \A k \in 1..n : k - 1 \in S => k \in S
    PROVE  0..n \subseteq S
<1> DEFINE T == {k \in Nat : k <= n => k \in S}
<1>1. 0 \in T
  OBVIOUS
<1>2. \A k \in Nat : k \in T => k + 1 \in T
  <2> SUFFICES ASSUME NEW k \in Nat, k \in T, k + 1 <= n PROVE k + 1 \in S
    OBVIOUS
  <2>1. k + 1 \in 1..n /\ (k + 1) - 1 \in S
    OBVIOUS
  <2> QED BY <2>1
<1>3. Nat \subseteq T
  <2> HIDE DEF T
  <2> QED BY <1>1, <1>2, NatSetInduction
<1> QED BY <1>3

LEMMA MaxIsMember ==
    ASSUME NEW n \in Nat, NEW S \in SUBSET (1..n), S # {}
    PROVE  Max(S) \in S /\ \A y \in S : y <= Max(S)
<1> DEFINE T == {k \in 0..n : \A U \in SUBSET (1..k) : U # {} => \E x \in U : \A y \in U : x >= y}
<1>1. 0 \in T
  <2>1. \A U \in SUBSET (1..0) : U = {}
    OBVIOUS
  <2>2. \A U \in SUBSET (1..0) : U # {} => \E x \in U : \A y \in U : x >= y
    BY <2>1
  <2>3. 0 \in 0..n
    OBVIOUS
  <2> QED BY <2>2, <2>3
<1>2. \A k \in 1..n : k - 1 \in T => k \in T
  <2> SUFFICES ASSUME NEW k \in 1..n, k - 1 \in T, NEW U \in SUBSET (1..k), U # {}
               PROVE  \E x \in U : \A y \in U : x >= y
    OBVIOUS
  <2>1. CASE k \in U
    BY <2>1
  <2>2. CASE k \notin U
    <3>1. U \in SUBSET (1..(k - 1))
      BY <2>2
    <3> QED BY <3>1
  <2> QED BY <2>1, <2>2
<1>3. n \in T
  <2> HIDE DEF T
  <2>1. 0..n \subseteq T
    BY <1>1, <1>2, UpToInduction
  <2> QED BY <2>1
<1>4. \E x \in S : \A y \in S : x >= y
  BY <1>3
<1> QED BY <1>4 DEF Max

(* A fold over a sequence picks the last of some positions, folds the      *)
(* others and then does a step: there is a function that does so.          *)
Steps(V, n) == [V \X (1..n) -> V]

Folds(iter, V, base, n, step) ==
    /\ iter \in [SUBSET (1..n) -> V]
    /\ \A s \in SUBSET (1..n) :
         iter[s] = IF s = {} THEN base ELSE step[<<iter[s \ {Max(s)}], Max(s)>>]

LEMMA FoldExists ==
    ASSUME NEW V, NEW base \in V, NEW n \in Nat, NEW step \in Steps(V, n)
    PROVE  \E iter : Folds(iter, V, base, n, step)
<1> USE DEF Folds, Steps
<1> DEFINE T == {k \in 0..n : \E iter : Folds(iter, V, base, k, step)}
<1>1. 0 \in T
  <2>1. SUBSET (1..0) = {{}}
    OBVIOUS
  <2>2. [s \in SUBSET (1..0) |-> base] \in [SUBSET (1..0) -> V]
    OBVIOUS
  <2>3. Folds([s \in SUBSET (1..0) |-> base], V, base, 0, step)
    BY <2>1, <2>2
  <2> HIDE DEF Folds
  <2>4. 0 \in 0..n
    OBVIOUS
  <2> QED BY <2>3, <2>4
<1>2. \A k \in 1..n : k - 1 \in T => k \in T
  <2> SUFFICES ASSUME NEW k \in 1..n, k - 1 \in T
               PROVE  k \in T
    OBVIOUS
  <2>0. PICK iter : Folds(iter, V, base, k - 1, step)
    OBVIOUS
  <2> DEFINE more == [s \in SUBSET (1..k) |-> IF k \in s THEN step[<<iter[s \ {k}], k>>] ELSE iter[s]]
  <2>1. ASSUME NEW s \in SUBSET (1..k)
        PROVE  s \ {k} \in SUBSET (1..(k - 1))
    OBVIOUS
  <2>2. ASSUME NEW s \in SUBSET (1..k), k \in s
        PROVE  Max(s) = k
    <3>1. Max(s) \in s /\ k <= Max(s)
      BY <2>2, k \in Nat, s # {}, MaxIsMember
    <3>2. Max(s) \in 1..k
      BY <3>1
    <3> QED BY <3>1, <3>2
  <2>3. ASSUME NEW s \in SUBSET (1..k), k \notin s, s # {}
        PROVE  Max(s) \in s
    BY <2>3, k \in Nat, MaxIsMember
  <2>4. more \in [SUBSET (1..k) -> V]
    <3>1. ASSUME NEW s \in SUBSET (1..k)
          PROVE  more[s] \in V
      <4>1. CASE k \in s
        <5>1. iter[s \ {k}] \in V
          BY <2>0, <2>1
        <5>2. <<iter[s \ {k}], k>> \in V \X (1..n)
          BY <5>1
        <5>3. more[s] = step[<<iter[s \ {k}], k>>]
          BY <4>1
        <5> HIDE DEF more
        <5> QED BY <5>2, <5>3
      <4>2. CASE k \notin s
        <5>1. s \in SUBSET (1..(k - 1))
          BY <4>2, <2>1
        <5> QED BY <2>0, <4>2, <5>1
      <4> QED BY <4>1, <4>2
    <3> QED BY <3>1
  <2>5. ASSUME NEW s \in SUBSET (1..k)
        PROVE  more[s] = IF s = {} THEN base ELSE step[<<more[s \ {Max(s)}], Max(s)>>]
    <3>1. CASE k \in s
      <4>1. s \ {k} \in SUBSET (1..k) /\ k \notin s \ {k} /\ s # {}
        BY <3>1
      <4>2. more[s \ {k}] = iter[s \ {k}]
        BY <4>1
      <4>3. more[s] = step[<<iter[s \ {k}], k>>]
        BY <3>1
      <4> HIDE DEF more
      <4> QED BY <2>2, <3>1, <4>1, <4>2, <4>3
    <3>2. CASE k \notin s
      <4>1. s \in SUBSET (1..(k - 1)) /\ s \ {Max(s)} \in SUBSET (1..k) /\ k \notin s \ {Max(s)}
        BY <3>2, <2>1
      <4>2. more[s] = iter[s] /\ more[s \ {Max(s)}] = iter[s \ {Max(s)}]
        BY <3>2, <4>1
      <4>3. iter[s] = IF s = {} THEN base ELSE step[<<iter[s \ {Max(s)}], Max(s)>>]
        BY <2>0, <4>1
      <4> HIDE DEF more
      <4> QED BY <4>2, <4>3
    <3> QED BY <3>1, <3>2
  <2>6. Folds(more, V, base, k, step)
    <3> HIDE DEF more
    <3> QED BY <2>4, <2>5
  <2> HIDE DEF more, Folds
  <2> QED BY <2>6
<1>3. n \in T
  <2> HIDE DEF T
  <2>1. 0..n \subseteq T
    BY <1>1, <1>2, UpToInduction
  <2> QED BY <2>1
<1> HIDE DEF Folds
<1> QED BY <1>3

(* It goes through the positions one by one.                               *)
LEMMA LastOfFirst ==
    ASSUME NEW n \in Nat, NEW k \in 1..n
    PROVE  /\ 1..k \in SUBSET (1..n) /\ 1..k # {}
           /\ Max(1..k) = k /\ (1..k) \ {k} = 1..(k - 1)
<1>1. 1..k \in SUBSET (1..n) /\ 1..k # {} /\ k \in 1..k
  OBVIOUS
<1>2. Max(1..k) \in 1..k /\ \A y \in 1..k : y <= Max(1..k)
  BY <1>1, MaxIsMember
<1>3. Max(1..k) = k
  BY <1>1, <1>2
<1>4. (1..k) \ {k} = 1..(k - 1)
  OBVIOUS
<1> QED BY <1>1, <1>3, <1>4

-----------------------------------------------------------------------------
(* The merge of entries, whatever they are.                                *)

UrlsOf(list)   == {list[i].url : i \in DOMAIN list}
TitlesOf(list) == {list[i].title : i \in DOMAIN list}

Merges(list) ==
    [list  : Seq(DOMAIN list),
     url   : [UrlsOf(list) -> {0} \cup DOMAIN list],
     title : [TitlesOf(list) -> {0} \cup DOMAIN list]]

LEMMA MergeType ==
    ASSUME NEW list, NEW kept \in Seq(DOMAIN list),
           NEW url \in [UrlsOf(list) -> {0} \cup DOMAIN list],
           NEW title \in [TitlesOf(list) -> {0} \cup DOMAIN list]
    PROVE  [list |-> kept, url |-> url, title |-> title] \in Merges(list)
  BY DEF Merges

LEMMA NothingMergedType ==
    ASSUME NEW list
    PROVE  NothingMerged(list) \in Merges(list)
  BY DEF NothingMerged, Merges, UrlsOf, TitlesOf

LEMMA ExistingType ==
    ASSUME NEW U, NEW T, NEW W, NEW list \in Seq(Entries(U, T, W)),
           NEW m \in Merges(list), NEW i \in DOMAIN list
    PROVE  ExistingFor(list[i], m) \in {0} \cup DOMAIN list
<1>1. list[i].url \in UrlsOf(list) /\ list[i].title \in TitlesOf(list)
  BY DEF UrlsOf, TitlesOf
<1> QED BY <1>1 DEF ExistingFor, Merges

LEMMA WithEntryType ==
    ASSUME NEW U, NEW T, NEW W, NEW list \in Seq(Entries(U, T, W)),
           NEW m \in Merges(list), NEW i \in DOMAIN list
    PROVE  WithEntry(list, m, i) \in Merges(list)
<1> DEFINE existing == ExistingFor(list[i], m)
           winner   == Winner(list, i, existing)
<1>1. list[i].url \in UrlsOf(list) /\ list[i].title \in TitlesOf(list)
  BY DEF UrlsOf, TitlesOf
<1>2. existing \in {0} \cup DOMAIN list
  BY ExistingType
<1>3. CASE existing = 0
  <2>1. Append(m.list, i) \in Seq(DOMAIN list)
    BY DEF Merges
  <2>2. /\ [m.url EXCEPT ![list[i].url] = i] \in [UrlsOf(list) -> {0} \cup DOMAIN list]
        /\ [m.title EXCEPT ![list[i].title] = i] \in [TitlesOf(list) -> {0} \cup DOMAIN list]
    BY DEF Merges
  <2> QED BY <1>3, <2>1, <2>2 DEF WithEntry, Merges
<1>4. CASE existing # 0
  <2>1. existing \in DOMAIN list /\ winner \in DOMAIN list
    BY <1>2, <1>4 DEF Winner
  <2>2. list[existing].url \in UrlsOf(list) /\ list[existing].title \in TitlesOf(list)
    BY <2>1 DEF UrlsOf, TitlesOf
  <2>3. Replaced(m.list, existing, winner) \in Seq(DOMAIN list)
    <3> HIDE DEF existing, winner
    <3>1. m.list \in Seq(DOMAIN list)
      BY DEF Merges
    <3>2. \A l \in Seq(DOMAIN list) : \A p \in DOMAIN l : [l EXCEPT ![p] = winner] \in Seq(DOMAIN list)
      BY <2>1
    <3>3. CASE PositionOf(existing, m.list) = NoPosition
      BY <3>1, <3>3 DEF Replaced
    <3>4. CASE PositionOf(existing, m.list) # NoPosition
      <4>1. PositionOf(existing, m.list) \in DOMAIN m.list
        BY <3>4 DEF PositionOf
      <4> QED BY <3>1, <3>2, <3>4, <4>1 DEF Replaced
    <3> QED BY <3>3, <3>4
  <2>4. /\ [m.url EXCEPT ![list[i].url] = winner, ![list[existing].url] = winner]
             \in [UrlsOf(list) -> {0} \cup DOMAIN list]
        /\ [m.title EXCEPT ![list[i].title] = winner, ![list[existing].title] = winner]
             \in [TitlesOf(list) -> {0} \cup DOMAIN list]
    <3> HIDE DEF existing, winner
    <3> QED BY <1>1, <2>1, <2>2 DEF Merges
  <2>5. WithEntry(list, m, i) =
          [list  |-> Replaced(m.list, existing, winner),
           url   |-> [m.url EXCEPT ![list[i].url] = winner, ![list[existing].url] = winner],
           title |-> [m.title EXCEPT ![list[i].title] = winner, ![list[existing].title] = winner]]
    BY <1>4 DEF WithEntry
  <2> HIDE DEF existing, winner
  <2> DEFINE kept  == Replaced(m.list, existing, winner)
             url   == [m.url EXCEPT ![list[i].url] = winner, ![list[existing].url] = winner]
             title == [m.title EXCEPT ![list[i].title] = winner, ![list[existing].title] = winner]
  <2>6. WithEntry(list, m, i) = [list |-> kept, url |-> url, title |-> title]
    BY <2>5
  <2>7. /\ kept \in Seq(DOMAIN list)
        /\ url \in [UrlsOf(list) -> {0} \cup DOMAIN list]
        /\ title \in [TitlesOf(list) -> {0} \cup DOMAIN list]
    BY <2>3, <2>4
  <2> HIDE DEF kept, url, title
  <2>8. [list |-> kept, url |-> url, title |-> title] \in Merges(list)
    BY <2>7, MergeType
  <2> QED BY <2>6, <2>8
<1> QED BY <1>3, <1>4

(* The merge goes through the entries one by one.                          *)
LEMMA MergeChain ==
    ASSUME NEW U, NEW T, NEW W, NEW list \in Seq(Entries(U, T, W))
    PROVE  \E m \in [0..Len(list) -> Merges(list)] :
             /\ m[0] = NothingMerged(list)
             /\ \A k \in 1..Len(list) : m[k] = WithEntry(list, m[k - 1], k)
             /\ MergedList(list) = m[Len(list)].list
<1> DEFINE n     == Len(list)
           V     == Merges(list)
           base  == NothingMerged(list)
           step  == [p \in V \X (1..n) |-> WithEntry(list, p[1], p[2])]
           Is(f) == f = [s \in SUBSET (1..n) |->
                           IF s = {} THEN base ELSE WithEntry(list, f[s \ {Max(s)}], Max(s))]
           It    == CHOOSE f : Is(f)
<1>1. n \in Nat /\ DOMAIN list = 1..n
  OBVIOUS
<1>2. base \in V
  BY NothingMergedType
<1>3. step \in Steps(V, n)
  <2>1. ASSUME NEW p \in V \X (1..n)
        PROVE  WithEntry(list, p[1], p[2]) \in V
    BY <1>1, WithEntryType
  <2> HIDE DEF V
  <2> QED BY <2>1 DEF Steps
<1>4. \A v \in V, k \in 1..n : step[<<v, k>>] = WithEntry(list, v, k)
  <2> HIDE DEF V
  <2> QED OBVIOUS
<1> HIDE DEF V, base, step
<1>5. PICK iter : Folds(iter, V, base, n, step)
  <2> HIDE DEF n
  <2> QED BY <1>1, <1>2, <1>3, FoldExists
<1>6. ASSUME NEW s \in SUBSET (1..n), s # {}
      PROVE  s \ {Max(s)} \in SUBSET (1..n) /\ Max(s) \in 1..n
  BY <1>1, <1>6, MaxIsMember
<1>7. Is(iter)
  <2>1. ASSUME NEW s \in SUBSET (1..n)
        PROVE  (IF s = {} THEN base ELSE step[<<iter[s \ {Max(s)}], Max(s)>>])
                 = IF s = {} THEN base ELSE WithEntry(list, iter[s \ {Max(s)}], Max(s))
    <3>1. CASE s = {}
      BY <3>1
    <3>2. CASE s # {}
      BY <1>4, <1>5, <1>6, <3>2 DEF Folds
    <3> QED BY <3>1, <3>2
  <2> QED BY <1>5, <2>1 DEF Folds
<1>8. Is(It)
  <2> HIDE DEF Is
  <2> QED BY <1>7
<1>9. MergedList(list) = It[1..n].list
  <2>1. DOMAIN [i \in DOMAIN list |-> i] = 1..n
    BY <1>1
  <2>2. \A s \in SUBSET (1..n) : s # {} => [i \in DOMAIN list |-> i][Max(s)] = Max(s)
    BY <1>1, <1>6
  <2>3. It = CHOOSE f : f = [s \in SUBSET (DOMAIN [i \in DOMAIN list |-> i]) |->
                IF s = {} THEN base
                ELSE WithEntry(list, f[s \ {Max(s)}], [i \in DOMAIN list |-> i][Max(s)])]
    <3>1. \A f : Is(f) <=>
            f = [s \in SUBSET (DOMAIN [i \in DOMAIN list |-> i]) |->
                IF s = {} THEN base
                ELSE WithEntry(list, f[s \ {Max(s)}], [i \in DOMAIN list |-> i][Max(s)])]
      <4> TAKE f
      <4>1. [s \in SUBSET (1..n) |-> IF s = {} THEN base ELSE WithEntry(list, f[s \ {Max(s)}], Max(s))]
            = [s \in SUBSET (DOMAIN [i \in DOMAIN list |-> i]) |->
                IF s = {} THEN base
                ELSE WithEntry(list, f[s \ {Max(s)}], [i \in DOMAIN list |-> i][Max(s)])]
        BY <2>1, <2>2
      <4> QED BY <4>1
    <3> QED BY <3>1
  <2> QED BY <2>1, <2>3 DEF MergedList, FoldLeft, MapThenFoldSet, base
<1>10. It[1..0] = base /\ \A k \in 1..n : It[1..k] = WithEntry(list, It[1..(k - 1)], k)
  <2>1. It = [s \in SUBSET (1..n) |->
                IF s = {} THEN base ELSE WithEntry(list, It[s \ {Max(s)}], Max(s))]
    BY <1>8
  <2> HIDE DEF It
  <2>2. 1..0 = {} /\ 1..0 \in SUBSET (1..n)
    OBVIOUS
  <2>3. ASSUME NEW k \in 1..n
        PROVE  It[1..k] = WithEntry(list, It[1..(k - 1)], k)
    <3>1. /\ 1..k \in SUBSET (1..n) /\ 1..k # {}
          /\ Max(1..k) = k /\ (1..k) \ {k} = 1..(k - 1)
      BY <1>1, LastOfFirst
    <3>2. It[1..k] = WithEntry(list, It[(1..k) \ {Max(1..k)}], Max(1..k))
      BY <2>1, <3>1
    <3> QED BY <3>1, <3>2
  <2> QED BY <2>1, <2>2, <2>3
<1> HIDE DEF It
<1> DEFINE typed == {k \in 0..n : It[1..k] \in V}
<1>11. 0..n \subseteq typed
  <2>1. 0 \in typed
    BY <1>1, <1>2, <1>10
  <2>2. \A k \in 1..n : k - 1 \in typed => k \in typed
    <3> SUFFICES ASSUME NEW k \in 1..n, k - 1 \in typed PROVE It[1..k] \in V
      OBVIOUS
    <3>1. WithEntry(list, It[1..(k - 1)], k) \in V
      BY <1>1, WithEntryType DEF V
    <3> QED BY <1>10, <3>1
  <2> HIDE DEF typed
  <2> QED BY <1>1, <2>1, <2>2, UpToInduction
<1> DEFINE m == [k \in 0..n |-> It[1..k]]
<1>12. m \in [0..n -> V]
  BY <1>11
<1>13. m[0] = base /\ m[n] = It[1..n] /\ \A k \in 1..n : m[k] = It[1..k] /\ m[k - 1] = It[1..(k - 1)]
  BY <1>1, <1>10
<1>14. \A k \in 1..n : m[k] = WithEntry(list, m[k - 1], k)
  <2> HIDE DEF m
  <2> QED BY <1>10, <1>13
<1> HIDE DEF m
<1> QED BY <1>9, <1>12, <1>13, <1>14 DEF V, base, n
(* What holds of the merge when the first k entries went through it.  An   *)
(* alias leads to an entry that hangs together with those it stands for,   *)
(* which need not be in the list any more; but no alias leads from an      *)
(* entry in the list to another one there.                                 *)
Leads(list, value, i) == \A group \in SUBSET DOMAIN list : Apart(list, group) => (i \in group <=> value \in group)

MergeInv(list, m, k) ==
    /\ \A p \in DOMAIN m.list : m.list[p] \in 1..k
    /\ \A p, q \in DOMAIN m.list : p # q => list[m.list[p]].url # list[m.list[q]].url
    /\ \A p, q \in DOMAIN m.list : m.url[list[m.list[p]].url] = m.list[q] => p = q
    /\ \A i \in DOMAIN list :
         /\ m.url[list[i].url] \in 0..k /\ m.title[list[i].title] \in 0..k
         /\ m.url[list[i].url] = 0 => i \notin 1..k
         /\ m.url[list[i].url] # 0 => Leads(list, m.url[list[i].url], i)
         /\ m.title[list[i].title] # 0 => Leads(list, m.title[list[i].title], i)
    /\ \A group \in SUBSET DOMAIN list :
         Apart(list, group) /\ (\E i \in group : i <= k) => \E p \in DOMAIN m.list : m.list[p] \in group

LEMMA AlikeLead ==
    ASSUME NEW U, NEW T, NEW W, NEW list \in Seq(Entries(U, T, W)),
           NEW i \in DOMAIN list, NEW j \in DOMAIN list, SameUrlOrTitle(list[i], list[j])
    PROVE  Leads(list, i, j)
<1> SUFFICES ASSUME NEW group \in SUBSET DOMAIN list, Apart(list, group)
             PROVE  j \in group <=> i \in group
  BY DEF Leads
<1>1. ASSUME i \in group, j \notin group PROVE FALSE
  BY <1>1 DEF Apart
<1>2. ASSUME j \in group, i \notin group PROVE FALSE
  BY <1>2 DEF Apart, SameUrlOrTitle
<1> QED BY <1>1, <1>2

LEMMA LeadsOn ==
    ASSUME NEW list, NEW i, NEW j, NEW k, Leads(list, i, j), Leads(list, j, k)
    PROVE  Leads(list, i, k)
  BY DEF Leads

(* An entry that is found leads to the one that was taken for it.          *)
LEMMA FoundLeads ==
    ASSUME NEW U, NEW T, NEW W, NEW list \in Seq(Entries(U, T, W)), NEW m \in Merges(list),
           NEW k \in DOMAIN list, MergeInv(list, m, k - 1), ExistingFor(list[k], m) # 0
    PROVE  /\ Leads(list, ExistingFor(list[k], m), k)
           /\ ExistingFor(list[k], m) \in DOMAIN list /\ ExistingFor(list[k], m) <= k - 1
<1>1. \/ /\ m.url[list[k].url] # 0
         /\ ExistingFor(list[k], m) = m.url[list[k].url]
      \/ /\ m.title[list[k].title] # 0
         /\ ExistingFor(list[k], m) = m.title[list[k].title]
  BY DEF ExistingFor
<1>2. ExistingFor(list[k], m) \in 0..(k - 1) /\ Leads(list, ExistingFor(list[k], m), k)
  BY <1>1 DEF MergeInv
<1>3. ExistingFor(list[k], m) \in DOMAIN list
  BY <1>2
<1> QED BY <1>2, <1>3

LEMMA NewEntryKeeps ==
    ASSUME NEW U, NEW T, NEW W, NEW list \in Seq(Entries(U, T, W)), NEW m \in Merges(list),
           NEW k \in DOMAIN list, MergeInv(list, m, k - 1), ExistingFor(list[k], m) = 0
    PROVE  MergeInv(list, WithEntry(list, m, k), k)
<1> DEFINE more == Append(m.list, k)
           url   == [m.url EXCEPT ![list[k].url] = k]
           title == [m.title EXCEPT ![list[k].title] = k]
<1>1. WithEntry(list, m, k) = [list |-> more, url |-> url, title |-> title]
  BY DEF WithEntry
<1>2. /\ k \in Nat /\ k # 0 /\ DOMAIN list = 1..Len(list)
      /\ m.list \in Seq(DOMAIN list) /\ m.url[list[k].url] = 0 /\ m.title[list[k].title] = 0
      /\ DOMAIN m.url = UrlsOf(list) /\ DOMAIN m.title = TitlesOf(list)
      /\ \A i \in DOMAIN list : list[i].url \in UrlsOf(list) /\ list[i].title \in TitlesOf(list)
  BY DEF Merges, ExistingFor, UrlsOf, TitlesOf
<1>3. /\ DOMAIN more = 1..(Len(m.list) + 1) /\ more[Len(m.list) + 1] = k
      /\ DOMAIN m.list = 1..Len(m.list) /\ Len(m.list) \in Nat
      /\ \A p \in DOMAIN m.list : more[p] = m.list[p] /\ more[p] \in 1..(k - 1) /\ more[p] \in DOMAIN list
  BY <1>2 DEF MergeInv
<1>4. /\ \A i \in DOMAIN list : url[list[i].url] = IF list[i].url = list[k].url THEN k ELSE m.url[list[i].url]
      /\ \A i \in DOMAIN list :
           title[list[i].title] = IF list[i].title = list[k].title THEN k ELSE m.title[list[i].title]
  BY <1>2
<1>5. \A p \in DOMAIN m.list : list[m.list[p]].url # list[k].url
  BY <1>2, <1>3 DEF MergeInv
<1> HIDE DEF more, url, title
<1>0. \A p \in DOMAIN more : p \in DOMAIN m.list \/ p = Len(m.list) + 1
  BY <1>3
<1>6. ASSUME NEW p \in DOMAIN more
      PROVE  more[p] \in 1..k
  <2>1. CASE p \in DOMAIN m.list
    BY <1>2, <1>3, <2>1
  <2>2. CASE p = Len(m.list) + 1
    BY <1>2, <1>3, <2>2
  <2> QED BY <1>0, <2>1, <2>2
<1>7. ASSUME NEW p \in DOMAIN more, NEW q \in DOMAIN more, p # q
      PROVE  list[more[p]].url # list[more[q]].url
  <2>1. CASE p \in DOMAIN m.list /\ q \in DOMAIN m.list
    <3>1. list[m.list[p]].url # list[m.list[q]].url
      BY <1>7, <2>1 DEF MergeInv
    <3>2. more[p] = m.list[p] /\ more[q] = m.list[q]
      BY <1>3, <2>1
    <3> QED BY <3>1, <3>2
  <2>2. CASE p = Len(m.list) + 1 /\ q \in DOMAIN m.list
    BY <1>3, <1>5, <2>2
  <2>3. CASE q = Len(m.list) + 1 /\ p \in DOMAIN m.list
    BY <1>3, <1>5, <2>3
  <2> QED BY <1>0, <1>7, <2>1, <2>2, <2>3
<1>8. ASSUME NEW p \in DOMAIN more, NEW q \in DOMAIN more, url[list[more[p]].url] = more[q]
      PROVE  p = q
  <2>1. CASE p = Len(m.list) + 1
    <3>1. more[q] = k
      BY <1>3, <1>4, <1>8, <2>1
    <3> QED BY <1>2, <1>3, <2>1, <3>1
  <2>2. CASE p \in DOMAIN m.list
    <3>1. url[list[more[p]].url] = m.url[list[m.list[p]].url]
      BY <1>3, <1>4, <1>5, <2>2
    <3>2. m.url[list[m.list[p]].url] \in 0..(k - 1)
      BY <1>3, <2>2 DEF MergeInv
    <3>3. q \in DOMAIN m.list
      <4>1. more[q] # k
        BY <1>2, <1>8, <3>1, <3>2
      <4> QED BY <1>0, <1>3, <4>1
    <3> QED BY <1>3, <1>8, <2>2, <3>1, <3>3 DEF MergeInv
  <2> QED BY <1>0, <2>1, <2>2
<1>9. ASSUME NEW i \in DOMAIN list
      PROVE  /\ url[list[i].url] \in 0..k /\ title[list[i].title] \in 0..k
             /\ url[list[i].url] = 0 => i \notin 1..k
             /\ url[list[i].url] # 0 => Leads(list, url[list[i].url], i)
             /\ title[list[i].title] # 0 => Leads(list, title[list[i].title], i)
  <2>1. list[i].url = list[k].url \/ list[i].title = list[k].title => Leads(list, k, i)
    BY AlikeLead DEF SameUrlOrTitle
  <2>2. /\ m.url[list[i].url] \in 0..(k - 1) /\ m.title[list[i].title] \in 0..(k - 1)
        /\ m.url[list[i].url] = 0 => i \notin 1..(k - 1)
        /\ m.url[list[i].url] # 0 => Leads(list, m.url[list[i].url], i)
        /\ m.title[list[i].title] # 0 => Leads(list, m.title[list[i].title], i)
    BY DEF MergeInv
  <2> QED BY <1>2, <1>4, <2>1, <2>2
<1>10. ASSUME NEW group \in SUBSET DOMAIN list, Apart(list, group), NEW i \in group, i <= k
       PROVE  \E p \in DOMAIN more : more[p] \in group
  <2>1. CASE i = k
    BY <1>3, <2>1
  <2>2. CASE i <= k - 1
    <3>1. \E p \in DOMAIN m.list : m.list[p] \in group
      BY <1>10, <2>2 DEF MergeInv
    <3> QED BY <1>3, <3>1
  <2> QED BY <1>2, <1>10, <2>1, <2>2
<1>11. MergeInv(list, [list |-> more, url |-> url, title |-> title], k)
  BY <1>6, <1>7, <1>8, <1>9, <1>10 DEF MergeInv
<1> QED BY <1>1, <1>11

LEMMA PositionIn ==
    ASSUME NEW D, NEW list \in Seq(D), NEW e
    PROVE  IF \E p \in DOMAIN list : list[p] = e
           THEN PositionOf(e, list) \in DOMAIN list /\ list[PositionOf(e, list)] = e /\ PositionOf(e, list) # NoPosition
           ELSE PositionOf(e, list) = NoPosition
<1>1. 0 \notin DOMAIN list
  OBVIOUS
<1> QED BY <1>1 DEF PositionOf, NoPosition

LEMMA KnownEntryKeeps ==
    ASSUME NEW U, NEW T, NEW W, NEW list \in Seq(Entries(U, T, W)), NEW m \in Merges(list),
           NEW k \in DOMAIN list, MergeInv(list, m, k - 1), ExistingFor(list[k], m) # 0
    PROVE  MergeInv(list, WithEntry(list, m, k), k)
<1> DEFINE e     == ExistingFor(list[k], m)
           w     == Winner(list, k, e)
           kept  == Replaced(m.list, e, w)
           url   == [m.url EXCEPT ![list[k].url] = w, ![list[e].url] = w]
           title == [m.title EXCEPT ![list[k].title] = w, ![list[e].title] = w]
<1>1. WithEntry(list, m, k) = [list |-> kept, url |-> url, title |-> title]
  BY DEF WithEntry
<1>2. /\ k \in Nat /\ k # 0 /\ DOMAIN list = 1..Len(list)
      /\ e \in DOMAIN list /\ e \in 1..(k - 1) /\ Leads(list, e, k)
      /\ w = e \/ w = k
      /\ m.url[list[k].url] \in {0, e}
  <2>1. m.url[list[k].url] \in {0, e}
    BY DEF ExistingFor
  <2>2. w = e \/ w = k
    BY DEF Winner
  <2> HIDE DEF w, kept, url, title
  <2>3. e \in DOMAIN list /\ e <= k - 1 /\ Leads(list, e, k)
    BY FoundLeads
  <2> QED BY <2>1, <2>2, <2>3
<1>3. /\ m.list \in Seq(DOMAIN list)
      /\ DOMAIN m.url = UrlsOf(list) /\ DOMAIN m.title = TitlesOf(list)
      /\ \A i \in DOMAIN list : list[i].url \in UrlsOf(list) /\ list[i].title \in TitlesOf(list)
  BY DEF Merges, UrlsOf, TitlesOf
<1> HIDE DEF e, w
<1>4. /\ \A i \in DOMAIN list :
           url[list[i].url] = IF list[i].url \in {list[k].url, list[e].url} THEN w ELSE m.url[list[i].url]
      /\ \A i \in DOMAIN list :
           title[list[i].title] =
             IF list[i].title \in {list[k].title, list[e].title} THEN w ELSE m.title[list[i].title]
  BY <1>2, <1>3
<1>5. /\ DOMAIN kept = DOMAIN m.list
      /\ \A p \in DOMAIN m.list : kept[p] = m.list[p] \/ (kept[p] = w /\ m.list[p] = e)
  <2>1. CASE \E p \in DOMAIN m.list : m.list[p] = e
    <3>1. PositionOf(e, m.list) \in DOMAIN m.list /\ m.list[PositionOf(e, m.list)] = e
          /\ PositionOf(e, m.list) # NoPosition
      BY <1>3, <2>1, PositionIn
    <3> QED BY <3>1 DEF Replaced
  <2>2. CASE ~\E p \in DOMAIN m.list : m.list[p] = e
    <3>1. PositionOf(e, m.list) = NoPosition
      BY <1>3, <2>2, PositionIn
    <3> QED BY <3>1 DEF Replaced
  <2> QED BY <2>1, <2>2
<1> HIDE DEF kept, url, title
(* An entry in the list with the URL of the new one is the one found.      *)
<1>6. ASSUME NEW p \in DOMAIN m.list, list[m.list[p]].url = list[k].url, NEW q \in DOMAIN m.list, m.list[q] = e
      PROVE  p = q
  <2>1. m.list[p] \in 1..(k - 1) /\ m.list[p] \in DOMAIN list
    BY <1>3 DEF MergeInv
  <2>2. m.url[list[k].url] # 0
    BY <1>6, <2>1 DEF MergeInv
  <2>3. m.url[list[m.list[p]].url] = m.list[q]
    BY <1>2, <1>6, <2>2
  <2> QED BY <2>3 DEF MergeInv
<1>7. ASSUME NEW p \in DOMAIN m.list
      PROVE  m.list[p] \in 1..(k - 1) /\ m.list[p] \in DOMAIN list
  BY <1>3 DEF MergeInv
<1>8. \A p \in DOMAIN kept : kept[p] \in 1..k
  BY <1>2, <1>5, <1>7
<1>9. ASSUME NEW p \in DOMAIN kept, NEW q \in DOMAIN kept, p # q
      PROVE  list[kept[p]].url # list[kept[q]].url
  <2>1. list[m.list[p]].url # list[m.list[q]].url
    BY <1>5, <1>9 DEF MergeInv
  <2>2. CASE kept[p] = m.list[p] /\ kept[q] = m.list[q]
    BY <2>1, <2>2
  <2>3. CASE kept[p] = k /\ m.list[p] = e /\ kept[q] = m.list[q]
    BY <1>5, <1>6, <1>9, <2>3
  <2>4. CASE kept[q] = k /\ m.list[q] = e /\ kept[p] = m.list[p]
    BY <1>5, <1>6, <1>9, <2>4
  <2>5. ~(m.list[p] = e /\ m.list[q] = e)
    BY <2>1
  <2> QED BY <1>2, <1>5, <2>2, <2>3, <2>4, <2>5
<1>10. ASSUME NEW p \in DOMAIN kept, NEW q \in DOMAIN kept, url[list[kept[p]].url] = kept[q]
       PROVE  p = q
  <2>0. kept[p] \in DOMAIN list
    BY <1>2, <1>5, <1>7
  <2>1. CASE list[kept[p]].url \in {list[k].url, list[e].url}
    <3>1. kept[q] = w
      BY <1>4, <1>10, <2>0, <2>1
    <3>2. m.list[q] = e
      BY <1>2, <1>5, <1>7, <3>1
    <3>3. CASE list[m.list[p]].url = list[k].url
      BY <1>5, <1>6, <3>2, <3>3
    <3>4. CASE list[m.list[p]].url = list[e].url
      BY <1>5, <3>2, <3>4 DEF MergeInv
    <3>5. CASE m.list[p] = e
      BY <1>5, <3>2, <3>5 DEF MergeInv
    <3> QED BY <1>5, <2>1, <3>3, <3>4, <3>5
  <2>2. CASE list[kept[p]].url \notin {list[k].url, list[e].url}
    <3>1. kept[p] = m.list[p] /\ url[list[kept[p]].url] = m.url[list[m.list[p]].url]
      BY <1>2, <1>4, <1>5, <2>0, <2>2
    <3>2. m.url[list[m.list[p]].url] \in 0..(k - 1)
      BY <1>5, <1>7 DEF MergeInv
    <3>3. kept[q] = m.list[q]
      BY <1>2, <1>5, <1>10, <3>1, <3>2
    <3> QED BY <1>5, <1>10, <3>1, <3>3 DEF MergeInv
  <2> QED BY <2>1, <2>2
<1>11. /\ w \in 1..k /\ w \in DOMAIN list
       /\ \A i \in DOMAIN list :
            \/ list[i].url \in {list[k].url, list[e].url}
            \/ list[i].title \in {list[k].title, list[e].title}
            => Leads(list, w, i)
  <2>1. ASSUME NEW i \in DOMAIN list,
               \/ list[i].url \in {list[k].url, list[e].url}
               \/ list[i].title \in {list[k].title, list[e].title}
        PROVE  Leads(list, w, i)
    <3>1. Leads(list, k, i) \/ Leads(list, e, i)
      BY <1>2, <2>1, AlikeLead DEF SameUrlOrTitle
    <3>2. Leads(list, e, k) /\ Leads(list, k, e) /\ Leads(list, e, e) /\ Leads(list, k, k)
      BY <1>2 DEF Leads
    <3>3. Leads(list, w, k) /\ Leads(list, w, e)
      BY <1>2, <3>2
    <3> QED BY <3>1, <3>3, LeadsOn
  <2> QED BY <1>2, <2>1
<1>12. ASSUME NEW i \in DOMAIN list
       PROVE  /\ url[list[i].url] \in 0..k /\ title[list[i].title] \in 0..k
              /\ url[list[i].url] = 0 => i \notin 1..k
              /\ url[list[i].url] # 0 => Leads(list, url[list[i].url], i)
              /\ title[list[i].title] # 0 => Leads(list, title[list[i].title], i)
  <2>1. /\ m.url[list[i].url] \in 0..(k - 1) /\ m.title[list[i].title] \in 0..(k - 1)
        /\ m.url[list[i].url] = 0 => i \notin 1..(k - 1)
        /\ m.url[list[i].url] # 0 => Leads(list, m.url[list[i].url], i)
        /\ m.title[list[i].title] # 0 => Leads(list, m.title[list[i].title], i)
    BY DEF MergeInv
  <2>2. i \in 1..k => i \in 1..(k - 1) \/ i = k
    BY <1>2
  <2> QED BY <1>2, <1>4, <1>11, <2>1, <2>2
<1>13. ASSUME NEW group \in SUBSET DOMAIN list, Apart(list, group), NEW i \in group, i <= k
       PROVE  \E p \in DOMAIN kept : kept[p] \in group
  <2>1. e \in group <=> k \in group
    BY <1>2, <1>13 DEF Leads
  <2>2. \E j \in group : j <= k - 1
    BY <1>2, <1>13, <2>1
  <2>3. PICK p \in DOMAIN m.list : m.list[p] \in group
    BY <1>13, <2>2 DEF MergeInv
  <2> QED BY <1>2, <1>5, <2>1, <2>3
<1>14. MergeInv(list, [list |-> kept, url |-> url, title |-> title], k)
  BY <1>8, <1>9, <1>10, <1>12, <1>13 DEF MergeInv
<1> QED BY <1>1, <1>14

LEMMA NothingKeeps ==
    ASSUME NEW U, NEW T, NEW W, NEW list \in Seq(Entries(U, T, W))
    PROVE  MergeInv(list, NothingMerged(list), 0)
<1>1. \A i \in DOMAIN list : i \in Nat \ {0} /\ NothingMerged(list).url[list[i].url] = 0
                             /\ NothingMerged(list).title[list[i].title] = 0
  BY DEF NothingMerged
<1>2. DOMAIN NothingMerged(list).list = {}
  BY DEF NothingMerged
<1>3. \A group \in SUBSET DOMAIN list : ~\E i \in group : i <= 0
  BY <1>1
<1> QED BY <1>1, <1>2, <1>3 DEF MergeInv

(* What a merge keeps of the weights: the heavier entry may have replaced  *)
(* one that was in the list, or was lost because that one was not; then a  *)
(* heaviest entry of the group is in the list already.                     *)
In(list, kept, group) == \E p \in DOMAIN kept : kept[p] \in group

TopIn(list, kept, group) == In(list, kept, Heaviest(list, group))

Covers(list, kept, group, value) == value # 0 => In(list, kept, {value}) \/ TopIn(list, kept, group)

HeavyInv(list, m, k, group) ==
    /\ \A i \in group :
         /\ Covers(list, m.list, group, m.url[list[i].url])
         /\ Covers(list, m.list, group, m.title[list[i].title])
    /\ \A i \in group :
         i <= k => \E p \in DOMAIN m.list :
                     m.list[p] \in group /\ list[i].weight <= list[m.list[p]].weight

(* And of the titles, where none of theirs shares a URL with another one.  *)
Titled(list, title) == {i \in DOMAIN list : list[i].title = title}

TitleInv(list, m, title) ==
    /\ \A p, q \in DOMAIN m.list : list[m.list[p]].title = title /\ list[m.list[q]].title = title => p = q
    /\ title \in TitlesOf(list) /\ m.title[title] = 0 => ~In(list, m.list, Titled(list, title))

LEMMA PlainTitlesApart ==
    ASSUME NEW U, NEW T, NEW W, NEW list \in Seq(Entries(U, T, W)), NEW title, ~Bridges(list, title)
    PROVE  Apart(list, Titled(list, title))
  BY DEF Apart, Titled, Bridges, SameUrlOrTitle

(* One step of the merge, as the two invariants see it: either an entry is *)
(* added that nothing leads to, or the one that is found keeps its place,  *)
(* or loses it to the new one.                                             *)
LEMMA EntryFields ==
    ASSUME NEW U, NEW T, NEW W, NEW list \in Seq(Entries(U, T, W)), NEW m \in Merges(list)
    PROVE  /\ \A i \in DOMAIN list : /\ i \in Nat \ {0} /\ list[i].weight \in W
                                     /\ list[i].url \in UrlsOf(list) /\ list[i].title \in TitlesOf(list)
           /\ DOMAIN m.url = UrlsOf(list) /\ DOMAIN m.title = TitlesOf(list)
           /\ m.list \in Seq(DOMAIN list)
           /\ \A p \in DOMAIN m.list : m.list[p] \in DOMAIN list
<1>1. \A i \in DOMAIN list : i \in Nat \ {0} /\ list[i] \in Entries(U, T, W)
  OBVIOUS
<1>2. \A i \in DOMAIN list : list[i].weight \in W
  BY <1>1 DEF Entries
<1>3. \A i \in DOMAIN list : list[i].url \in UrlsOf(list) /\ list[i].title \in TitlesOf(list)
  BY DEF UrlsOf, TitlesOf
<1>4. DOMAIN m.url = UrlsOf(list) /\ DOMAIN m.title = TitlesOf(list) /\ m.list \in Seq(DOMAIN list)
  BY DEF Merges
<1>5. \A p \in DOMAIN m.list : m.list[p] \in DOMAIN list
  BY <1>4
<1> QED BY <1>1, <1>2, <1>3, <1>4, <1>5

LEMMA AddedPlace ==
    ASSUME NEW U, NEW T, NEW W, NEW list \in Seq(Entries(U, T, W)), NEW m \in Merges(list),
           NEW k \in DOMAIN list, ExistingFor(list[k], m) = 0,
           NEW n, n = WithEntry(list, m, k)
    PROVE  \E last \in DOMAIN n.list :
             /\ n.list[last] = k /\ DOMAIN n.list = DOMAIN m.list \cup {last}
             /\ \A p \in DOMAIN m.list : n.list[p] = m.list[p]
<1>1. n.list = Append(m.list, k)
  BY DEF WithEntry
<1>2. m.list \in Seq(DOMAIN list)
  BY EntryFields
<1> DEFINE last == Len(m.list) + 1
<1>3. /\ DOMAIN Append(m.list, k) = DOMAIN m.list \cup {last}
      /\ Append(m.list, k)[last] = k
      /\ \A p \in DOMAIN m.list : Append(m.list, k)[p] = m.list[p]
  <2>1. /\ Len(m.list) \in Nat /\ DOMAIN m.list = 1..Len(m.list)
        /\ DOMAIN Append(m.list, k) = 1..last
    BY <1>2
  <2>2. 1..last = (1..Len(m.list)) \cup {last}
    BY <2>1
  <2>3. Append(m.list, k)[last] = k /\ \A p \in 1..Len(m.list) : Append(m.list, k)[p] = m.list[p]
    BY <1>2
  <2> HIDE DEF last
  <2> QED BY <2>1, <2>2, <2>3
<1> HIDE DEF last
<1> QED BY <1>1, <1>3

LEMMA AddedAliases ==
    ASSUME NEW U, NEW T, NEW W, NEW list \in Seq(Entries(U, T, W)), NEW m \in Merges(list),
           NEW k \in DOMAIN list, ExistingFor(list[k], m) = 0,
           NEW n, n = WithEntry(list, m, k), NEW i \in DOMAIN list
    PROVE  /\ m.title[list[k].title] = 0
           /\ n.url[list[i].url] = IF list[i].url = list[k].url THEN k ELSE m.url[list[i].url]
           /\ n.title[list[i].title] = IF list[i].title = list[k].title THEN k ELSE m.title[list[i].title]
<1>1. /\ n.url = [m.url EXCEPT ![list[k].url] = k]
      /\ n.title = [m.title EXCEPT ![list[k].title] = k]
  BY DEF WithEntry
<1>2. m.title[list[k].title] = 0
  BY DEF ExistingFor
<1>3. /\ list[i].url \in DOMAIN m.url /\ list[k].url \in DOMAIN m.url
      /\ list[i].title \in DOMAIN m.title /\ list[k].title \in DOMAIN m.title
  BY EntryFields
<1> QED BY <1>1, <1>2, <1>3

(* The entry found, and the one that wins.                                 *)
FoundAndWon(list, m, k, e, w) ==
    /\ ExistingFor(list[k], m) # 0
    /\ e = ExistingFor(list[k], m)
    /\ w = Winner(list, k, e)

LEMMA MergedWinner ==
    ASSUME NEW U, NEW T, NEW W, NEW list \in Seq(Entries(U, T, W)), NEW m \in Merges(list),
           NEW k \in DOMAIN list, MergeInv(list, m, k - 1),
           NEW e, NEW w, FoundAndWon(list, m, k, e, w)
    PROVE  /\ e \in DOMAIN list /\ Leads(list, e, k) /\ e # k
           /\ e \in {m.url[list[k].url], m.title[list[k].title]}
           /\ IF list[k].weight > list[e].weight THEN w = k ELSE w = e
<1>1. e \in DOMAIN list /\ Leads(list, e, k) /\ e <= k - 1
  BY FoundLeads DEF FoundAndWon
<1>2. e # k
  BY <1>1
<1>3. e \in {m.url[list[k].url], m.title[list[k].title]}
  BY DEF ExistingFor, FoundAndWon
<1>4. IF list[k].weight > list[e].weight THEN w = k ELSE w = e
  BY DEF Winner, FoundAndWon
<1> QED BY <1>1, <1>2, <1>3, <1>4

LEMMA MergedPlaces ==
    ASSUME NEW U, NEW T, NEW W, NEW list \in Seq(Entries(U, T, W)), NEW m \in Merges(list),
           NEW k \in DOMAIN list, MergeInv(list, m, k - 1),
           NEW e, NEW w, FoundAndWon(list, m, k, e, w),
           NEW n, n = WithEntry(list, m, k)
    PROVE  /\ DOMAIN n.list = DOMAIN m.list
           /\ \A p \in DOMAIN m.list : n.list[p] = IF m.list[p] = e THEN w ELSE m.list[p]
<1>1. n.list = Replaced(m.list, e, w)
  BY DEF WithEntry, FoundAndWon
<1>2. m.list \in Seq(DOMAIN list)
  BY EntryFields
<1>3. \A p, q \in DOMAIN m.list : m.list[p] = m.list[q] => p = q
  BY DEF MergeInv
<1>4. CASE \E p \in DOMAIN m.list : m.list[p] = e
  <2>1. PositionOf(e, m.list) \in DOMAIN m.list /\ m.list[PositionOf(e, m.list)] = e
        /\ PositionOf(e, m.list) # NoPosition
    BY <1>2, <1>4, PositionIn
  <2>2. n.list = [m.list EXCEPT ![PositionOf(e, m.list)] = w]
    BY <1>1, <2>1 DEF Replaced
  <2> QED BY <1>3, <2>1, <2>2
<1>5. CASE ~\E p \in DOMAIN m.list : m.list[p] = e
  <2>1. PositionOf(e, m.list) = NoPosition
    BY <1>2, <1>5, PositionIn
  <2>2. n.list = m.list
    BY <1>1, <2>1 DEF Replaced
  <2> QED BY <1>5, <2>2
<1> QED BY <1>4, <1>5

LEMMA MergedAliases ==
    ASSUME NEW U, NEW T, NEW W, NEW list \in Seq(Entries(U, T, W)), NEW m \in Merges(list),
           NEW k \in DOMAIN list, MergeInv(list, m, k - 1),
           NEW e, NEW w, FoundAndWon(list, m, k, e, w),
           NEW n, n = WithEntry(list, m, k), NEW i \in DOMAIN list
    PROVE  /\ n.url[list[i].url] =
                IF list[i].url \in {list[k].url, list[e].url} THEN w ELSE m.url[list[i].url]
           /\ n.title[list[i].title] =
                IF list[i].title \in {list[k].title, list[e].title} THEN w ELSE m.title[list[i].title]
<1>1. /\ n.url = [m.url EXCEPT ![list[k].url] = w, ![list[e].url] = w]
      /\ n.title = [m.title EXCEPT ![list[k].title] = w, ![list[e].title] = w]
  BY DEF WithEntry, FoundAndWon
<1>2. e \in DOMAIN list
  BY MergedWinner
<1>3. /\ \A j \in DOMAIN list : list[j].url \in DOMAIN m.url /\ list[j].title \in DOMAIN m.title
  BY EntryFields
<1> QED BY <1>1, <1>2, <1>3

LEMMA AddedIsHeavy ==
    ASSUME NEW U, NEW T, NEW W \in SUBSET Nat, NEW list \in Seq(Entries(U, T, W)), NEW m \in Merges(list),
           NEW k \in DOMAIN list, ExistingFor(list[k], m) = 0,
           NEW group \in SUBSET DOMAIN list, HeavyInv(list, m, k - 1, group),
           NEW n, n = WithEntry(list, m, k)
    PROVE  HeavyInv(list, n, k, group)
<1>1. PICK last \in DOMAIN n.list :
        /\ n.list[last] = k /\ DOMAIN n.list = DOMAIN m.list \cup {last}
        /\ \A p \in DOMAIN m.list : n.list[p] = m.list[p]
  BY AddedPlace
<1>2. \A S : In(list, m.list, S) => In(list, n.list, S)
  BY <1>1 DEF In
<1>3. \A v : Covers(list, m.list, group, v) => Covers(list, n.list, group, v)
  BY <1>2 DEF Covers, TopIn
<1>4. Covers(list, n.list, group, k)
  BY <1>1 DEF Covers, In
<1>5. ASSUME NEW i \in group
      PROVE  /\ Covers(list, n.list, group, n.url[list[i].url])
             /\ Covers(list, n.list, group, n.title[list[i].title])
  <2>1. /\ n.url[list[i].url] \in {k, m.url[list[i].url]}
        /\ n.title[list[i].title] \in {k, m.title[list[i].title]}
    BY AddedAliases
  <2>2. /\ Covers(list, m.list, group, m.url[list[i].url])
        /\ Covers(list, m.list, group, m.title[list[i].title])
    BY DEF HeavyInv
  <2> QED BY <1>3, <1>4, <2>1, <2>2
<1>6. ASSUME NEW i \in group, i <= k
      PROVE  \E p \in DOMAIN n.list : n.list[p] \in group /\ list[i].weight <= list[n.list[p]].weight
  <2>1. i \in Nat /\ k \in Nat /\ list[i].weight \in Nat
    BY EntryFields
  <2>2. CASE i = k
    BY <1>1, <2>1, <2>2
  <2>3. CASE i # k
    <3>1. i <= k - 1
      BY <1>6, <2>1, <2>3
    <3>2. PICK p \in DOMAIN m.list : m.list[p] \in group /\ list[i].weight <= list[m.list[p]].weight
      BY <3>1 DEF HeavyInv
    <3> QED BY <1>1, <3>2
  <2> QED BY <2>2, <2>3
<1> QED BY <1>5, <1>6 DEF HeavyInv

(* The two entries are of another group.                                   *)
LEMMA OthersStayHeavy ==
    ASSUME NEW U, NEW T, NEW W \in SUBSET Nat, NEW list \in Seq(Entries(U, T, W)), NEW m \in Merges(list),
           NEW k \in DOMAIN list, MergeInv(list, m, k - 1),
           NEW e, NEW w, FoundAndWon(list, m, k, e, w),
           NEW group \in SUBSET DOMAIN list, Apart(list, group), HeavyInv(list, m, k - 1, group),
           k \notin group,
           NEW n, n = WithEntry(list, m, k)
    PROVE  HeavyInv(list, n, k, group)
<1>1. e \in DOMAIN list /\ e \notin group
  BY MergedWinner DEF Leads
<1>2. /\ DOMAIN n.list = DOMAIN m.list
      /\ \A p \in DOMAIN m.list : m.list[p] \in group => n.list[p] = m.list[p]
  BY <1>1, MergedPlaces
<1>3. \A S : S \subseteq group /\ In(list, m.list, S) => In(list, n.list, S)
  BY <1>2 DEF In
<1>4. Heaviest(list, group) \subseteq group
  BY DEF Heaviest
<1>5. ASSUME NEW v, v # 0 => v \in group, Covers(list, m.list, group, v)
      PROVE  Covers(list, n.list, group, v)
  <2>1. v # 0 => {v} \subseteq group
    BY <1>5
  <2> QED BY <1>3, <1>4, <1>5, <2>1 DEF Covers, TopIn
<1>6. ASSUME NEW i \in group
      PROVE  /\ Covers(list, n.list, group, n.url[list[i].url])
             /\ Covers(list, n.list, group, n.title[list[i].title])
  <2>1. /\ list[i].url # list[k].url /\ list[i].url # list[e].url
        /\ list[i].title # list[k].title /\ list[i].title # list[e].title
    BY <1>1 DEF Apart, SameUrlOrTitle
  <2>2. n.url[list[i].url] = m.url[list[i].url] /\ n.title[list[i].title] = m.title[list[i].title]
    BY <2>1, MergedAliases
  <2>3. /\ m.url[list[i].url] # 0 => m.url[list[i].url] \in group
        /\ m.title[list[i].title] # 0 => m.title[list[i].title] \in group
    BY DEF MergeInv, Leads
  <2>4. /\ Covers(list, m.list, group, m.url[list[i].url])
        /\ Covers(list, m.list, group, m.title[list[i].title])
    BY DEF HeavyInv
  <2> QED BY <1>5, <2>2, <2>3, <2>4
<1>7. ASSUME NEW i \in group, i <= k
      PROVE  \E p \in DOMAIN n.list : n.list[p] \in group /\ list[i].weight <= list[n.list[p]].weight
  <2>1. i \in Nat /\ k \in Nat /\ i # k
    BY EntryFields
  <2>2. i <= k - 1
    BY <1>7, <2>1
  <2>3. PICK p \in DOMAIN m.list : m.list[p] \in group /\ list[i].weight <= list[m.list[p]].weight
    BY <2>2 DEF HeavyInv
  <2> QED BY <1>2, <2>3
<1> QED BY <1>6, <1>7 DEF HeavyInv

LEMMA MergedIsHeavy ==
    ASSUME NEW U, NEW T, NEW W \in SUBSET Nat, NEW list \in Seq(Entries(U, T, W)), NEW m \in Merges(list),
           NEW k \in DOMAIN list, MergeInv(list, m, k - 1),
           NEW e, NEW w, FoundAndWon(list, m, k, e, w),
           NEW group \in SUBSET DOMAIN list, Apart(list, group), TwoWeights(list, group),
           HeavyInv(list, m, k - 1, group), k \in group,
           NEW n, n = WithEntry(list, m, k)
    PROVE  HeavyInv(list, n, k, group)
<1>1. /\ e \in group /\ e \in {m.url[list[k].url], m.title[list[k].title]}
      /\ IF list[k].weight > list[e].weight THEN w = k ELSE w = e
  BY MergedWinner DEF Leads
<1>2. /\ DOMAIN n.list = DOMAIN m.list
      /\ \A p \in DOMAIN m.list : n.list[p] = IF m.list[p] = e THEN w ELSE m.list[p]
  BY MergedPlaces
<1>3. \A i \in group : i \in Nat /\ i # 0 /\ list[i].weight \in Nat
  BY EntryFields
<1>4. In(list, m.list, {e}) \/ In(list, m.list, Heaviest(list, group))
  <2>1. /\ Covers(list, m.list, group, m.url[list[k].url])
        /\ Covers(list, m.list, group, m.title[list[k].title])
    BY DEF HeavyInv
  <2> QED BY <1>1, <1>3, <2>1 DEF Covers, TopIn
<1>5. CASE list[k].weight > list[e].weight
  <2>1. w = k
    BY <1>1, <1>5
  <2>2. k \in Heaviest(list, group)
    <3>1. PICK a \in group, b \in group :
            \A l \in group : list[l].weight \in {list[a].weight, list[b].weight}
      BY DEF TwoWeights
    <3>2. list[e].weight # list[k].weight
      BY <1>1, <1>3, <1>5
    <3>3. \A l \in group : list[l].weight \in {list[e].weight, list[k].weight}
      BY <1>1, <3>1, <3>2
    <3>4. ASSUME NEW l \in group
          PROVE  list[l].weight <= list[k].weight
      <4>1. \A x, y, z \in Nat : x > y /\ z \in {y, x} => z <= x
        OBVIOUS
      <4>2. list[k].weight \in Nat /\ list[e].weight \in Nat /\ list[l].weight \in Nat
        BY <1>1, <1>3
      <4> QED BY <1>5, <3>3, <4>1, <4>2
    <3> QED BY <3>4 DEF Heaviest
  <2>3. PICK p \in DOMAIN n.list : n.list[p] \in Heaviest(list, group)
    <3>1. CASE In(list, m.list, {e})
      <4>1. PICK p \in DOMAIN m.list : m.list[p] = e
        BY <3>1 DEF In
      <4> QED BY <1>2, <2>1, <2>2, <4>1
    <3>2. CASE In(list, m.list, Heaviest(list, group))
      <4>1. PICK p \in DOMAIN m.list : m.list[p] \in Heaviest(list, group)
        BY <3>2 DEF In
      <4>2. n.list[p] \in Heaviest(list, group)
        BY <1>2, <2>1, <2>2, <4>1
      <4> QED BY <1>2, <4>2
    <3> QED BY <1>4, <3>1, <3>2
  <2>4. \A v : Covers(list, n.list, group, v)
    BY <2>3 DEF Covers, TopIn, In
  <2>5. \A i \in group : n.list[p] \in group /\ list[i].weight <= list[n.list[p]].weight
    BY <2>3 DEF Heaviest
  <2> QED BY <2>3, <2>4, <2>5 DEF HeavyInv
<1>6. CASE ~(list[k].weight > list[e].weight)
  <2>1. w = e
    BY <1>1, <1>6
  <2>2. \A p \in DOMAIN m.list : n.list[p] = m.list[p]
    BY <1>2, <2>1
  <2>3. \A S : In(list, m.list, S) => In(list, n.list, S)
    BY <1>2, <2>2 DEF In
  <2>4. \A v : Covers(list, m.list, group, v) => Covers(list, n.list, group, v)
    BY <2>3 DEF Covers, TopIn
  <2>5. Covers(list, n.list, group, e)
    BY <1>4, <2>3 DEF Covers, TopIn
  <2>6. ASSUME NEW i \in group
        PROVE  /\ Covers(list, n.list, group, n.url[list[i].url])
               /\ Covers(list, n.list, group, n.title[list[i].title])
    <3>1. /\ n.url[list[i].url] \in {e, m.url[list[i].url]}
          /\ n.title[list[i].title] \in {e, m.title[list[i].title]}
      BY <2>1, MergedAliases
    <3>2. /\ Covers(list, m.list, group, m.url[list[i].url])
          /\ Covers(list, m.list, group, m.title[list[i].title])
      BY DEF HeavyInv
    <3> QED BY <2>4, <2>5, <3>1, <3>2
  <2>7. ASSUME NEW i \in group, i <= k
        PROVE  \E p \in DOMAIN n.list : n.list[p] \in group /\ list[i].weight <= list[n.list[p]].weight
    <3>1. CASE i # k
      <4>1. i <= k - 1
        BY <1>3, <2>7, <3>1
      <4>2. PICK p \in DOMAIN m.list : m.list[p] \in group /\ list[i].weight <= list[m.list[p]].weight
        BY <4>1 DEF HeavyInv
      <4> QED BY <1>2, <2>2, <4>2
    <3>2. CASE i = k /\ In(list, m.list, {e})
      <4>1. PICK p \in DOMAIN m.list : m.list[p] = e
        BY <3>2 DEF In
      <4>2. list[k].weight <= list[e].weight
        BY <1>1, <1>3, <1>6
      <4> QED BY <1>1, <1>2, <2>2, <3>2, <4>1, <4>2
    <3>3. CASE i = k /\ In(list, m.list, Heaviest(list, group))
      <4>1. PICK p \in DOMAIN m.list : m.list[p] \in Heaviest(list, group)
        BY <3>3 DEF In
      <4>2. m.list[p] \in group /\ list[i].weight <= list[m.list[p]].weight
        BY <4>1 DEF Heaviest
      <4> QED BY <1>2, <2>2, <4>2
    <3> QED BY <1>4, <3>1, <3>2, <3>3
  <2> QED BY <2>6, <2>7 DEF HeavyInv
<1> QED BY <1>5, <1>6

LEMMA HeavyKept ==
    ASSUME NEW U, NEW T, NEW W \in SUBSET Nat, NEW list \in Seq(Entries(U, T, W)), NEW m \in Merges(list),
           NEW k \in DOMAIN list, MergeInv(list, m, k - 1),
           NEW group \in SUBSET DOMAIN list, Apart(list, group), TwoWeights(list, group),
           HeavyInv(list, m, k - 1, group)
    PROVE  HeavyInv(list, WithEntry(list, m, k), k, group)
<1>1. CASE ExistingFor(list[k], m) = 0
  BY <1>1, AddedIsHeavy
<1>2. CASE ExistingFor(list[k], m) # 0
  <2> DEFINE e == ExistingFor(list[k], m)
             w == Winner(list, k, e)
  <2>1. FoundAndWon(list, m, k, e, w)
    BY <1>2 DEF FoundAndWon
  <2> HIDE DEF e, w
  <2> QED BY <2>1, OthersStayHeavy, MergedIsHeavy
<1> QED BY <1>1, <1>2

LEMMA TitlesKept ==
    ASSUME NEW U, NEW T, NEW W, NEW list \in Seq(Entries(U, T, W)), NEW m \in Merges(list),
           NEW k \in DOMAIN list, MergeInv(list, m, k - 1),
           NEW title, ~Bridges(list, title), TitleInv(list, m, title)
    PROVE  TitleInv(list, WithEntry(list, m, k), title)
<1> DEFINE n     == WithEntry(list, m, k)
           group == Titled(list, title)
<1>1. /\ title \in TitlesOf(list) => \E i \in DOMAIN list : list[i].title = title
      /\ \A i \in DOMAIN list : list[i].title = title <=> i \in group
      /\ \A i \in DOMAIN list : i # 0 /\ list[i].title \in TitlesOf(list)
      /\ \A p \in DOMAIN m.list : m.list[p] \in DOMAIN list
  BY EntryFields DEF TitlesOf, Titled
<1>2. CASE ExistingFor(list[k], m) = 0
  <2> HIDE DEF n
  <2>1. PICK last \in DOMAIN n.list :
          /\ n.list[last] = k /\ DOMAIN n.list = DOMAIN m.list \cup {last}
          /\ \A p \in DOMAIN m.list : n.list[p] = m.list[p]
    BY <1>2, AddedPlace DEF n
  <2>2. /\ m.title[list[k].title] = 0
        /\ \A i \in DOMAIN list :
             n.title[list[i].title] = IF list[i].title = list[k].title THEN k ELSE m.title[list[i].title]
    BY <1>2, AddedAliases DEF n
  <2> HIDE DEF group
  <2>3. CASE list[k].title = title
    <3>1. \A p \in DOMAIN m.list : m.list[p] \notin group
      BY <1>1, <2>2, <2>3 DEF TitleInv, In, group
    <3>2. \A p \in DOMAIN m.list : list[m.list[p]].title # title
      BY <1>1, <3>1
    <3>3. n.title[title] = k /\ k # 0
      BY <1>1, <2>2, <2>3
    <3> QED BY <2>1, <3>2, <3>3 DEF TitleInv, n
  <2>4. CASE list[k].title # title
    <3>1. title \in TitlesOf(list) => n.title[title] = m.title[title]
      BY <1>1, <2>2, <2>4
    <3>2. k \notin group
      BY <1>1, <2>4
    <3>3. In(list, n.list, group) => In(list, m.list, group)
      BY <2>1, <3>2 DEF In
    <3>4. \A p, q \in DOMAIN n.list : list[n.list[p]].title = title /\ list[n.list[q]].title = title => p = q
      BY <2>1, <2>4 DEF TitleInv
    <3> QED BY <3>1, <3>3, <3>4 DEF TitleInv, n, group
  <2> QED BY <2>3, <2>4
<1>3. CASE ExistingFor(list[k], m) # 0
  <2> DEFINE e == ExistingFor(list[k], m)
             w == Winner(list, k, e)
  <2>0. FoundAndWon(list, m, k, e, w)
    BY <1>3 DEF FoundAndWon
  <2> HIDE DEF n, e, w
  <2>1. e \in DOMAIN list /\ Leads(list, e, k) /\ w \in {e, k}
    BY <2>0, MergedWinner
  <2>2. /\ DOMAIN n.list = DOMAIN m.list
        /\ \A p \in DOMAIN m.list : n.list[p] = IF m.list[p] = e THEN w ELSE m.list[p]
    BY <2>0, MergedPlaces DEF n
  <2>3. w # 0 /\ \A i \in DOMAIN list : n.title[list[i].title] \in {w, m.title[list[i].title]}
    BY <1>1, <2>0, <2>1, MergedAliases DEF n
  <2>4. e \in group <=> k \in group
    <3>1. group \in SUBSET DOMAIN list /\ Apart(list, group)
      BY PlainTitlesApart DEF Titled
    <3> HIDE DEF group
    <3> QED BY <2>1, <3>1 DEF Leads
  <2> HIDE DEF group
  <2>5. \A p \in DOMAIN m.list : n.list[p] \in group <=> m.list[p] \in group
    BY <2>1, <2>2, <2>4
  <2>6. \A p \in DOMAIN m.list : n.list[p] \in DOMAIN list
    BY <1>1, <2>1, <2>2
  <2>7. ASSUME NEW p \in DOMAIN n.list, NEW q \in DOMAIN n.list,
               list[n.list[p]].title = title, list[n.list[q]].title = title
        PROVE  p = q
    <3>1. m.list[p] \in group /\ m.list[q] \in group
      BY <1>1, <2>2, <2>5, <2>6, <2>7
    <3>2. list[m.list[p]].title = title /\ list[m.list[q]].title = title
      BY <1>1, <2>2, <3>1
    <3> QED BY <2>2, <3>2 DEF TitleInv
  <2>8. ASSUME title \in TitlesOf(list), n.title[title] = 0
        PROVE  ~In(list, n.list, group)
    <3>1. m.title[title] = 0
      BY <1>1, <2>3, <2>8
    <3>2. ~In(list, m.list, group)
      BY <2>8, <3>1 DEF TitleInv, group
    <3> QED BY <2>2, <2>5, <3>2 DEF In
  <2> QED BY <2>7, <2>8 DEF TitleInv, n, group
<1> QED BY <1>2, <1>3

LEMMA NothingIsCovered ==
    ASSUME NEW U, NEW T, NEW W, NEW list \in Seq(Entries(U, T, W))
    PROVE  /\ \A group \in SUBSET DOMAIN list : HeavyInv(list, NothingMerged(list), 0, group)
           /\ \A title : TitleInv(list, NothingMerged(list), title)
<1>1. \A i \in DOMAIN list : /\ ~(i <= 0)
                               /\ NothingMerged(list).url[list[i].url] = 0
                               /\ NothingMerged(list).title[list[i].title] = 0
  BY DEF NothingMerged
<1>2. DOMAIN NothingMerged(list).list = {}
  BY DEF NothingMerged
<1>3. \A group \in SUBSET DOMAIN list : HeavyInv(list, NothingMerged(list), 0, group)
  BY <1>1 DEF HeavyInv, Covers
<1>4. \A title : TitleInv(list, NothingMerged(list), title)
  BY <1>2 DEF TitleInv, In
<1> QED BY <1>3, <1>4

(* Whatever the sources offer: the merge loses no group of entries that    *)
(* hang together, and no heaviest one among two weights; it keeps no URL   *)
(* twice, and no title twice but one that shares a URL with another.       *)
THEOREM MergeCollapses ==
    ASSUME NEW U, NEW T, NEW W \in SUBSET Nat, NEW list \in Seq(Entries(U, T, W))
    PROVE  Collapses(list, MergedList(list)) /\ MergedList(list) \in Seq(Nat)
<1> DEFINE n == Len(list)
<1>1. n \in Nat /\ DOMAIN list = 1..n
  OBVIOUS
<1>2. PICK m \in [0..n -> Merges(list)] :
        /\ m[0] = NothingMerged(list)
        /\ \A k \in 1..n : m[k] = WithEntry(list, m[k - 1], k)
        /\ MergedList(list) = m[n].list
  BY MergeChain
<1> DEFINE Heavy(k)  == \A group \in SUBSET DOMAIN list :
                           Apart(list, group) /\ TwoWeights(list, group) => HeavyInv(list, m[k], k, group)
           Plain(k)  == \A title : ~Bridges(list, title) => TitleInv(list, m[k], title)
           kept      == {k \in 0..n : MergeInv(list, m[k], k) /\ Heavy(k) /\ Plain(k)}
<1>3. 0..n \subseteq kept
  <2>1. 0 \in kept
    <3>1. MergeInv(list, m[0], 0)
      BY <1>2, NothingKeeps
    <3>2. Heavy(0) /\ Plain(0)
      BY <1>2, NothingIsCovered
    <3> QED BY <1>1, <3>1, <3>2
  <2>2. ASSUME NEW k \in 1..n, k - 1 \in kept
        PROVE  k \in kept
    <3>1. /\ k \in DOMAIN list /\ m[k - 1] \in Merges(list) /\ MergeInv(list, m[k - 1], k - 1)
          /\ Heavy(k - 1) /\ Plain(k - 1)
      BY <1>1, <2>2
    <3>2. MergeInv(list, WithEntry(list, m[k - 1], k), k)
      BY <3>1, NewEntryKeeps, KnownEntryKeeps
    <3>3. ASSUME NEW group \in SUBSET DOMAIN list, Apart(list, group), TwoWeights(list, group)
          PROVE  HeavyInv(list, m[k], k, group)
      <4>1. HeavyInv(list, m[k - 1], k - 1, group)
        BY <3>1, <3>3
      <4>2. HeavyInv(list, WithEntry(list, m[k - 1], k), k, group)
        BY <3>1, <3>3, <4>1, HeavyKept
      <4> QED BY <1>2, <4>2
    <3>4. ASSUME NEW title, ~Bridges(list, title)
          PROVE  TitleInv(list, m[k], title)
      <4>1. TitleInv(list, m[k - 1], title)
        BY <3>1, <3>4
      <4>2. TitleInv(list, WithEntry(list, m[k - 1], k), title)
        BY <3>1, <3>4, <4>1, TitlesKept
      <4> QED BY <1>2, <4>2
    <3> QED BY <1>1, <1>2, <3>2, <3>3, <3>4
  <2> HIDE DEF kept, n
  <2> QED BY <1>1, <2>1, <2>2, UpToInduction
<1>4. MergeInv(list, m[n], n) /\ m[n] \in Merges(list) /\ Heavy(n) /\ Plain(n)
  BY <1>1, <1>3
<1> DEFINE all == m[n].list
<1>5. all \in Seq(DOMAIN list)
  BY <1>4 DEF Merges
<1>6. all \in Seq(Nat) /\ \A p \in DOMAIN all : all[p] \in DOMAIN list
  BY <1>1, <1>5
<1>7. ASSUME NEW group \in SUBSET DOMAIN list, group # {}, Apart(list, group)
      PROVE  \E p \in DOMAIN all :
               all[p] \in IF TwoWeights(list, group) THEN Heaviest(list, group) ELSE group
  <2>1. CASE ~TwoWeights(list, group)
    <3>1. \E i \in group : i <= n
      BY <1>1, <1>7
    <3> QED BY <1>4, <1>7, <2>1, <3>1 DEF MergeInv
  <2>2. CASE TwoWeights(list, group)
    <3>1. HeavyInv(list, m[n], n, group)
      BY <1>4, <1>7, <2>2
    <3>2. \A i \in group : i <= n /\ list[i].weight \in Nat
      <4>1. \A i \in DOMAIN list : list[i].weight \in W
        BY <1>4, EntryFields
      <4>2. \A i \in DOMAIN list : i <= n
        BY <1>1
      <4> QED BY <4>1, <4>2
    <3>3. PICK a \in group, b \in group :
            \A l \in group : list[l].weight \in {list[a].weight, list[b].weight}
      BY <2>2 DEF TwoWeights
    <3>4. PICK i \in group : \A l \in group : list[l].weight <= list[i].weight
      <4>1. \A x, y \in Nat : x <= x /\ (x <= y \/ y <= x)
        OBVIOUS
      <4>2. list[a].weight \in Nat /\ list[b].weight \in Nat
        BY <3>2
      <4>3. CASE list[a].weight <= list[b].weight
        <5>1. \A l \in group : list[l].weight <= list[b].weight
          BY <3>3, <4>1, <4>2, <4>3
        <5> QED BY <5>1
      <4>4. CASE list[b].weight <= list[a].weight
        <5>1. \A l \in group : list[l].weight <= list[a].weight
          BY <3>3, <4>1, <4>2, <4>4
        <5> QED BY <5>1
      <4> QED BY <4>1, <4>2, <4>3, <4>4
    <3>5. PICK p \in DOMAIN all : all[p] \in group /\ list[i].weight <= list[all[p]].weight
      BY <3>1, <3>2 DEF HeavyInv
    <3>6. ASSUME NEW l \in group
          PROVE  list[l].weight <= list[all[p]].weight
      <4>1. /\ list[l].weight \in Nat /\ list[i].weight \in Nat /\ list[all[p]].weight \in Nat
            /\ list[l].weight <= list[i].weight
        BY <3>2, <3>4, <3>5
      <4>2. \A x, y, z \in Nat : x <= y /\ y <= z => x <= z
        OBVIOUS
      <4> QED BY <3>5, <4>1, <4>2
    <3> QED BY <2>2, <3>5, <3>6 DEF Heaviest
  <2> QED BY <2>1, <2>2
<1>8. \A p, q \in DOMAIN all : p # q => list[all[p]].url # list[all[q]].url
  BY <1>4 DEF MergeInv
<1>9. ASSUME NEW p \in DOMAIN all, NEW q \in DOMAIN all, p # q,
             list[all[p]].title = list[all[q]].title
      PROVE  Bridges(list, list[all[p]].title)
  BY <1>4, <1>9 DEF TitleInv
<1> HIDE DEF n, all
<1>10. MergedList(list) = all
  BY <1>2 DEF all
<1> QED BY <1>6, <1>7, <1>8, <1>9, <1>10 DEF Collapses

-----------------------------------------------------------------------------
(* What a collection makes of the rows.                                    *)

Inputs  == [url : Urls, title : Candidates, score : Nat]
Created == [id : Nat, status : CandidateStatuses, score : Nat]
Stores  == {store \in [rows : Seq(Rows), created : SUBSET Created] : IsFiniteSet(store.created)}

LEMMA StoreType ==
    ASSUME NEW all \in Seq(Rows), NEW created \in SUBSET Created, IsFiniteSet(created)
    PROVE  [rows |-> all, created |-> created] \in Stores
  BY DEF Stores

LEMMA UpsertedType ==
    ASSUME NEW row \in Rows, NEW score \in Nat
    PROVE  Upserted(row, score) \in Rows /\ Upserted(row, score).url = row.url
           /\ Upserted(row, score).title = row.title
           /\ (row.status # "new" => Upserted(row, score) = row)
  BY DEF Upserted, Rows, CandidateStatuses

LEMMA NewRowType ==
    ASSUME NEW input \in Inputs
    PROVE  LET row == Upserted(NewRow(input.url, input.title), input.score)
           IN  row \in Rows /\ row.url = input.url /\ row.title = input.title
  BY DEF Upserted, NewRow, Rows, CandidateStatuses, Inputs, Briefs

LEMMA UpsertedInputType ==
    ASSUME NEW store \in Stores, NEW input \in Inputs
    PROVE  UpsertedInput(store, input) \in Stores
<1>1. store.rows \in Seq(Rows) /\ store.created \in SUBSET Created /\ IsFiniteSet(store.created)
  BY DEF Stores
<1>2. CASE Found(store.rows, input) = {}
  <2> DEFINE row  == Upserted(NewRow(input.url, input.title), input.score)
             one  == [id |-> Len(store.rows) + 1, status |-> row.status, score |-> row.score]
             all  == Append(store.rows, row)
             more == store.created \cup {one}
  <2>1. row \in Rows
    BY NewRowType
  <2>2. all \in Seq(Rows)
    BY <1>1, <2>1
  <2>3. one \in Created
    BY <1>1, <2>1 DEF Rows, Created
  <2>5. UpsertedInput(store, input) = [rows |-> all, created |-> more]
    BY <1>2 DEF UpsertedInput, Inserted
  <2> HIDE DEF row, one, all
  <2>4. IsFiniteSet(more)
    BY <1>1, FS_AddElement
  <2>6. more \in SUBSET Created
    BY <1>1, <2>3
  <2> HIDE DEF more
  <2> QED BY <2>2, <2>4, <2>5, <2>6, StoreType
<1>3. CASE Found(store.rows, input) # {}
  <2> DEFINE i == CHOOSE i \in Found(store.rows, input) : TRUE
             all == [store.rows EXCEPT ![i] = Upserted(@, input.score)]
  <2>1. i \in DOMAIN store.rows
    BY <1>3 DEF Found
  <2>2. store = [rows |-> store.rows, created |-> store.created]
    BY DEF Stores
  <2>3. UpsertedInput(store, input) = [store EXCEPT !.rows = all]
    BY <1>3 DEF UpsertedInput
  <2> HIDE DEF i
  <2>4. Upserted(store.rows[i], input.score) \in Rows
    BY <1>1, <2>1, UpsertedType DEF Inputs
  <2>5. all \in Seq(Rows)
    BY <1>1, <2>1, <2>4
  <2> HIDE DEF all
  <2>6. UpsertedInput(store, input) = [rows |-> all, created |-> store.created]
    BY <2>2, <2>3
  <2> QED BY <1>1, <2>5, <2>6, StoreType
<1> QED BY <1>2, <1>3

(* The inputs are stored one after the other.                              *)
LEMMA UpsertChain ==
    ASSUME rows \in Seq(Rows), NEW inputs \in Seq(Inputs)
    PROVE  \E store \in [0..Len(inputs) -> Stores] :
             /\ store[0] = [rows |-> rows, created |-> {}]
             /\ \A k \in 1..Len(inputs) : store[k] = UpsertedInput(store[k - 1], inputs[k])
             /\ UpsertCollected(inputs) = store[Len(inputs)]
<1> DEFINE n     == Len(inputs)
           base  == [rows |-> rows, created |-> {}]
           step  == [p \in Stores \X (1..n) |-> UpsertedInput(p[1], inputs[p[2]])]
           Is(f) == f = [s \in SUBSET (1..n) |->
                           IF s = {} THEN base ELSE UpsertedInput(f[s \ {Max(s)}], inputs[Max(s)])]
           It    == CHOOSE f : Is(f)
<1>1. n \in Nat /\ DOMAIN inputs = 1..n /\ \A k \in 1..n : inputs[k] \in Inputs
  OBVIOUS
<1>2. base \in Stores
  <2>1. IsFiniteSet({}) /\ {} \in SUBSET Created
    BY FS_EmptySet
  <2> QED BY <2>1, StoreType
<1>3. step \in Steps(Stores, n)
  <2>1. ASSUME NEW p \in Stores \X (1..n)
        PROVE  UpsertedInput(p[1], inputs[p[2]]) \in Stores
    BY <1>1, UpsertedInputType
  <2> QED BY <2>1 DEF Steps
<1>4. \A v \in Stores, k \in 1..n : step[<<v, k>>] = UpsertedInput(v, inputs[k])
  OBVIOUS
<1> HIDE DEF base, step
<1>5. PICK iter : Folds(iter, Stores, base, n, step)
  <2> HIDE DEF n
  <2> QED BY <1>1, <1>2, <1>3, FoldExists
<1>6. ASSUME NEW s \in SUBSET (1..n), s # {}
      PROVE  s \ {Max(s)} \in SUBSET (1..n) /\ Max(s) \in 1..n
  BY <1>1, <1>6, MaxIsMember
<1>7. Is(iter)
  <2>1. ASSUME NEW s \in SUBSET (1..n)
        PROVE  iter[s] = IF s = {} THEN base ELSE UpsertedInput(iter[s \ {Max(s)}], inputs[Max(s)])
    <3>1. CASE s = {}
      BY <1>5, <3>1 DEF Folds
    <3>2. CASE s # {}
      <4>1. iter[s \ {Max(s)}] \in Stores
        BY <1>5, <1>6, <3>2 DEF Folds
      <4>2. iter[s] = step[<<iter[s \ {Max(s)}], Max(s)>>]
        BY <1>5, <3>2 DEF Folds
      <4> QED BY <1>4, <1>6, <3>2, <4>1, <4>2
    <3> QED BY <3>1, <3>2
  <2>2. iter = [s \in SUBSET (1..n) |-> iter[s]]
    BY <1>5 DEF Folds
  <2> QED BY <2>1, <2>2
<1>8. Is(It)
  <2> HIDE DEF Is
  <2> QED BY <1>7
<1>9. UpsertCollected(inputs) = It[1..n]
  <2>1. It = CHOOSE f : f = [s \in SUBSET (DOMAIN inputs) |->
                IF s = {} THEN base ELSE UpsertedInput(f[s \ {Max(s)}], inputs[Max(s)])]
    BY <1>1
  <2> QED BY <1>1, <2>1 DEF UpsertCollected, FoldLeft, MapThenFoldSet, base
<1>10. It[1..0] = base /\ \A k \in 1..n : It[1..k] = UpsertedInput(It[1..(k - 1)], inputs[k])
  <2>1. It = [s \in SUBSET (1..n) |->
                IF s = {} THEN base ELSE UpsertedInput(It[s \ {Max(s)}], inputs[Max(s)])]
    BY <1>8
  <2> HIDE DEF It
  <2>2. 1..0 = {} /\ 1..0 \in SUBSET (1..n)
    OBVIOUS
  <2>3. ASSUME NEW k \in 1..n
        PROVE  It[1..k] = UpsertedInput(It[1..(k - 1)], inputs[k])
    <3>1. /\ 1..k \in SUBSET (1..n) /\ 1..k # {}
          /\ Max(1..k) = k /\ (1..k) \ {k} = 1..(k - 1)
      BY <1>1, LastOfFirst
    <3>2. It[1..k] = UpsertedInput(It[(1..k) \ {Max(1..k)}], inputs[Max(1..k)])
      BY <2>1, <3>1
    <3> QED BY <3>1, <3>2
  <2> QED BY <2>1, <2>2, <2>3
<1> HIDE DEF It
<1> DEFINE typed == {k \in 0..n : It[1..k] \in Stores}
<1>11. 0..n \subseteq typed
  <2>1. 0 \in typed
    BY <1>1, <1>2, <1>10
  <2>2. \A k \in 1..n : k - 1 \in typed => k \in typed
    <3> SUFFICES ASSUME NEW k \in 1..n, k - 1 \in typed PROVE It[1..k] \in Stores
      OBVIOUS
    <3>1. UpsertedInput(It[1..(k - 1)], inputs[k]) \in Stores
      BY <1>1, UpsertedInputType
    <3> QED BY <1>10, <3>1
  <2> HIDE DEF typed
  <2> QED BY <1>1, <2>1, <2>2, UpToInduction
<1> DEFINE store == [k \in 0..n |-> It[1..k]]
<1>12. store \in [0..n -> Stores]
  BY <1>11
<1>13. /\ store[0] = base /\ store[n] = It[1..n]
       /\ \A k \in 1..n : store[k] = It[1..k] /\ store[k - 1] = It[1..(k - 1)]
  BY <1>1, <1>10
<1>14. \A k \in 1..n : store[k] = UpsertedInput(store[k - 1], inputs[k])
  <2> HIDE DEF store
  <2> QED BY <1>10, <1>13
<1> HIDE DEF store
<1> QED BY <1>9, <1>12, <1>13, <1>14 DEF base, n

(* No two rows of an article.                                              *)
AllApart(all) == \A i, j \in DOMAIN all : i # j => ~SameUrlOrTitle(all[i], all[j])

(* No row is lost, nor changed if somebody has decided on it.              *)
Spares(before, after) ==
    /\ DOMAIN before \subseteq DOMAIN after
    /\ \A i \in DOMAIN before : before[i].status # "new" => after[i] = before[i]

LEMMA InputSpares ==
    ASSUME NEW store \in Stores, NEW input \in Inputs, AllApart(store.rows)
    PROVE  /\ AllApart(UpsertedInput(store, input).rows)
           /\ Spares(store.rows, UpsertedInput(store, input).rows)
<1>1. store.rows \in Seq(Rows) /\ store = [rows |-> store.rows, created |-> store.created]
  BY DEF Stores
<1>2. CASE Found(store.rows, input) = {}
  <2> DEFINE row  == Upserted(NewRow(input.url, input.title), input.score)
             all  == Append(store.rows, row)
  <2>1. row \in Rows /\ row.url = input.url /\ row.title = input.title
    BY NewRowType
  <2>2. UpsertedInput(store, input).rows = all
    BY <1>2 DEF UpsertedInput, Inserted
  <2>3. \A i \in DOMAIN store.rows : ~SameUrlOrTitle(store.rows[i], row) /\ ~SameUrlOrTitle(row, store.rows[i])
    BY <1>2, <2>1 DEF Found, SameUrlOrTitle
  <2> HIDE DEF row
  <2>4. /\ DOMAIN all = 1..(Len(store.rows) + 1) /\ DOMAIN store.rows = 1..Len(store.rows)
        /\ \A i \in DOMAIN store.rows : all[i] = store.rows[i]
        /\ all[Len(store.rows) + 1] = row
        /\ \A i \in DOMAIN all : i \in DOMAIN store.rows \/ i = Len(store.rows) + 1
    BY <1>1, <2>1
  <2> HIDE DEF all
  <2>5. AllApart(all)
    BY <2>3, <2>4 DEF AllApart
  <2>6. Spares(store.rows, all)
    BY <1>1, <2>4 DEF Spares
  <2> QED BY <2>2, <2>5, <2>6
<1>3. CASE Found(store.rows, input) # {}
  <2> DEFINE i == CHOOSE i \in Found(store.rows, input) : TRUE
             all == [store.rows EXCEPT ![i] = Upserted(@, input.score)]
  <2>1. i \in DOMAIN store.rows
    BY <1>3 DEF Found
  <2>2. UpsertedInput(store, input).rows = all
    BY <1>1, <1>3 DEF UpsertedInput
  <2> HIDE DEF i
  <2>3. \A j \in DOMAIN store.rows :
           /\ all[j].url = store.rows[j].url /\ all[j].title = store.rows[j].title
           /\ store.rows[j].status # "new" => all[j] = store.rows[j]
    <3>1. store.rows[i] \in Rows /\ input.score \in Nat
      BY <1>1, <2>1 DEF Inputs
    <3>2. /\ Upserted(store.rows[i], input.score).url = store.rows[i].url
          /\ Upserted(store.rows[i], input.score).title = store.rows[i].title
          /\ store.rows[i].status # "new" => Upserted(store.rows[i], input.score) = store.rows[i]
      BY <3>1, UpsertedType
    <3> QED BY <2>1, <3>2
  <2>4. DOMAIN all = DOMAIN store.rows
    OBVIOUS
  <2> HIDE DEF all
  <2>5. AllApart(all)
    BY <2>3, <2>4 DEF AllApart, SameUrlOrTitle
  <2>6. Spares(store.rows, all)
    BY <2>3, <2>4 DEF Spares
  <2> QED BY <2>2, <2>5, <2>6
<1> QED BY <1>2, <1>3

(* However many inputs there are and whatever they share with each other   *)
(* and with the rows, all rows stay apart and no decision is touched.      *)
THEOREM CollectedSpares ==
    ASSUME rows \in Seq(Rows), NEW inputs \in Seq(Inputs), AllApart(rows)
    PROVE  /\ UpsertCollected(inputs) \in Stores
           /\ AllApart(UpsertCollected(inputs).rows)
           /\ Spares(rows, UpsertCollected(inputs).rows)
<1> DEFINE n == Len(inputs)
<1>1. n \in Nat /\ \A k \in 1..n : inputs[k] \in Inputs
  OBVIOUS
<1>2. PICK store \in [0..n -> Stores] :
        /\ store[0] = [rows |-> rows, created |-> {}]
        /\ \A k \in 1..n : store[k] = UpsertedInput(store[k - 1], inputs[k])
        /\ UpsertCollected(inputs) = store[n]
  BY UpsertChain
<1> HIDE DEF n
<1> DEFINE kept == {k \in 0..n : AllApart(store[k].rows) /\ Spares(rows, store[k].rows)}
<1>3. 0..n \subseteq kept
  <2>1. 0 \in kept
    BY <1>1, <1>2 DEF Spares
  <2>2. ASSUME NEW k \in 1..n, k - 1 \in kept
        PROVE  k \in kept
    <3>1. store[k - 1] \in Stores /\ AllApart(store[k - 1].rows) /\ Spares(rows, store[k - 1].rows)
      BY <1>1, <2>2
    <3>2. AllApart(store[k].rows) /\ Spares(store[k - 1].rows, store[k].rows)
      BY <1>1, <1>2, <3>1, InputSpares
    <3>3. Spares(rows, store[k].rows)
      BY <3>1, <3>2 DEF Spares
    <3> QED BY <1>1, <3>2, <3>3
  <2> HIDE DEF kept
  <2> QED BY <1>1, <2>1, <2>2, UpToInduction
<1> QED BY <1>1, <1>2, <1>3

-----------------------------------------------------------------------------
(* The order of a round: candidates of which each comes before or after    *)
(* any other one can be sorted, since no two have as many before them.     *)

Distinct(some) == \A a, b \in some : a.id = b.id /\ a.score = b.score => a = b

AheadOf(some, x) == {y \in some : Before(y, x)}

LEMMA PlacesOrder ==
    ASSUME NEW some, IsFiniteSet(some), \A x \in some : x.id \in Nat /\ x.score \in Nat, Distinct(some)
    PROVE  \A x \in some : /\ Place(some, x) \in 1..Cardinality(some)
                           /\ \A y \in some : Place(some, x) < Place(some, y) => Before(x, y)
                           /\ \A y \in some : Place(some, x) = Place(some, y) => x = y
<1>0. \A x : Place(some, x) = Cardinality(AheadOf(some, x)) + 1
  BY DEF Place, AheadOf
<1>1. ASSUME NEW x \in some
      PROVE  /\ IsFiniteSet(AheadOf(some, x)) /\ Cardinality(AheadOf(some, x)) \in Nat
             /\ Cardinality(AheadOf(some, x)) < Cardinality(some)
             /\ Cardinality(some) \in Nat
  <2>1. AheadOf(some, x) \in SUBSET some /\ x \notin AheadOf(some, x)
    BY DEF AheadOf, Before
  <2>2. /\ IsFiniteSet(AheadOf(some, x)) /\ Cardinality(AheadOf(some, x)) <= Cardinality(some)
        /\ Cardinality(some) = Cardinality(AheadOf(some, x)) => some = AheadOf(some, x)
    BY <2>1, FS_Subset
  <2>3. Cardinality(AheadOf(some, x)) \in Nat /\ Cardinality(some) \in Nat
    BY <2>2, FS_CardinalityType
  <2> QED BY <2>1, <2>2, <2>3
<1>2. ASSUME NEW x \in some, NEW y \in some, Before(y, x)
      PROVE  Place(some, y) < Place(some, x)
  <2>1. AheadOf(some, y) \in SUBSET AheadOf(some, x) /\ y \in AheadOf(some, x) /\ y \notin AheadOf(some, y)
    BY <1>2 DEF AheadOf, Before
  <2>2. /\ Cardinality(AheadOf(some, y)) <= Cardinality(AheadOf(some, x))
        /\ Cardinality(AheadOf(some, x)) = Cardinality(AheadOf(some, y))
             => AheadOf(some, x) = AheadOf(some, y)
    BY <1>1, <2>1, FS_Subset
  <2>3. Cardinality(AheadOf(some, y)) < Cardinality(AheadOf(some, x))
    BY <1>1, <2>1, <2>2
  <2> QED BY <1>0, <1>1, <2>3
<1>3. ASSUME NEW x \in some, NEW y \in some
      PROVE  x = y \/ Before(x, y) \/ Before(y, x)
  <2>1. x.id \in Nat /\ x.score \in Nat /\ y.id \in Nat /\ y.score \in Nat
    OBVIOUS
  <2> QED BY <2>1 DEF Before, Distinct
<1>4. \A x \in some : Place(some, x) \in 1..Cardinality(some)
  BY <1>0, <1>1
<1>5. ASSUME NEW x \in some, NEW y \in some, Place(some, x) < Place(some, y)
      PROVE  Before(x, y)
  BY <1>2, <1>3, <1>4, <1>5
<1>6. ASSUME NEW x \in some, NEW y \in some, Place(some, x) = Place(some, y)
      PROVE  x = y
  BY <1>2, <1>3, <1>4, <1>6
<1> QED BY <1>4, <1>5, <1>6

LEMMA BestFirstType ==
    ASSUME NEW some, IsFiniteSet(some), \A x \in some : x.id \in Nat /\ x.score \in Nat, Distinct(some)
    PROVE  BestFirst(some) \in Seq(Nat)
<1> DEFINE n     == Cardinality(some)
           place == [x \in some |-> Place(some, x)]
<1>1. n \in Nat
  BY FS_CardinalityType
<1>2. place \in Injection(some, 1..n)
  <2>1. place \in [some -> 1..n]
    BY PlacesOrder
  <2>2. \A x, y \in some : place[x] = place[y] => x = y
    BY PlacesOrder
  <2> HIDE DEF place
  <2> QED BY <2>1, <2>2 DEF Injection, IsInjective
<1>3. \A k \in 1..n : \E x \in some : Place(some, x) = k
  <2>1. IsFiniteSet(1..n) /\ Cardinality(1..n) = n
    BY <1>1, FS_Interval
  <2>2. place \in Surjection(some, 1..n)
    <3> HIDE DEF place
    <3> QED BY <1>2, <2>1, FS_Injection
  <2>3. \A k \in 1..n : \E x \in some : place[x] = k
    <3> HIDE DEF place
    <3> QED BY <2>2 DEF Surjection
  <2> QED BY <2>3
<1>4. \A k \in 1..n : (CHOOSE x \in some : Place(some, x) = k).id \in Nat
  BY <1>3
<1>5. BestFirst(some) = [k \in 1..n |-> (CHOOSE x \in some : Place(some, x) = k).id]
  BY DEF BestFirst
<1> QED BY <1>1, <1>4, <1>5

-----------------------------------------------------------------------------
(* The fetches and readings of sources.                                    *)

Closed(f) == f \in FetchStates /\ f.open = IF f.phase \in {"answered", "body"} THEN 1 ELSE 0

LEMMA AllClosed ==
    FetchTypeOK /\ ResponsesClosed <=>
      fetches = [s \in Sources |-> fetches[s]] /\ \A s \in Sources : Closed(fetches[s])
  BY DEF FetchTypeOK, ResponsesClosed, Closed

LEMMA NextClosed ==
    (FetchTypeOK /\ ResponsesClosed)' <=>
      fetches' = [s \in Sources |-> fetches'[s]] /\ \A s \in Sources : Closed(fetches'[s])
  BY DEF FetchTypeOK, ResponsesClosed, Closed

LEMMA TurnKeeps ==
    ASSUME FetchTypeOK /\ ResponsesClosed, NEW s \in Sources, NEW f, Closed(f), Turns(s, f)
    PROVE  (FetchTypeOK /\ ResponsesClosed)'
<1>1. fetches = [t \in Sources |-> fetches[t]] /\ \A t \in Sources : Closed(fetches[t])
  BY AllClosed
<1>2. fetches' = [fetches EXCEPT ![s] = f]
  BY DEF Turns
<1>3. fetches' = [t \in Sources |-> fetches'[t]] /\ \A t \in Sources : Closed(fetches'[t])
  BY <1>1, <1>2
<1> QED BY <1>3, NextClosed

LEMMA StartsClosed ==
    Closed(NoFetch) /\ Closed(Fetching)
<1>1. 0 \in 0..MaxRedirects
  BY FetchAssumption
<1> QED BY <1>1 DEF Closed, NoFetch, Fetching, FetchStates

LEMMA OverClosed ==
    ASSUME NEW f \in FetchStates, NEW result \in FetchCodes \cup {"ok"}
    PROVE  /\ f.open = 0 => Closed(Over(f, result))
           /\ f.open = 1 => Closed(Over(Destroyed(f), result))
<1>1. 0 \in 0..MaxRedirects
  BY FetchAssumption
<1>2. ASSUME NEW g \in FetchStates, g.open = 0
      PROVE  Closed(Over(g, result))
  <2> DEFINE over == [g EXCEPT !.phase = "over", !.result = result, !.expired = FALSE, !.hop = 0]
  <2>1. over \in FetchStates
    BY <1>1 DEF FetchStates
  <2>2. over.phase = "over" /\ over.open = 0
    BY <1>2 DEF FetchStates
  <2> HIDE DEF over
  <2>3. Closed(over)
    BY <2>1, <2>2 DEF Closed
  <2> QED BY <2>3 DEF Over, over
<1>3. ASSUME f.open = 1
      PROVE  Destroyed(f) \in FetchStates /\ Destroyed(f).open = 0
  <2>1. Destroyed(f) = [f EXCEPT !.open = 0]
    BY <1>3 DEF Destroyed
  <2> QED BY <2>1 DEF FetchStates
<1> QED BY <1>2, <1>3

LEMMA FetchKeeps ==
    ASSUME FetchTypeOK /\ ResponsesClosed, NEW s \in Sources, FetchStep(s) \/ Deadline(s)
    PROVE  (FetchTypeOK /\ ResponsesClosed)'
<1> DEFINE f == fetches[s]
<1>1. Closed(f) /\ f \in FetchStates
  BY AllClosed DEF Closed
<1>2. ErrorCode(f) \in FetchCodes
  BY DEF ErrorCode, FetchCodes
<1>3. \E g : Closed(g) /\ Turns(s, g)
  <2>1. CASE Check(s)
    <3>1. Closed([f EXCEPT !.phase = "request"])
      BY <1>1, <2>1 DEF Closed, FetchStates, Check
    <3>2. \A code \in {"fetch_blocked", "fetch_network"} : Closed(Over(f, code))
      BY <1>1, <2>1, OverClosed DEF Closed, FetchCodes, Check
    <3> QED BY <2>1, <3>1, <3>2 DEF Check
  <2>2. CASE RequestFails(s)
    BY <1>1, <1>2, <2>2, OverClosed DEF Closed, RequestFails
  <2>3. CASE RequestAnswered(s)
    <3>1. f.open = 0
      BY <1>1, <2>3 DEF Closed, RequestAnswered
    <3>2. Turns(s, [f EXCEPT !.phase = "answered", !.open = 1])
      BY <2>3, <3>1 DEF RequestAnswered
    <3>3. Closed([f EXCEPT !.phase = "answered", !.open = 1])
      BY <1>1 DEF Closed, FetchStates
    <3> QED BY <3>2, <3>3
  <2>4. CASE Redirect(s)
    <3>1. f.hop \in 0..MaxRedirects /\ f.hop < MaxRedirects /\ f.open = 1
      BY <1>1, <2>4 DEF Closed, FetchStates, Redirect
    <3>2. f.hop + 1 \in 0..MaxRedirects
      BY <3>1, FetchAssumption
    <3>3. Closed(Redirected(f))
      <4> DEFINE hop == f.hop + 1
      <4>1. Redirected(f) = [f EXCEPT !.open = 0, !.phase = "check", !.hop = hop]
        BY <1>1, <3>1 DEF FetchStates, Redirected, Destroyed
      <4> HIDE DEF hop
      <4>2. hop \in 0..MaxRedirects
        BY <3>2 DEF hop
      <4>3. Closed([f EXCEPT !.open = 0, !.phase = "check", !.hop = hop])
        BY <1>1, <4>2 DEF Closed, FetchStates
      <4> QED BY <4>1, <4>3
    <3> QED BY <2>4, <3>3 DEF Redirect
  <2>5. CASE Unacceptable(s)
    <3>1. \A code \in FetchCodes : Closed(Over(Destroyed(f), code))
      BY <1>1, <2>5, OverClosed DEF Closed, Unacceptable
    <3>2. PICK code \in {"fetch_http_error", "fetch_unsupported_type", "fetch_too_large",
                         "fetch_blocked", ErrorCode(f)} : Turns(s, Over(Destroyed(f), code))
      BY <2>5 DEF Unacceptable
    <3>3. code \in FetchCodes
      BY <1>2, <3>2 DEF FetchCodes
    <3> QED BY <3>1, <3>2, <3>3
  <2>6. CASE Accept(s)
    <3>1. Closed([f EXCEPT !.phase = "body"])
      BY <1>1, <2>6 DEF Closed, FetchStates, Accept
    <3> QED BY <2>6, <3>1 DEF Accept
  <2>7. CASE BodyRead(s)
    BY <1>1, <2>7, OverClosed DEF Closed, BodyRead
  <2>8. CASE BodyFails(s)
    <3>1. \A code \in FetchCodes : Closed(Over(Destroyed(f), code))
      BY <1>1, <2>8, OverClosed DEF Closed, BodyFails
    <3>2. PICK code \in {"fetch_too_large", ErrorCode(f)} : Turns(s, Over(Destroyed(f), code))
      BY <2>8 DEF BodyFails
    <3>3. code \in FetchCodes
      BY <1>2, <3>2 DEF FetchCodes
    <3> QED BY <3>1, <3>2, <3>3
  <2>9. CASE Deadline(s)
    <3>1. Closed([f EXCEPT !.expired = TRUE])
      BY <1>1, <2>9 DEF Closed, FetchStates, Deadline
    <3> QED BY <2>9, <3>1 DEF Deadline
  <2> QED BY <2>1, <2>2, <2>3, <2>4, <2>5, <2>6, <2>7, <2>8, <2>9 DEF FetchStep
<1> QED BY <1>3, TurnKeeps

LEMMA NotReadType ==
    /\ NotRead \in Readings
    /\ \A status \in {"idle", "reading", "ok", "failed"} : [NotRead EXCEPT !.status = status] \in Readings
<1>1. 0 \in 0..MaxChildren /\ <<>> \in Seq(Nat)
  BY ReadingAssumption
<1>2. NotRead \in Readings
  BY <1>1 DEF NotRead, Readings
<1>3. \A status \in {"idle", "reading", "ok", "failed"} : [NotRead EXCEPT !.status = status] \in Readings
  BY <1>2 DEF Readings
<1> QED BY <1>2, <1>3

ReadingInv == ReadingTypeOK /\ ResponsesClosed

LEMMA EndedKeeps ==
    ASSUME ReadingInv, NEW s \in Sources, NEW status \in {"ok", "failed"}, Ended(s, status)
    PROVE  ReadingInv'
<1>1. (FetchTypeOK /\ ResponsesClosed)'
  BY TurnKeeps, StartsClosed DEF ReadingInv, ReadingTypeOK, Ended
<1>2. reading' \in [Sources -> Readings]
  BY NotReadType DEF ReadingInv, ReadingTypeOK, Ended
<1> QED BY <1>1, <1>2 DEF ReadingInv, ReadingTypeOK

(* The innermost index with sitemaps that were not looked at.              *)
LEMMA InnermostExists ==
    ASSUME NEW r \in Readings, Unread(r) # {}
    PROVE  \E k \in Unread(r) : \A l \in Unread(r) : l <= k
<1>1. Len(r.pending) \in Nat /\ Unread(r) \in SUBSET (1..Len(r.pending))
  BY DEF Readings, Unread
<1> QED BY <1>1, MaxIsMember

LEMMA ProceedKeeps ==
    ASSUME ReadingInv, NEW s \in Sources, NEW r \in Readings, Proceed(s, r)
    PROVE  ReadingInv'
<1>1. CASE Unread(r) = {} \/ r.children = MaxChildren
  BY <1>1, EndedKeeps DEF Proceed
<1>2. CASE ~(Unread(r) = {} \/ r.children = MaxChildren)
  <2> DEFINE k == CHOOSE k \in Unread(r) : \A l \in Unread(r) : l <= k
             left == [SubSeq(r.pending, 1, k) EXCEPT ![k] = @ - 1]
             more == r.children + 1
             next == [r EXCEPT !.pending = left, !.children = more]
  <2>1. k \in Unread(r)
    BY <1>2, InnermostExists
  <2>2. /\ reading' = [reading EXCEPT ![s] = next]
        /\ Turns(s, Fetching)
    BY <1>2 DEF Proceed
  <2> HIDE DEF k
  <2>3. r.pending \in Seq(Nat) /\ k \in 1..Len(r.pending) /\ r.pending[k] \in Nat /\ r.pending[k] > 0
    BY <2>1 DEF Unread, Readings
  <2>4. /\ SubSeq(r.pending, 1, k) \in Seq(Nat) /\ Len(SubSeq(r.pending, 1, k)) = k
        /\ SubSeq(r.pending, 1, k)[k] = r.pending[k]
    BY <2>3
  <2>5. left \in Seq(Nat)
    BY <2>3, <2>4
  <2> HIDE DEF left
  <2>6. more \in 0..MaxChildren
    BY <1>2, ReadingAssumption DEF Readings
  <2> HIDE DEF more
  <2>7. next \in Readings
    BY <2>5, <2>6 DEF Readings
  <2>8. reading' \in [Sources -> Readings]
    BY <2>2, <2>7 DEF ReadingInv, ReadingTypeOK
  <2>9. (FetchTypeOK /\ ResponsesClosed)'
    BY <2>2, TurnKeeps, StartsClosed DEF ReadingInv, ReadingTypeOK
  <2> QED BY <2>8, <2>9 DEF ReadingInv, ReadingTypeOK
<1> QED BY <1>1, <1>2

LEMMA ReadKeeps ==
    ASSUME ReadingInv, NEW s \in Sources, ReadStep(s)
    PROVE  ReadingInv'
<1>1. CASE (FetchStep(s) \/ Deadline(s)) /\ UNCHANGED reading
  BY <1>1, FetchKeeps DEF ReadingInv, ReadingTypeOK
<1>2. reading[s] \in Readings
  BY DEF ReadingInv, ReadingTypeOK
<1>3. CASE ReadEntries(s)
  BY <1>2, <1>3, ProceedKeeps DEF ReadEntries
<1>4. CASE ReadIndex(s)
  <2>1. PICK listed \in 0..MaxListed :
          Proceed(s, IF Depth(reading[s]) < MaxDepth
                     THEN [reading[s] EXCEPT !.pending = Append(@, listed)]
                     ELSE reading[s])
    BY <1>4 DEF ReadIndex
  <2>2. listed \in Nat
    BY ReadingAssumption
  <2>3. [reading[s] EXCEPT !.pending = Append(@, listed)] \in Readings
    <3> DEFINE more == Append(reading[s].pending, listed)
    <3>1. more \in Seq(Nat)
      BY <1>2, <2>2 DEF Readings
    <3> HIDE DEF more
    <3>2. [reading[s] EXCEPT !.pending = more] \in Readings
      BY <1>2, <3>1 DEF Readings
    <3> QED BY <3>2 DEF more
  <2> QED BY <1>2, <2>1, <2>3, ProceedKeeps
<1>5. CASE Broken(s)
  BY <1>2, <1>5, ProceedKeeps, EndedKeeps DEF Broken
<1> QED BY <1>1, <1>3, <1>4, <1>5 DEF ReadStep

LEMMA StartKeeps ==
    ASSUME ReadingInv, StartReading
    PROVE  ReadingInv'
<1>1. (FetchTypeOK /\ ResponsesClosed)'
  BY StartsClosed, NextClosed DEF StartReading
<1>2. reading' \in [Sources -> Readings]
  BY NotReadType DEF StartReading
<1> QED BY <1>1, <1>2 DEF ReadingInv, ReadingTypeOK

-----------------------------------------------------------------------------
(* What the sources offer together are entries.                            *)

AllEntries == Entries(Urls, Candidates, Weights)

LEMMA KeptType ==
    ASSUME NEW s, NEW w \in Weights
    PROVE  Kept(s, w) \subseteq Seq(AllEntries)
<1> DEFINE most == IF reading[s].status = "failed" THEN 0
                   ELSE IF s \in Sitemaps THEN MaxEntries
                   ELSE MaxFeed
<1>1. most \in Nat
  BY ResearchAssumption
<1>2. Kept(s, w) = UNION {[1..n -> Entries(Urls, Candidates, {w})] : n \in 0..most}
  BY DEF Kept
<1> HIDE DEF most
<1>3. Entries(Urls, Candidates, {w}) \subseteq AllEntries
  BY DEF Entries, AllEntries
<1>4. ASSUME NEW n \in 0..most, NEW l \in [1..n -> Entries(Urls, Candidates, {w})]
      PROVE  l \in Seq(AllEntries)
  <2>0. n \in Nat
    BY <1>1
  <2>1. l \in [1..n -> AllEntries]
    <3> DEFINE E == Entries(Urls, Candidates, {w})
    <3> HIDE DEF E
    <3>1. E \subseteq AllEntries /\ l \in [1..n -> E]
      BY <1>3 DEF E
    <3> QED BY <3>1
  <2> QED BY <2>0, <2>1
<1> QED BY <1>2, <1>4

LEMMA SourcesListed ==
    LET s == SetToSeq(Sources)
    IN  Len(s) \in Nat /\ DOMAIN s = 1..Len(s) /\ \A i \in 1..Len(s) : s[i] \in Sources
<1> DEFINE s == SetToSeq(Sources)
           n == Cardinality(Sources)
<1>1. n \in Nat /\ ExistsBijection(1..n, Sources)
  BY FS_CardinalityType, ResearchAssumption
<1>2. s \in [1..n -> Sources]
  <2>1. PICK b : b \in Bijection(1..n, Sources)
    BY <1>1 DEF ExistsBijection
  <2>2. b \in [1..n -> Sources] /\ IsInjective(b)
    BY <2>1 DEF Bijection, Injection, IsInjective
  <2> QED BY <2>2 DEF SetToSeq
<1>3. Len(s) = n /\ DOMAIN s = 1..n
  <2> HIDE DEF s, n
  <2>1. s \in Seq(Sources)
    BY <1>1, <1>2
  <2> QED BY <1>1, <1>2, <2>1
<1> HIDE DEF s, n
<1> QED BY <1>1, <1>2, <1>3 DEF s

LEMMA OffersType ==
    ASSUME NEW weight \in [Sources -> Weights]
    PROVE  Offers(weight) \subseteq Seq(AllEntries)
<1> DEFINE list  == SetToSeq(Sources)
           n     == Len(list)
           V     == SUBSET Seq(AllEntries)
           base  == {<<>>}
           On(lists, s) == {l \o k : l \in lists, k \in Kept(s, weight[s])}
           step  == [p \in V \X (1..n) |-> On(p[1], list[p[2]])]
           Is(f) == f = [s \in SUBSET (1..n) |->
                           IF s = {} THEN base ELSE On(f[s \ {Max(s)}], list[Max(s)])]
           It    == CHOOSE f : Is(f)
<1>1. n \in Nat /\ DOMAIN list = 1..n /\ \A i \in 1..n : list[i] \in Sources
  BY SourcesListed
<1> HIDE DEF list
<1>2. base \in V
  OBVIOUS
<1>3. ASSUME NEW v \in V, NEW k \in 1..n
      PROVE  On(v, list[k]) \in V
  <2>1. Kept(list[k], weight[list[k]]) \subseteq Seq(AllEntries)
    BY <1>1, KeptType
  <2>2. \A a, b \in Seq(AllEntries) : a \o b \in Seq(AllEntries)
    OBVIOUS
  <2> DEFINE K == Kept(list[k], weight[list[k]])
             W == Seq(AllEntries)
  <2>3. \A a \in v, b \in K : a \o b \in W
    BY <2>1, <2>2
  <2> HIDE DEF K, W
  <2>4. ASSUME NEW l \in {a \o b : a \in v, b \in K}
        PROVE  l \in W
    <3>1. PICK a \in v, b \in K : l = a \o b
      OBVIOUS
    <3> QED BY <2>3, <3>1
  <2> QED BY <2>4 DEF K, W
<1>4. step \in Steps(V, n) /\ \A v \in V, k \in 1..n : step[<<v, k>>] = On(v, list[k])
  <2>1. ASSUME NEW p \in V \X (1..n)
        PROVE  On(p[1], list[p[2]]) \in V
    <3> HIDE DEF V, On
    <3> QED BY <1>3
  <2> HIDE DEF V, On, n
  <2> QED BY <2>1 DEF Steps
<1> HIDE DEF V, base, step, On
<1>5. PICK iter : Folds(iter, V, base, n, step)
  <2> HIDE DEF n
  <2> QED BY <1>1, <1>2, <1>4, FoldExists
<1>6. ASSUME NEW s \in SUBSET (1..n), s # {}
      PROVE  s \ {Max(s)} \in SUBSET (1..n) /\ Max(s) \in 1..n
  BY <1>1, <1>6, MaxIsMember
<1>7. Is(iter)
  <2>1. ASSUME NEW s \in SUBSET (1..n)
        PROVE  iter[s] = IF s = {} THEN base ELSE On(iter[s \ {Max(s)}], list[Max(s)])
    <3>1. CASE s = {}
      BY <1>5, <3>1 DEF Folds
    <3>2. CASE s # {}
      <4>1. iter[s \ {Max(s)}] \in V
        BY <1>5, <1>6, <3>2 DEF Folds
      <4>2. iter[s] = step[<<iter[s \ {Max(s)}], Max(s)>>]
        BY <1>5, <3>2 DEF Folds
      <4> QED BY <1>4, <1>6, <3>2, <4>1, <4>2
    <3> QED BY <3>1, <3>2
  <2>2. iter = [s \in SUBSET (1..n) |-> iter[s]]
    BY <1>5 DEF Folds
  <2> QED BY <2>1, <2>2
<1>8. Is(It)
  <2> HIDE DEF Is
  <2> QED BY <1>7
<1>9. Offers(weight) = It[1..n]
  <2>1. It = CHOOSE f : f = [s \in SUBSET (DOMAIN list) |->
                IF s = {} THEN base ELSE On(f[s \ {Max(s)}], list[Max(s)])]
    BY <1>1
  <2> QED BY <1>1, <2>1 DEF Offers, FoldLeft, MapThenFoldSet, base, On, list
<1>10. It[1..0] = base /\ \A k \in 1..n : It[1..k] = On(It[1..(k - 1)], list[k])
  <2>1. It = [s \in SUBSET (1..n) |->
                IF s = {} THEN base ELSE On(It[s \ {Max(s)}], list[Max(s)])]
    BY <1>8
  <2> HIDE DEF It
  <2>2. 1..0 = {} /\ 1..0 \in SUBSET (1..n)
    OBVIOUS
  <2>3. ASSUME NEW k \in 1..n
        PROVE  It[1..k] = On(It[1..(k - 1)], list[k])
    <3>1. /\ 1..k \in SUBSET (1..n) /\ 1..k # {}
          /\ Max(1..k) = k /\ (1..k) \ {k} = 1..(k - 1)
      BY <1>1, LastOfFirst
    <3>2. It[1..k] = On(It[(1..k) \ {Max(1..k)}], list[Max(1..k)])
      BY <2>1, <3>1
    <3> QED BY <3>1, <3>2
  <2> QED BY <2>1, <2>2, <2>3
<1> HIDE DEF It
<1> DEFINE typed == {k \in 0..n : It[1..k] \in V}
<1>11. 0..n \subseteq typed
  <2>1. 0 \in typed
    BY <1>1, <1>2, <1>10
  <2>2. \A k \in 1..n : k - 1 \in typed => k \in typed
    <3> SUFFICES ASSUME NEW k \in 1..n, k - 1 \in typed PROVE It[1..k] \in V
      OBVIOUS
    <3> QED BY <1>3, <1>10
  <2> HIDE DEF typed
  <2> QED BY <1>1, <2>1, <2>2, UpToInduction
<1> QED BY <1>1, <1>9, <1>11 DEF V

-----------------------------------------------------------------------------
(* The invariant: a row is stored for each entry that was kept, so that    *)
(* the rows have their type only because the merge makes nothing up.       *)
IInv == TypeOK /\ ResponsesClosed /\ EntriesCollapse /\ RowsApart

RowsInv(all) == all \in Seq(Rows) /\ AllApart(all) /\ awaited \subseteq DOMAIN all

(* A row whose URL and title remain.                                       *)
LEMMA RowReplaced ==
    ASSUME rows \in Seq(Rows), AllApart(rows), NEW i \in DOMAIN rows, NEW row \in Rows,
           row.url = rows[i].url, row.title = rows[i].title
    PROVE  /\ [rows EXCEPT ![i] = row] \in Seq(Rows)
           /\ DOMAIN [rows EXCEPT ![i] = row] = DOMAIN rows
           /\ AllApart([rows EXCEPT ![i] = row])
<1> DEFINE all == [rows EXCEPT ![i] = row]
<1>1. all \in Seq(Rows) /\ DOMAIN all = DOMAIN rows
  OBVIOUS
<1>2. \A j \in DOMAIN rows : all[j].url = rows[j].url /\ all[j].title = rows[j].title
  OBVIOUS
<1> HIDE DEF all
<1>3. AllApart(all)
  BY <1>1, <1>2 DEF AllApart, SameUrlOrTitle
<1> QED BY <1>1, <1>3 DEF all

LEMMA ProposalKeeps ==
    ASSUME rows \in Seq(Rows), AllApart(rows), NEW i
    PROVE  /\ WithProposal(i) \in Seq(Rows) /\ DOMAIN WithProposal(i) = DOMAIN rows
           /\ AllApart(WithProposal(i))
           /\ \A j \in DOMAIN rows : [WithProposal(i)[j] EXCEPT !.enriched = rows[j].enriched] = rows[j]
<1>0. \A j \in DOMAIN rows : rows[j] \in Rows
  OBVIOUS
<1>1. CASE i \in DOMAIN rows
  <2> DEFINE row == [rows[i] EXCEPT !.enriched = TRUE]
  <2>1. row \in Rows /\ row.url = rows[i].url /\ row.title = rows[i].title
        /\ [row EXCEPT !.enriched = rows[i].enriched] = rows[i]
    BY <1>0, <1>1 DEF Rows
  <2>2. WithProposal(i) = [rows EXCEPT ![i] = row]
    BY DEF WithProposal
  <2> HIDE DEF row
  <2>3. \A j \in DOMAIN rows : [rows[j] EXCEPT !.enriched = rows[j].enriched] = rows[j]
    BY <1>0 DEF Rows
  <2>4. ASSUME NEW j \in DOMAIN rows
        PROVE  [WithProposal(i)[j] EXCEPT !.enriched = rows[j].enriched] = rows[j]
    <3>1. CASE j = i
      <4>1. WithProposal(i)[j] = row
        BY <2>2, <3>1
      <4> QED BY <2>1, <3>1, <4>1
    <3>2. CASE j # i
      <4>1. WithProposal(i)[j] = rows[j]
        BY <2>2, <3>2
      <4> QED BY <2>3, <4>1
    <3> QED BY <3>1, <3>2
  <2>5. /\ WithProposal(i) \in Seq(Rows) /\ DOMAIN WithProposal(i) = DOMAIN rows
        /\ AllApart(WithProposal(i))
    BY <1>1, <2>1, <2>2, RowReplaced
  <2> QED BY <2>4, <2>5
<1>2. CASE i \notin DOMAIN rows
  <2>1. WithProposal(i) = rows
    BY <1>2 DEF WithProposal
  <2>2. \A j \in DOMAIN rows : [rows[j] EXCEPT !.enriched = rows[j].enriched] = rows[j]
    BY <1>0 DEF Rows
  <2> QED BY <2>1, <2>2
<1> QED BY <1>1, <1>2

LEMMA DecisionKeeps ==
    ASSUME NEW row \in Rows
    PROVE  /\ \A brief \in Briefs :
                /\ Accepted(row, row.status, brief) \in Rows
                /\ Accepted(row, row.status, brief).url = row.url
                /\ Accepted(row, row.status, brief).title = row.title
           /\ Dropped(row, row.status) \in Rows
           /\ Dropped(row, row.status).url = row.url /\ Dropped(row, row.status).title = row.title
           /\ Used(row, row.status, 1) \in Rows
           /\ Used(row, row.status, 1).url = row.url /\ Used(row, row.status, 1).title = row.title
<1>1. Raced(row, row.status) \in BOOLEAN
  BY DEF Raced, Rows
<1> QED BY <1>1 DEF Accepted, Dropped, Used, Rows, CandidateStatuses

LEMMA FirstOfType ==
    ASSUME NEW list \in Seq(Nat)
    PROVE  FirstOf(list, EnrichLimit) \in Seq(Nat)
<1>1. EnrichLimit \in Nat
  BY ResearchAssumption
<1> DEFINE n == IF EnrichLimit < Len(list) THEN EnrichLimit ELSE Len(list)
<1>2. n \in Nat /\ n <= Len(list)
  BY <1>1
<1> HIDE DEF n
<1>3. SubSeq(list, 1, n) \in Seq(Nat)
  BY <1>2
<1> QED BY <1>3 DEF FirstOf, n

(* The rows a round of its own is begun with.                              *)
LEMMA WaitingType ==
    ASSUME NEW some \in SUBSET DOMAIN rows, rows \in Seq(Rows), NEW list \in ByScore(some)
    PROVE  list \in Seq(Nat)
<1>1. IsFiniteSet(some) /\ some \subseteq Nat
  <2>1. IsFiniteSet(1..Len(rows)) /\ some \subseteq 1..Len(rows)
    BY FS_Interval
  <2> QED BY <2>1, FS_Subset
<1>2. Cardinality(some) \in Nat
  BY <1>1, FS_CardinalityType
<1>3. list \in [1..Cardinality(some) -> some]
  BY DEF ByScore, SetToSeqs
<1> QED BY <1>1, <1>2, <1>3

(* What is stored, whatever the scores and the order.                      *)
LEMMA StoredInputs ==
    ASSUME TypeOK, EntriesCollapse, phase = "merged",
           NEW score \in Scorings(Range(merged)), NEW order \in SetToSeqs(DOMAIN score)
    PROVE  [k \in DOMAIN order |-> [url   |-> offered[order[k]].url,
                                    title |-> offered[order[k]].title,
                                    score |-> score[order[k]]]] \in Seq(Inputs)
<1> DEFINE n == Cardinality(DOMAIN score)
           input(k) == [url   |-> offered[order[k]].url,
                        title |-> offered[order[k]].title,
                        score |-> score[order[k]]]
<1>1. merged \in Seq(Nat) /\ offered \in Seq(AllEntries) /\ \A e \in Range(merged) : e \in DOMAIN offered
  BY DEF TypeOK, AllEntries, EntriesCollapse, Collapses, Range
<1>2. PICK D \in SUBSET Range(merged) : score \in [D -> Scores]
  BY DEF Scorings
<1>3. IsFiniteSet(Range(merged))
  <2>1. merged \in Surjection(1..Len(merged), Range(merged))
    BY <1>1 DEF Surjection, Range
  <2>2. IsFiniteSet(1..Len(merged))
    BY <1>1, FS_Interval
  <2> QED BY <2>1, <2>2, FS_Surjection
<1>4. n \in Nat
  BY <1>2, <1>3, FS_Subset, FS_CardinalityType
<1>5. order \in [1..n -> D]
  BY <1>2 DEF SetToSeqs
<1> HIDE DEF n
<1>6. ASSUME NEW k \in 1..n
      PROVE  input(k) \in Inputs
  <2>1. order[k] \in D /\ order[k] \in DOMAIN offered
    BY <1>1, <1>2, <1>5
  <2>2. offered[order[k]].url \in Urls /\ offered[order[k]].title \in Candidates
    <3>1. offered[order[k]] \in AllEntries
      BY <1>1, <2>1
    <3> QED BY <3>1 DEF AllEntries, Entries
  <2>3. score[order[k]] \in Nat
    BY <1>2, <2>1, BacklogAssumption
  <2> QED BY <2>2, <2>3 DEF Inputs
<1> HIDE DEF input
<1>7. [k \in 1..n |-> input(k)] \in Seq(Inputs)
  BY <1>4, <1>6
<1> QED BY <1>5, <1>7 DEF input

LEMMA FreshType ==
    ASSUME NEW created \in SUBSET Created, IsFiniteSet(created)
    PROVE  BestFirst({c \in created : c.status = "new"}) \in Seq(Nat)
<1> DEFINE fresh == {c \in created : c.status = "new"}
<1>1. fresh \in SUBSET created /\ \A c \in fresh : c.status = "new" /\ c \in Created
  OBVIOUS
<1> HIDE DEF fresh
<1>2. IsFiniteSet(fresh)
  BY <1>1, FS_Subset
<1>3. \A x \in fresh : x.id \in Nat /\ x.score \in Nat
  BY <1>1 DEF Created
<1>4. Distinct(fresh)
  BY <1>1 DEF Distinct, Created
<1>5. BestFirst(fresh) \in Seq(Nat)
  BY <1>2, <1>3, <1>4, BestFirstType
<1> QED BY <1>5 DEF fresh

(* No step but a decision changes what was decided.                        *)
DecisionsStay ==
    \A i \in DOMAIN rows :
        rows[i].status # "new" /\ decisions' = decisions
        => [rows'[i] EXCEPT !.enriched = rows[i].enriched] = rows[i]

LEMMA SameRowsStay ==
    ASSUME rows \in Seq(Rows), rows' = rows
    PROVE  DecisionsStay
<1>1. \A i \in DOMAIN rows : rows[i] \in Rows
  OBVIOUS
<1> QED BY <1>1 DEF DecisionsStay, Rows

LEMMA InitIInv == Init => IInv
<1> SUFFICES ASSUME Init PROVE IInv
  OBVIOUS
<1>1. ReadingTypeOK /\ ResponsesClosed
  <2>1. FetchTypeOK /\ ResponsesClosed
    BY StartsClosed, AllClosed DEF Init, ReadingInit, FetchInit
  <2>2. reading \in [Sources -> Readings]
    BY NotReadType DEF Init, ReadingInit
  <2> QED BY <2>1, <2>2 DEF ReadingTypeOK
<1>2. rows \in Seq(Rows) /\ RowsApart
  <2>1. CASE rows = <<>>
    BY <2>1 DEF RowsApart
  <2>2. ASSUME NEW status \in CandidateStatuses \ {"absent"},
               rows = <<[NewRow(CHOOSE u \in Urls : TRUE, CHOOSE t \in Candidates : TRUE)
                           EXCEPT !.status = status]>>
        PROVE  rows \in Seq(Rows) /\ RowsApart
    <3> DEFINE row == [NewRow(CHOOSE u \in Urls : TRUE, CHOOSE t \in Candidates : TRUE)
                         EXCEPT !.status = status]
    <3>1. (CHOOSE u \in Urls : TRUE) \in Urls /\ (CHOOSE t \in Candidates : TRUE) \in Candidates
      BY ResearchAssumption
    <3>2. row \in Rows
      BY <3>1 DEF NewRow, Rows, Briefs
    <3> HIDE DEF row
    <3>3. rows = <<row>>
      BY <2>2 DEF row
    <3> QED BY <3>2, <3>3 DEF RowsApart
  <2> QED BY <2>1, <2>2 DEF Init
<1>3. TypeOK
  BY <1>1, <1>2, ResearchAssumption DEF Init, TypeOK, Phases, NoRound, Rounds
<1>4. EntriesCollapse
  BY DEF Init, EntriesCollapse
<1> QED BY <1>1, <1>2, <1>3, <1>4 DEF IInv

(* A step that leaves the rows alone.                                      *)
LEMMA SourcesStep ==
    ASSUME IInv, ReadingInv', phase' \in Phases, round' \in Rounds,
           UNCHANGED <<rows, peopleVars>>,
           offered' \in Seq(AllEntries), merged' \in Seq(Nat), EntriesCollapse'
    PROVE  IInv' /\ DecisionsStay
<1>1. TypeOK'
  BY DEF IInv, ReadingInv, TypeOK, peopleVars, AllEntries
<1>2. RowsApart'
  BY DEF IInv, RowsApart
<1>3. DecisionsStay
  BY SameRowsStay DEF IInv, TypeOK
<1> QED BY <1>1, <1>2, <1>3 DEF IInv, ReadingInv

(* A step that leaves the collection alone.                                *)
LEMMA RowsStep ==
    ASSUME IInv, UNCHANGED collectVars, round' \in Rounds,
           rows' \in Seq(Rows), AllApart(rows'), awaited' \subseteq DOMAIN rows',
           decisions' \in 0..MaxDecisions, requests' \in 0..MaxRequests
    PROVE  IInv'
<1>1. (ReadingTypeOK /\ ResponsesClosed)'
  BY DEF IInv, TypeOK, ReadingTypeOK, FetchTypeOK, ResponsesClosed, collectVars
<1>2. TypeOK'
  BY <1>1 DEF IInv, TypeOK, collectVars
<1>3. EntriesCollapse'
  BY DEF IInv, EntriesCollapse, collectVars
<1>4. RowsApart'
  BY DEF RowsApart, AllApart
<1> QED BY <1>1, <1>2, <1>3, <1>4 DEF IInv

LEMMA CollectKeeps ==
    ASSUME IInv, Collect
    PROVE  IInv' /\ DecisionsStay
<1>1. ReadingInv'
  BY StartKeeps DEF IInv, TypeOK, ReadingInv, Collect
<1>2. EntriesCollapse'
  BY DEF Collect, EntriesCollapse
<1> QED BY <1>1, <1>2, SourcesStep DEF Collect, IInv, TypeOK, Phases, AllEntries

LEMMA ReadOneKeeps ==
    ASSUME IInv, NEW s \in Sources, Read(s)
    PROVE  IInv' /\ DecisionsStay
<1>1. ReadingInv'
  BY ReadKeeps DEF IInv, TypeOK, ReadingInv, Read
<1>2. EntriesCollapse'
  BY DEF Read, EntriesCollapse
<1> QED BY <1>1, <1>2, SourcesStep DEF Read, IInv, TypeOK, AllEntries

LEMMA MergeKeeps ==
    ASSUME IInv, Merge
    PROVE  IInv' /\ DecisionsStay
<1>1. ReadingInv'
  <2>1. reading' \in [Sources -> Readings]
    BY NotReadType DEF Merge
  <2> QED BY <2>1 DEF Merge, IInv, TypeOK, ReadingInv, ReadingTypeOK, FetchTypeOK, ResponsesClosed
<1>2. offered' \in Seq(AllEntries)
  BY OffersType DEF Merge
<1>3. Collapses(offered', merged') /\ merged' \in Seq(Nat)
  BY <1>2, ResearchAssumption, MergeCollapses DEF Merge, AllEntries
<1>4. EntriesCollapse'
  BY <1>3 DEF EntriesCollapse
<1> QED BY <1>1, <1>2, <1>3, <1>4, SourcesStep DEF Merge, IInv, TypeOK, Phases

LEMMA StoreKeeps ==
    ASSUME IInv, Store
    PROVE  IInv' /\ DecisionsStay
<1>1. phase = "merged" /\ phase' = "enriching" /\ offered' = <<>> /\ merged' = <<>>
      /\ UNCHANGED <<fetches, reading, peopleVars>>
  BY DEF Store
<1>2. TypeOK /\ EntriesCollapse /\ rows \in Seq(Rows) /\ AllApart(rows)
  BY DEF IInv, TypeOK, RowsApart, AllApart
<1>3. PICK score \in Scorings(Range(merged)) : \E order \in SetToSeqs(DOMAIN score) :
         LET inputs == [k \in DOMAIN order |-> [url   |-> offered[order[k]].url,
                                                title |-> offered[order[k]].title,
                                                score |-> score[order[k]]]]
             store  == UpsertCollected(inputs)
             fresh  == {c \in store.created : c.status = "new"}
         IN  /\ rows' = store.rows
             /\ round' = [NoRound EXCEPT !.todo = FirstOf(BestFirst(fresh), EnrichLimit)]
  BY DEF Store
<1>4. PICK order \in SetToSeqs(DOMAIN score) :
         LET inputs == [k \in DOMAIN order |-> [url   |-> offered[order[k]].url,
                                                title |-> offered[order[k]].title,
                                                score |-> score[order[k]]]]
             store  == UpsertCollected(inputs)
             fresh  == {c \in store.created : c.status = "new"}
         IN  /\ rows' = store.rows
             /\ round' = [NoRound EXCEPT !.todo = FirstOf(BestFirst(fresh), EnrichLimit)]
  BY <1>3
<1> DEFINE inputs == [k \in DOMAIN order |-> [url   |-> offered[order[k]].url,
                                              title |-> offered[order[k]].title,
                                              score |-> score[order[k]]]]
           store  == UpsertCollected(inputs)
           fresh  == {c \in store.created : c.status = "new"}
<1>5. inputs \in Seq(Inputs)
  BY <1>1, <1>2, StoredInputs
<1>6. rows' = store.rows /\ round' = [NoRound EXCEPT !.todo = FirstOf(BestFirst(fresh), EnrichLimit)]
  BY <1>4
<1> HIDE DEF inputs
<1>7. store \in Stores /\ AllApart(store.rows) /\ Spares(rows, store.rows)
  BY <1>2, <1>5, CollectedSpares
<1> HIDE DEF store
<1>8. store.rows \in Seq(Rows) /\ store.created \in SUBSET Created /\ IsFiniteSet(store.created)
  BY <1>7 DEF Stores
<1>9. FirstOf(BestFirst(fresh), EnrichLimit) \in Seq(Nat)
  BY <1>8, FreshType, FirstOfType
<1>10. round' \in Rounds
  <2> DEFINE todo == FirstOf(BestFirst(fresh), EnrichLimit)
  <2>1. todo \in Seq(Nat) /\ round' = [NoRound EXCEPT !.todo = todo]
    BY <1>6, <1>9
  <2> HIDE DEF todo
  <2> QED BY <2>1 DEF NoRound, Rounds
<1>11. (ReadingTypeOK /\ ResponsesClosed)'
  BY <1>1 DEF IInv, TypeOK, ReadingTypeOK, FetchTypeOK, ResponsesClosed
<1>12. (awaited \subseteq DOMAIN rows /\ decisions \in 0..MaxDecisions /\ requests \in 0..MaxRequests)'
  BY <1>1, <1>2, <1>6, <1>7 DEF TypeOK, peopleVars, Spares
<1>13. TypeOK'
  BY <1>1, <1>6, <1>8, <1>10, <1>11, <1>12 DEF TypeOK, Phases
<1>14. EntriesCollapse' /\ RowsApart'
  BY <1>1, <1>6, <1>7 DEF EntriesCollapse, RowsApart, AllApart
<1>15. DecisionsStay
  <2>1. \A i \in DOMAIN rows : rows[i] \in Rows
    BY <1>2
  <2>2. \A i \in DOMAIN rows : rows[i].status # "new" => rows'[i] = rows[i]
    BY <1>6, <1>7 DEF Spares
  <2> QED BY <2>1, <2>2 DEF DecisionsStay, Rows
<1> QED BY <1>11, <1>13, <1>14, <1>15 DEF IInv

LEMMA EnrichTopKeeps ==
    ASSUME IInv, EnrichTop
    PROVE  IInv' /\ DecisionsStay
<1> DEFINE waiting == {i \in DOMAIN rows : rows[i].status = "new" /\ ~rows[i].enriched}
<1>1. PICK list \in ByScore(waiting) : round' = [NoRound EXCEPT !.todo = FirstOf(list, EnrichLimit)]
  BY DEF EnrichTop
<1> DEFINE todo == FirstOf(list, EnrichLimit)
<1>2. round' = [NoRound EXCEPT !.todo = todo]
  BY <1>1
<1>3. todo \in Seq(Nat)
  BY WaitingType, FirstOfType DEF IInv, TypeOK
<1> HIDE DEF todo
<1>4. round' \in Rounds
  BY <1>2, <1>3 DEF NoRound, Rounds
<1>5. ReadingInv' /\ EntriesCollapse'
  BY DEF EnrichTop, IInv, TypeOK, ReadingInv, ReadingTypeOK, FetchTypeOK, ResponsesClosed, EntriesCollapse
<1> QED BY <1>4, <1>5, SourcesStep DEF EnrichTop, IInv, TypeOK, Phases, AllEntries

LEMMA RoundKeeps ==
    ASSUME IInv, RoundStep
    PROVE  IInv' /\ DecisionsStay
<1>1. rows \in Seq(Rows) /\ AllApart(rows) /\ round \in Rounds
      /\ awaited \subseteq DOMAIN rows /\ decisions \in 0..MaxDecisions /\ requests \in 0..MaxRequests
  BY DEF IInv, TypeOK, RowsApart, AllApart
<1>2. MaxProposal \in Nat
  BY ResearchAssumption
<1>3. CASE Ask
  <2>1. Head(round.todo) \in Nat /\ Tail(round.todo) \in Seq(Nat)
    BY <1>1, <1>3 DEF Ask, Rounds
  <2>2. round' \in Rounds
    <3> DEFINE next == Head(round.todo)
               rest == Tail(round.todo)
    <3>1. round' = [round EXCEPT !.asked = next, !.todo = rest]
      BY <1>3 DEF Ask
    <3> HIDE DEF next, rest
    <3>2. next \in Nat /\ rest \in Seq(Nat)
      BY <2>1 DEF next, rest
    <3> QED BY <1>1, <3>1, <3>2 DEF Rounds
  <2> QED BY <1>1, <1>3, <2>2, RowsStep, SameRowsStay DEF Ask, peopleVars
<1>4. CASE Proposed
  <2>1. rows' = WithProposal(round.asked) /\ UNCHANGED <<collectVars, peopleVars>>
    BY <1>4 DEF Proposed
  <2>2. round' \in Rounds
    <3>1. PICK cost \in 0..MaxProposal :
            round' = [round EXCEPT !.asked = 0, !.costUsd = @ + cost, !.spent = @ + cost]
      BY <1>4 DEF Proposed
    <3> DEFINE counted == round.costUsd + cost
               spent   == round.spent + cost
    <3>2. counted \in Nat /\ spent \in Nat
      BY <1>1, <1>2 DEF Rounds
    <3>3. round' = [round EXCEPT !.asked = 0, !.costUsd = counted, !.spent = spent]
      BY <1>1, <3>1 DEF Rounds
    <3> HIDE DEF counted, spent
    <3> QED BY <1>1, <3>2, <3>3 DEF Rounds
  <2>3. /\ rows' \in Seq(Rows) /\ DOMAIN rows' = DOMAIN rows /\ AllApart(rows')
        /\ \A j \in DOMAIN rows : [rows'[j] EXCEPT !.enriched = rows[j].enriched] = rows[j]
    BY <1>1, <2>1, ProposalKeeps
  <2>4. IInv'
    BY <1>1, <2>1, <2>2, <2>3, RowsStep DEF peopleVars
  <2> QED BY <2>3, <2>4 DEF DecisionsStay
<1>5. CASE ProposalFails
  <2>1. round' \in Rounds
    <3>1. PICK cost \in 0..MaxProposal : round' = [round EXCEPT !.asked = 0, !.spent = @ + cost]
      BY <1>5 DEF ProposalFails
    <3> DEFINE spent == round.spent + cost
    <3>2. spent \in Nat
      BY <1>1, <1>2 DEF Rounds
    <3>3. round' = [round EXCEPT !.asked = 0, !.spent = spent]
      BY <1>1, <3>1 DEF Rounds
    <3> HIDE DEF spent
    <3> QED BY <1>1, <3>2, <3>3 DEF Rounds
  <2> QED BY <1>1, <1>5, <2>1, RowsStep, SameRowsStay DEF ProposalFails, peopleVars
<1>6. CASE RoundEnds
  <2>1. round' \in Rounds
    BY <1>6 DEF RoundEnds, NoRound, Rounds
  <2>2. ReadingInv' /\ EntriesCollapse'
    BY <1>6 DEF RoundEnds, IInv, TypeOK, ReadingInv, ReadingTypeOK, FetchTypeOK, ResponsesClosed,
                EntriesCollapse
  <2> QED BY <1>6, <2>1, <2>2, SourcesStep DEF RoundEnds, IInv, TypeOK, Phases, AllEntries
<1> QED BY <1>3, <1>4, <1>5, <1>6 DEF RoundStep

LEMMA PeopleKeep ==
    ASSUME IInv, NEW i \in DOMAIN rows,
           \/ AcceptCandidate(i) \/ DropCandidate(i) \/ UseCandidate(i)
           \/ RequestProposal(i) \/ RequestEnds(i)
    PROVE  IInv' /\ DecisionsStay
<1>1. rows \in Seq(Rows) /\ AllApart(rows) /\ round \in Rounds /\ rows[i] \in Rows
      /\ awaited \subseteq DOMAIN rows /\ decisions \in 0..MaxDecisions /\ requests \in 0..MaxRequests
  BY DEF IInv, TypeOK, RowsApart, AllApart
<1>2. ASSUME NEW row \in Rows, row.url = rows[i].url, row.title = rows[i].title,
             rows' = [rows EXCEPT ![i] = row], SpendDecision
      PROVE  IInv' /\ DecisionsStay
  <2>1. rows' \in Seq(Rows) /\ DOMAIN rows' = DOMAIN rows /\ AllApart(rows')
    BY <1>1, <1>2, RowReplaced
  <2>2. decisions' = decisions + 1 /\ decisions' \in 0..MaxDecisions
    BY <1>1, <1>2, ResearchAssumption DEF SpendDecision
  <2>3. IInv'
    BY <1>1, <1>2, <2>1, <2>2, RowsStep DEF SpendDecision
  <2>4. decisions' # decisions
    BY <1>1, <2>2
  <2> QED BY <2>3, <2>4 DEF DecisionsStay
<1>3. CASE AcceptCandidate(i)
  <2>1. PICK brief \in Briefs : rows' = [rows EXCEPT ![i] = Accepted(rows[i], rows[i].status, brief)]
    BY <1>3 DEF AcceptCandidate
  <2> QED BY <1>1, <1>2, <1>3, <2>1, DecisionKeeps DEF AcceptCandidate
<1>4. CASE DropCandidate(i)
  BY <1>1, <1>2, <1>4, DecisionKeeps DEF DropCandidate
<1>5. CASE UseCandidate(i)
  BY <1>1, <1>2, <1>5, DecisionKeeps DEF UseCandidate
<1>6. CASE RequestProposal(i)
  <2>1. requests' \in 0..MaxRequests /\ awaited' \subseteq DOMAIN rows
    BY <1>1, <1>6, ResearchAssumption DEF RequestProposal
  <2> QED BY <1>1, <1>6, <2>1, RowsStep, SameRowsStay DEF RequestProposal
<1>7. CASE RequestEnds(i)
  <2>1. rows' \in {rows, WithProposal(i)} /\ awaited' \subseteq awaited
        /\ UNCHANGED <<collectVars, round, decisions, requests>>
    BY <1>7 DEF RequestEnds
  <2>2. /\ rows' \in Seq(Rows) /\ DOMAIN rows' = DOMAIN rows /\ AllApart(rows')
        /\ \A j \in DOMAIN rows : [rows'[j] EXCEPT !.enriched = rows[j].enriched] = rows[j]
    <3>1. \A j \in DOMAIN rows : [rows[j] EXCEPT !.enriched = rows[j].enriched] = rows[j]
      <4>1. \A j \in DOMAIN rows : rows[j] \in Rows
        BY <1>1
      <4> QED BY <4>1 DEF Rows
    <3>2. CASE rows' = rows
      BY <1>1, <3>1, <3>2
    <3>3. CASE rows' = WithProposal(i)
      BY <1>1, <3>3, ProposalKeeps
    <3> QED BY <2>1, <3>2, <3>3
  <2>3. IInv'
    BY <1>1, <2>1, <2>2, RowsStep
  <2> QED BY <2>2, <2>3 DEF DecisionsStay
<1> QED BY <1>3, <1>4, <1>5, <1>6, <1>7

LEMMA StepIInv ==
    ASSUME IInv, [Next]_vars
    PROVE  IInv' /\ DecisionsStay
<1>1. CASE UNCHANGED vars
  <2>1. IInv'
    BY <1>1 DEF vars, IInv, TypeOK, ReadingTypeOK, FetchTypeOK, ResponsesClosed, EntriesCollapse, RowsApart
  <2> QED BY <1>1, <2>1, SameRowsStay DEF vars, IInv, TypeOK
<1>2. CASE Next
  BY <1>2, CollectKeeps, ReadOneKeeps, MergeKeeps, StoreKeeps, EnrichTopKeeps, RoundKeeps, PeopleKeep
     DEF Next
<1> QED BY <1>1, <1>2

LEMMA IInvHolds == Spec => []IInv
  BY InitIInv, StepIInv, PTL DEF Spec

(* Every reading, entry, row and round a collection goes through has the   *)
(* type the code gives it (Research.TypeOK): of the rows that are stored,  *)
(* because the merge makes no entry up.                                    *)
THEOREM TypeCorrect == Spec => []TypeOK
  BY IInvHolds, PTL DEF IInv

(* However often a page redirects and whenever the deadline comes, a fetch *)
(* has at most the one response open it is working on (follow).            *)
THEOREM ResponsesAreClosed == Spec => []ResponsesClosed
  BY IInvHolds, PTL DEF IInv

(* Whatever any number of sources offer, the merge loses no article and    *)
(* keeps no URL twice (collectTopicCandidates).                            *)
THEOREM EntriesAreCollapsed == Spec => []EntriesCollapse
  BY IInvHolds, PTL DEF IInv

(* After any number of collections' inputs, decisions and proposals the    *)
(* backlog holds no two rows of one URL or title (upsertCollected).        *)
THEOREM RowsStayApart == Spec => []RowsApart
  BY IInvHolds, PTL DEF IInv

(* Neither a collection nor a proposal that was asked for before touches   *)
(* what a person has decided (upsertCollected, setEnrichment).             *)
THEOREM DecisionsAreKept == Spec => DecisionsKept
<1>1. IInv /\ [Next]_vars => [DecisionsStay]_vars
  BY StepIInv
<1>2. DecisionsKept <=> [][DecisionsStay]_vars
  BY PTL DEF DecisionsKept, DecisionsStay
<1> QED BY <1>1, <1>2, IInvHolds, PTL DEF Spec
-----------------------------------------------------------------------------
(* How many steps a source may still take.  Each request of a page is four *)
(* at most, the deadline is one more, and a sitemap more costs what a page *)
(* costs.                                                                  *)
HopLeft(f) ==
    4 * (MaxRedirects - f.hop)
      + CASE f.phase = "check" -> 4 [] f.phase = "request" -> 3
          [] f.phase = "answered" -> 2 [] f.phase = "body" -> 1

FetchLeft(f) ==
    IF f.phase \in {"idle", "over"} THEN 0
    ELSE 2 * HopLeft(f) + (IF f.expired THEN 0 ELSE 1)

PageLeft == 8 * MaxRedirects + 10

SourceLeft(s) ==
    IF reading[s].status # "reading" THEN 0
    ELSE (MaxChildren - reading[s].children) * PageLeft + FetchLeft(fetches[s]) + 1

LEMMA FetchLeftType ==
    ASSUME NEW f \in FetchStates
    PROVE  /\ FetchLeft(f) \in Nat
           /\ f.phase \notin {"idle", "over"} => FetchLeft(f) >= 2
<1>1. MaxRedirects \in Nat /\ f.hop \in 0..MaxRedirects /\ f.expired \in BOOLEAN
      /\ f.phase \in {"idle", "check", "request", "answered", "body", "over"}
  BY FetchAssumption DEF FetchStates
<1>2. f.phase \notin {"idle", "over"} => HopLeft(f) \in Nat \ {0}
  BY <1>1 DEF HopLeft
<1> QED BY <1>1, <1>2 DEF FetchLeft

LEMMA SourceLeftType ==
    ASSUME ReadingInv, NEW s \in Sources
    PROVE  SourceLeft(s) \in Nat /\ (SourceLeft(s) = 0 <=> reading[s].status # "reading")
<1>1. FetchLeft(fetches[s]) \in Nat
  BY FetchLeftType DEF ReadingInv, ReadingTypeOK, FetchTypeOK
<1>2. MaxChildren - reading[s].children \in Nat /\ PageLeft \in Nat
  BY FetchAssumption, ReadingAssumption DEF ReadingInv, ReadingTypeOK, Readings, PageLeft
<1>3. \A m, n \in Nat : m * n \in Nat
  OBVIOUS
<1>4. (MaxChildren - reading[s].children) * PageLeft \in Nat
  BY <1>2, <1>3
<1> DEFINE most == (MaxChildren - reading[s].children) * PageLeft
           left == FetchLeft(fetches[s])
<1>5. SourceLeft(s) = IF reading[s].status # "reading" THEN 0 ELSE most + left + 1
  BY DEF SourceLeft
<1> HIDE DEF most, left
<1>6. most \in Nat /\ left \in Nat
  BY <1>1, <1>4 DEF most, left
<1> QED BY <1>5, <1>6

(* A step of a fetch, whatever the server does.                            *)
LEMMA FetchShrinks ==
    ASSUME ReadingInv, NEW s \in Sources, FetchStep(s) \/ Deadline(s)
    PROVE  FetchLeft(fetches'[s]) < FetchLeft(fetches[s])
<1> DEFINE f == fetches[s]
           g == fetches'[s]
<1>1. f \in FetchStates /\ fetches \in [Sources -> FetchStates]
  BY DEF ReadingInv, ReadingTypeOK, FetchTypeOK
<1>2. MaxRedirects \in Nat /\ f.hop \in 0..MaxRedirects /\ f.expired \in BOOLEAN
  BY <1>1, FetchAssumption DEF FetchStates
<1>3. ASSUME NEW h, Turns(s, h)
      PROVE  g = h
  BY <1>1, <1>3 DEF Turns
<1>4. ASSUME g.phase = "over", f.phase \notin {"idle", "over"}
      PROVE  FetchLeft(g) < FetchLeft(f)
  BY <1>1, <1>4, FetchLeftType DEF FetchLeft
<1>5. \A code : /\ Over(f, code).phase = "over"
                /\ Over(Destroyed(f), code).phase = "over"
  BY <1>1 DEF Over, Destroyed, FetchStates
<1>6. CASE Check(s)
  <2>1. CASE g = [f EXCEPT !.phase = "request"]
    <3>1. f.phase = "check" /\ g.phase = "request" /\ g.hop = f.hop /\ g.expired = f.expired
      BY <1>1, <1>6, <2>1 DEF FetchStates, Check
    <3> HIDE DEF f, g
    <3>2. FetchLeft(g) < FetchLeft(f)
      BY <1>2, <3>1 DEF FetchLeft, HopLeft
    <3> QED BY <3>2 DEF f, g
  <2>2. CASE \E code : g = Over(f, code)
    BY <1>4, <1>5, <1>6, <2>2 DEF Check
  <2> QED BY <1>3, <1>6, <2>1, <2>2 DEF Check
<1>7. CASE RequestFails(s)
  BY <1>3, <1>4, <1>5, <1>7 DEF RequestFails
<1>8. CASE RequestAnswered(s)
  <2>1. g = [f EXCEPT !.phase = "answered", !.open = @ + 1]
    BY <1>3, <1>8 DEF RequestAnswered
  <2>2. f.phase = "request" /\ g.phase = "answered" /\ g.hop = f.hop /\ g.expired = f.expired
    BY <1>1, <1>8, <2>1 DEF FetchStates, RequestAnswered
  <2> HIDE DEF f, g
  <2>3. FetchLeft(g) < FetchLeft(f)
    BY <1>2, <2>2 DEF FetchLeft, HopLeft
  <2> QED BY <2>3 DEF f, g
<1>9. CASE Redirect(s)
  <2>1. g = Redirected(f)
    BY <1>3, <1>9 DEF Redirect
  <2>2. /\ f.phase = "answered" /\ g.phase = "check" /\ g.hop = f.hop + 1 /\ g.expired = f.expired
        /\ f.hop < MaxRedirects
    BY <1>1, <1>9, <2>1 DEF FetchStates, Redirect, Redirected, Destroyed
  <2> HIDE DEF f, g
  <2>3. FetchLeft(g) < FetchLeft(f)
    BY <1>2, <2>2 DEF FetchLeft, HopLeft
  <2> QED BY <2>3 DEF f, g
<1>10. CASE Unacceptable(s)
  BY <1>3, <1>4, <1>5, <1>10 DEF Unacceptable
<1>11. CASE Accept(s)
  <2>1. g = [f EXCEPT !.phase = "body"]
    BY <1>3, <1>11 DEF Accept
  <2>2. f.phase = "answered" /\ g.phase = "body" /\ g.hop = f.hop /\ g.expired = f.expired
    BY <1>1, <1>11, <2>1 DEF FetchStates, Accept
  <2> HIDE DEF f, g
  <2>3. FetchLeft(g) < FetchLeft(f)
    BY <1>2, <2>2 DEF FetchLeft, HopLeft
  <2> QED BY <2>3 DEF f, g
<1>12. CASE BodyRead(s)
  BY <1>3, <1>4, <1>5, <1>12 DEF BodyRead
<1>13. CASE BodyFails(s)
  BY <1>3, <1>4, <1>5, <1>13 DEF BodyFails
<1>14. CASE Deadline(s)
  <2>1. g = [f EXCEPT !.expired = TRUE]
    BY <1>3, <1>14 DEF Deadline
  <2>2. f.phase \notin {"idle", "over"} /\ ~f.expired /\ g.phase = f.phase /\ g.hop = f.hop /\ g.expired
    BY <1>1, <1>14, <2>1 DEF FetchStates, Deadline
  <2>3. HopLeft(g) = HopLeft(f)
    BY <2>2 DEF HopLeft
  <2>4. HopLeft(f) \in Int
    <3>1. f.phase \in {"check", "request", "answered", "body"}
      BY <1>1, <2>2 DEF FetchStates
    <3> HIDE DEF f
    <3> QED BY <1>2, <3>1 DEF HopLeft
  <2> HIDE DEF f, g
  <2>5. FetchLeft(g) < FetchLeft(f)
    BY <2>2, <2>3, <2>4 DEF FetchLeft
  <2> QED BY <2>5 DEF f, g
<1> QED BY <1>6, <1>7, <1>8, <1>9, <1>10, <1>11, <1>12, <1>13, <1>14 DEF FetchStep

LEMMA EndedShrinks ==
    ASSUME ReadingInv, NEW s \in Sources, NEW status \in {"ok", "failed"}, Ended(s, status),
           reading[s].status = "reading"
    PROVE  SourceLeft(s)' < SourceLeft(s)
<1>1. reading'[s].status # "reading"
  BY DEF Ended, NotRead, ReadingInv, ReadingTypeOK
<1>2. SourceLeft(s)' = 0
  BY <1>1 DEF SourceLeft
<1>3. SourceLeft(s) \in Nat /\ SourceLeft(s) # 0
  BY SourceLeftType
<1> QED BY <1>2, <1>3

LEMMA ProceedShrinks ==
    ASSUME ReadingInv, NEW s \in Sources, NEW r \in Readings, Proceed(s, r),
           r.status = "reading", r.children = reading[s].children, reading[s].status = "reading"
    PROVE  SourceLeft(s)' < SourceLeft(s)
<1>1. CASE Unread(r) = {} \/ r.children = MaxChildren
  BY <1>1, EndedShrinks DEF Proceed
<1>2. CASE ~(Unread(r) = {} \/ r.children = MaxChildren)
  <2> DEFINE k    == CHOOSE k \in Unread(r) : \A l \in Unread(r) : l <= k
             left == [SubSeq(r.pending, 1, k) EXCEPT ![k] = @ - 1]
             more == r.children + 1
             next == [r EXCEPT !.pending = left, !.children = more]
  <2>1. /\ reading' = [reading EXCEPT ![s] = next]
        /\ Turns(s, Fetching)
    BY <1>2 DEF Proceed
  <2>2. reading'[s] = next /\ fetches'[s] = Fetching
    BY <2>1 DEF ReadingInv, ReadingTypeOK, FetchTypeOK, Turns
  <2> HIDE DEF k, left, more
  <2>3. reading'[s].status = "reading" /\ reading'[s].children = more
    BY <2>2 DEF Readings
  <2>4. /\ MaxRedirects \in Nat /\ MaxChildren \in Nat /\ r.children \in 0..MaxChildren
        /\ r.children # MaxChildren
    BY <1>2, FetchAssumption, ReadingAssumption DEF Readings
  <2>5. FetchLeft(fetches'[s]) + 1 = PageLeft /\ PageLeft \in Nat
    BY <2>2, <2>4 DEF FetchLeft, HopLeft, PageLeft, Fetching, NoFetch
  <2> DEFINE d == MaxChildren - more
  <2>6. d \in Nat /\ MaxChildren - r.children = d + 1
    BY <2>4 DEF more
  <2> HIDE DEF d
  <2>7. SourceLeft(s)' = d * PageLeft + PageLeft
    <3>1. SourceLeft(s)' = d * PageLeft + FetchLeft(fetches'[s]) + 1
      BY <2>3 DEF SourceLeft, d, FetchLeft, HopLeft, PageLeft
    <3>2. d * PageLeft \in Int /\ FetchLeft(fetches'[s]) = PageLeft - 1
      <4>1. FetchLeft(fetches'[s]) \in Nat
        BY <2>2, StartsClosed, FetchLeftType DEF Closed
      <4> QED BY <2>5, <2>6, <4>1
    <3> QED BY <2>5, <3>1, <3>2
  <2>8. SourceLeft(s) = (d + 1) * PageLeft + FetchLeft(fetches[s]) + 1
    BY <2>6 DEF SourceLeft
  <2>9. FetchLeft(fetches[s]) \in Nat
    BY FetchLeftType DEF ReadingInv, ReadingTypeOK, FetchTypeOK
  <2>10. (d + 1) * PageLeft = d * PageLeft + PageLeft /\ d * PageLeft \in Int
    <3>1. \A m, n \in Nat : (m + 1) * n = m * n + n /\ m * n \in Int
      OBVIOUS
    <3> QED BY <2>5, <2>6, <3>1
  <2> QED BY <2>5, <2>7, <2>8, <2>9, <2>10
<1> QED BY <1>1, <1>2

(* A source is fetched from exactly as long as it is read.                 *)
IdleInv == \A s \in Sources : reading[s].status = "reading" <=> fetches[s].phase # "idle"

SourceSteps(s) ==
    /\ SourceLeft(s)' < SourceLeft(s)
    /\ \A t \in Sources \ {s} : reading'[t] = reading[t] /\ fetches'[t] = fetches[t]
    /\ reading'[s].status = "reading" <=> fetches'[s].phase # "idle"

LEMMA EndedSteps ==
    ASSUME ReadingInv, NEW s \in Sources, NEW status \in {"ok", "failed"}, Ended(s, status),
           reading[s].status = "reading"
    PROVE  SourceSteps(s)
<1>1. SourceLeft(s)' < SourceLeft(s)
  BY EndedShrinks
<1>2. /\ reading' = [reading EXCEPT ![s] = [NotRead EXCEPT !.status = status]]
      /\ fetches' = [fetches EXCEPT ![s] = NoFetch]
  BY DEF Ended, Turns
<1>3. \A t \in Sources \ {s} : reading'[t] = reading[t] /\ fetches'[t] = fetches[t]
  BY <1>2 DEF ReadingInv, ReadingTypeOK, FetchTypeOK
<1>4. reading'[s].status = status /\ fetches'[s].phase = "idle"
  BY <1>2 DEF ReadingInv, ReadingTypeOK, FetchTypeOK, NotRead, NoFetch
<1> QED BY <1>1, <1>3, <1>4 DEF SourceSteps

LEMMA ProceedSteps ==
    ASSUME ReadingInv, NEW s \in Sources, NEW r \in Readings, Proceed(s, r),
           r.status = "reading", r.children = reading[s].children, reading[s].status = "reading"
    PROVE  SourceSteps(s)
<1>1. CASE Unread(r) = {} \/ r.children = MaxChildren
  BY <1>1, EndedSteps DEF Proceed
<1>2. CASE ~(Unread(r) = {} \/ r.children = MaxChildren)
  <2> DEFINE k    == CHOOSE k \in Unread(r) : \A l \in Unread(r) : l <= k
             left == [SubSeq(r.pending, 1, k) EXCEPT ![k] = @ - 1]
             more == r.children + 1
             next == [r EXCEPT !.pending = left, !.children = more]
  <2>1. /\ reading' = [reading EXCEPT ![s] = next]
        /\ fetches' = [fetches EXCEPT ![s] = Fetching]
    BY <1>2 DEF Proceed, Turns
  <2> HIDE DEF k, left, more
  <2>2. \A t \in Sources \ {s} : reading'[t] = reading[t] /\ fetches'[t] = fetches[t]
    BY <2>1 DEF ReadingInv, ReadingTypeOK, FetchTypeOK
  <2>3. reading'[s].status = "reading" /\ fetches'[s].phase # "idle"
    BY <2>1 DEF ReadingInv, ReadingTypeOK, FetchTypeOK, Readings, Fetching, NoFetch
  <2> QED BY <2>2, <2>3, ProceedShrinks DEF SourceSteps
<1> QED BY <1>1, <1>2

(* A fetch that goes on is over or not, but not idle.                      *)
LEMMA FetchStaysBusy ==
    ASSUME ReadingInv, NEW s \in Sources, FetchStep(s) \/ Deadline(s)
    PROVE  /\ fetches[s].phase # "idle" /\ fetches'[s].phase # "idle"
           /\ \A t \in Sources \ {s} : fetches'[t] = fetches[t]
<1> DEFINE f == fetches[s]
<1>1. f \in FetchStates /\ fetches \in [Sources -> FetchStates]
  BY DEF ReadingInv, ReadingTypeOK, FetchTypeOK
<1>2. \A code : /\ Over(f, code).phase = "over"
                /\ Over(Destroyed(f), code).phase = "over"
  BY <1>1 DEF Over, Destroyed, FetchStates
<1>3. Redirected(f).phase = "check"
  BY <1>1 DEF Redirected, Destroyed, FetchStates
<1>4. f.phase # "idle"
  BY DEF FetchStep, Check, RequestFails, RequestAnswered, Redirect, Unacceptable, Accept, BodyRead,
         BodyFails, Deadline
<1>5. \E h : h.phase # "idle" /\ Turns(s, h)
  <2>1. CASE Check(s)
    <3>1. [f EXCEPT !.phase = "request"].phase # "idle"
      BY <1>1 DEF FetchStates
    <3> QED BY <1>2, <2>1, <3>1 DEF Check
  <2>2. CASE RequestFails(s) \/ Unacceptable(s) \/ BodyRead(s) \/ BodyFails(s)
    BY <1>2, <2>2 DEF RequestFails, Unacceptable, BodyRead, BodyFails
  <2>3. CASE RequestAnswered(s)
    <3>1. [f EXCEPT !.phase = "answered", !.open = @ + 1].phase # "idle"
      BY <1>1 DEF FetchStates
    <3> QED BY <2>3, <3>1 DEF RequestAnswered
  <2>4. CASE Redirect(s)
    BY <1>3, <2>4 DEF Redirect
  <2>5. CASE Accept(s)
    <3>1. [f EXCEPT !.phase = "body"].phase # "idle"
      BY <1>1 DEF FetchStates
    <3> QED BY <2>5, <3>1 DEF Accept
  <2>6. CASE Deadline(s)
    <3>1. [f EXCEPT !.expired = TRUE].phase # "idle"
      BY <1>1, <1>4 DEF FetchStates
    <3> QED BY <2>6, <3>1 DEF Deadline
  <2> QED BY <2>1, <2>2, <2>3, <2>4, <2>5, <2>6 DEF FetchStep
<1> HIDE DEF f
<1>6. fetches'[s].phase # "idle" /\ \A t \in Sources \ {s} : fetches'[t] = fetches[t]
  BY <1>1, <1>5 DEF Turns
<1> QED BY <1>4, <1>6 DEF f

LEMMA ReadSteps ==
    ASSUME ReadingInv, IdleInv, NEW s \in Sources, ReadStep(s)
    PROVE  SourceSteps(s)
<1>1. CASE (FetchStep(s) \/ Deadline(s)) /\ UNCHANGED reading
  <2>1. /\ fetches[s].phase # "idle" /\ fetches'[s].phase # "idle"
        /\ \A t \in Sources \ {s} : fetches'[t] = fetches[t]
    BY <1>1, FetchStaysBusy
  <2>2. reading[s].status = "reading" /\ reading' = reading
    BY <1>1, <2>1 DEF IdleInv
  <2>3. FetchLeft(fetches'[s]) < FetchLeft(fetches[s])
    BY <1>1, FetchShrinks
  <2>4. FetchLeft(fetches[s]) \in Nat /\ FetchLeft(fetches'[s]) \in Nat
    <3>1. (FetchTypeOK /\ ResponsesClosed)'
      BY <1>1, FetchKeeps DEF ReadingInv, ReadingTypeOK
    <3> QED BY <3>1, FetchLeftType DEF ReadingInv, ReadingTypeOK, FetchTypeOK
  <2> DEFINE rest == (MaxChildren - reading[s].children) * PageLeft
             a    == FetchLeft(fetches[s])
             b    == FetchLeft(fetches'[s])
  <2>5. rest \in Int
    <3>1. MaxChildren - reading[s].children \in Int /\ PageLeft \in Int
      BY FetchAssumption, ReadingAssumption DEF ReadingInv, ReadingTypeOK, Readings, PageLeft
    <3>2. \A m, n \in Int : m * n \in Int
      OBVIOUS
    <3> QED BY <3>1, <3>2
  <2>6. SourceLeft(s) = rest + a + 1
    BY <2>2 DEF SourceLeft
  <2>7. SourceLeft(s)' = rest + b + 1
    BY <2>2 DEF SourceLeft, FetchLeft, HopLeft, PageLeft
  <2> HIDE DEF rest, a, b
  <2>8. a \in Nat /\ b \in Nat /\ b < a
    BY <2>3, <2>4 DEF a, b
  <2>9. SourceLeft(s)' < SourceLeft(s)
    BY <2>5, <2>6, <2>7, <2>8
  <2> QED BY <2>1, <2>2, <2>9 DEF SourceSteps
<1>2. reading[s] \in Readings
  BY DEF ReadingInv, ReadingTypeOK
<1>3. CASE ReadEntries(s)
  BY <1>2, <1>3, ProceedSteps DEF ReadEntries, HasPage
<1>4. CASE ReadIndex(s)
  <2>1. PICK listed \in 0..MaxListed :
          Proceed(s, IF Depth(reading[s]) < MaxDepth
                     THEN [reading[s] EXCEPT !.pending = Append(@, listed)]
                     ELSE reading[s])
    BY <1>4 DEF ReadIndex
  <2>2. listed \in Nat
    BY ReadingAssumption
  <2> DEFINE more == Append(reading[s].pending, listed)
             r    == [reading[s] EXCEPT !.pending = more]
  <2>3. more \in Seq(Nat)
    BY <1>2, <2>2 DEF Readings
  <2> HIDE DEF more
  <2>4. r \in Readings /\ r.status = reading[s].status /\ r.children = reading[s].children
    BY <1>2, <2>3 DEF Readings
  <2>5. Proceed(s, r) \/ Proceed(s, reading[s])
    BY <2>1 DEF more
  <2> QED BY <1>2, <1>4, <2>4, <2>5, ProceedSteps DEF ReadIndex, HasPage
<1>5. CASE Broken(s)
  BY <1>2, <1>5, ProceedSteps, EndedSteps DEF Broken
<1> QED BY <1>1, <1>3, <1>4, <1>5 DEF ReadStep

(* Every step that a source takes while it is read brings it nearer to its *)
(* end, whatever the servers answer and whatever an index lists, itself    *)
(* included (sitemap.ts, fetcher.ts).                                      *)
ReadingShrinks == \A s \in Sources : Read(s) => SourceLeft(s)' < SourceLeft(s)

LEMMA IdleHolds == Spec => []IdleInv
<1>1. Init => IdleInv
  <2> SUFFICES ASSUME Init, NEW s \in Sources
               PROVE  reading[s].status = "reading" <=> fetches[s].phase # "idle"
    BY DEF IdleInv
  <2>1. reading[s] = NotRead /\ fetches[s] = NoFetch
    BY DEF Init, ReadingInit, FetchInit
  <2> QED BY <2>1 DEF NotRead, NoFetch
<1>2. IInv /\ IdleInv /\ [Next]_vars => IdleInv'
  <2> SUFFICES ASSUME IInv, IdleInv, [Next]_vars PROVE IdleInv'
    OBVIOUS
  <2>0. ReadingInv
    BY DEF IInv, TypeOK, ReadingInv
  <2>1. CASE UNCHANGED <<fetches, reading>>
    BY <2>1 DEF IdleInv
  <2>2. CASE Collect
    BY <2>2 DEF Collect, StartReading, IdleInv, NotRead, Fetching, NoFetch
  <2>3. ASSUME NEW s \in Sources, Read(s)
        PROVE  IdleInv'
    <3>1. SourceSteps(s)
      BY <2>0, <2>3, ReadSteps DEF Read
    <3> QED BY <3>1 DEF IdleInv, SourceSteps
  <2>4. CASE Merge
    <3>1. \A s \in Sources : fetches[s].phase = "idle"
      BY <2>4 DEF Merge, IdleInv
    <3> QED BY <2>4, <3>1 DEF Merge, IdleInv, NotRead
  <2>5. CASE Store \/ EnrichTop \/ RoundEnds
    BY <2>1, <2>5 DEF Store, EnrichTop, RoundEnds
  <2>6. CASE Ask \/ Proposed \/ ProposalFails
    BY <2>1, <2>6 DEF Ask, Proposed, ProposalFails, collectVars
  <2>7. ASSUME NEW i \in DOMAIN rows,
               \/ AcceptCandidate(i) \/ DropCandidate(i) \/ UseCandidate(i)
               \/ RequestProposal(i) \/ RequestEnds(i)
        PROVE  IdleInv'
    BY <2>1, <2>7 DEF AcceptCandidate, DropCandidate, UseCandidate, RequestProposal, RequestEnds,
                      SpendDecision, collectVars
  <2> QED BY <2>1, <2>2, <2>3, <2>4, <2>5, <2>6, <2>7 DEF Next, RoundStep, vars
<1> QED BY <1>1, <1>2, IInvHolds, PTL DEF Spec

(* A source is read in a bounded number of steps: each step it takes makes *)
(* a natural number smaller, whatever the servers answer and whatever an   *)
(* index lists, itself included, and the number is 0 when the source is    *)
(* not read (any more) (fetcher.ts fetchOnce and body, sitemap.ts).        *)
THEOREM SourcesAreRead ==
    Spec => /\ [][ReadingShrinks]_vars
            /\ [](\A s \in Sources : SourceLeft(s) \in Nat
                                     /\ (SourceLeft(s) = 0 <=> reading[s].status # "reading"))
<1>1. IInv /\ IdleInv /\ [Next]_vars => [ReadingShrinks]_vars
  <2> SUFFICES ASSUME IInv, IdleInv, NEW s \in Sources, Read(s)
               PROVE  SourceLeft(s)' < SourceLeft(s)
    BY DEF ReadingShrinks
  <2>1. ReadingInv /\ ReadStep(s)
    BY DEF IInv, TypeOK, ReadingInv, Read
  <2> QED BY <2>1, ReadSteps DEF SourceSteps
<1>2. IInv => \A s \in Sources : SourceLeft(s) \in Nat
                                 /\ (SourceLeft(s) = 0 <=> reading[s].status # "reading")
  BY SourceLeftType DEF IInv, TypeOK, ReadingInv
<1> QED BY <1>1, <1>2, IInvHolds, IdleHolds, PTL DEF Spec
=============================================================================
