-------------------------- MODULE LinkedLruProofs --------------------------
(***************************************************************************)
(* Proofs about LinkedLru, for any set of pages and any bound on the       *)
(* drift: the flags of a page name its list, no BUG and no damaged list is *)
(* met, and the counters together miss no page, as long as nothing runs    *)
(* between hate's test and its lock.                                       *)
(***************************************************************************)
EXTENDS LinkedLru, FiniteSetTheorems, TLAPS

USE DEF LRU_BASE, LRU_ACTIVE, LRU_LINKED, LRU_FILE, LRU_UNEVICTABLE,
        Free, Isolated, Pagevec, Taken, Kept

-----------------------------------------------------------------------------
(* The inductive invariant *)

Kinds == {0, LRU_FILE}

PageRecord ==
    [ on : [Pages -> Places], goal : [Pages -> Evictable],
      lru : SUBSET Pages, active : SUBSET Pages, unevictable : SUBSET Pages,
      mlocked : SUBSET Pages, linked : SUBSET Pages,
      stat : [Lists -> Int], isolated : [Kinds -> 0 .. Cardinality(Pages)] ]

\* List l is the one that the flags of page p name, up to linked or not.
Named(h, p, l) ==
    IF p \in h.unevictable THEN l = LRU_UNEVICTABLE
    ELSE /\ l \in Evictable
         /\ is_active_lru(l) <=> p \in h.active
         /\ is_file_lru(l) <=> p \in FilePages

\* A page that waits in a pagevec has neither flag and goes to a list of its kind.
Queued(h, p) ==
    /\ p \notin h.active /\ p \notin h.unevictable
    /\ is_file_lru(h.goal[p]) <=> p \in FilePages

\* The scan s takes pages of one kind, from evictable lists, and clears PG_active
\* of those that it takes off an inactive list.
Scanned(h, s, p) ==
    /\ s.kind # "idle" /\ s.file = FileOf(p)
    /\ p \notin h.unevictable
    /\ h.on[p] = Taken /\ s.kind = "inactive" => p \notin h.active

PageSound(h, s, p) ==
    /\ p \in h.lru <=> h.on[p] \in Lists
    /\ ~(p \in h.active /\ p \in h.unevictable)
    /\ h.on[p] \in Lists => Named(h, p, h.on[p])
    /\ h.on[p] = Pagevec => Queued(h, p)
    /\ h.on[p] \in {Taken, Kept} => Scanned(h, s, p)

PagesSound == \A p \in Pages : PageSound(m, scan, p)

\* What is counted as isolated is what the scan will take off that counter again.
IsolatedOf(s) == [f \in Kinds |-> IF s.kind # "idle" /\ f = s.file THEN s.nr ELSE 0]

ScanRecord == [kind : {"idle", "inactive", "active"}, file : Kinds,
               nr : 0 .. Cardinality(Pages)]

\* The page that hate is about to move is still on a list.
HateSound == hating \in Pages => hating \in m.lru /\ hating \notin m.linked

\* How many pages have a place in A, how many of kind f the scan has in hand, and
\* what the counters of kind f come to
NumberOn(on, A) == Cardinality({p \in Pages : on[p] \in A})
InHand(on, f)   == Cardinality({p \in Pages : FileOf(p) = f /\ on[p] \in {Taken, Kept}})
StatSum(st, f)  == st[f] + st[f + 1] + st[f + 2] + st[f + 3]
KindLists(f)    == f .. f + 3

\* The counters of a kind together are not below the number of pages on its lists,
\* with and without the pages that the scan has in hand.
CountSound(h) ==
    /\ h.stat[LRU_UNEVICTABLE] = NumberOn(h.on, {LRU_UNEVICTABLE})
    /\ \A f \in Kinds :
          /\ StatSum(h.stat, f) >= NumberOn(h.on, KindLists(f))
          /\ StatSum(h.stat, f) + h.isolated[f] >= NumberOn(h.on, KindLists(f)) + InHand(h.on, f)

TypeSound == m \in PageRecord /\ scan \in ScanRecord /\ hating \in Pages \cup {NoPage}

IInv == /\ TypeSound /\ PagesSound /\ m.isolated = IsolatedOf(scan)
        /\ CountSound(m) /\ HateSound /\ bug = FALSE /\ oops = FALSE

-----------------------------------------------------------------------------
(* Lists and flags *)

\* The active lists are the odd ones, those of files the upper four.
LEMMA ListKinds ==
    \A l \in Evictable : /\ l \in Lists /\ l \in 0..7
                         /\ is_active_lru(l) <=> l \in {1, 3, 5, 7}
                         /\ is_file_lru(l) <=> l \in 4..7
BY DEF Evictable, Lists, is_active_lru, is_file_lru

\* page_lru_base_type names an inactive list of the page's kind, and the list
\* behind it is the active one.
LEMMA BaseLists ==
    ASSUME NEW h, NEW p \in Pages
    PROVE  LET b == page_lru_base_type(h, p)
           IN  /\ b \in Evictable /\ b + 1 \in Evictable
               /\ ~is_active_lru(b) /\ is_active_lru(b + 1)
               /\ is_file_lru(b) <=> p \in FilePages
               /\ is_file_lru(b + 1) <=> p \in FilePages
               /\ b = IF p \in h.linked THEN FileOf(p) + 2 ELSE FileOf(p)
<1>1. page_lru_base_type(h, p) \in {0, 2, 4, 6}
  BY DEF page_lru_base_type, FileOf
<1>2. page_lru_base_type(h, p) \in {4, 6} <=> p \in FilePages
  BY DEF page_lru_base_type, FileOf
<1>3. page_lru_base_type(h, p) = IF p \in h.linked THEN FileOf(p) + 2 ELSE FileOf(p)
  BY DEF page_lru_base_type, FileOf
<1> HIDE DEF page_lru_base_type
<1>4. QED  BY <1>1, <1>2, <1>3, ListKinds DEF Evictable

\* page_lru names the list that the flags name.
LEMMA PageLruNamed ==
    ASSUME NEW h, NEW p \in Pages
    PROVE  page_lru(h, p) \in Lists /\ Named(h, p, page_lru(h, p))
<1> DEFINE b == page_lru_base_type(h, p)
<1>1. /\ b \in Evictable /\ b + 1 \in Evictable /\ b + 0 = b
      /\ ~is_active_lru(b) /\ is_active_lru(b + 1)
      /\ is_file_lru(b) <=> p \in FilePages
      /\ is_file_lru(b + 1) <=> p \in FilePages
  BY BaseLists DEF Evictable
<1>2. page_lru(h, p) = IF p \in h.unevictable THEN 8
                       ELSE IF p \in h.active THEN b + 1 ELSE b
  BY <1>1 DEF page_lru
<1> HIDE DEF b
<1>3. QED  BY <1>1, <1>2, ListKinds DEF Named, Lists

\* 1 if x is in A
Is(x, A) == IF x \in A THEN 1 ELSE 0

\* Two lists that flags name are of one kind.
LEMMA SameKind ==
    ASSUME NEW h, NEW p \in Pages, NEW k, NEW l, Named(h, p, k), Named(h, p, l)
    PROVE  /\ k \in Lists /\ l \in Lists
           /\ Is(k, {8}) = Is(l, {8})
           /\ \A f \in Kinds : Is(k, KindLists(f)) = Is(l, KindLists(f))
<1>1. CASE p \in h.unevictable
  BY <1>1 DEF Named, Lists
<1>2. CASE p \notin h.unevictable
  <2>1. /\ k \in 0..7 /\ l \in 0..7 /\ k \in Lists /\ l \in Lists
        /\ k \in 4..7 <=> l \in 4..7
    BY <1>2, ListKinds DEF Named
  <2>2. QED  BY <2>1 DEF Kinds, KindLists, Is
<1>3. QED  BY <1>1, <1>2

-----------------------------------------------------------------------------
(* Counting pages *)

\* The pages with a place in A are finitely many.
LEMMA NumberNat == \A on, A : NumberOn(on, A) \in Nat /\ IsFiniteSet({p \in Pages : on[p] \in A})
BY PagesAssumption, FS_Subset, FS_CardinalityType DEF NumberOn

LEMMA InHandNat == \A on, f : InHand(on, f) \in Nat
<1> SUFFICES ASSUME NEW on, NEW f PROVE InHand(on, f) \in Nat
  OBVIOUS
<1>1. IsFiniteSet({p \in Pages : FileOf(p) = f /\ on[p] \in {Taken, Kept}})
  BY PagesAssumption, FS_Subset
<1>2. QED  BY <1>1, FS_CardinalityType DEF InHand

\* One page moves to x.
LEMMA NumberMove ==
    ASSUME NEW on \in [Pages -> Places], NEW p \in Pages, NEW x, NEW A
    PROVE  NumberOn([on EXCEPT ![p] = x], A) = NumberOn(on, A) + Is(x, A) - Is(on[p], A)
<1> DEFINE S == {q \in Pages : on[q] \in A}
           T == {q \in Pages : [on EXCEPT ![p] = x][q] \in A}
<1>1. /\ IsFiniteSet(S) /\ Cardinality(S) \in Nat
      /\ NumberOn(on, A) = Cardinality(S) /\ NumberOn([on EXCEPT ![p] = x], A) = Cardinality(T)
  BY NumberNat DEF NumberOn
<1>2. CASE x \in A /\ on[p] \notin A
  <2>1. T = S \cup {p} /\ p \notin S  BY <1>2
  <2>2. Cardinality(S \cup {p}) = Cardinality(S) + 1
    BY <1>1, <2>1, FS_AddElement
  <2> HIDE DEF S, T
  <2>3. Cardinality(T) = Cardinality(S) + 1
    BY <2>1, <2>2
  <2>4. QED  BY <1>1, <1>2, <2>3 DEF Is
<1>3. CASE x \notin A /\ on[p] \in A
  <2>1. T = S \ {p} /\ p \in S  BY <1>3
  <2>2. Cardinality(S \ {p}) = Cardinality(S) - 1
    BY <1>1, <2>1, FS_RemoveElement
  <2> HIDE DEF S, T
  <2>3. Cardinality(T) = Cardinality(S) - 1
    BY <2>1, <2>2
  <2>4. QED  BY <1>1, <1>3, <2>3 DEF Is
<1>4. CASE x \in A <=> on[p] \in A
  <2>1. T = S  BY <1>4
  <2>2. QED  BY <1>1, <1>4, <2>1 DEF Is
<1>5. QED  BY <1>2, <1>3, <1>4

\* Pages of T leave for x.
LEMMA NumberTake ==
    ASSUME NEW on \in [Pages -> Places], NEW T \in SUBSET Pages, NEW x, NEW A, x \notin A,
           \/ \A p \in T : on[p] \in A
           \/ \A p \in T : on[p] \notin A
    PROVE  /\ Cardinality(T) \in Nat
           /\ NumberOn([p \in Pages |-> IF p \in T THEN x ELSE on[p]], A) =
                NumberOn(on, A) - IF \A p \in T : on[p] \in A THEN Cardinality(T) ELSE 0
<1> DEFINE S == {q \in Pages : on[q] \in A}
           U == {q \in Pages : [p \in Pages |-> IF p \in T THEN x ELSE on[p]][q] \in A}
<1>1. /\ IsFiniteSet(S) /\ Cardinality(S) \in Nat /\ IsFiniteSet(T) /\ Cardinality(T) \in Nat
      /\ NumberOn(on, A) = Cardinality(S)
      /\ NumberOn([p \in Pages |-> IF p \in T THEN x ELSE on[p]], A) = Cardinality(U)
  BY NumberNat, PagesAssumption, FS_Subset, FS_CardinalityType DEF NumberOn
<1>2. U = S \ T
  OBVIOUS
<1>3. CASE \A p \in T : on[p] \in A
  <2>1. S \cap T = T  BY <1>3
  <2>2. Cardinality(S \ T) = Cardinality(S) - Cardinality(S \cap T)
    BY <1>1, FS_Difference
  <2>3. QED  BY <1>1, <1>2, <1>3, <2>1, <2>2
<1>4. CASE ~ \A p \in T : on[p] \in A
  <2>1. S \ T = S  BY <1>4
  <2>2. QED  BY <1>1, <1>2, <1>4, <2>1
<1>5. QED  BY <1>3, <1>4

LEMMA DisjointUnion ==
    ASSUME NEW S, NEW T, IsFiniteSet(S), IsFiniteSet(T), S \cap T = {}
    PROVE  /\ IsFiniteSet(S \cup T)
           /\ Cardinality(S) \in Nat /\ Cardinality(T) \in Nat
           /\ Cardinality(S \cup T) = Cardinality(S) + Cardinality(T)
<1>1. /\ IsFiniteSet(S \cup T)
      /\ Cardinality(S \cup T) = Cardinality(S) + Cardinality(T) - Cardinality(S \cap T)
  BY FS_Union, Zenon
<1>2. Cardinality(S) \in Nat /\ Cardinality(T) \in Nat
  BY FS_CardinalityType
<1>3. Cardinality(S \cap T) = 0
  BY FS_EmptySet
<1> QED  BY ONLY <1>1, <1>2, <1>3

\* How many pages of R dest sends to a list of A, and to list l
SentTo(R, dest, A)  == Cardinality({p \in R : dest[p] \in A})
SentOne(R, dest, l) == Cardinality({p \in R : dest[p] = l})

\* Those sent to one of the four lists of a kind, list by list
LEMMA FourLists ==
    ASSUME NEW R \in SUBSET Pages, NEW d, NEW f \in Kinds
    PROVE  /\ \A l : SentOne(R, d, l) \in Nat
           /\ SentTo(R, d, KindLists(f)) =
                SentOne(R, d, f) + SentOne(R, d, f + 1) + SentOne(R, d, f + 2)
                + SentOne(R, d, f + 3)
<1> DEFINE A(l) == {p \in R : d[p] = l}
<1>1. IsFiniteSet(R)
  BY PagesAssumption, FS_Subset
<1>2. \A l : IsFiniteSet(A(l)) /\ Cardinality(A(l)) \in Nat
  BY <1>1, FS_Subset, FS_CardinalityType
<1>3. f \in Nat /\ KindLists(f) = {f, f + 1, f + 2, f + 3}
  BY DEF Kinds, KindLists
<1>4. {p \in R : d[p] \in KindLists(f)} = ((A(f) \cup A(f + 1)) \cup A(f + 2)) \cup A(f + 3)
  BY <1>3
<1>5. /\ A(f) \cap A(f + 1) = {} /\ (A(f) \cup A(f + 1)) \cap A(f + 2) = {}
      /\ ((A(f) \cup A(f + 1)) \cup A(f + 2)) \cap A(f + 3) = {}
  BY <1>3
<1> HIDE DEF A
<1>6. /\ IsFiniteSet(A(f) \cup A(f + 1))
      /\ Cardinality(A(f) \cup A(f + 1)) = Cardinality(A(f)) + Cardinality(A(f + 1))
  BY <1>2, <1>5, DisjointUnion
<1>7. /\ IsFiniteSet((A(f) \cup A(f + 1)) \cup A(f + 2))
      /\ Cardinality((A(f) \cup A(f + 1)) \cup A(f + 2)) =
            Cardinality(A(f) \cup A(f + 1)) + Cardinality(A(f + 2))
  BY <1>2, <1>5, <1>6, DisjointUnion
<1>8. Cardinality(((A(f) \cup A(f + 1)) \cup A(f + 2)) \cup A(f + 3)) =
            Cardinality((A(f) \cup A(f + 1)) \cup A(f + 2)) + Cardinality(A(f + 3))
  BY <1>2, <1>5, <1>7, DisjointUnion
<1>9. Cardinality({p \in R : d[p] \in KindLists(f)}) =
        Cardinality(A(f)) + Cardinality(A(f + 1)) + Cardinality(A(f + 2)) + Cardinality(A(f + 3))
  BY <1>2, <1>4, <1>6, <1>7, <1>8
<1>10. QED  BY <1>2, <1>9 DEF A, SentTo, SentOne

\* The counter of list l goes up or down by one.
Up(st, l)   == [st EXCEPT ![l] = @ + 1]
Down(st, l) == [st EXCEPT ![l] = @ - 1]

LEMMA StatUp ==
    ASSUME NEW st \in [Lists -> Int], NEW l \in Lists
    PROVE  /\ Up(st, l) \in [Lists -> Int]
           /\ Up(st, l)[8] = st[8] + Is(l, {8})
           /\ \A f \in Kinds : StatSum(Up(st, l), f) = StatSum(st, f) + Is(l, KindLists(f))
<1>1. Lists = {0, 1, 2, 3, 4, 5, 6, 7, 8} /\ Kinds = {0, 4}
  BY DEF Lists, Evictable, Kinds
<1>2. KindLists(0) = {0, 1, 2, 3} /\ KindLists(4) = {4, 5, 6, 7}
  BY DEF KindLists
<1>3. QED  BY <1>1, <1>2 DEF StatSum, Is, Up

LEMMA StatDown ==
    ASSUME NEW st \in [Lists -> Int], NEW l \in Lists
    PROVE  /\ Down(st, l) \in [Lists -> Int]
           /\ Down(st, l)[8] = st[8] - Is(l, {8})
           /\ \A f \in Kinds : StatSum(Down(st, l), f) = StatSum(st, f) - Is(l, KindLists(f))
<1>1. Lists = {0, 1, 2, 3, 4, 5, 6, 7, 8} /\ Kinds = {0, 4}
  BY DEF Lists, Evictable, Kinds
<1>2. KindLists(0) = {0, 1, 2, 3} /\ KindLists(4) = {4, 5, 6, 7}
  BY DEF KindLists
<1>3. QED  BY <1>1, <1>2 DEF StatSum, Is, Down

LEMMA StatInt ==
    ASSUME NEW st \in [Lists -> Int]
    PROVE  st[8] \in Int /\ \A f \in Kinds : StatSum(st, f) \in Int
BY DEF Lists, Evictable, Kinds, StatSum

LEMMA IsNat == \A x, A : Is(x, A) \in Nat
BY DEF Is

-----------------------------------------------------------------------------
(* Steps that move one page *)

\* Page q is in g what it is in h.
SamePage(h, g, q) ==
    /\ g.on[q] = h.on[q] /\ g.goal[q] = h.goal[q]
    /\ q \in g.lru <=> q \in h.lru
    /\ q \in g.active <=> q \in h.active
    /\ q \in g.unevictable <=> q \in h.unevictable

LEMMA SamePageSound ==
    ASSUME NEW h, NEW g, NEW s, NEW q, PageSound(h, s, q), SamePage(h, g, q)
    PROVE  PageSound(g, s, q)
BY DEF PageSound, SamePage, Named, Queued, Scanned

\* Page p moves to x, and the counters follow it up to linked or not.
Moved(h, g, s, p, x) ==
    /\ g \in PageRecord
    /\ g.on = [h.on EXCEPT ![p] = x] /\ x \in Places
    /\ g.isolated = h.isolated
    /\ \A q \in Pages \ {p} : SamePage(h, g, q)
    /\ PageSound(g, s, p)
    /\ x \in {Taken, Kept} => h.on[p] \in {Taken, Kept}
    /\ g.stat[8] = h.stat[8] + Is(x, {8}) - Is(h.on[p], {8})
    /\ \A f \in Kinds : StatSum(g.stat, f) =
            StatSum(h.stat, f) + Is(x, KindLists(f)) - Is(h.on[p], KindLists(f))

LEMMA MovedCounts ==
    ASSUME NEW h \in PageRecord, NEW g, NEW s, NEW p \in Pages, NEW x,
           CountSound(h), Moved(h, g, s, p, x)
    PROVE  CountSound(g)
<1> USE DEF Moved
<1>1. h.on \in [Pages -> Places] /\ g.on = [h.on EXCEPT ![p] = x]
  BY DEF PageRecord
<1>2. \A A : NumberOn(g.on, A) = NumberOn(h.on, A) + Is(x, A) - Is(h.on[p], A)
  BY <1>1, NumberMove
<1>3. ASSUME NEW f \in Kinds PROVE InHand(g.on, f) <= InHand(h.on, f)
  <2>1. IsFiniteSet({q \in Pages : FileOf(q) = f /\ h.on[q] \in {Taken, Kept}})
    BY PagesAssumption, FS_Subset
  <2>2. {q \in Pages : FileOf(q) = f /\ g.on[q] \in {Taken, Kept}} \subseteq
          {q \in Pages : FileOf(q) = f /\ h.on[q] \in {Taken, Kept}}
    BY <1>1
  <2>3. QED  BY <2>1, <2>2, FS_Subset DEF InHand
<1>4. /\ g.isolated = h.isolated
      /\ \A f \in Kinds : h.isolated[f] \in Int
      /\ \A f \in Kinds : InHand(g.on, f) \in Nat /\ InHand(h.on, f) \in Nat
      /\ \A A : NumberOn(h.on, A) \in Nat
      /\ \A f \in Kinds : StatSum(h.stat, f) \in Int
      /\ h.stat[8] \in Int
  <2>1. h.stat \in [Lists -> Int] /\ 8 \in Lists  BY DEF PageRecord, Lists
  <2>2. h.isolated \in [Kinds -> 0..Cardinality(Pages)] /\ Cardinality(Pages) \in Nat
    BY PagesAssumption, FS_CardinalityType DEF PageRecord
  <2>3. \A f \in Kinds : h.isolated[f] \in Int
    BY <2>2
  <2>4. h.stat[8] \in Int /\ \A f \in Kinds : StatSum(h.stat, f) \in Int
    BY <2>1, StatInt
  <2>5. QED  BY <2>3, <2>4, NumberNat, InHandNat
<1>5. \A y, A : Is(y, A) \in Nat
  BY IsNat
<1>6. g.stat[8] = NumberOn(g.on, {8})
  BY <1>2, <1>4, <1>5 DEF CountSound
<1>7. ASSUME NEW f \in Kinds
      PROVE  /\ StatSum(g.stat, f) >= NumberOn(g.on, KindLists(f))
             /\ StatSum(g.stat, f) + g.isolated[f] >=
                  NumberOn(g.on, KindLists(f)) + InHand(g.on, f)
  <2>1. /\ StatSum(h.stat, f) >= NumberOn(h.on, KindLists(f))
        /\ StatSum(h.stat, f) + h.isolated[f] >= NumberOn(h.on, KindLists(f)) + InHand(h.on, f)
    BY DEF CountSound
  <2>2. StatSum(g.stat, f) =
            StatSum(h.stat, f) + Is(x, KindLists(f)) - Is(h.on[p], KindLists(f))
    OBVIOUS
  <2>3. QED  BY <1>2, <1>3, <1>4, <1>5, <2>1, <2>2
<1>8. QED  BY <1>6, <1>7 DEF CountSound

\* Such a step keeps the invariant, when nothing but the page changes.
LEMMA OnePage ==
    ASSUME IInv, NEW p \in Pages, NEW x, Moved(m, m', scan, p, x),
           scan' = scan, hating' = NoPage, bug' = FALSE, oops' = FALSE
    PROVE  IInv'
<1>1. TypeSound'
  BY DEF IInv, TypeSound, Moved
<1>2. PagesSound'
  <2> SUFFICES ASSUME NEW q \in Pages PROVE PageSound(m', scan, q)
    BY DEF PagesSound
  <2>1. CASE q = p  BY <2>1 DEF Moved
  <2>2. CASE q # p
    <3>1. SamePage(m, m', q) /\ PageSound(m, scan, q)
      BY <2>2 DEF Moved, IInv, PagesSound
    <3>2. QED  BY <3>1, SamePageSound
  <2>3. QED  BY <2>1, <2>2
<1>3. (m.isolated = IsolatedOf(scan))'
  BY DEF IInv, Moved
<1>4. CountSound(m')
  BY MovedCounts DEF IInv, TypeSound
<1>5. HateSound'
  BY NoPageAssumption DEF HateSound
<1>6. QED  BY <1>1, <1>2, <1>3, <1>4, <1>5 DEF IInv

\* Flags of page p change first.
LEMMA FlagsFirst ==
    ASSUME NEW h, NEW k, NEW g, NEW s, NEW p \in Pages, NEW x,
           k.on = h.on, k.stat = h.stat, k.isolated = h.isolated,
           \A q \in Pages \ {p} : SamePage(h, k, q),
           Moved(k, g, s, p, x)
    PROVE  Moved(h, g, s, p, x)
<1>1. \A q \in Pages \ {p} : SamePage(h, g, q)
  BY DEF Moved, SamePage
<1>2. QED  BY <1>1 DEF Moved

\* Only lists 0 to 8 count.
LEMMA NoList == \A x \in {-1, -2, -3, -4, -5} :
    /\ x \notin Lists /\ x \in Places /\ Is(x, {8}) = 0
    /\ \A f \in Kinds : Is(x, KindLists(f)) = 0
BY DEF Lists, Evictable, Places, Is, Kinds, KindLists

LEMMA OffLists == \A x \in Places \ Lists :
    /\ x \in {-1, -2, -3, -4, -5} /\ Is(x, {8}) = 0
    /\ \A f \in Kinds : Is(x, KindLists(f)) = 0
BY NoList DEF Places

\* lru_cache_add_lru: into a pagevec, for a list of the page's kind
LEMMA CacheAdd ==
    ASSUME NEW h \in PageRecord, NEW s, NEW p \in Pages, NEW l \in Evictable,
           h.on[p] \notin Lists, p \notin h.lru, is_file_lru(l) <=> p \in FilePages
    PROVE  Moved(h, lru_cache_add_lru(h, p, l), s, p, Pagevec)
<1> DEFINE g == lru_cache_add_lru(h, p, l)
<1>0. h.on \in [Pages -> Places] /\ h.goal \in [Pages -> Evictable]
  BY DEF PageRecord
<1>1. /\ g \in PageRecord
      /\ g.on = [h.on EXCEPT ![p] = -3] /\ g.goal = [h.goal EXCEPT ![p] = l]
      /\ g.lru = h.lru /\ g.active = h.active \ {p} /\ g.unevictable = h.unevictable \ {p}
      /\ g.stat = h.stat /\ g.isolated = h.isolated
  BY NoList DEF PageRecord, lru_cache_add_lru
<1> HIDE DEF g
<1>2. \A q \in Pages \ {p} : SamePage(h, g, q)
  BY <1>0, <1>1 DEF SamePage
<1>3. PageSound(g, s, p)
  BY <1>0, <1>1, NoList DEF PageSound, Queued
<1>4. h.on[p] \in Places \ Lists
  BY <1>0
<1>5. /\ h.stat[8] \in Int
      /\ \A f \in Kinds : StatSum(h.stat, f) \in Int
  BY StatInt DEF PageRecord
<1>6. /\ g.stat[8] = h.stat[8] + Is(-3, {8}) - Is(h.on[p], {8})
      /\ \A f \in Kinds : StatSum(g.stat, f) =
            StatSum(h.stat, f) + Is(-3, KindLists(f)) - Is(h.on[p], KindLists(f))
  BY <1>1, <1>4, <1>5, NoList, OffLists
<1>7. QED  BY <1>1, <1>2, <1>3, <1>6, NoList DEF Moved, g

\* g is h with page p put on list l and counted there.
Refiled(h, p, l, g) ==
    /\ g \in PageRecord
    /\ g.on = [h.on EXCEPT ![p] = l]
    /\ g.lru = h.lru \cup {p}
    /\ g.stat = Up(h.stat, l)
    /\ g.goal = h.goal /\ g.active = h.active /\ g.unevictable = h.unevictable
    /\ g.mlocked = h.mlocked /\ g.linked = h.linked /\ g.isolated = h.isolated

\* Refile for one page
LEMMA RefileOne ==
    ASSUME NEW h \in PageRecord, NEW p \in Pages, NEW dest, dest[p] \in Lists,
           NEW g, g = Refile(h, {p}, dest)
    PROVE  Refiled(h, p, dest[p], g)
<1> DEFINE l == dest[p]
           on == [q \in Pages |-> IF q \in {p} THEN dest[q] ELSE h.on[q]]
           st == [k \in Lists |-> h.stat[k] + Cardinality({q \in {p} : dest[q] = k})]
<1>0. h.on \in [Pages -> Places] /\ h.stat \in [Lists -> Int]
  BY DEF PageRecord
<1>1. on = [h.on EXCEPT ![p] = l] /\ on \in [Pages -> Places]
  BY <1>0 DEF Places
<1>2. \A k : Cardinality({q \in {p} : dest[q] = k}) = IF k = l THEN 1 ELSE 0
  <2> SUFFICES ASSUME NEW k
               PROVE  Cardinality({q \in {p} : dest[q] = k}) = IF k = l THEN 1 ELSE 0
    OBVIOUS
  <2>1. CASE k = l
    <3>1. {q \in {p} : dest[q] = k} = {p}  BY <2>1
    <3>2. QED  BY <2>1, <3>1, FS_Singleton
  <2>2. CASE k # l
    <3>1. {q \in {p} : dest[q] = k} = {}  BY <2>2
    <3>2. QED  BY <2>2, <3>1, FS_EmptySet
  <2>3. QED  BY <2>1, <2>2
<1>3. st = Up(h.stat, l) /\ st \in [Lists -> Int]
  <2> DEFINE c(k) == Cardinality({q \in {p} : dest[q] = k})
  <2>1. \A k : c(k) = IF k = l THEN 1 ELSE 0
    BY <1>2
  <2>2. st = [k \in Lists |-> h.stat[k] + c(k)]
    OBVIOUS
  <2> HIDE DEF c, st, l
  <2>3. QED  BY <1>0, <2>1, <2>2 DEF Up
<1>4. g = [h EXCEPT !.on = on, !.lru = @ \cup {p}, !.stat = st]
  BY DEF Refile, PageRecord
<1> HIDE DEF on, st, l
<1>5. /\ g.on = on /\ g.lru = h.lru \cup {p} /\ g.stat = st
      /\ g.goal = h.goal /\ g.active = h.active /\ g.unevictable = h.unevictable
      /\ g.mlocked = h.mlocked /\ g.linked = h.linked /\ g.isolated = h.isolated
  BY <1>4 DEF PageRecord
<1>6. g \in PageRecord
  <2>1. on \in [Pages -> Places] /\ st \in [Lists -> Int] /\ h.lru \cup {p} \in SUBSET Pages
    BY <1>1, <1>3 DEF PageRecord
  <2>2. QED  BY <1>4, <2>1 DEF PageRecord
<1>7. QED  BY <1>1, <1>3, <1>5, <1>6 DEF l, Refiled

\* The counters after one page is put on list l
LEMMA CountedUp ==
    ASSUME NEW h \in PageRecord, NEW st, NEW p \in Pages, NEW l \in Lists,
           h.on[p] \notin Lists, st = Up(h.stat, l)
    PROVE  /\ st[8] = h.stat[8] + Is(l, {8}) - Is(h.on[p], {8})
           /\ \A f \in Kinds : StatSum(st, f) =
                StatSum(h.stat, f) + Is(l, KindLists(f)) - Is(h.on[p], KindLists(f))
<1>1. h.on[p] \in Places \ Lists /\ h.stat \in [Lists -> Int] /\ 8 \in Lists
  BY DEF PageRecord, Lists
<1>2. /\ st[8] = h.stat[8] + Is(l, {8})
      /\ \A f \in Kinds : StatSum(st, f) = StatSum(h.stat, f) + Is(l, KindLists(f))
  BY <1>1, StatUp
<1>3. Is(h.on[p], {8}) = 0 /\ \A f \in Kinds : Is(h.on[p], KindLists(f)) = 0
  BY <1>1, OffLists
<1>4. h.stat[8] \in Int /\ \A f \in Kinds : StatSum(h.stat, f) \in Int
  BY <1>1, StatInt
<1>5. QED  BY <1>2, <1>3, <1>4, IsNat

\* ... and after one page that list l counts is taken off the list it is on
LEMMA CountedDown ==
    ASSUME NEW h \in PageRecord, NEW st, NEW s, NEW p \in h.lru, NEW x, x \in {-1, -2},
           PageSound(h, s, p), st = Down(h.stat, page_lru(h, p))
    PROVE  /\ st[8] = h.stat[8] + Is(x, {8}) - Is(h.on[p], {8})
           /\ \A f \in Kinds : StatSum(st, f) =
                StatSum(h.stat, f) + Is(x, KindLists(f)) - Is(h.on[p], KindLists(f))
<1> DEFINE l == page_lru(h, p)
<1>1. p \in Pages /\ h.stat \in [Lists -> Int] /\ 8 \in Lists
  BY DEF PageRecord, Lists
<1>2. Named(h, p, l) /\ l \in Lists /\ Named(h, p, h.on[p])
  BY <1>1, PageLruNamed DEF PageSound
<1>3. /\ Is(h.on[p], {8}) = Is(l, {8})
      /\ \A f \in Kinds : Is(h.on[p], KindLists(f)) = Is(l, KindLists(f))
  BY <1>1, <1>2, SameKind
<1> HIDE DEF l
<1>4. st = Down(h.stat, l)
  BY DEF l
<1>5. /\ st[8] = h.stat[8] - Is(l, {8})
      /\ \A f \in Kinds : StatSum(st, f) = StatSum(h.stat, f) - Is(l, KindLists(f))
  BY <1>1, <1>2, <1>4, StatDown
<1>6. Is(x, {8}) = 0 /\ \A f \in Kinds : Is(x, KindLists(f)) = 0
  BY NoList
<1>7. h.stat[8] \in Int /\ \A f \in Kinds : StatSum(h.stat, f) \in Int
  BY <1>1, StatInt
<1>8. QED  BY <1>3, <1>5, <1>6, <1>7, IsNat

\* putback_lru_page: into a pagevec, or onto the unevictable list
LEMMA Putback ==
    ASSUME NEW h \in PageRecord, NEW s, NEW p \in Pages, h.on[p] \notin Lists, p \notin h.lru
    PROVE  \E x \in {Pagevec, LRU_UNEVICTABLE} : Moved(h, putback_lru_page(h, p), s, p, x)
<1> DEFINE k == [h EXCEPT !.active = @ \ {p}, !.unevictable = @ \ {p}]
           a == IF p \in h.active THEN LRU_ACTIVE ELSE 0
           l == a + page_lru_base_type(k, p)
           d == [q \in {p} |-> LRU_UNEVICTABLE]
           e == [Refile(k, {p}, d) EXCEPT !.unevictable = @ \cup {p}]
<1>1. /\ k \in PageRecord /\ k.on = h.on /\ k.stat = h.stat /\ k.isolated = h.isolated
      /\ k.lru = h.lru /\ k.goal = h.goal
      /\ k.active = h.active \ {p} /\ k.unevictable = h.unevictable \ {p}
  BY DEF PageRecord
<1>2. \A q \in Pages \ {p} : SamePage(h, k, q)
  BY <1>1 DEF SamePage
<1>3. l \in Evictable /\ (is_file_lru(l) <=> p \in FilePages)
  <2> DEFINE b == page_lru_base_type(k, p)
  <2>1. /\ b \in Evictable /\ b + 1 \in Evictable /\ 0 + b = b /\ 1 + b = b + 1
        /\ is_file_lru(b) <=> p \in FilePages
        /\ is_file_lru(b + 1) <=> p \in FilePages
    BY BaseLists DEF Evictable
  <2> HIDE DEF b
  <2>2. l = IF p \in h.active THEN 1 + b ELSE 0 + b
    BY DEF b
  <2>3. QED  BY <2>1, <2>2
<1>4. putback_lru_page(h, p) = IF page_evictable(k, p) THEN lru_cache_add_lru(k, p, l) ELSE e
  BY DEF putback_lru_page
<1>5. Moved(k, lru_cache_add_lru(k, p, l), s, p, Pagevec)
  BY <1>1, <1>3, CacheAdd
<1>6. Moved(k, e, s, p, 8)
  <2> DEFINE r == Refile(k, {p}, d)
  <2>1. d[p] = 8 /\ d[p] \in Lists /\ 8 \in Lists /\ 8 \in Places
    BY DEF Lists, Places
  <2> HIDE DEF r, k, d
  <2>2. /\ r \in PageRecord /\ r.on = [k.on EXCEPT ![p] = 8]
        /\ r.lru = k.lru \cup {p} /\ r.stat = Up(k.stat, 8)
        /\ r.goal = k.goal /\ r.active = k.active /\ r.unevictable = k.unevictable
        /\ r.isolated = k.isolated
    <3>1. r = Refile(k, {p}, d)
      BY DEF r
    <3>2. k \in PageRecord /\ d[p] \in Lists
      BY <1>1, <2>1
    <3>3. Refiled(k, p, d[p], r)
      BY <3>1, <3>2, RefileOne
    <3>4. QED  BY <2>1, <3>3 DEF Refiled
  <2>3. /\ e \in PageRecord /\ e.on = [k.on EXCEPT ![p] = 8] /\ e.lru = k.lru \cup {p}
        /\ e.stat = Up(k.stat, 8) /\ e.goal = k.goal
        /\ e.active = k.active /\ e.unevictable = k.unevictable \cup {p}
        /\ e.isolated = k.isolated
    BY <2>2 DEF PageRecord, r
  <2> HIDE DEF e
  <2>4. k.on \in [Pages -> Places]
    BY <1>1 DEF PageRecord
  <2>5. \A q \in Pages \ {p} : SamePage(k, e, q)
    BY <2>3, <2>4 DEF SamePage
  <2>6. PageSound(e, s, p)
    BY <1>1, <2>1, <2>3, <2>4 DEF PageSound, Named
  <2>7. /\ e.stat[8] = k.stat[8] + Is(8, {8}) - Is(k.on[p], {8})
        /\ \A f \in Kinds : StatSum(e.stat, f) =
            StatSum(k.stat, f) + Is(8, KindLists(f)) - Is(k.on[p], KindLists(f))
    BY <1>1, <2>1, <2>3, CountedUp
  <2>8. QED  BY <2>1, <2>3, <2>5, <2>6, <2>7 DEF Moved
<1> HIDE DEF k, l, e
<1>7. QED  BY <1>1, <1>2, <1>4, <1>5, <1>6, FlagsFirst

\* isolate_lru_page: off its list, if it is on one
LEMMA Isolate ==
    ASSUME NEW h \in PageRecord, NEW s, NEW p \in Pages, PageSound(h, s, p)
    PROVE  \E x \in Places : Moved(h, isolate_lru_page(h, p), s, p, x)
<1>1. CASE p \in h.lru
  <2> DEFINE l == page_lru(h, p)
             g == isolate_lru_page(h, p)
  <2>1. l \in Lists /\ h.on \in [Pages -> Places] /\ h.stat \in [Lists -> Int]
    BY PageLruNamed DEF PageRecord
  <2>2. Down(h.stat, l) \in [Lists -> Int]
    BY <2>1, StatDown
  <2>3. g = [h EXCEPT !.on[p] = -2, !.stat = Down(@, l), !.lru = @ \ {p}]
    BY <1>1 DEF isolate_lru_page, del_page_from_lru_list, PageRecord, Down
  <2> HIDE DEF g, l
  <2>4. /\ g \in PageRecord /\ g.on = [h.on EXCEPT ![p] = -2] /\ g.lru = h.lru \ {p}
        /\ g.stat = Down(h.stat, l) /\ g.goal = h.goal
        /\ g.active = h.active /\ g.unevictable = h.unevictable /\ g.isolated = h.isolated
    BY <2>1, <2>2, <2>3, NoList DEF PageRecord
  <2>5. \A q \in Pages \ {p} : SamePage(h, g, q)
    BY <2>1, <2>4 DEF SamePage
  <2>6. PageSound(g, s, p)
    BY <2>1, <2>4, NoList DEF PageSound
  <2>7. /\ g.stat[8] = h.stat[8] + Is(-2, {8}) - Is(h.on[p], {8})
        /\ \A f \in Kinds : StatSum(g.stat, f) =
            StatSum(h.stat, f) + Is(-2, KindLists(f)) - Is(h.on[p], KindLists(f))
    BY <1>1, <2>4, CountedDown DEF l
  <2>8. Moved(h, g, s, p, -2)
    BY <2>4, <2>5, <2>6, <2>7, NoList DEF Moved
  <2>9. QED  BY <2>8, NoList DEF g
<1>2. CASE p \notin h.lru
  <2>1. isolate_lru_page(h, p) = h
    BY <1>2 DEF isolate_lru_page
  <2>2. h.on \in [Pages -> Places] /\ h.stat \in [Lists -> Int] /\ 8 \in Lists
    BY DEF PageRecord, Lists
  <2>3. h.on = [h.on EXCEPT ![p] = h.on[p]] /\ h.on[p] \in Places
    BY <2>2
  <2>4. /\ h.stat[8] = h.stat[8] + Is(h.on[p], {8}) - Is(h.on[p], {8})
        /\ \A f \in Kinds : StatSum(h.stat, f) =
            StatSum(h.stat, f) + Is(h.on[p], KindLists(f)) - Is(h.on[p], KindLists(f))
    BY <2>2, StatInt, IsNat
  <2>5. Moved(h, h, s, p, h.on[p])
    BY <2>2, <2>3, <2>4 DEF Moved, SamePage
  <2>6. QED  BY <2>1, <2>3, <2>5
<1>3. QED  BY <1>1, <1>2

\* The page stays where it is, and its flags do: its lock or its chain changes.
LEMMA Unmoved ==
    ASSUME NEW h \in PageRecord, NEW g \in PageRecord, NEW s, NEW p \in Pages,
           PageSound(h, s, p),
           g.on = h.on, g.stat = h.stat, g.isolated = h.isolated, g.goal = h.goal,
           g.lru = h.lru, g.active = h.active, g.unevictable = h.unevictable
    PROVE  PageSound(g, s, p) /\ Moved(h, g, s, p, h.on[p])
<1>1. h.on \in [Pages -> Places] /\ h.stat \in [Lists -> Int] /\ 8 \in Lists
  BY DEF PageRecord, Lists
<1>2. \A q \in Pages : SamePage(h, g, q)
  BY DEF SamePage
<1>3. PageSound(g, s, p)
  BY <1>2, SamePageSound
<1>4. /\ g.stat[8] = h.stat[8] + Is(h.on[p], {8}) - Is(h.on[p], {8})
      /\ \A f \in Kinds : StatSum(g.stat, f) =
            StatSum(h.stat, f) + Is(h.on[p], KindLists(f)) - Is(h.on[p], KindLists(f))
  BY <1>1, StatInt, IsNat
<1>5. g.on = [h.on EXCEPT ![p] = h.on[p]] /\ h.on[p] \in Places
  BY <1>1
<1>6. QED  BY <1>2, <1>3, <1>4, <1>5 DEF Moved

\* A page that is on no list is freed or changes hands within the scan.
LEMMA OffToOff ==
    ASSUME NEW h \in PageRecord, NEW g \in PageRecord, NEW s, NEW p \in Pages,
           NEW x \in {Free, Kept}, h.on[p] \notin Lists,
           x = Kept => h.on[p] = Taken,
           g.on = [h.on EXCEPT ![p] = x], g.stat = h.stat, g.isolated = h.isolated,
           \A q \in Pages \ {p} : SamePage(h, g, q),
           PageSound(g, s, p)
    PROVE  Moved(h, g, s, p, x)
<1>1. h.on[p] \in Places \ Lists /\ h.stat \in [Lists -> Int] /\ 8 \in Lists
  BY DEF PageRecord, Lists
<1>2. /\ g.stat[8] = h.stat[8] + Is(x, {8}) - Is(h.on[p], {8})
      /\ \A f \in Kinds : StatSum(g.stat, f) =
            StatSum(h.stat, f) + Is(x, KindLists(f)) - Is(h.on[p], KindLists(f))
  <2>1. h.stat[8] \in Int /\ \A f \in Kinds : StatSum(h.stat, f) \in Int
    BY <1>1, StatInt
  <2>2. /\ Is(x, {8}) = 0 /\ Is(h.on[p], {8}) = 0
        /\ \A f \in Kinds : Is(x, KindLists(f)) = 0 /\ Is(h.on[p], KindLists(f)) = 0
    BY <1>1, NoList, OffLists
  <2>3. QED  BY <2>1, <2>2
<1>3. QED  BY <1>2, NoList DEF Moved

\* A page goes from one list to another; the counter of the list that its flags name,
\* or of that without PG_active, goes down.
LEMMA Relisted ==
    ASSUME NEW h \in PageRecord, NEW g \in PageRecord, NEW s, NEW p \in h.lru,
           NEW l, NEW k \in Lists,
           PageSound(h, s, p), Named(h, p, l), Named(g, p, k),
           ~(p \in g.active /\ p \in g.unevictable),
           g.on = [h.on EXCEPT ![p] = k], g.stat = Up(Down(h.stat, l), k),
           g.isolated = h.isolated, p \in g.lru,
           \A q \in Pages \ {p} : SamePage(h, g, q)
    PROVE  Moved(h, g, s, p, k)
<1>1. /\ p \in Pages /\ h.stat \in [Lists -> Int] /\ h.on \in [Pages -> Places]
      /\ g.on[p] = k /\ k \in Places
  BY DEF PageRecord, Places
<1>2. Named(h, p, h.on[p])
  BY <1>1 DEF PageSound
<1>3. /\ l \in Lists /\ Is(h.on[p], {8}) = Is(l, {8})
      /\ \A f \in Kinds : Is(h.on[p], KindLists(f)) = Is(l, KindLists(f))
  BY <1>1, <1>2, SameKind
<1>4. /\ Down(h.stat, l) \in [Lists -> Int]
      /\ Down(h.stat, l)[8] = h.stat[8] - Is(l, {8})
      /\ \A f \in Kinds : StatSum(Down(h.stat, l), f) = StatSum(h.stat, f) - Is(l, KindLists(f))
  BY <1>1, <1>3, StatDown
<1>5. /\ g.stat[8] = Down(h.stat, l)[8] + Is(k, {8})
      /\ \A f \in Kinds : StatSum(g.stat, f) = StatSum(Down(h.stat, l), f) + Is(k, KindLists(f))
  BY <1>4, StatUp
<1>6. h.stat[8] \in Int /\ \A f \in Kinds : StatSum(h.stat, f) \in Int
  BY <1>1, StatInt
<1>7. /\ g.stat[8] = h.stat[8] + Is(k, {8}) - Is(h.on[p], {8})
      /\ \A f \in Kinds : StatSum(g.stat, f) =
            StatSum(h.stat, f) + Is(k, KindLists(f)) - Is(h.on[p], KindLists(f))
  BY <1>3, <1>4, <1>5, <1>6, IsNat
<1>8. PageSound(g, s, p)
  BY <1>1, NoList DEF PageSound
<1>9. k \notin {Taken, Kept}
  BY NoList
<1>10. QED  BY <1>1, <1>7, <1>8, <1>9 DEF Moved

\* One page is taken off list l and put on list k.
LEMMA Readded ==
    ASSUME NEW h \in PageRecord, NEW p \in Pages, NEW l \in Lists, NEW k \in Lists, NEW g,
           g = add_page_to_lru_list(del_page_from_lru_list(h, p, l), p, k)
    PROVE  /\ g \in PageRecord /\ g.on = [h.on EXCEPT ![p] = k]
           /\ g.stat = Up(Down(h.stat, l), k) /\ g.isolated = h.isolated
           /\ g.goal = h.goal /\ g.lru = h.lru /\ g.active = h.active
           /\ g.unevictable = h.unevictable /\ g.linked = h.linked
<1> DEFINE c == del_page_from_lru_list(h, p, l)
<1>0. h.on \in [Pages -> Places] /\ h.stat \in [Lists -> Int] /\ k \in Places
  BY DEF PageRecord, Places
<1>1. c = [h EXCEPT !.on = [@ EXCEPT ![p] = -2], !.stat = Down(@, l)]
  BY <1>0 DEF del_page_from_lru_list, PageRecord, Down
<1>2. Down(h.stat, l) \in [Lists -> Int]
  BY <1>0, StatDown
<1> HIDE DEF c
<1>3. /\ c \in PageRecord /\ c.on = [h.on EXCEPT ![p] = -2] /\ c.stat = Down(h.stat, l)
      /\ c.isolated = h.isolated /\ c.goal = h.goal /\ c.lru = h.lru
      /\ c.active = h.active /\ c.unevictable = h.unevictable /\ c.linked = h.linked
  BY <1>0, <1>1, <1>2, NoList DEF PageRecord
<1>4. g = [c EXCEPT !.on = [@ EXCEPT ![p] = k], !.stat = Up(@, k)]
  BY <1>3 DEF add_page_to_lru_list, PageRecord, Up, c
<1>5. Up(c.stat, k) \in [Lists -> Int] /\ [c.on EXCEPT ![p] = k] \in [Pages -> Places]
  BY <1>0, <1>2, <1>3, StatUp
<1>6. /\ g \in PageRecord /\ g.on = [c.on EXCEPT ![p] = k] /\ g.stat = Up(c.stat, k)
      /\ g.isolated = c.isolated /\ g.goal = c.goal /\ g.lru = c.lru
      /\ g.active = c.active /\ g.unevictable = c.unevictable /\ g.linked = c.linked
  BY <1>3, <1>4, <1>5 DEF PageRecord
<1>7. [c.on EXCEPT ![p] = k] = [h.on EXCEPT ![p] = k]
  BY <1>0, <1>3
<1>8. QED  BY <1>3, <1>6, <1>7

\* The scan has looked at a page; it may have changed PG_active.
LEMMA ToKept ==
    ASSUME NEW h \in PageRecord, NEW g \in PageRecord, NEW s, NEW p \in Pages,
           PageSound(h, s, p), h.on[p] = Taken,
           g.on = [h.on EXCEPT ![p] = Kept], g.stat = h.stat, g.isolated = h.isolated,
           g.goal = h.goal, g.lru = h.lru, g.unevictable = h.unevictable,
           \A q \in Pages \ {p} : q \in g.active <=> q \in h.active
    PROVE  Moved(h, g, s, p, Kept)
<1>1. h.on \in [Pages -> Places] /\ g.on[p] = -5 /\ h.on[p] \notin Lists /\ -5 \notin Lists
  BY NoList DEF PageRecord
<1>2. \A q \in Pages \ {p} : SamePage(h, g, q)
  BY <1>1 DEF SamePage
<1>3. PageSound(g, s, p)
  BY <1>1 DEF PageSound, Scanned
<1>4. QED  BY <1>1, <1>2, <1>3, OffToOff

-----------------------------------------------------------------------------
(* Every step keeps the invariant *)

\* What the invariant says when one page is looked at
Known(p) ==
    /\ m \in PageRecord /\ m.on \in [Pages -> Places] /\ m.stat \in [Lists -> Int]
    /\ m.goal \in [Pages -> Evictable] /\ m.on[p] \in Places /\ m.goal[p] \in Evictable
    /\ PageSound(m, scan, p)
    /\ bug = FALSE /\ oops = FALSE

LEMMA PageFacts == ASSUME IInv, NEW p \in Pages PROVE Known(p)
BY DEF IInv, TypeSound, PagesSound, PageRecord, Known

\* Nothing else runs while hate is between test and lock.
LEMMA NotHating == ASSUME ~Preempt, Runs PROVE hating = NoPage
BY DEF Runs

LEMMA FaultStep == ASSUME IInv, ~Preempt, NEW p \in Pages, Fault(p) PROVE IInv'
<1> DEFINE l == IF p \in FilePages THEN LRU_FILE ELSE LRU_ACTIVE
<1>0. Known(p)
  BY PageFacts
<1> USE DEF Known
<1>1. l \in Evictable /\ (is_file_lru(l) <=> p \in FilePages)
  BY ListKinds DEF Evictable
<1>2. /\ m' = lru_cache_add_lru(m, p, l) /\ m.on[p] = -1
      /\ scan' = scan /\ hating' = NoPage /\ bug' = FALSE /\ oops' = FALSE
  BY NotHating, <1>0 DEF Fault, OnlyPages
<1> HIDE DEF l
<1>3. m.on[p] \notin Lists /\ p \notin m.lru
  BY <1>2, NoList, <1>0 DEF PageSound
<1>4. Moved(m, m', scan, p, -3)
  BY <1>1, <1>2, <1>3, CacheAdd, <1>0
<1>5. QED  BY <1>2, <1>4, OnePage

LEMMA PagevecLruAddStep ==
    ASSUME IInv, ~Preempt, NEW p \in Pages, PagevecLruAdd(p) PROVE IInv'
<1> DEFINE l == m.goal[p]
           r == Refile(m, {p}, m.goal)
<1>0. Known(p)
  BY PageFacts
<1> USE DEF Known
<1>1. /\ m' = [r EXCEPT !.active = IF is_active_lru(l) THEN @ \cup {p} ELSE @,
                        !.goal[p] = 0]
      /\ m.on[p] = -3
      /\ bug' = (p \in m.active \cup m.unevictable \cup m.lru)
      /\ scan' = scan /\ hating' = NoPage /\ oops' = FALSE
  BY NotHating, <1>0 DEF PagevecLruAdd
<1>2. Queued(m, p) /\ p \notin m.lru /\ m.on[p] \notin Lists
  BY <1>1, NoList, <1>0 DEF PageSound
<1>3. bug' = FALSE
  <2>1. p \notin m.active \cup m.unevictable \cup m.lru
    BY <1>2 DEF Queued
  <2>2. bug' = (p \in m.active \cup m.unevictable \cup m.lru)
    BY <1>1, Zenon
  <2>3. (p \in m.active \cup m.unevictable \cup m.lru) = FALSE
    BY <2>1
  <2>4. QED  BY <2>2, <2>3, Zenon
<1>4. l \in Evictable /\ l \in Lists /\ l \in Places
  BY <1>0, ListKinds DEF Places
<1> HIDE DEF r, l
<1>5. /\ r \in PageRecord /\ r.on = [m.on EXCEPT ![p] = l] /\ r.lru = m.lru \cup {p}
      /\ r.stat = Up(m.stat, l)
      /\ r.goal = m.goal /\ r.active = m.active /\ r.unevictable = m.unevictable
      /\ r.isolated = m.isolated
  <2>1. m \in PageRecord
    BY <1>0
  <2> DEFINE d == m.goal
  <2>2. l = d[p] /\ r = Refile(m, {p}, d)
    BY DEF l, r
  <2> HIDE DEF d
  <2>3. d[p] \in Lists
    BY <1>4, <2>2
  <2>4. Refiled(m, p, d[p], r)
    BY <2>1, <2>2, <2>3, RefileOne
  <2>5. QED  BY <2>2, <2>4 DEF Refiled
<1>6. /\ m' \in PageRecord /\ m'.on = [m.on EXCEPT ![p] = l] /\ m'.lru = m.lru \cup {p}
      /\ m'.stat = Up(m.stat, l) /\ m'.isolated = m.isolated
      /\ m'.goal = [m.goal EXCEPT ![p] = 0]
      /\ m'.active = IF is_active_lru(l) THEN m.active \cup {p} ELSE m.active
      /\ m'.unevictable = m.unevictable
  <2> DEFINE a == IF is_active_lru(l) THEN r.active \cup {p} ELSE r.active
             go == [r.goal EXCEPT ![p] = 0]
  <2>1. m' = [r EXCEPT !.active = a, !.goal = go]
    BY <1>1
  <2>2. a \in SUBSET Pages /\ go \in [Pages -> Evictable]
    BY <1>5 DEF PageRecord, Evictable
  <2>3. go = [m.goal EXCEPT ![p] = 0] /\ a = IF is_active_lru(l) THEN m.active \cup {p} ELSE m.active
    BY <1>5
  <2> HIDE DEF a, go
  <2>4. /\ m' \in PageRecord /\ m'.on = r.on /\ m'.lru = r.lru /\ m'.stat = r.stat
        /\ m'.isolated = r.isolated /\ m'.goal = go /\ m'.active = a
        /\ m'.unevictable = r.unevictable
    BY <1>5, <2>1, <2>2 DEF PageRecord
  <2>5. QED  BY <1>5, <2>3, <2>4
<1>7. \A q \in Pages \ {p} : SamePage(m, m', q)
  BY <1>6, <1>0 DEF SamePage
<1>8. PageSound(m', scan, p)
  <2>1. m'.on[p] = l /\ l # -3 /\ l # -4 /\ l # -5
    BY <1>4, <1>6, <1>0, NoList
  <2>2. is_file_lru(l) <=> p \in FilePages
    BY <1>2 DEF Queued, l
  <2>3. QED  BY <1>2, <1>4, <1>6, <2>1, <2>2 DEF PageSound, Named, Queued
<1>9. /\ m'.stat[8] = m.stat[8] + Is(l, {8}) - Is(m.on[p], {8})
      /\ \A f \in Kinds : StatSum(m'.stat, f) =
            StatSum(m.stat, f) + Is(l, KindLists(f)) - Is(m.on[p], KindLists(f))
  BY <1>2, <1>4, <1>6, <1>0, CountedUp
<1>10. l \notin {-4, -5}
  BY <1>4, NoList
<1>11. Moved(m, m', scan, p, l)
  BY <1>4, <1>6, <1>7, <1>8, <1>9, <1>10 DEF Moved
<1>12. QED  BY <1>1, <1>3, <1>11, OnePage

LEMMA ReleaseStep == ASSUME IInv, ~Preempt, NEW p \in Pages, Release(p) PROVE IInv'
<1> DEFINE l == page_lru(m, p)
           d == del_page_from_lru(m, p)
<1>0. Known(p)
  BY PageFacts
<1> USE DEF Known
<1>1. /\ m.on[p] \in Lists /\ m' = Freed(IF p \in m.lru THEN d ELSE m, p)
      /\ scan' = scan /\ hating' = NoPage /\ bug' = FALSE /\ oops' = FALSE
  BY NotHating, <1>0 DEF Release, OnlyPages
<1>2. p \in m.lru /\ m' = Freed(d, p)
  BY <1>1, <1>0 DEF PageSound
<1>3. l \in Lists /\ Down(m.stat, l) \in [Lists -> Int]
  BY PageLruNamed, <1>0, StatDown
<1>4. /\ d \in PageRecord /\ d.on = [m.on EXCEPT ![p] = -2] /\ d.lru = m.lru
      /\ d.stat = Down(m.stat, l) /\ d.goal = m.goal /\ d.isolated = m.isolated
      /\ d.unevictable = m.unevictable \ {p}
      /\ \A q \in Pages \ {p} : q \in d.active <=> q \in m.active
  <2> DEFINE c == del_page_from_lru_list(m, p, l)
  <2>1. c = [m EXCEPT !.on[p] = -2, !.stat = Down(@, l)]
    BY <1>0 DEF del_page_from_lru_list, PageRecord, Down
  <2>2. d = [c EXCEPT !.unevictable = @ \ {p},
                      !.active = IF p \in m.unevictable THEN @ ELSE @ \ {p}]
    BY DEF del_page_from_lru
  <2> HIDE DEF c, d, l
  <2>3. /\ c \in PageRecord /\ c.on = [m.on EXCEPT ![p] = -2] /\ c.lru = m.lru
        /\ c.stat = Down(m.stat, l) /\ c.goal = m.goal
        /\ c.isolated = m.isolated /\ c.unevictable = m.unevictable /\ c.active = m.active
    BY <1>3, <2>1, <1>0, NoList DEF PageRecord
  <2>4. QED  BY <2>2, <2>3 DEF PageRecord
<1> HIDE DEF d
<1>5. /\ m' \in PageRecord /\ m'.on = [m.on EXCEPT ![p] = -1]
      /\ m'.stat = Down(m.stat, l) /\ m'.goal = m.goal
      /\ m'.isolated = m.isolated /\ m'.lru = m.lru \ {p}
      /\ m'.unevictable = m.unevictable \ {p} /\ m'.active = d.active \ {p}
  <2> HIDE DEF l
  <2>1. QED  BY <1>2, <1>4, <1>0, NoList DEF PageRecord, Freed
<1>6. \A q \in Pages \ {p} : SamePage(m, m', q)
  BY <1>4, <1>5, <1>0 DEF SamePage
<1>7. PageSound(m', scan, p)
  BY <1>5, <1>0, NoList DEF PageSound
<1>8. /\ m'.stat[8] = m.stat[8] + Is(-1, {8}) - Is(m.on[p], {8})
      /\ \A f \in Kinds : StatSum(m'.stat, f) =
            StatSum(m.stat, f) + Is(-1, KindLists(f)) - Is(m.on[p], KindLists(f))
  BY <1>2, <1>5, <1>0, CountedDown
<1>9. Moved(m, m', scan, p, -1)
  BY <1>5, <1>6, <1>7, <1>8, NoList DEF Moved
<1>10. QED  BY <1>1, <1>9, OnePage

LEMMA LinkStep == ASSUME IInv, ~Preempt, NEW p \in Pages, Link(p) \/ Unlink(p) PROVE IInv'
<1>0. Known(p)
  BY PageFacts
<1> USE DEF Known
<1>1. /\ m' = [m EXCEPT !.linked = m'.linked] /\ m'.linked \in SUBSET Pages
      /\ scan' = scan /\ hating' = NoPage /\ bug' = FALSE /\ oops' = FALSE
  <2>1. m \in PageRecord /\ Runs /\ bug = FALSE /\ oops = FALSE
    BY <1>0 DEF Link, Unlink
  <2>2. \E S \in SUBSET Pages : m' = [m EXCEPT !.linked = S]
    BY <2>1 DEF Link, Unlink, PageRecord
  <2>3. scan' = scan /\ hating' = NoPage /\ bug' = FALSE /\ oops' = FALSE
    BY <2>1, NotHating DEF Link, Unlink, OnlyPages
  <2>4. QED  BY <2>1, <2>2, <2>3 DEF PageRecord
<1>2. /\ m' \in PageRecord /\ m'.on = m.on /\ m'.stat = m.stat /\ m'.isolated = m.isolated
      /\ m'.goal = m.goal /\ m'.lru = m.lru /\ m'.active = m.active
      /\ m'.unevictable = m.unevictable
  BY <1>1, <1>0 DEF PageRecord
<1>3. Moved(m, m', scan, p, m.on[p])
  BY <1>2, <1>0, Unmoved
<1>4. QED  BY <1>1, <1>3, OnePage

LEMMA ShmStep ==
    ASSUME IInv, ~Preempt, NEW p \in Pages, ShmLock(p) \/ ShmUnlock(p) PROVE IInv'
<1>0. Known(p)
  BY PageFacts
<1> USE DEF Known
<1>1. /\ m' = [m EXCEPT !.mlocked = m'.mlocked] /\ m'.mlocked \in SUBSET Pages
      /\ scan' = scan /\ hating' = NoPage /\ bug' = FALSE /\ oops' = FALSE
  <2>1. m \in PageRecord /\ Runs /\ bug = FALSE /\ oops = FALSE
    BY <1>0 DEF ShmLock, ShmUnlock
  <2>2. \E S \in SUBSET Pages : m' = [m EXCEPT !.mlocked = S]
    BY <2>1 DEF ShmLock, ShmUnlock, PageRecord
  <2>3. scan' = scan /\ hating' = NoPage /\ bug' = FALSE /\ oops' = FALSE
    BY <2>1, NotHating DEF ShmLock, ShmUnlock, OnlyPages
  <2>4. QED  BY <2>1, <2>2, <2>3 DEF PageRecord
<1>2. /\ m' \in PageRecord /\ m'.on = m.on /\ m'.stat = m.stat /\ m'.isolated = m.isolated
      /\ m'.goal = m.goal /\ m'.lru = m.lru /\ m'.active = m.active
      /\ m'.unevictable = m.unevictable
  BY <1>1, <1>0 DEF PageRecord
<1>3. Moved(m, m', scan, p, m.on[p])
  BY <1>2, <1>0, Unmoved
<1>4. QED  BY <1>1, <1>3, OnePage

LEMMA MlockStep ==
    ASSUME IInv, ~Preempt, NEW p \in Pages, Mlock(p) \/ Munlock(p) PROVE IInv'
<1>0. Known(p)
  BY PageFacts
<1> USE DEF Known
<1>1. /\ scan' = scan /\ hating' = NoPage /\ bug' = FALSE /\ oops' = FALSE
      /\ \E k \in PageRecord :
            /\ m' = isolate_lru_page(k, p)
            /\ k.on = m.on /\ k.stat = m.stat /\ k.isolated = m.isolated
            /\ k.goal = m.goal /\ k.lru = m.lru /\ k.active = m.active
            /\ k.unevictable = m.unevictable
  <2> DEFINE up == [m EXCEPT !.mlocked = @ \cup {p}]
             down == [m EXCEPT !.mlocked = @ \ {p}]
  <2>1. /\ up \in PageRecord /\ up.on = m.on /\ up.stat = m.stat
        /\ up.isolated = m.isolated /\ up.goal = m.goal /\ up.lru = m.lru
        /\ up.active = m.active /\ up.unevictable = m.unevictable
    BY <1>0 DEF PageRecord
  <2>2. /\ down \in PageRecord /\ down.on = m.on /\ down.stat = m.stat
        /\ down.isolated = m.isolated /\ down.goal = m.goal /\ down.lru = m.lru
        /\ down.active = m.active /\ down.unevictable = m.unevictable
    BY <1>0 DEF PageRecord
  <2>3. /\ m' = isolate_lru_page(up, p) \/ m' = isolate_lru_page(down, p)
        /\ scan' = scan /\ hating' = NoPage /\ bug' = FALSE /\ oops' = FALSE
    BY NotHating, <1>0 DEF Mlock, Munlock, OnlyPages
  <2> HIDE DEF up, down
  <2>4. QED  BY <2>1, <2>2, <2>3
<1>2. PICK k \in PageRecord :
            /\ m' = isolate_lru_page(k, p)
            /\ k.on = m.on /\ k.stat = m.stat /\ k.isolated = m.isolated
            /\ k.goal = m.goal /\ k.lru = m.lru /\ k.active = m.active
            /\ k.unevictable = m.unevictable
  BY <1>1
<1>3. PageSound(k, scan, p) /\ \A q \in Pages \ {p} : SamePage(m, k, q)
  BY <1>2, <1>0, Unmoved DEF SamePage
<1>4. PICK x \in Places : Moved(k, m', scan, p, x)
  BY <1>2, <1>3, Isolate
<1>5. Moved(m, m', scan, p, x)
  BY <1>2, <1>3, <1>4, FlagsFirst
<1>6. QED  BY <1>1, <1>5, OnePage

LEMMA ActivatePageStep ==
    ASSUME IInv, ~Preempt, NEW p \in Pages, ActivatePage(p) PROVE IInv'
<1> DEFINE l == page_lru_base_type(m, p)
<1>0. Known(p)
  BY PageFacts
<1> USE DEF Known
<1>1. /\ p \in m.lru /\ p \notin m.active \cup m.unevictable
      /\ m' = [add_page_to_lru_list(del_page_from_lru_list(m, p, l), p, l + 1)
                  EXCEPT !.active = @ \cup {p}]
      /\ scan' = scan /\ hating' = NoPage /\ bug' = FALSE /\ oops' = FALSE
  BY <1>0, NotHating DEF ActivatePage, OnlyPages
<1>2. /\ l \in Lists /\ l + 1 \in Lists /\ l \in Evictable /\ l + 1 \in Evictable
      /\ ~is_active_lru(l) /\ is_active_lru(l + 1)
      /\ is_file_lru(l) <=> p \in FilePages
      /\ is_file_lru(l + 1) <=> p \in FilePages
  BY BaseLists, ListKinds
<1> HIDE DEF l
<1> DEFINE a == add_page_to_lru_list(del_page_from_lru_list(m, p, l), p, l + 1)
<1>3. /\ a \in PageRecord /\ a.on = [m.on EXCEPT ![p] = l + 1]
      /\ a.stat = Up(Down(m.stat, l), l + 1) /\ a.isolated = m.isolated
      /\ a.goal = m.goal /\ a.lru = m.lru /\ a.active = m.active
      /\ a.unevictable = m.unevictable
  BY <1>0, <1>2, Readded
<1>4. m' = [a EXCEPT !.active = @ \cup {p}]
  BY <1>1
<1> HIDE DEF a
<1>5. /\ m' \in PageRecord /\ m'.on = [m.on EXCEPT ![p] = l + 1]
      /\ m'.stat = Up(Down(m.stat, l), l + 1) /\ m'.isolated = m.isolated
      /\ m'.goal = m.goal /\ m'.lru = m.lru /\ m'.unevictable = m.unevictable
      /\ m'.active = m.active \cup {p}
  BY <1>0, <1>3, <1>4 DEF PageRecord
<1>6. \A q \in Pages \ {p} : SamePage(m, m', q)
  BY <1>0, <1>5 DEF SamePage
<1>7. Named(m, p, l) /\ Named(m', p, l + 1)
  BY <1>1, <1>2, <1>5 DEF Named
<1>8. Moved(m, m', scan, p, l + 1)
  BY <1>0, <1>1, <1>2, <1>5, <1>6, <1>7, Relisted
<1>9. QED  BY <1>1, <1>8, OnePage

LEMMA MoveTailStep == ASSUME IInv, ~Preempt, NEW p \in Pages, MoveTail(p) PROVE IInv'
<1> DEFINE l == page_lru_base_type(m, p)
<1>0. Known(p)
  BY PageFacts
<1> USE DEF Known
<1>1. /\ p \in m.lru /\ p \notin m.active \cup m.unevictable
      /\ m' = [m EXCEPT !.on[p] = l]
      /\ scan' = scan /\ hating' = NoPage /\ bug' = FALSE /\ oops' = FALSE
  BY <1>0, NotHating DEF MoveTail, OnlyPages
<1>2. /\ l \in Lists /\ l \in Places /\ l \in Evictable /\ ~is_active_lru(l)
      /\ is_file_lru(l) <=> p \in FilePages
  BY BaseLists, ListKinds DEF Places
<1> HIDE DEF l
<1>3. /\ m' \in PageRecord /\ m'.on = [m.on EXCEPT ![p] = l] /\ m'.stat = m.stat
      /\ m'.isolated = m.isolated /\ m'.goal = m.goal /\ m'.lru = m.lru
      /\ m'.active = m.active /\ m'.unevictable = m.unevictable
  BY <1>0, <1>1, <1>2 DEF PageRecord
<1>4. \A q \in Pages \ {p} : SamePage(m, m', q)
  BY <1>0, <1>3 DEF SamePage
<1>5. Named(m, p, l) /\ Named(m, p, m.on[p]) /\ Named(m', p, l)
  BY <1>0, <1>1, <1>2, <1>3 DEF Named, PageSound
<1>6. /\ Is(l, {8}) = Is(m.on[p], {8})
      /\ \A f \in Kinds : Is(l, KindLists(f)) = Is(m.on[p], KindLists(f))
  BY <1>5, SameKind
<1>7. /\ m'.stat[8] = m.stat[8] + Is(l, {8}) - Is(m.on[p], {8})
      /\ \A f \in Kinds : StatSum(m'.stat, f) =
            StatSum(m.stat, f) + Is(l, KindLists(f)) - Is(m.on[p], KindLists(f))
  BY <1>0, <1>3, <1>6, StatInt, IsNat
<1>8. PageSound(m', scan, p)
  BY <1>0, <1>1, <1>2, <1>3, <1>5, NoList DEF PageSound
<1>9. Moved(m, m', scan, p, l)
  BY <1>2, <1>3, <1>4, <1>7, <1>8, NoList DEF Moved
<1>10. QED  BY <1>1, <1>9, OnePage

LEMMA CheckMoveStep ==
    ASSUME IInv, ~Preempt, NEW p \in Pages, CheckMoveUnevictablePage(p) PROVE IInv'
<1> DEFINE l == page_lru_base_type(m, p)
<1>0. Known(p)
  BY PageFacts
<1> USE DEF Known
<1>1. /\ p \in m.lru /\ p \in m.unevictable
      /\ m' = [m EXCEPT !.unevictable = @ \ {p}, !.on[p] = l,
                         !.stat[8] = @ - 1, !.stat[l] = @ + 1]
      /\ bug' = (p \in m.active)
      /\ scan' = scan /\ hating' = NoPage /\ oops' = FALSE
  BY <1>0, NotHating DEF CheckMoveUnevictablePage
<1>2. p \notin m.active
  BY <1>0, <1>1 DEF PageSound
<1>3. bug' = FALSE
  <2>1. bug' = (p \in m.active)
    BY <1>1, Zenon
  <2>2. (p \in m.active) = FALSE
    BY <1>2
  <2>3. QED  BY <2>1, <2>2, Zenon
<1>4. /\ l \in Lists /\ l \in Places /\ l \in Evictable /\ ~is_active_lru(l) /\ 8 \in Lists
      /\ is_file_lru(l) <=> p \in FilePages
  BY BaseLists, ListKinds DEF Places, Lists
<1> HIDE DEF l
<1>5. /\ m'.stat = [[m.stat EXCEPT ![8] = @ - 1] EXCEPT ![l] = @ + 1]
      /\ m'.on = [m.on EXCEPT ![p] = l] /\ m'.unevictable = m.unevictable \ {p}
      /\ m'.isolated = m.isolated /\ m'.goal = m.goal /\ m'.lru = m.lru
      /\ m'.active = m.active
  BY <1>0, <1>1 DEF PageRecord
<1>6. m'.stat = Up(Down(m.stat, 8), l) /\ m'.stat \in [Lists -> Int]
  BY <1>0, <1>4, <1>5, StatUp, StatDown DEF Up, Down
<1>7. m' \in PageRecord
  <2>1. m'.on \in [Pages -> Places] /\ m'.unevictable \in SUBSET Pages
    BY <1>0, <1>4, <1>5 DEF PageRecord
  <2>2. QED  BY <1>0, <1>1, <1>6, <2>1 DEF PageRecord
<1>8. \A q \in Pages \ {p} : SamePage(m, m', q)
  BY <1>0, <1>5 DEF SamePage
<1>9. Named(m, p, 8) /\ Named(m', p, l)
  BY <1>1, <1>2, <1>4, <1>5 DEF Named
<1>10. Moved(m, m', scan, p, l)
  BY <1>0, <1>1, <1>2, <1>4, <1>5, <1>6, <1>7, <1>8, <1>9, Relisted
<1>11. QED  BY <1>1, <1>3, <1>10, OnePage

LEMMA PutbackLruPageStep ==
    ASSUME IInv, ~Preempt, NEW p \in Pages, PutbackLruPage(p) PROVE IInv'
<1>0. Known(p)
  BY PageFacts
<1> USE DEF Known
<1>1. /\ m.on[p] = -2 /\ m' = putback_lru_page(m, p) /\ bug' = (p \in m.lru)
      /\ scan' = scan /\ hating' = NoPage /\ oops' = FALSE
  BY <1>0, NotHating DEF PutbackLruPage
<1>2. m.on[p] \notin Lists /\ p \notin m.lru
  BY <1>0, <1>1, NoList DEF PageSound
<1>3. bug' = FALSE
  <2>1. bug' = (p \in m.lru)
    BY <1>1, Zenon
  <2>2. (p \in m.lru) = FALSE
    BY <1>2
  <2>3. QED  BY <2>1, <2>2, Zenon
<1>4. \E x \in {Pagevec, LRU_UNEVICTABLE} : Moved(m, m', scan, p, x)
  BY <1>0, <1>1, <1>2, Putback
<1>5. QED  BY <1>1, <1>3, <1>4, OnePage

LEMMA ShrinkPageStep ==
    ASSUME IInv, ~Preempt, NEW p \in Pages, ShrinkPage(p) PROVE IInv'
<1> DEFINE S == m.active \cup m.lru \cup m.unevictable
<1>0. Known(p)
  BY PageFacts
<1> USE DEF Known
<1>1. /\ scan.kind = "inactive" /\ m.on[p] = -4
      /\ \/ m' = [m EXCEPT !.on[p] = -5]
         \/ m' = putback_lru_page(m, p)
         \/ m' = [m EXCEPT !.on[p] = -5, !.active = @ \cup {p}]
         \/ m' = Freed(m, p)
      /\ bug' = (p \in S)
      /\ scan' = scan /\ hating' = NoPage /\ oops' = FALSE
  BY <1>0, NotHating DEF ShrinkPage
<1>2. m.on[p] \notin Lists /\ p \notin m.lru /\ p \notin m.active /\ p \notin m.unevictable
  BY <1>0, <1>1, NoList DEF PageSound, Scanned
<1>3. bug' = FALSE
  <2>1. bug' = (p \in S)
    BY <1>1, Zenon
  <2>2. (p \in S) = FALSE
    BY <1>2
  <2> HIDE DEF S
  <2>3. QED  BY <2>1, <2>2, Zenon
<1>4. \E x : Moved(m, m', scan, p, x)
  <2>1. CASE m' = [m EXCEPT !.on[p] = -5]
    <3>1. /\ m' \in PageRecord /\ m'.on = [m.on EXCEPT ![p] = -5] /\ m'.stat = m.stat
          /\ m'.isolated = m.isolated /\ m'.goal = m.goal /\ m'.lru = m.lru
          /\ m'.unevictable = m.unevictable /\ m'.active = m.active
      BY <1>0, <2>1, NoList DEF PageRecord
    <3>2. QED  BY <1>0, <1>1, <3>1, ToKept
  <2>2. CASE m' = putback_lru_page(m, p)
    BY <1>0, <1>2, <2>2, Putback
  <2>3. CASE m' = [m EXCEPT !.on[p] = -5, !.active = @ \cup {p}]
    <3>1. /\ m' \in PageRecord /\ m'.on = [m.on EXCEPT ![p] = -5] /\ m'.stat = m.stat
          /\ m'.isolated = m.isolated /\ m'.goal = m.goal /\ m'.lru = m.lru
          /\ m'.unevictable = m.unevictable /\ m'.active = m.active \cup {p}
      BY <1>0, <2>3, NoList DEF PageRecord
    <3>2. QED  BY <1>0, <1>1, <3>1, ToKept
  <2>4. CASE m' = Freed(m, p)
    <3>1. /\ m' \in PageRecord /\ m'.on = [m.on EXCEPT ![p] = -1] /\ m'.stat = m.stat
          /\ m'.isolated = m.isolated /\ m'.goal = m.goal /\ m'.lru = m.lru \ {p}
          /\ m'.unevictable = m.unevictable \ {p} /\ m'.active = m.active \ {p}
      BY <1>0, <2>4, NoList DEF PageRecord, Freed
    <3>2. \A q \in Pages \ {p} : SamePage(m, m', q)
      BY <1>0, <3>1 DEF SamePage
    <3>3. PageSound(m', scan, p)
      BY <1>0, <3>1, NoList DEF PageSound
    <3>4. Moved(m, m', scan, p, -1)
      <4>1. -1 \in {-1, -5} /\ (-1 = -5 => m.on[p] = -4) /\ m \in PageRecord
        BY <1>0
      <4>2. QED  BY <1>2, <3>1, <3>2, <3>3, <4>1, OffToOff
    <3>5. QED  BY <3>4
  <2>5. QED  BY <1>1, <2>1, <2>2, <2>3, <2>4
<1>5. QED  BY <1>1, <1>3, <1>4, OnePage

LEMMA DeactivatePageStep ==
    ASSUME IInv, ~Preempt, NEW p \in Pages, DeactivatePage(p) PROVE IInv'
<1>0. Known(p)
  BY PageFacts
<1> USE DEF Known
<1>1. /\ scan.kind = "active" /\ m.on[p] = -4
      /\ \/ m' = putback_lru_page(m, p)
         \/ m' = [m EXCEPT !.on[p] = -5]
         \/ m' = [m EXCEPT !.on[p] = -5, !.active = @ \ {p}]
      /\ scan' = scan /\ hating' = NoPage /\ bug' = FALSE /\ oops' = FALSE
  BY <1>0, NotHating DEF DeactivatePage, OnlyPages
<1>2. m.on[p] \notin Lists /\ p \notin m.lru
  BY <1>0, <1>1, NoList DEF PageSound
<1>3. \E x : Moved(m, m', scan, p, x)
  <2>1. CASE m' = putback_lru_page(m, p)
    BY <1>0, <1>2, <2>1, Putback
  <2>2. CASE m' = [m EXCEPT !.on[p] = -5]
    <3>1. /\ m' \in PageRecord /\ m'.on = [m.on EXCEPT ![p] = -5] /\ m'.stat = m.stat
          /\ m'.isolated = m.isolated /\ m'.goal = m.goal /\ m'.lru = m.lru
          /\ m'.unevictable = m.unevictable /\ m'.active = m.active
      BY <1>0, <2>2, NoList DEF PageRecord
    <3>2. QED  BY <1>0, <1>1, <3>1, ToKept
  <2>3. CASE m' = [m EXCEPT !.on[p] = -5, !.active = @ \ {p}]
    <3>1. /\ m' \in PageRecord /\ m'.on = [m.on EXCEPT ![p] = -5] /\ m'.stat = m.stat
          /\ m'.isolated = m.isolated /\ m'.goal = m.goal /\ m'.lru = m.lru
          /\ m'.unevictable = m.unevictable /\ m'.active = m.active \ {p}
      BY <1>0, <2>3, NoList DEF PageRecord
    <3>2. QED  BY <1>0, <1>1, <3>1, ToKept
  <2>4. QED  BY <1>1, <2>1, <2>2, <2>3
<1>4. QED  BY <1>1, <1>3, OnePage

LEMMA HateTestStep == ASSUME IInv, NEW p \in Pages, HateTest(p) PROVE IInv'
<1>1. /\ m' = m /\ scan' = scan /\ bug' = FALSE /\ oops' = FALSE
      /\ hating' = p /\ p \in m.lru /\ p \notin m.linked
  BY DEF HateTest, IInv
<1>2. TypeSound' /\ PagesSound' /\ CountSound(m') /\ HateSound'
  BY <1>1 DEF IInv, TypeSound, PagesSound, HateSound
<1>3. QED  BY <1>1, <1>2 DEF IInv

LEMMA HateMoveStep == ASSUME IInv, HateMove PROVE IInv'
<1> DEFINE p == hating
           l == page_lru_base_type(m, p)
           k == page_lru(m, p)
           d == del_page_from_lru(m, p)
           a == add_page_to_lru_list(d, p, l)
<1>1. /\ p \in Pages /\ p \in m.lru /\ hating' = NoPage
      /\ m \in PageRecord
  BY DEF HateMove, IInv, HateSound, TypeSound, PageRecord
<1>0. Known(p)
  BY <1>1, PageFacts
<1> USE DEF Known
<1>2. m.on[p] \in Lists
  BY <1>0, <1>1 DEF PageSound
<1>3. /\ m' = [a EXCEPT !.active = @ \ {p}]
      /\ scan' = scan /\ bug' = FALSE /\ oops' = FALSE
  BY <1>0, <1>2 DEF HateMove
<1>4. /\ l \in Lists /\ l \in Places /\ l \in Evictable /\ ~is_active_lru(l)
      /\ is_file_lru(l) <=> p \in FilePages
  BY <1>1, BaseLists, ListKinds DEF Places
<1>5. k \in Lists /\ Named(m, p, k) /\ Down(m.stat, k) \in [Lists -> Int]
  BY <1>0, <1>1, PageLruNamed, StatDown
<1> HIDE DEF l
<1>6. /\ d \in PageRecord /\ d.on = [m.on EXCEPT ![p] = -2] /\ d.lru = m.lru
      /\ d.stat = Down(m.stat, k) /\ d.goal = m.goal /\ d.isolated = m.isolated
      /\ d.unevictable = m.unevictable \ {p}
      /\ \A q \in Pages \ {p} : q \in d.active <=> q \in m.active
  <2> DEFINE c == del_page_from_lru_list(m, p, k)
  <2>1. c = [m EXCEPT !.on[p] = -2, !.stat = Down(@, k)]
    BY <1>0 DEF del_page_from_lru_list, PageRecord, Down
  <2>2. d = [c EXCEPT !.unevictable = @ \ {p},
                      !.active = IF p \in m.unevictable THEN @ ELSE @ \ {p}]
    BY DEF del_page_from_lru
  <2> HIDE DEF c, d, k
  <2>3. /\ c \in PageRecord /\ c.on = [m.on EXCEPT ![p] = -2] /\ c.lru = m.lru
        /\ c.stat = Down(m.stat, k) /\ c.goal = m.goal
        /\ c.isolated = m.isolated /\ c.unevictable = m.unevictable /\ c.active = m.active
    BY <1>5, <2>1, <1>0, NoList DEF PageRecord
  <2>4. QED  BY <2>2, <2>3 DEF PageRecord
<1> HIDE DEF d
<1>7. /\ a \in PageRecord /\ a.on = [m.on EXCEPT ![p] = l] /\ a.lru = m.lru
      /\ a.stat = Up(Down(m.stat, k), l) /\ a.goal = m.goal /\ a.isolated = m.isolated
      /\ a.unevictable = m.unevictable \ {p} /\ a.active = d.active
  <2>1. a = [d EXCEPT !.on = [@ EXCEPT ![p] = l], !.stat = Up(@, l)]
    BY <1>6 DEF add_page_to_lru_list, PageRecord, Up
  <2>2. Up(d.stat, l) \in [Lists -> Int] /\ [d.on EXCEPT ![p] = l] \in [Pages -> Places]
    BY <1>0, <1>4, <1>5, <1>6, StatUp
  <2> HIDE DEF a, k
  <2>3. /\ a \in PageRecord /\ a.on = [d.on EXCEPT ![p] = l] /\ a.stat = Up(d.stat, l)
        /\ a.lru = d.lru /\ a.goal = d.goal /\ a.isolated = d.isolated
        /\ a.unevictable = d.unevictable /\ a.active = d.active
    BY <1>6, <2>1, <2>2 DEF PageRecord
  <2>4. [d.on EXCEPT ![p] = l] = [m.on EXCEPT ![p] = l]
    BY <1>0, <1>6
  <2>5. QED  BY <1>6, <2>3, <2>4
<1> HIDE DEF a, k
<1>8. /\ m' \in PageRecord /\ m'.on = a.on /\ m'.stat = a.stat /\ m'.goal = a.goal
      /\ m'.isolated = a.isolated /\ m'.lru = a.lru /\ m'.unevictable = a.unevictable
      /\ m'.active = a.active \ {p}
  BY <1>3, <1>7 DEF PageRecord
<1>9. \A q \in Pages \ {p} : SamePage(m, m', q)
  BY <1>0, <1>6, <1>7, <1>8 DEF SamePage
<1>10. Named(m', p, l) /\ p \notin m'.active
  BY <1>4, <1>7, <1>8 DEF Named
<1>11. m'.on = [m.on EXCEPT ![p] = l] /\ m'.stat = Up(Down(m.stat, k), l)
       /\ m'.isolated = m.isolated /\ p \in m'.lru
  BY <1>1, <1>7, <1>8
<1>12. Moved(m, m', scan, p, l)
  BY <1>0, <1>1, <1>4, <1>5, <1>8, <1>9, <1>10, <1>11, Relisted
<1>13. QED  BY <1>1, <1>3, <1>12, OnePage

-----------------------------------------------------------------------------
(* The scan takes pages off a list and puts them back *)

\* Pages T of a kind leave a list for the scan, and n of them are counted as isolated.
LEMMA TakenCounts ==
    ASSUME NEW h \in PageRecord, NEW g, NEW file \in Kinds, NEW l \in KindLists(file),
           NEW T \in SUBSET Pages, T # {}, \A p \in T : h.on[p] = l /\ FileOf(p) = file,
           \A p \in Pages : h.on[p] \notin {Taken, Kept},
           NEW n \in 0 .. Cardinality(T),
           CountSound(h),
           g.on = [p \in Pages |-> IF p \in T THEN Taken ELSE h.on[p]],
           g.stat[8] = h.stat[8],
           \A f \in Kinds : StatSum(g.stat, f) = StatSum(h.stat, f) - IF f = file THEN n ELSE 0,
           g.isolated[file] = n,
           \A f \in Kinds \ {file} : g.isolated[f] = 0
    PROVE  CountSound(g)
<1>1. h.on \in [Pages -> Places] /\ h.stat \in [Lists -> Int] /\ 8 \in Lists
  BY DEF PageRecord, Lists
<1>2. /\ l \notin {8} /\ -4 \notin {8} /\ \A f \in Kinds : -4 \notin KindLists(f)
      /\ \A f \in Kinds \ {file} : l \notin KindLists(f)
  BY DEF Kinds, KindLists
<1>3. IsFiniteSet(T) /\ Cardinality(T) \in Nat
  BY PagesAssumption, FS_Subset, FS_CardinalityType
<1>4. NumberOn(g.on, {8}) = NumberOn(h.on, {8})
  <2>1. \A p \in T : h.on[p] \notin {8}
    BY <1>2
  <2>2. NumberOn(g.on, {8}) =
          NumberOn(h.on, {8}) - IF \A p \in T : h.on[p] \in {8} THEN Cardinality(T) ELSE 0
    BY <1>1, <1>2, <2>1, NumberTake
  <2>3. ~ \A p \in T : h.on[p] \in {8}
    BY <2>1
  <2>4. NumberOn(h.on, {8}) \in Nat
    BY NumberNat
  <2>5. QED  BY <2>2, <2>3, <2>4
<1>5. NumberOn(g.on, KindLists(file)) = NumberOn(h.on, KindLists(file)) - Cardinality(T)
  <2>1. \A p \in T : h.on[p] \in KindLists(file)
    OBVIOUS
  <2>2. NumberOn(g.on, KindLists(file)) = NumberOn(h.on, KindLists(file))
          - IF \A p \in T : h.on[p] \in KindLists(file) THEN Cardinality(T) ELSE 0
    BY <1>1, <1>2, <2>1, NumberTake
  <2>3. QED  BY <2>1, <2>2
<1>6. ASSUME NEW f \in Kinds \ {file}
      PROVE  NumberOn(g.on, KindLists(f)) = NumberOn(h.on, KindLists(f))
  <2>1. \A p \in T : h.on[p] \notin KindLists(f)
    BY <1>2
  <2>2. NumberOn(g.on, KindLists(f)) = NumberOn(h.on, KindLists(f))
          - IF \A p \in T : h.on[p] \in KindLists(f) THEN Cardinality(T) ELSE 0
    BY <1>1, <1>2, <2>1, NumberTake
  <2>3. ~ \A p \in T : h.on[p] \in KindLists(f)
    BY <2>1
  <2>4. NumberOn(h.on, KindLists(f)) \in Nat
    BY NumberNat
  <2>5. QED  BY <2>2, <2>3, <2>4
<1>7. InHand(g.on, file) = Cardinality(T) /\ \A f \in Kinds \ {file} : InHand(g.on, f) = 0
  <2>1. {p \in Pages : FileOf(p) = file /\ g.on[p] \in {Taken, Kept}} = T
    OBVIOUS
  <2>2. \A f \in Kinds \ {file} : {p \in Pages : FileOf(p) = f /\ g.on[p] \in {Taken, Kept}} = {}
    OBVIOUS
  <2>3. QED  BY <2>1, <2>2, FS_EmptySet DEF InHand
<1>8. ASSUME NEW f \in Kinds
      PROVE  /\ StatSum(g.stat, f) >= NumberOn(g.on, KindLists(f))
             /\ StatSum(g.stat, f) + g.isolated[f] >=
                  NumberOn(g.on, KindLists(f)) + InHand(g.on, f)
  <2>1. StatSum(h.stat, f) \in Int /\ NumberOn(h.on, KindLists(f)) \in Nat
    BY <1>1, StatInt, NumberNat
  <2>2. StatSum(h.stat, f) >= NumberOn(h.on, KindLists(f))
    BY DEF CountSound
  <2>3. CASE f = file
    BY <1>3, <1>5, <1>7, <2>1, <2>2, <2>3
  <2>4. CASE f # file
    BY <1>6, <1>7, <2>1, <2>2, <2>4
  <2>5. QED  BY <2>3, <2>4
<1>9. g.stat[8] = NumberOn(g.on, {8})
  BY <1>4 DEF CountSound
<1>10. QED  BY <1>8, <1>9 DEF CountSound

\* A scan begins: pages T leave list l, and n of them are counted as isolated.
Begins(file, l, T, n) ==
    /\ T # {} /\ \A p \in T : m.on[p] = l /\ FileOf(p) = file
    /\ m' \in PageRecord
    /\ m'.on = [p \in Pages |-> IF p \in T THEN Taken ELSE m.on[p]]
    /\ m'.lru = m.lru \ T /\ m'.goal = m.goal /\ m'.unevictable = m.unevictable
    /\ \A q \in Pages : q \in m'.active <=> q \in m.active
    /\ m'.stat[8] = m.stat[8]
    /\ \A f \in Kinds : StatSum(m'.stat, f) = StatSum(m.stat, f) - IF f = file THEN n ELSE 0
    /\ m'.isolated[file] = m.isolated[file] + n
    /\ \A f \in Kinds \ {file} : m'.isolated[f] = m.isolated[f]
    /\ scan = Idle
    /\ scan' \in ScanRecord /\ scan'.kind # "idle" /\ scan'.file = file /\ scan'.nr = n
    /\ scan'.kind = "inactive" => \A p \in T : p \notin m.active

LEMMA ScanStarts ==
    ASSUME IInv, NEW file \in Kinds, NEW l \in KindLists(file), NEW T \in SUBSET Pages,
           NEW n \in 0 .. Cardinality(T), Begins(file, l, T, n),
           hating' = NoPage, bug' = FALSE, oops' = FALSE
    PROVE  IInv'
<1> USE DEF Begins
<1>0. /\ m \in PageRecord /\ m.on \in [Pages -> Places] /\ CountSound(m)
      /\ \A q \in Pages : PageSound(m, scan, q)
  BY DEF IInv, TypeSound, PageRecord, PagesSound
<1>1. \A q \in Pages : m.on[q] \notin {Taken, Kept}
  BY <1>0 DEF PageSound, Scanned, Idle
<1>2. TypeSound'
  BY DEF TypeSound
<1>3. \A f \in Kinds : m.isolated[f] = 0
  BY DEF IInv, IsolatedOf, Idle
<1>4. m'.isolated[file] = n /\ \A f \in Kinds \ {file} : m'.isolated[f] = 0
  BY <1>3
<1>5. m'.isolated = IsolatedOf(scan')
  <2>1. m'.isolated \in [Kinds -> 0 .. Cardinality(Pages)]
    BY DEF PageRecord
  <2>2. QED  BY <1>4, <2>1 DEF IsolatedOf
<1>6. CountSound(m')
  BY <1>0, <1>1, <1>4, TakenCounts
<1>7. ASSUME NEW q \in Pages PROVE PageSound(m', scan', q)
  <2>1. PageSound(m, scan, q)
    BY <1>0
  <2>2. CASE q \in T
    <3>1. m'.on[q] = -4 /\ q \notin m'.lru /\ -4 \notin Lists
      BY <2>2, NoList
    <3>2. l \in Lists /\ l # 8
      BY DEF Lists, Evictable, KindLists, Kinds
    <3>3. q \notin m.unevictable
      BY <2>1, <2>2, <3>2 DEF PageSound, Named, Evictable
    <3>4. QED  BY <2>2, <3>1, <3>3 DEF PageSound, Scanned
  <2>3. CASE q \notin T
    <3>1. m'.on[q] = m.on[q] /\ (q \in m'.lru <=> q \in m.lru)
      BY <2>3
    <3>2. QED  BY <1>1, <2>1, <3>1 DEF PageSound, Named, Queued
  <2>4. QED  BY <2>2, <2>3
<1>8. HateSound'
  BY NoPageAssumption DEF HateSound
<1>9. QED  BY <1>2, <1>5, <1>6, <1>7, <1>8 DEF IInv, PagesSound

\* Pages R that are on no list are put on the lists dest names, and counted there.
LEMMA RefiledCounts ==
    ASSUME NEW h \in PageRecord, NEW g, NEW R \in SUBSET Pages, NEW dest,
           \A p \in R : h.on[p] \notin Lists /\ dest[p] \in Lists,
           CountSound(h),
           g.on = [p \in Pages |-> IF p \in R THEN dest[p] ELSE h.on[p]],
           g.stat = [l \in Lists |-> h.stat[l] + Cardinality({p \in R : dest[p] = l})],
           \A p \in Pages : g.on[p] \notin {Taken, Kept},
           \A f \in Kinds : g.isolated[f] = 0
    PROVE  CountSound(g)
<1>0. h.stat \in [Lists -> Int] /\ 8 \in Lists
  BY DEF PageRecord, Lists
<1>1. IsFiniteSet(R)
  BY PagesAssumption, FS_Subset
<1>2. ASSUME NEW A, A \subseteq Lists
      PROVE  NumberOn(g.on, A) = NumberOn(h.on, A) + SentTo(R, dest, A)
  <2> DEFINE S == {p \in Pages : h.on[p] \in A}
             U == {p \in R : dest[p] \in A}
  <2>1. {p \in Pages : g.on[p] \in A} = S \cup U /\ S \cap U = {}
    BY <1>2
  <2>2. IsFiniteSet(S) /\ IsFiniteSet(U)
    BY <1>1, PagesAssumption, FS_Subset
  <2> HIDE DEF S, U
  <2>3. Cardinality(S \cup U) = Cardinality(S) + Cardinality(U)
    BY <2>1, <2>2, DisjointUnion
  <2>4. QED  BY <2>1, <2>3 DEF NumberOn, SentTo, S, U
<1>3. g.stat[8] = NumberOn(g.on, {8})
  <2>1. {8} \subseteq Lists /\ {p \in R : dest[p] = 8} = {p \in R : dest[p] \in {8}}
    BY <1>0
  <2>2. g.stat[8] = h.stat[8] + Cardinality({p \in R : dest[p] = 8})
    BY <1>0
  <2>3. NumberOn(g.on, {8}) = NumberOn(h.on, {8}) + Cardinality({p \in R : dest[p] \in {8}})
    BY <1>2, <2>1 DEF SentTo
  <2>4. h.stat[8] = NumberOn(h.on, {8})
    BY DEF CountSound
  <2>5. QED  BY <2>1, <2>2, <2>3, <2>4
<1>4. ASSUME NEW f \in Kinds
      PROVE  /\ StatSum(g.stat, f) >= NumberOn(g.on, KindLists(f))
             /\ InHand(g.on, f) = 0
  <2> DEFINE c(l) == SentOne(R, dest, l)
  <2>1. KindLists(f) \subseteq Lists /\ {f, f + 1, f + 2, f + 3} \subseteq Lists
    BY DEF Kinds, KindLists, Lists, Evictable
  <2>2. \A l : c(l) \in Nat
    BY FourLists
  <2>3. SentTo(R, dest, KindLists(f)) = c(f) + c(f+1) + c(f+2) + c(f+3)
    BY FourLists
  <2>4. g.stat = [l \in Lists |-> h.stat[l] + c(l)]
    BY DEF SentOne
  <2> HIDE DEF c
  <2>5. StatSum(g.stat, f) = StatSum(h.stat, f) + (c(f) + c(f+1) + c(f+2) + c(f+3))
    BY <1>0, <2>1, <2>2, <2>4 DEF StatSum
  <2>6. NumberOn(g.on, KindLists(f)) =
          NumberOn(h.on, KindLists(f)) + SentTo(R, dest, KindLists(f))
    BY <1>2, <2>1
  <2>7. StatSum(h.stat, f) >= NumberOn(h.on, KindLists(f))
    BY DEF CountSound
  <2>8. StatSum(h.stat, f) \in Int /\ NumberOn(h.on, KindLists(f)) \in Nat
    BY <1>0, StatInt, NumberNat
  <2>9. {p \in Pages : FileOf(p) = f /\ g.on[p] \in {Taken, Kept}} = {}
    OBVIOUS
  <2>10. StatSum(g.stat, f) >= NumberOn(g.on, KindLists(f))
    BY <2>2, <2>3, <2>5, <2>6, <2>7, <2>8
  <2>11. QED  BY <2>9, <2>10, FS_EmptySet DEF InHand
<1>5. \A f \in Kinds : StatSum(g.stat, f) \in Int /\ NumberOn(g.on, KindLists(f)) \in Nat
  <2>1. \A l : SentOne(R, dest, l) \in Nat
    BY <1>1, FS_Subset, FS_CardinalityType DEF SentOne
  <2>2. g.stat = [l \in Lists |-> h.stat[l] + SentOne(R, dest, l)]
    BY DEF SentOne
  <2>3. g.stat \in [Lists -> Int]
    BY <1>0, <2>1, <2>2
  <2>4. QED  BY <2>3, StatInt, NumberNat
<1>6. QED  BY <1>3, <1>4, <1>5 DEF CountSound

\* A scan ends: no page is left to look at, and the ones it kept go where dest says.
Ends(dest) ==
    /\ scan.kind # "idle" /\ \A p \in Pages : m.on[p] # Taken
    /\ \A p \in KeptPages : /\ dest[p] \in Lists /\ Named(m', p, dest[p])
                            /\ ~(p \in m'.active /\ p \in m'.unevictable)
    /\ m' \in PageRecord
    /\ m'.on = [p \in Pages |-> IF p \in KeptPages THEN dest[p] ELSE m.on[p]]
    /\ m'.lru = m.lru \cup KeptPages /\ m'.goal = m.goal
    /\ \A q \in Pages \ KeptPages : /\ q \in m'.active <=> q \in m.active
                                    /\ q \in m'.unevictable <=> q \in m.unevictable
    /\ m'.stat = [l \in Lists |-> m.stat[l] + Cardinality({p \in KeptPages : dest[p] = l})]
    /\ m'.isolated[scan.file] = m.isolated[scan.file] - scan.nr
    /\ \A f \in Kinds \ {scan.file} : m'.isolated[f] = m.isolated[f]
    /\ scan' = Idle

LEMMA ScanEnds ==
    ASSUME IInv, NEW dest, Ends(dest), hating' = NoPage, bug' = FALSE, oops' = FALSE
    PROVE  IInv'
<1> USE DEF Ends
<1>0. /\ m \in PageRecord /\ m.on \in [Pages -> Places] /\ CountSound(m)
      /\ scan \in ScanRecord /\ scan.file \in Kinds /\ scan.nr \in Int
      /\ \A q \in Pages : PageSound(m, scan, q)
  <2>1. scan \in ScanRecord
    BY DEF IInv, TypeSound
  <2>2. scan.file \in Kinds /\ scan.nr \in Int
    BY <2>1, PagesAssumption, FS_CardinalityType DEF ScanRecord
  <2>3. QED  BY <2>1, <2>2 DEF IInv, TypeSound, PageRecord, PagesSound
<1>1. KeptPages \in SUBSET Pages /\ \A p \in KeptPages : m.on[p] = -5 /\ m.on[p] \notin Lists
  BY NoList DEF KeptPages
<1>2. \A f \in Kinds : m'.isolated[f] = 0
  <2>1. m.isolated = IsolatedOf(scan)
    BY DEF IInv
  <2>2. m.isolated[scan.file] = scan.nr /\ \A f \in Kinds \ {scan.file} : m.isolated[f] = 0
    BY <1>0, <2>1 DEF IsolatedOf
  <2>3. QED  BY <1>0, <2>2
<1>3. m'.isolated = IsolatedOf(scan')
  <2>1. m'.isolated \in [Kinds -> 0 .. Cardinality(Pages)]
    BY DEF PageRecord
  <2>2. QED  BY <1>2, <2>1 DEF IsolatedOf, Idle
<1>4. TypeSound'
  <2>1. Idle \in ScanRecord
    BY PagesAssumption, FS_CardinalityType DEF Idle, ScanRecord, Kinds
  <2>2. QED  BY <2>1 DEF TypeSound
<1>5. \A p \in Pages : m'.on[p] \notin {Taken, Kept}
  <2> SUFFICES ASSUME NEW p \in Pages PROVE m'.on[p] \notin {Taken, Kept}
    OBVIOUS
  <2>1. CASE p \in KeptPages
    BY <2>1, NoList
  <2>2. CASE p \notin KeptPages
    BY <2>2 DEF KeptPages
  <2>3. QED  BY <2>1, <2>2
<1>6. CountSound(m')
  BY <1>0, <1>1, <1>2, <1>5, RefiledCounts
<1>7. ASSUME NEW q \in Pages PROVE PageSound(m', scan', q)
  <2>1. CASE q \in KeptPages
    <3>1. m'.on[q] = dest[q] /\ q \in m'.lru /\ dest[q] \in Lists
      BY <2>1
    <3>2. dest[q] \notin {-3, -4, -5}
      BY <3>1, NoList
    <3>3. QED  BY <2>1, <3>1, <3>2 DEF PageSound
  <2>2. CASE q \notin KeptPages
    <3>1. m'.on[q] = m.on[q] /\ (q \in m'.lru <=> q \in m.lru)
      BY <2>2
    <3>2. QED  BY <1>0, <1>5, <2>2, <3>1 DEF PageSound, Named, Queued
  <2>3. QED  BY <2>1, <2>2
<1>8. HateSound'
  BY NoPageAssumption DEF HateSound
<1>9. QED  BY <1>3, <1>4, <1>6, <1>7, <1>8 DEF IInv, PagesSound

\* What the pages of one list have in common
LEMMA OnOneList ==
    ASSUME IInv, NEW file \in Kinds, NEW l \in {file, file + 1},
           NEW T \in SUBSET {p \in Pages : m.on[p] = l}
    PROVE  /\ T \in SUBSET Pages /\ Cardinality(T) \in 0 .. Cardinality(Pages)
           /\ l \in KindLists(file)
           /\ \A p \in T : /\ m.on[p] = l /\ FileOf(p) = file
                           /\ p \in m.lru /\ p \notin m.unevictable
                           /\ p \in m.active <=> l = file + 1
<1>1. l \in KindLists(file) /\ l \in Evictable /\ l \in Lists /\ l # 8
  BY DEF Kinds, KindLists, Evictable, Lists
<1>2. T \in SUBSET Pages /\ \A p \in T : m.on[p] = l
  OBVIOUS
<1>3. Cardinality(T) \in 0 .. Cardinality(Pages)
  BY <1>2, PagesAssumption, FS_Subset, FS_CardinalityType
<1>4. /\ is_active_lru(l) <=> l = file + 1
      /\ is_file_lru(l) <=> file = 4
  BY <1>1, ListKinds DEF Kinds
<1>5. ASSUME NEW p \in T
      PROVE  /\ FileOf(p) = file /\ p \in m.lru /\ p \notin m.unevictable
             /\ p \in m.active <=> l = file + 1
  <2>1. p \in Pages /\ PageSound(m, scan, p) /\ m.on[p] = l
    BY <1>2 DEF IInv, PagesSound
  <2>2. p \in m.lru /\ Named(m, p, l)
    BY <1>1, <2>1 DEF PageSound
  <2>3. p \notin m.unevictable /\ (p \in m.active <=> l = file + 1) /\ (p \in FilePages <=> file = 4)
    BY <1>1, <1>4, <2>2 DEF Named
  <2>4. QED  BY <2>2, <2>3 DEF FileOf, Kinds
<1>6. QED  BY <1>1, <1>2, <1>3, <1>5

LEMMA TakeFields ==
    ASSUME NEW h \in PageRecord, NEW T \in SUBSET Pages, NEW g, g = Take(h, T)
    PROVE  /\ g \in PageRecord /\ g.lru = h.lru \ T /\ g.goal = h.goal
           /\ g.on = [p \in Pages |-> IF p \in T THEN Taken ELSE h.on[p]]
           /\ g.active = h.active /\ g.unevictable = h.unevictable
           /\ g.stat = h.stat /\ g.isolated = h.isolated
<1> DEFINE on == [p \in Pages |-> IF p \in T THEN -4 ELSE h.on[p]]
<1>1. on \in [Pages -> Places] /\ g = [h EXCEPT !.lru = @ \ T, !.on = on]
  BY NoList DEF PageRecord, Take
<1> HIDE DEF on
<1>2. /\ g \in PageRecord /\ g.lru = h.lru \ T /\ g.goal = h.goal /\ g.on = on
      /\ g.active = h.active /\ g.unevictable = h.unevictable
      /\ g.stat = h.stat /\ g.isolated = h.isolated
  BY <1>1 DEF PageRecord
<1>3. QED  BY <1>2 DEF on

LEMMA ShrinkActiveListStep ==
    ASSUME IInv, ~Preempt, NEW file \in Kinds, ShrinkActiveList(file) PROVE IInv'
<1>0. m \in PageRecord /\ m.stat \in [Lists -> Int] /\ Runs /\ scan = Idle
  BY DEF IInv, TypeSound, PageRecord, ShrinkActiveList
<1>1. PICK T \in (SUBSET {p \in Pages : m.on[p] = file + 1}) \ {{}} :
         /\ m' = [Take(m, T) EXCEPT !.stat[file + 1] = @ - Cardinality(T),
                                    !.isolated[file] = @ + Cardinality(T)]
         /\ scan' = [kind |-> "active", file |-> file, nr |-> Cardinality(T)]
         /\ bug' = \E p \in T : Refused(m, p, TRUE, file)
  <2>1. 1 + file = file + 1
    BY DEF Kinds
  <2>2. QED  BY <2>1 DEF ShrinkActiveList
<1>2. hating' = NoPage /\ oops' = FALSE
  BY <1>0, NotHating DEF IInv, ShrinkActiveList
<1> DEFINE n == Cardinality(T)
           t == Take(m, T)
<1>3. /\ T \in SUBSET Pages /\ n \in 0 .. Cardinality(Pages) /\ n \in 0 .. n
      /\ file + 1 \in KindLists(file)
      /\ \A p \in T : /\ m.on[p] = file + 1 /\ FileOf(p) = file
                      /\ p \in m.lru /\ p \notin m.unevictable /\ p \in m.active
  BY OnOneList
<1>4. bug' = FALSE
  <2>1. bug' = \E p \in T : Refused(m, p, TRUE, file)
    BY <1>1, Zenon
  <2>2. (\E p \in T : Refused(m, p, TRUE, file)) = FALSE
    BY <1>3 DEF Refused
  <2>3. QED  BY <2>1, <2>2, Zenon
<1>5. /\ t \in PageRecord /\ t.lru = m.lru \ T /\ t.goal = m.goal
      /\ t.on = [p \in Pages |-> IF p \in T THEN Taken ELSE m.on[p]]
      /\ t.active = m.active /\ t.unevictable = m.unevictable
      /\ t.stat = m.stat /\ t.isolated = m.isolated
  BY <1>0, <1>3, TakeFields
<1>6. m' = [t EXCEPT !.stat[file + 1] = @ - n, !.isolated[file] = @ + n]
  BY <1>1
<1> HIDE DEF n, t
<1>7. m.isolated \in [Kinds -> 0 .. Cardinality(Pages)] /\ \A f \in Kinds : m.isolated[f] = 0
  <2>1. scan.kind = "idle" /\ m.isolated = IsolatedOf(scan)
    BY <1>0 DEF IInv, Idle
  <2>2. QED  BY <1>0, <2>1 DEF PageRecord, IsolatedOf
<1>8. /\ m'.stat = [m.stat EXCEPT ![file + 1] = @ - n]
      /\ m'.isolated = [m.isolated EXCEPT ![file] = @ + n]
      /\ m'.lru = t.lru /\ m'.goal = t.goal /\ m'.on = t.on
      /\ m'.active = t.active /\ m'.unevictable = t.unevictable
  BY <1>5, <1>6 DEF PageRecord
<1>9. m' \in PageRecord
  <2>1. n \in Int /\ Cardinality(Pages) \in Int
    BY <1>3, PagesAssumption, FS_CardinalityType
  <2>2. m'.stat \in [Lists -> Int]
    <3>1. file + 1 \in Lists
      BY DEF Kinds, Lists, Evictable
    <3>2. QED  BY <1>0, <1>8, <2>1, <3>1
  <2>3. \A f \in Kinds : m'.isolated[f] \in 0 .. Cardinality(Pages)
    BY <1>3, <1>7, <1>8
  <2>4. m'.isolated \in [Kinds -> 0 .. Cardinality(Pages)]
    BY <1>7, <1>8, <2>3
  <2>5. QED  BY <1>5, <1>6, <2>2, <2>4 DEF PageRecord
<1>10. /\ m'.stat[8] = m.stat[8]
       /\ \A f \in Kinds : StatSum(m'.stat, f) = StatSum(m.stat, f) - IF f = file THEN n ELSE 0
  <2>1. Lists = {0, 1, 2, 3, 4, 5, 6, 7, 8} /\ Kinds = {0, 4} /\ n \in Int
    BY <1>3 DEF Lists, Evictable, Kinds
  <2>2. QED  BY <1>0, <1>8, <2>1 DEF StatSum
<1>11. /\ m'.isolated[file] = m.isolated[file] + n
       /\ \A f \in Kinds \ {file} : m'.isolated[f] = m.isolated[f]
  BY <1>7, <1>8
<1>12. /\ scan' \in ScanRecord /\ scan'.kind = "active" /\ scan'.kind # "idle"
       /\ scan'.file = file /\ scan'.nr = n
  BY <1>1, <1>3 DEF ScanRecord, n
<1>13. T # {} /\ n \in 0 .. Cardinality(T)
  BY <1>1, <1>3 DEF n
<1>14. /\ m'.on = [p \in Pages |-> IF p \in T THEN Taken ELSE m.on[p]]
       /\ m'.lru = m.lru \ T /\ m'.goal = m.goal /\ m'.unevictable = m.unevictable
       /\ \A q \in Pages : q \in m'.active <=> q \in m.active
       /\ scan'.kind = "inactive" => \A p \in T : p \notin m.active
  BY <1>5, <1>8, <1>12
<1>15. scan = Idle /\ \A p \in T : m.on[p] = file + 1 /\ FileOf(p) = file
  BY <1>0, <1>3
<1>16. Begins(file, file + 1, T, n)
  BY <1>9, <1>10, <1>11, <1>12, <1>13, <1>14, <1>15 DEF Begins
<1>17. QED  BY <1>2, <1>3, <1>4, <1>13, <1>16, ScanStarts

\* The pages of T that update_isolated_counts counts for list l
CountedFor(T, l) == Cardinality({p \in T : page_lru_base_type(m, p) +
                                    (IF p \in m.active THEN 1 ELSE 0) = l})

LEMMA ShrinkInactiveListStep ==
    ASSUME IInv, ~Preempt, NEW file \in Kinds, ShrinkInactiveList(file) PROVE IInv'
<1>0. m \in PageRecord /\ m.stat \in [Lists -> Int] /\ Runs /\ scan = Idle
  BY DEF IInv, TypeSound, PageRecord, ShrinkInactiveList
<1>1. PICK T \in (SUBSET {p \in Pages : m.on[p] = file}) \ {{}} :
         LET nr == CountedFor(T, file) + CountedFor(T, file + 1)
         IN  /\ m' = [Take(m, T) EXCEPT !.active = @ \ T,
                        !.stat = [l \in Lists |-> IF l \in {0, 1, 4, 4 + 1}
                                                 THEN @[l] - CountedFor(T, l) ELSE @[l]],
                        !.isolated[file] = @ + nr]
             /\ scan' = [kind |-> "inactive", file |-> file, nr |-> nr]
             /\ bug' = \E p \in T : Refused(m, p, FALSE, file)
  <2>1. 0 + file = file /\ 1 + file = file + 1
    BY DEF Kinds
  <2>2. QED  BY <2>1 DEF ShrinkInactiveList, CountedFor
<1>2. hating' = NoPage /\ oops' = FALSE
  BY <1>0, NotHating DEF IInv, ShrinkInactiveList
<1> DEFINE c(l) == CountedFor(T, l)
           n == c(file)
           t == Take(m, T)
<1>3. /\ T \in SUBSET Pages /\ Cardinality(T) \in 0 .. Cardinality(Pages) /\ T # {}
      /\ file \in KindLists(file)
      /\ \A p \in T : /\ m.on[p] = file /\ FileOf(p) = file
                      /\ p \in m.lru /\ p \notin m.unevictable /\ p \notin m.active
  <2>1. file \in {file, file + 1} /\ file # file + 1 /\ T # {}
    BY DEF Kinds
  <2>2. /\ T \in SUBSET Pages /\ Cardinality(T) \in 0 .. Cardinality(Pages)
        /\ file \in KindLists(file)
        /\ \A p \in T : /\ m.on[p] = file /\ FileOf(p) = file
                        /\ p \in m.lru /\ p \notin m.unevictable
                        /\ p \in m.active <=> file = file + 1
    BY <2>1, OnOneList
  <2>3. QED  BY <2>1, <2>2
<1>4. bug' = FALSE
  <2>1. bug' = \E p \in T : Refused(m, p, FALSE, file)
    BY <1>1, Zenon
  <2>2. (\E p \in T : Refused(m, p, FALSE, file)) = FALSE
    <3>1. \A p \in T : (p \in m.active) = FALSE
      BY <1>3
    <3>2. QED  BY <1>3, <3>1 DEF Refused
  <2>3. QED  BY <2>1, <2>2, Zenon
<1>5. /\ t \in PageRecord /\ t.lru = m.lru \ T /\ t.goal = m.goal
      /\ t.on = [p \in Pages |-> IF p \in T THEN Taken ELSE m.on[p]]
      /\ t.active = m.active /\ t.unevictable = m.unevictable
      /\ t.stat = m.stat /\ t.isolated = m.isolated
  BY <1>0, <1>3, TakeFields
\* No page of T is active, so that it is the linked ones that are not counted.
<1>6. /\ \A l : c(l) \in Nat
      /\ n \in 0 .. Cardinality(T)
      /\ \A l \in {0, 1, 4, 5} \ {file} : c(l) = 0
  <2>1. IsFiniteSet(T) /\ Cardinality(T) \in Nat
    BY <1>3, PagesAssumption, FS_Subset, FS_CardinalityType
  <2>2. \A l : c(l) \in 0 .. Cardinality(T)
    BY <2>1, FS_Subset, FS_CardinalityType DEF CountedFor
  <2>3. ASSUME NEW p \in T
        PROVE  page_lru_base_type(m, p) + (IF p \in m.active THEN 1 ELSE 0) \in {file, file + 2}
    BY <1>3 DEF page_lru_base_type, Kinds
  <2>4. \A l \in {0, 1, 4, 5} \ {file} :
          {p \in T : page_lru_base_type(m, p) + (IF p \in m.active THEN 1 ELSE 0) = l} = {}
    BY <2>3 DEF Kinds
  <2>5. \A l \in {0, 1, 4, 5} \ {file} : c(l) = 0
    BY <2>4, FS_EmptySet DEF CountedFor
  <2> HIDE DEF c
  <2>6. QED  BY <2>1, <2>2, <2>5
<1> DEFINE st == [l \in Lists |-> IF l \in {0, 1, 4, 5} THEN m.stat[l] - c(l) ELSE m.stat[l]]
<1>7. CountedFor(T, file) + CountedFor(T, file + 1) = n
  <2>1. c(file + 1) = 0 /\ n \in Nat
    BY <1>6 DEF Kinds
  <2>2. QED  BY <2>1
<1>8. /\ m' = [t EXCEPT !.active = @ \ T, !.stat = st, !.isolated[file] = @ + n]
      /\ scan' = [kind |-> "inactive", file |-> file, nr |-> n]
  <2>1. st = [l \in Lists |-> IF l \in {0, 1, 4, 4 + 1} THEN t.stat[l] - CountedFor(T, l)
                                                       ELSE t.stat[l]]
    BY <1>5
  <2>2. /\ m' = [t EXCEPT !.active = @ \ T,
                   !.stat = [l \in Lists |-> IF l \in {0, 1, 4, 4 + 1}
                                             THEN @[l] - CountedFor(T, l) ELSE @[l]],
                   !.isolated[file] = @ + (CountedFor(T, file) + CountedFor(T, file + 1))]
        /\ scan' = [kind |-> "inactive", file |-> file,
                    nr |-> CountedFor(T, file) + CountedFor(T, file + 1)]
    BY <1>1
  <2> HIDE DEF n, t, st
  <2>3. QED  BY <1>7, <2>1, <2>2
<1> HIDE DEF n, t, st, c
<1>9. m.isolated \in [Kinds -> 0 .. Cardinality(Pages)] /\ \A f \in Kinds : m.isolated[f] = 0
  <2>1. scan.kind = "idle" /\ m.isolated = IsolatedOf(scan)
    BY <1>0 DEF IInv, Idle
  <2>2. QED  BY <1>0, <2>1 DEF PageRecord, IsolatedOf
<1>10. /\ m'.stat = st
       /\ m'.isolated = [m.isolated EXCEPT ![file] = @ + n]
       /\ m'.lru = t.lru /\ m'.goal = t.goal /\ m'.on = t.on
       /\ m'.active = t.active \ T /\ m'.unevictable = t.unevictable
  BY <1>5, <1>8 DEF PageRecord
<1>11. st \in [Lists -> Int]
  BY <1>0, <1>6 DEF st
<1>12. n \in 0 .. Cardinality(Pages) /\ n \in Int
  BY <1>3, <1>6, PagesAssumption, FS_CardinalityType
<1>13. m' \in PageRecord
  <2>1. Cardinality(Pages) \in Int
    BY PagesAssumption, FS_CardinalityType
  <2>2. \A f \in Kinds : m'.isolated[f] \in 0 .. Cardinality(Pages)
    BY <1>9, <1>10, <1>12
  <2>3. m'.isolated \in [Kinds -> 0 .. Cardinality(Pages)]
    BY <1>9, <1>10, <2>2
  <2>4. QED  BY <1>5, <1>8, <1>11, <2>3 DEF PageRecord
<1>14. /\ m'.stat[8] = m.stat[8]
       /\ \A f \in Kinds : StatSum(m'.stat, f) = StatSum(m.stat, f) - IF f = file THEN n ELSE 0
  <2>1. Lists = {0, 1, 2, 3, 4, 5, 6, 7, 8} /\ Kinds = {0, 4}
    BY DEF Lists, Evictable, Kinds
  <2>2. /\ st[0] = m.stat[0] - IF file = 0 THEN n ELSE 0
        /\ st[4] = m.stat[4] - IF file = 4 THEN n ELSE 0
        /\ \A l \in {1, 2, 3, 5, 6, 7, 8} : st[l] = m.stat[l]
    <3>1. \A l \in Lists : m.stat[l] \in Int /\ c(l) \in Int
      BY <1>0, <1>6
    <3>2. c(file) = n
      BY DEF n
    <3>3. \A l \in Lists : st[l] = IF l \in {0, 1, 4, 5} THEN m.stat[l] - c(l) ELSE m.stat[l]
      BY DEF st
    <3>4. QED  BY <1>6, <2>1, <3>1, <3>2, <3>3
  <2>3. \A l \in Lists : m.stat[l] \in Int
    BY <1>0
  <2>4. QED  BY <1>10, <1>12, <2>1, <2>2, <2>3 DEF StatSum
<1>15. /\ m'.isolated[file] = m.isolated[file] + n
       /\ \A f \in Kinds \ {file} : m'.isolated[f] = m.isolated[f]
  BY <1>9, <1>10
<1>16. /\ scan' \in ScanRecord /\ scan'.kind # "idle"
       /\ scan'.file = file /\ scan'.nr = n
       /\ scan'.kind = "inactive" => \A p \in T : p \notin m.active
  BY <1>3, <1>8, <1>12 DEF ScanRecord
<1>17. /\ m'.on = [p \in Pages |-> IF p \in T THEN Taken ELSE m.on[p]]
       /\ m'.lru = m.lru \ T /\ m'.goal = m.goal /\ m'.unevictable = m.unevictable
       /\ \A q \in Pages : q \in m'.active <=> q \in m.active
  BY <1>3, <1>5, <1>10
<1>18. scan = Idle /\ T # {} /\ \A p \in T : m.on[p] = file /\ FileOf(p) = file
  BY <1>0, <1>3
<1>19. Begins(file, file, T, n)
  BY <1>13, <1>14, <1>15, <1>16, <1>17, <1>18 DEF Begins
<1>20. QED  BY <1>2, <1>3, <1>4, <1>6, <1>19, ScanStarts

LEMMA RefileFields ==
    ASSUME NEW h \in PageRecord, NEW R \in SUBSET Pages, NEW dest, NEW g,
           \A p \in R : dest[p] \in Lists, g = Refile(h, R, dest)
    PROVE  /\ g \in PageRecord /\ g.lru = h.lru \cup R /\ g.goal = h.goal
           /\ g.on = [p \in Pages |-> IF p \in R THEN dest[p] ELSE h.on[p]]
           /\ g.active = h.active /\ g.unevictable = h.unevictable
           /\ g.stat = [l \in Lists |-> h.stat[l] + Cardinality({p \in R : dest[p] = l})]
           /\ g.isolated = h.isolated
<1> DEFINE on == [p \in Pages |-> IF p \in R THEN dest[p] ELSE h.on[p]]
           st == [l \in Lists |-> h.stat[l] + Cardinality({p \in R : dest[p] = l})]
<1>0. h.on \in [Pages -> Places] /\ h.stat \in [Lists -> Int] /\ Lists \subseteq Places
  BY DEF PageRecord, Places
<1>1. on \in [Pages -> Places]
  BY <1>0
<1>2. st \in [Lists -> Int]
  <2>1. IsFiniteSet(R)
    BY PagesAssumption, FS_Subset
  <2>2. \A l : SentOne(R, dest, l) \in Nat
    BY <2>1, FS_Subset, FS_CardinalityType DEF SentOne
  <2>3. st = [l \in Lists |-> h.stat[l] + SentOne(R, dest, l)]
    BY DEF SentOne
  <2> HIDE DEF st
  <2>4. QED  BY <1>0, <2>2, <2>3
<1>3. g = [h EXCEPT !.on = on, !.lru = @ \cup R, !.stat = st]
  BY DEF Refile, PageRecord
<1> HIDE DEF on, st
<1>4. /\ g \in PageRecord /\ g.lru = h.lru \cup R /\ g.goal = h.goal /\ g.on = on
      /\ g.active = h.active /\ g.unevictable = h.unevictable
      /\ g.stat = st /\ g.isolated = h.isolated
  BY <1>1, <1>2, <1>3 DEF PageRecord
<1>5. QED  BY <1>4 DEF on, st

\* What the invariant says of the end of a scan
LEMMA KeptFacts ==
    ASSUME IInv, scan.kind # "idle"
    PROVE  /\ m \in PageRecord /\ KeptPages \in SUBSET Pages /\ scan.file \in Kinds
           /\ \A p \in KeptPages : /\ p \notin m.lru /\ p \notin m.unevictable
                                   /\ FileOf(p) = scan.file
           /\ m.isolated \in [Kinds -> 0 .. Cardinality(Pages)]
           /\ m.isolated[scan.file] - scan.nr = 0
<1>1. m \in PageRecord /\ KeptPages \in SUBSET Pages /\ scan \in ScanRecord
  BY DEF IInv, TypeSound, KeptPages
<1>2. ASSUME NEW p \in KeptPages
      PROVE  p \notin m.lru /\ p \notin m.unevictable /\ FileOf(p) = scan.file
  <2>1. PageSound(m, scan, p) /\ m.on[p] = -5 /\ -5 \notin Lists
    BY NoList DEF IInv, PagesSound, KeptPages
  <2>2. QED  BY <2>1 DEF PageSound, Scanned
<1>3. scan.file \in Kinds /\ scan.nr \in Int
  BY <1>1, PagesAssumption, FS_CardinalityType DEF ScanRecord
<1>4. m.isolated = IsolatedOf(scan)
  BY DEF IInv
<1>5. m.isolated[scan.file] = scan.nr /\ m.isolated \in [Kinds -> 0 .. Cardinality(Pages)]
  BY <1>1, <1>3, <1>4 DEF IsolatedOf, PageRecord
<1>6. QED  BY <1>1, <1>2, <1>3, <1>5

LEMMA PutbackLruPagesStep == ASSUME IInv, ~Preempt, PutbackLruPages PROVE IInv'
<1> DEFINE K == KeptPages
           locked == K \ {p \in Pages : page_evictable(m, p)}
           dest == [p \in K |-> IF p \in locked THEN 8 ELSE page_lru(m, p)]
           g == Refile(m, K, dest)
<1>1. /\ m' = [g EXCEPT !.unevictable = @ \cup locked, !.active = @ \ locked,
                        !.isolated[scan.file] = @ - scan.nr]
      /\ scan.kind # "idle" /\ \A p \in Pages : m.on[p] # Taken
      /\ scan' = Idle /\ hating' = NoPage /\ oops' = FALSE
  BY NotHating DEF PutbackLruPages, IInv
<1>2. /\ m \in PageRecord /\ K \in SUBSET Pages /\ scan.file \in Kinds
      /\ \A p \in K : p \notin m.lru /\ p \notin m.unevictable /\ FileOf(p) = scan.file
      /\ m.isolated \in [Kinds -> 0 .. Cardinality(Pages)]
      /\ m.isolated[scan.file] - scan.nr = 0
  BY <1>1, KeptFacts
<1>3. bug' = FALSE
  <2>1. bug' = (K \cap m.lru # {})
    BY Zenon DEF PutbackLruPages
  <2>2. (K \cap m.lru # {}) = FALSE
    BY <1>2
  <2>3. QED  BY <2>1, <2>2, Zenon
<1>4. locked \subseteq K /\ locked \subseteq Pages
  BY <1>2
<1>5. \A p \in K : page_lru(m, p) \in Lists /\ Named(m, p, page_lru(m, p))
  BY <1>2, PageLruNamed
<1>6. \A p \in K : dest[p] \in Lists /\ dest[p] = IF p \in locked THEN 8 ELSE page_lru(m, p)
  BY <1>5 DEF Lists
<1> HIDE DEF locked, dest, g, K
<1>7. /\ g \in PageRecord /\ g.lru = m.lru \cup K /\ g.goal = m.goal
      /\ g.on = [p \in Pages |-> IF p \in K THEN dest[p] ELSE m.on[p]]
      /\ g.active = m.active /\ g.unevictable = m.unevictable
      /\ g.stat = [l \in Lists |-> m.stat[l] + Cardinality({p \in K : dest[p] = l})]
      /\ g.isolated = m.isolated
  <2>1. g = Refile(m, K, dest)
    BY DEF g
  <2>2. m \in PageRecord /\ K \in SUBSET Pages /\ \A p \in K : dest[p] \in Lists
    BY <1>2, <1>6
  <2>3. QED  BY <2>1, <2>2, RefileFields
<1>8. /\ m'.lru = g.lru /\ m'.goal = g.goal /\ m'.on = g.on /\ m'.stat = g.stat
      /\ m'.active = m.active \ locked /\ m'.unevictable = m.unevictable \cup locked
      /\ m'.isolated = [m.isolated EXCEPT ![scan.file] = @ - scan.nr]
  BY <1>1, <1>7 DEF PageRecord
<1>9. /\ m'.isolated \in [Kinds -> 0 .. Cardinality(Pages)]
      /\ m'.isolated[scan.file] = m.isolated[scan.file] - scan.nr
      /\ \A f \in Kinds \ {scan.file} : m'.isolated[f] = m.isolated[f]
  <2>1. 0 \in 0 .. Cardinality(Pages)
    BY PagesAssumption, FS_CardinalityType
  <2>2. QED  BY <1>2, <1>8, <2>1
<1>10. m' \in PageRecord
  BY <1>1, <1>4, <1>7, <1>9 DEF PageRecord
<1>11. \A p \in K : /\ Named(m', p, dest[p])
                    /\ ~(p \in m'.active /\ p \in m'.unevictable)
  <2> SUFFICES ASSUME NEW p \in K
               PROVE  Named(m', p, dest[p]) /\ ~(p \in m'.active /\ p \in m'.unevictable)
    OBVIOUS
  <2>1. CASE p \in locked
    BY <1>6, <1>8, <2>1 DEF Named
  <2>2. CASE p \notin locked
    BY <1>2, <1>5, <1>6, <1>8, <2>2 DEF Named
  <2>3. QED  BY <2>1, <2>2
<1>12. \A q \in Pages \ K : /\ q \in m'.active <=> q \in m.active
                            /\ q \in m'.unevictable <=> q \in m.unevictable
  BY <1>4, <1>8
<1>13. Ends(dest)
  BY <1>1, <1>6, <1>7, <1>8, <1>9, <1>10, <1>11, <1>12 DEF Ends, K
<1>14. QED  BY <1>1, <1>3, <1>13, ScanEnds

LEMMA MoveActivePagesToLruStep == ASSUME IInv, ~Preempt, MoveActivePagesToLru PROVE IInv'
<1> DEFINE K == KeptPages
           dest == [p \in K |-> scan.file + (IF p \in m.active THEN 1 ELSE 0)]
           g == Refile(m, K, dest)
<1>1. /\ m' = [g EXCEPT !.isolated[scan.file] = @ - scan.nr]
      /\ scan.kind # "idle" /\ \A p \in Pages : m.on[p] # Taken
      /\ scan' = Idle /\ hating' = NoPage /\ oops' = FALSE
  BY NotHating DEF MoveActivePagesToLru, IInv
<1>2. /\ m \in PageRecord /\ K \in SUBSET Pages /\ scan.file \in Kinds
      /\ \A p \in K : p \notin m.lru /\ p \notin m.unevictable /\ FileOf(p) = scan.file
      /\ m.isolated \in [Kinds -> 0 .. Cardinality(Pages)]
      /\ m.isolated[scan.file] - scan.nr = 0
  BY <1>1, KeptFacts
<1>3. bug' = FALSE
  <2>1. bug' = (K \cap m.lru # {})
    BY Zenon DEF MoveActivePagesToLru
  <2>2. (K \cap m.lru # {}) = FALSE
    BY <1>2
  <2>3. QED  BY <2>1, <2>2, Zenon
<1>4. ASSUME NEW p \in K PROVE dest[p] \in Lists /\ Named(m, p, dest[p])
  <2>1. dest[p] = scan.file + (IF p \in m.active THEN 1 ELSE 0)
    OBVIOUS
  <2>2. /\ dest[p] \in {0, 1, 4, 5} /\ (dest[p] \in {1, 5} <=> p \in m.active)
        /\ dest[p] \in {4, 5} <=> scan.file = 4
    BY <1>2, <2>1 DEF Kinds
  <2>3. scan.file = 4 <=> p \in FilePages
    BY <1>2 DEF FileOf
  <2> HIDE DEF dest
  <2>4. dest[p] \in Evictable
    BY <2>2 DEF Evictable
  <2>5. QED  BY <1>2, <2>2, <2>3, <2>4, ListKinds DEF Named
<1> HIDE DEF dest, g, K
<1>7. /\ g \in PageRecord /\ g.lru = m.lru \cup K /\ g.goal = m.goal
      /\ g.on = [p \in Pages |-> IF p \in K THEN dest[p] ELSE m.on[p]]
      /\ g.active = m.active /\ g.unevictable = m.unevictable
      /\ g.stat = [l \in Lists |-> m.stat[l] + Cardinality({p \in K : dest[p] = l})]
      /\ g.isolated = m.isolated
  <2>1. g = Refile(m, K, dest)
    BY DEF g
  <2>2. m \in PageRecord /\ K \in SUBSET Pages /\ \A p \in K : dest[p] \in Lists
    BY <1>2, <1>4
  <2>3. QED  BY <2>1, <2>2, RefileFields
<1>8. /\ m'.lru = g.lru /\ m'.goal = g.goal /\ m'.on = g.on /\ m'.stat = g.stat
      /\ m'.active = m.active /\ m'.unevictable = m.unevictable
      /\ m'.isolated = [m.isolated EXCEPT ![scan.file] = @ - scan.nr]
  BY <1>1, <1>7 DEF PageRecord
<1>9. /\ m'.isolated \in [Kinds -> 0 .. Cardinality(Pages)]
      /\ m'.isolated[scan.file] = m.isolated[scan.file] - scan.nr
      /\ \A f \in Kinds \ {scan.file} : m'.isolated[f] = m.isolated[f]
  <2>1. 0 \in 0 .. Cardinality(Pages)
    BY PagesAssumption, FS_CardinalityType
  <2>2. QED  BY <1>2, <1>8, <2>1
<1>10. m' \in PageRecord
  BY <1>1, <1>7, <1>9 DEF PageRecord
<1>11. \A p \in K : /\ dest[p] \in Lists /\ Named(m', p, dest[p])
                    /\ ~(p \in m'.active /\ p \in m'.unevictable)
  BY <1>2, <1>4, <1>8 DEF Named
<1>12. \A q \in Pages \ K : /\ q \in m'.active <=> q \in m.active
                            /\ q \in m'.unevictable <=> q \in m.unevictable
  BY <1>8
<1>13. Ends(dest)
  BY <1>1, <1>7, <1>8, <1>9, <1>10, <1>11, <1>12 DEF Ends, K
<1>14. QED  BY <1>1, <1>3, <1>13, ScanEnds

-----------------------------------------------------------------------------
(* The theorems *)

LEMMA InitSound == ASSUME Init PROVE IInv
<1>0. Cardinality(Pages) \in Nat
  BY PagesAssumption, FS_CardinalityType
<1>1. Lists = {0, 1, 2, 3, 4, 5, 6, 7, 8} /\ Kinds = {0, 4} /\ -1 \in Places /\ 0 \in Evictable
  BY DEF Lists, Evictable, Kinds, Places
<1>2. /\ \A p \in Pages : m.on[p] = -1 /\ p \notin m.lru /\ p \notin m.active
      /\ \A l \in Lists : m.stat[l] = 0
      /\ m.isolated = [f \in Kinds |-> 0]
      /\ scan = [kind |-> "idle", file |-> 0, nr |-> 0]
      /\ hating = NoPage /\ bug = FALSE /\ oops = FALSE
  BY DEF Init, Idle, Kinds
<1>3. TypeSound
  <2>1. m \in PageRecord
    BY <1>0, <1>1 DEF Init, PageRecord, Kinds
  <2>2. QED  BY <1>0, <1>1, <1>2, <2>1 DEF TypeSound, ScanRecord
<1>4. PagesSound
  BY <1>2, NoList DEF PagesSound, PageSound
<1>5. m.isolated = IsolatedOf(scan)
  BY <1>2 DEF IsolatedOf
<1>6. CountSound(m)
  <2>1. ASSUME NEW A, -1 \notin A PROVE NumberOn(m.on, A) = 0
    <3>1. {p \in Pages : m.on[p] \in A} = {}
      BY <1>2, <2>1
    <3>2. QED  BY <3>1, FS_EmptySet DEF NumberOn
  <2>2. ASSUME NEW f PROVE InHand(m.on, f) = 0
    <3>1. {p \in Pages : FileOf(p) = f /\ m.on[p] \in {Taken, Kept}} = {}
      BY <1>2
    <3>2. QED  BY <3>1, FS_EmptySet DEF InHand
  <2>3. -1 \notin {8} /\ \A f \in Kinds : -1 \notin KindLists(f)
    BY DEF Kinds, KindLists
  <2>4. NumberOn(m.on, {8}) = 0 /\ \A f \in Kinds : NumberOn(m.on, KindLists(f)) = 0
    BY <2>1, <2>3
  <2>5. m.stat[8] = 0 /\ \A f \in Kinds : StatSum(m.stat, f) = 0 /\ m.isolated[f] = 0
    BY <1>1, <1>2 DEF StatSum
  <2>6. QED  BY <2>2, <2>4, <2>5 DEF CountSound
<1>7. HateSound
  BY <1>2, NoPageAssumption DEF HateSound
<1>8. QED  BY <1>2, <1>3, <1>4, <1>5, <1>6, <1>7 DEF IInv

LEMMA NextSound == ASSUME IInv, ~Preempt, [Next]_vars PROVE IInv'
<1>1. CASE UNCHANGED vars
  BY <1>1 DEF vars, IInv, TypeSound, PagesSound, HateSound
<1>2. ASSUME NEW p \in Pages,
             \/ Fault(p) \/ PagevecLruAdd(p) \/ Release(p) \/ Link(p) \/ Unlink(p)
             \/ ActivatePage(p) \/ MoveTail(p) \/ Mlock(p) \/ Munlock(p)
             \/ ShmLock(p) \/ ShmUnlock(p)
             \/ PutbackLruPage(p) \/ CheckMoveUnevictablePage(p)
             \/ ShrinkPage(p) \/ DeactivatePage(p) \/ HateTest(p)
      PROVE  IInv'
  BY <1>2, FaultStep, PagevecLruAddStep, ReleaseStep, LinkStep, ActivatePageStep, MoveTailStep,
     MlockStep, ShmStep, PutbackLruPageStep, CheckMoveStep, ShrinkPageStep, DeactivatePageStep,
     HateTestStep
<1>3. ASSUME NEW file \in Kinds, ShrinkInactiveList(file) \/ ShrinkActiveList(file)
      PROVE  IInv'
  BY <1>3, ShrinkInactiveListStep, ShrinkActiveListStep
<1>4. CASE PutbackLruPages \/ MoveActivePagesToLru \/ HateMove
  BY <1>4, PutbackLruPagesStep, MoveActivePagesToLruStep, HateMoveStep
<1>5. QED  BY <1>1, <1>2, <1>3, <1>4 DEF Next, Kinds

\* The invariant implies what the run checks.
LEMMA SoundFlags == ASSUME IInv PROVE FlagsSound
<1>1. TypeOK
  BY DEF IInv, TypeSound, TypeOK, PageRecord, ScanRecord, Kinds
<1>2. ListMatchesFlags
  <2> SUFFICES ASSUME NEW p \in Pages
               PROVE  /\ p \in m.lru <=> m.on[p] \in Lists
                      /\ p \in m.lru =>
                           /\ m.on[p] = LRU_UNEVICTABLE <=> p \in m.unevictable
                           /\ m.on[p] # LRU_UNEVICTABLE =>
                                 /\ is_active_lru(m.on[p]) <=> p \in m.active
                                 /\ is_file_lru(m.on[p]) <=> p \in FilePages
    BY DEF ListMatchesFlags
  <2>1. PageSound(m, scan, p)
    BY DEF IInv, PagesSound
  <2>2. \A l \in Evictable : l # 8
    BY ListKinds
  <2>3. QED  BY <2>1, <2>2 DEF PageSound, Named
<1>3. QED  BY <1>1, <1>2 DEF IInv, FlagsSound, NoBug, NoOops

LEMMA SoundCounts == ASSUME IInv PROVE NothingUncounted
<1>1. m.stat[8] = Cardinality({p \in Pages : m.on[p] = 8})
  <2>1. {p \in Pages : m.on[p] \in {8}} = {p \in Pages : m.on[p] = 8}
    OBVIOUS
  <2>2. QED  BY <2>1 DEF IInv, CountSound, NumberOn
<1>2. ASSUME NEW f \in Kinds
      PROVE  Counted(f) >= Cardinality({p \in Pages : FileOf(p) = f /\
                                          m.on[p] \in Evictable \cup {Taken, Kept}})
  <2> DEFINE S == {p \in Pages : m.on[p] \in KindLists(f)}
             H == {p \in Pages : FileOf(p) = f /\ m.on[p] \in {Taken, Kept}}
             U == {p \in Pages : FileOf(p) = f /\ m.on[p] \in Evictable \cup {Taken, Kept}}
  <2>1. IsFiniteSet(S) /\ IsFiniteSet(H)
    BY PagesAssumption, FS_Subset
  <2>2. S \cap H = {}
    BY DEF KindLists, Kinds
  <2>3. U \subseteq S \cup H
    <3> SUFFICES ASSUME NEW p \in Pages, FileOf(p) = f, m.on[p] \in Evictable
                 PROVE  m.on[p] \in KindLists(f)
      OBVIOUS
    <3>1. /\ PageSound(m, scan, p) /\ m.on[p] \in Lists /\ m.on[p] \in 0..7 /\ m.on[p] # 8
          /\ is_file_lru(m.on[p]) <=> m.on[p] \in 4..7
      BY ListKinds DEF IInv, PagesSound
    <3>2. m.on[p] \in 4..7 <=> p \in FilePages
      BY <3>1 DEF PageSound, Named
    <3>3. QED  BY <3>1, <3>2 DEF KindLists, Kinds, FileOf
  <2>4. /\ IsFiniteSet(S \cup H) /\ Cardinality(S) \in Nat /\ Cardinality(H) \in Nat
        /\ Cardinality(S \cup H) = Cardinality(S) + Cardinality(H)
    BY <2>1, <2>2, DisjointUnion
  <2> HIDE DEF S, H, U
  <2>5. Cardinality(U) <= Cardinality(S) + Cardinality(H) /\ Cardinality(U) \in Nat
    BY <2>3, <2>4, FS_Subset, FS_CardinalityType
  <2>6. NumberOn(m.on, KindLists(f)) = Cardinality(S) /\ InHand(m.on, f) = Cardinality(H)
    BY DEF NumberOn, InHand, S, H
  <2>7. StatSum(m.stat, f) + m.isolated[f] >= NumberOn(m.on, KindLists(f)) + InHand(m.on, f)
    BY DEF IInv, CountSound
  <2>8. StatSum(m.stat, f) \in Int /\ m.isolated[f] \in Int
    <3>1. m.stat \in [Lists -> Int] /\ m.isolated \in [Kinds -> 0 .. Cardinality(Pages)]
          /\ Cardinality(Pages) \in Nat
      BY PagesAssumption, FS_CardinalityType DEF IInv, TypeSound, PageRecord
    <3>2. QED  BY <3>1, StatInt
  <2>9. Counted(f) = StatSum(m.stat, f) + m.isolated[f]
    BY DEF Counted, StatSum, Kinds
  <2>10. Counted(f) >= Cardinality(U)
    BY <2>4, <2>5, <2>6, <2>7, <2>8, <2>9
  <2>11. QED  BY <2>10 DEF U
<1>3. QED  BY <1>1, <1>2 DEF NothingUncounted, Kinds

\* As long as nothing runs between hate's test and its lock, the flags of every
\* page name the list that the page is on, up to linked or not; the scan meets no
\* page that it does not expect (the BUGs of vmscan.c:1041 and 1057), and no list
\* is unlinked from that the page is not on.
THEOREM FlagsNameTheList == ~Preempt => (Spec => []FlagsSound)
<1> SUFFICES ASSUME ~Preempt PROVE Spec => []FlagsSound
  OBVIOUS
<1>1. Init => IInv
  BY InitSound
<1>2. IInv /\ [Next]_vars => IInv'
  BY NextSound
<1>3. IInv => FlagsSound
  BY SoundFlags
<1>4. QED  BY <1>1, <1>2, <1>3, PTL DEF Spec

\* The counters of anonymous pages, and those of file pages, together never count
\* less than the pages on the lists and in the hands of the scan, however often
\* pages are linked, unlinked and moved; the unevictable pages are counted exactly.
THEOREM NoPageUncounted == ~Preempt => (Spec => []NothingUncounted)
<1> SUFFICES ASSUME ~Preempt PROVE Spec => []NothingUncounted
  OBVIOUS
<1>1. Init => IInv
  BY InitSound
<1>2. IInv /\ [Next]_vars => IInv'
  BY NextSound
<1>3. IInv => NothingUncounted
  BY SoundCounts
<1>4. QED  BY <1>1, <1>2, <1>3, PTL DEF Spec
=============================================================================
