-------------------------- MODULE MemoryChainProofs --------------------------
(***************************************************************************)
(* The safety invariants of MemoryChain hold for any number of tasks,      *)
(* slots and pages, with and without spin locks.                           *)
(*                                                                         *)
(* Every operator of MemoryChain that stands for a function of the source  *)
(* maps a consistent heap to a consistent heap; consistency is stated      *)
(* relative to the set O of open chains and the set A of allocated pages,  *)
(* so that the lemmas apply to the intermediate heaps inside a handler as  *)
(* well as to the states of the specification.                             *)
(***************************************************************************)
EXTENDS MemoryChain, FiniteSetTheorems, TLAPS

\* An open chain's fields describe its pages.
ChainOK(h, c) ==
    /\ h.links[c] = {p \in Pages : h.chain[p] = c}
    /\ h.nr_links[c] = Cardinality(h.links[c])
    /\ h.ref_counter[c] >= Cardinality(ReferencedLinks(h, c))
    /\ h.anchor[c] # NoPage => h.anchor[c] \in h.links[c] \cap h.mlocked
    /\ h.delegate[c] # NoPage => h.delegate[c] \in h.links[c]

\* What the proof of one operator may assume of the heap and has to restore.
Consistent(h, O, A) ==
    /\ h \in Heaps
    /\ \A p \in Pages : Linked(h, p) => h.chain[p] \in O /\ p \in A
    /\ \A c \in O : ChainOK(h, c)

-----------------------------------------------------------------------------
(* Cardinalities of sets of pages. *)

\* A set of pages is finite and its cardinality is a natural number.
LEMMA PagesFinite ==
    ASSUME NEW S \in SUBSET Pages
    PROVE  IsFiniteSet(S) /\ Cardinality(S) \in Nat
BY PagesAssumption, FS_Subset, FS_CardinalityType

\* Adding and removing one page changes the cardinality by at most one.
LEMMA PagesAdd ==
    ASSUME NEW S \in SUBSET Pages, NEW p \in Pages
    PROVE  /\ p \notin S => Cardinality(S \cup {p}) = Cardinality(S) + 1
           /\ Cardinality(S \cup {p}) <= Cardinality(S) + 1
<1>1. CASE p \in S
  <2>1. S \cup {p} = S  BY <1>1
  <2>2. QED  BY <1>1, <2>1, PagesFinite
<1>2. CASE p \notin S
  <2>1. Cardinality(S \cup {p}) = Cardinality(S) + 1
    BY <1>2, PagesFinite, FS_AddElement
  <2>2. QED  BY <2>1, PagesFinite
<1>3. QED  BY <1>1, <1>2

LEMMA PagesRemove ==
    ASSUME NEW S \in SUBSET Pages, NEW p \in Pages
    PROVE  /\ p \in S => Cardinality(S \ {p}) = Cardinality(S) - 1
           /\ Cardinality(S \ {p}) <= Cardinality(S)
<1>1. CASE p \in S
  <2>1. Cardinality(S \ {p}) = Cardinality(S) - 1
    BY <1>1, PagesFinite, FS_RemoveElement
  <2>2. QED  BY <2>1, PagesFinite
<1>2. CASE p \notin S
  <2>1. S \ {p} = S  BY <1>2
  <2>2. QED  BY <1>2, <2>1, PagesFinite
<1>3. QED  BY <1>1, <1>2

\* A subset has no more elements.
LEMMA PagesSubset ==
    ASSUME NEW S \in SUBSET Pages, NEW T \in SUBSET S
    PROVE  Cardinality(T) <= Cardinality(S)
BY PagesFinite, FS_Subset

-----------------------------------------------------------------------------
(***************************************************************************)
(* Fields: what each operator makes of the fields of a heap.               *)
(***************************************************************************)

LEMMA AddRefFields ==
    ASSUME NEW h \in Heaps, NEW p \in Pages, NEW n \in Int
    PROVE  LET g == AddRef(h, p, n)
           IN  /\ g \in Heaps
               /\ g.links = h.links /\ g.nr_links = h.nr_links
               /\ g.anchor = h.anchor /\ g.delegate = h.delegate
               /\ g.chain = h.chain /\ g.referenced = h.referenced
               /\ g.mlocked = h.mlocked
               /\ \A c \in Chains : g.ref_counter[c] =
                     IF h.chain[p] = c THEN h.ref_counter[c] + n
                                       ELSE h.ref_counter[c]
<1>1. CASE Linked(h, p)
  <2>1. PICK d \in Chains : d = h.chain[p]
    BY <1>1 DEF Heaps, Linked
  <2>2. PICK r \in [Chains -> Int] : r = [h.ref_counter EXCEPT ![d] = @ + n]
    <3>1. PICK f \in [Chains -> Int] : f = h.ref_counter
      BY DEF Heaps
    <3>2. f[d] + n \in Int
      OBVIOUS
    <3>3. [f EXCEPT ![d] = f[d] + n] \in [Chains -> Int]
      BY ONLY <3>1, <3>2
    <3> QED  BY ONLY <3>1, <3>3
  <2>3. AddRef(h, p, n) = [h EXCEPT !.ref_counter = r]
    <3>1. AddRef(h, p, n) = [h EXCEPT !.ref_counter[d] = @ + n]
      BY <1>1, <2>1 DEF AddRef
    <3>2. [h EXCEPT !.ref_counter[d] = @ + n]
             = [h EXCEPT !.ref_counter = [h.ref_counter EXCEPT ![d] = @ + n]]
      BY Zenon
    <3> QED  BY <2>2, <3>1, <3>2
  <2>4. LET g == [h EXCEPT !.ref_counter = r]
        IN  /\ g \in Heaps /\ g.ref_counter = r
            /\ g.links = h.links /\ g.nr_links = h.nr_links
            /\ g.anchor = h.anchor /\ g.delegate = h.delegate
            /\ g.chain = h.chain /\ g.referenced = h.referenced
            /\ g.mlocked = h.mlocked
    BY DEF Heaps
  <2>5. \A c \in Chains : r[c] = IF d = c THEN h.ref_counter[c] + n ELSE h.ref_counter[c]
    BY <2>2 DEF Heaps
  <2> QED  BY <2>1, <2>3, <2>4, <2>5
<1>2. CASE ~Linked(h, p)
  BY <1>2, NoChainAssumption DEF Heaps, AddRef, Linked
<1>3. QED  BY <1>1, <1>2

LEMMA SetPageReferencedFields ==
    ASSUME NEW h \in Heaps, NEW p \in Pages
    PROVE  LET g == SetPageReferenced(h, p)
           IN  /\ g \in Heaps
               /\ g.links = h.links /\ g.nr_links = h.nr_links
               /\ g.anchor = h.anchor /\ g.delegate = h.delegate
               /\ g.chain = h.chain /\ g.mlocked = h.mlocked
               /\ g.referenced = h.referenced \cup {p}
               /\ \A c \in Chains : g.ref_counter[c] =
                     IF h.chain[p] = c THEN h.ref_counter[c] + 1
                                       ELSE h.ref_counter[c]
<1> DEFINE f == [h EXCEPT !.referenced = @ \cup {p}]
<1>1. /\ f \in Heaps
      /\ f.links = h.links /\ f.nr_links = h.nr_links /\ f.anchor = h.anchor
      /\ f.delegate = h.delegate /\ f.chain = h.chain /\ f.mlocked = h.mlocked
      /\ f.referenced = h.referenced \cup {p} /\ f.ref_counter = h.ref_counter
  BY DEF Heaps
<1>2. SetPageReferenced(h, p) = AddRef(f, p, 1)  BY DEF SetPageReferenced
<1> HIDE DEF f
<1>3. QED  BY <1>1, <1>2, AddRefFields

LEMMA ClearPageReferencedFields ==
    ASSUME NEW h \in Heaps, NEW p \in Pages
    PROVE  LET g == ClearPageReferenced(h, p)
           IN  /\ g \in Heaps
               /\ g.links = h.links /\ g.nr_links = h.nr_links
               /\ g.anchor = h.anchor /\ g.delegate = h.delegate
               /\ g.chain = h.chain /\ g.mlocked = h.mlocked
               /\ g.referenced = h.referenced \ {p}
               /\ \A c \in Chains : g.ref_counter[c] =
                     IF h.chain[p] = c /\ p \in h.referenced
                     THEN h.ref_counter[c] - 1 ELSE h.ref_counter[c]
<1> DEFINE f == [h EXCEPT !.referenced = @ \ {p}]
           n == IF p \in h.referenced THEN -1 ELSE 0
<1>1. /\ f \in Heaps
      /\ f.links = h.links /\ f.nr_links = h.nr_links /\ f.anchor = h.anchor
      /\ f.delegate = h.delegate /\ f.chain = h.chain /\ f.mlocked = h.mlocked
      /\ f.referenced = h.referenced \ {p} /\ f.ref_counter = h.ref_counter
  BY DEF Heaps
<1>2. ClearPageReferenced(h, p) = AddRef(f, p, n)  BY DEF ClearPageReferenced
<1>3. n \in Int /\ h.ref_counter \in [Chains -> Int]  BY DEF Heaps
<1>4. /\ p \in h.referenced => n = -1
      /\ p \notin h.referenced => n = 0
  OBVIOUS
<1> HIDE DEF f, n
<1>5. \A c \in Chains : AddRef(f, p, n).ref_counter[c] =
         IF h.chain[p] = c /\ p \in h.referenced
         THEN h.ref_counter[c] - 1 ELSE h.ref_counter[c]
  <2>1. \A c \in Chains : h.ref_counter[c] \in Int  BY <1>3
  <2>2. \A c \in Chains : AddRef(f, p, n).ref_counter[c] =
           IF h.chain[p] = c THEN h.ref_counter[c] + n ELSE h.ref_counter[c]
    BY <1>1, <1>3, AddRefFields, SMTT(60)
  <2>3. CASE p \in h.referenced
    BY <1>4, <2>1, <2>2, <2>3
  <2>4. CASE p \notin h.referenced
    BY <1>4, <2>1, <2>2, <2>4
  <2>5. QED  BY <2>3, <2>4
<1>6. QED  BY <1>1, <1>2, <1>3, <1>5, AddRefFields

LEMMA TouchChainFields ==
    ASSUME NEW h \in Heaps, NEW p \in Pages
    PROVE  LET g == TouchChain(h, p)
           IN  /\ g \in Heaps
               /\ g.links = h.links /\ g.nr_links = h.nr_links
               /\ g.anchor = h.anchor /\ g.chain = h.chain
               /\ g.referenced = h.referenced /\ g.mlocked = h.mlocked
               /\ \A c \in Chains :
                     /\ g.ref_counter[c] = IF h.chain[p] = c THEN h.nr_links[c]
                                                             ELSE h.ref_counter[c]
                     /\ g.delegate[c] = IF h.chain[p] = c THEN p ELSE h.delegate[c]
<1>1. CASE Linked(h, p)
  BY <1>1, NoChainAssumption DEF Heaps, TouchChain, Linked
<1>2. CASE ~Linked(h, p)
  BY <1>2, NoChainAssumption DEF Heaps, TouchChain, Linked
<1>3. QED  BY <1>1, <1>2

\* g is h after __unlink_page(p): the pin of an anchor aside, p's chain pointer
\* is cleared and its chain d loses one link.
Unlinked(g, h, p) ==
    LET d == h.chain[p]
    IN  /\ g.referenced  = h.referenced
        /\ g.mlocked     = IF h.anchor[d] = p THEN h.mlocked \ {p} ELSE h.mlocked
        /\ g.chain       = [h.chain EXCEPT ![p] = NoChain]
        /\ g.links       = [h.links EXCEPT ![d] = @ \ {p}]
        /\ g.nr_links    = [h.nr_links EXCEPT ![d] = @ - 1]
        /\ g.ref_counter = [h.ref_counter EXCEPT
                              ![d] = @ - (IF p \in h.referenced THEN 1 ELSE 0)]
        /\ g.anchor      = [h.anchor EXCEPT ![d] = IF @ = p THEN NoPage ELSE @]
        /\ g.delegate    = [h.delegate EXCEPT ![d] = IF @ = p THEN NoPage ELSE @]

LEMMA UnlinkPageFields ==
    ASSUME NEW h \in Heaps, NEW p \in Pages, Linked(h, p)
    PROVE  UnlinkPage(h, p) \in Heaps /\ Unlinked(UnlinkPage(h, p), h, p)
<1> DEFINE d == h.chain[p]
           f == IF h.anchor[d] = p THEN UnpinAnchor(h, d) ELSE h
<1>1. d \in Chains  BY NoChainAssumption DEF Heaps, Linked
<1>2. /\ f \in Heaps
      /\ f.links = h.links /\ f.nr_links = h.nr_links /\ f.anchor = h.anchor
      /\ f.delegate = h.delegate /\ f.chain = h.chain
      /\ f.referenced = h.referenced /\ f.ref_counter = h.ref_counter
      /\ f.mlocked = IF h.anchor[d] = p THEN h.mlocked \ {p} ELSE h.mlocked
  <2>1. CASE h.anchor[d] = p
    BY <2>1 DEF UnpinAnchor, Heaps
  <2>2. CASE h.anchor[d] # p
    BY <2>2 DEF Heaps
  <2>3. QED  BY <2>1, <2>2
<1>3. UnlinkPage(h, p) =
        [f EXCEPT !.links[d]       = @ \ {p},
                  !.anchor[d]      = IF @ = p THEN NoPage ELSE @,
                  !.delegate[d]    = IF @ = p THEN NoPage ELSE @,
                  !.nr_links[d]    = @ - 1,
                  !.ref_counter[d] = @ - (IF p \in h.referenced THEN 1 ELSE 0),
                  !.chain[p]       = NoChain]
  BY DEF UnlinkPage
<1> DEFINE g == UnlinkPage(h, p)
<1> HIDE DEF d, f
<1>4. /\ g.links       = [f.links EXCEPT ![d] = @ \ {p}]
      /\ g.anchor      = [f.anchor EXCEPT ![d] = IF @ = p THEN NoPage ELSE @]
      /\ g.delegate    = [f.delegate EXCEPT ![d] = IF @ = p THEN NoPage ELSE @]
      /\ g.nr_links    = [f.nr_links EXCEPT ![d] = @ - 1]
      /\ g.ref_counter = [f.ref_counter EXCEPT
                             ![d] = @ - (IF p \in h.referenced THEN 1 ELSE 0)]
      /\ g.chain       = [f.chain EXCEPT ![p] = NoChain]
      /\ g.referenced = f.referenced /\ g.mlocked = f.mlocked
  BY <1>2, <1>3 DEF Heaps
<1>5. g \in [links : {g.links}, nr_links : {g.nr_links},
             ref_counter : {g.ref_counter}, anchor : {g.anchor},
             delegate : {g.delegate}, chain : {g.chain},
             referenced : {g.referenced}, mlocked : {g.mlocked}]
  BY <1>2, <1>3 DEF Heaps
<1> HIDE DEF g
<1>6. QED
  BY <1>1, <1>2, <1>4, <1>5 DEF Heaps, Unlinked, d, g

LEMMA AttachPageFields ==
    ASSUME NEW h \in Heaps, NEW p \in Pages, NEW d \in Chains
    PROVE  LET g == AttachPage(h, d, p)
           IN  /\ g \in Heaps
               /\ g.referenced = h.referenced /\ g.mlocked = h.mlocked
               /\ g.anchor = h.anchor /\ g.delegate = h.delegate
               /\ \A q \in Pages : g.chain[q] = IF q = p THEN d ELSE h.chain[q]
               /\ g.links[d] = h.links[d] \cup {p}
               /\ g.nr_links[d] = h.nr_links[d] + 1
               /\ g.ref_counter[d] =
                     h.ref_counter[d] + (IF p \in h.referenced THEN 1 ELSE 0)
               /\ \A c \in Chains \ {d} :
                     /\ g.links[c] = h.links[c]
                     /\ g.nr_links[c] = h.nr_links[c]
                     /\ g.ref_counter[c] = h.ref_counter[c]
<1> DEFINE g == AttachPage(h, d, p)
           one == IF p \in h.referenced THEN 1 ELSE 0
<1>1. /\ g.chain       = [h.chain EXCEPT ![p] = d]
      /\ g.links       = [h.links EXCEPT ![d] = @ \cup {p}]
      /\ g.nr_links    = [h.nr_links EXCEPT ![d] = @ + 1]
      /\ g.ref_counter = [h.ref_counter EXCEPT ![d] = @ + one]
      /\ g.anchor = h.anchor /\ g.delegate = h.delegate
      /\ g.referenced = h.referenced /\ g.mlocked = h.mlocked
  BY DEF Heaps, AttachPage
<1>2. g \in [links : {g.links}, nr_links : {g.nr_links},
             ref_counter : {g.ref_counter}, anchor : {g.anchor},
             delegate : {g.delegate}, chain : {g.chain},
             referenced : {g.referenced}, mlocked : {g.mlocked}]
  BY DEF Heaps, AttachPage
<1>3. one \in Int  OBVIOUS
<1> HIDE DEF g, one
<1>4. g \in Heaps  BY <1>1, <1>2, <1>3 DEF Heaps
<1>5. QED  BY <1>1, <1>3, <1>4 DEF Heaps, g, one

LEMMA UnlinkChainFields ==
    ASSUME NEW h \in Heaps, NEW d \in Chains
    PROVE  LET g == UnlinkChain(h, d)
           IN  /\ g \in Heaps
               /\ g.referenced = h.referenced \ h.links[d]
               /\ g.mlocked = h.mlocked \ {h.anchor[d]}
               /\ \A q \in Pages : g.chain[q] =
                     IF q \in h.links[d] THEN NoChain ELSE h.chain[q]
               /\ g.links[d] = {} /\ g.nr_links[d] = 0 /\ g.ref_counter[d] = 0
               /\ g.anchor[d] = NoPage /\ g.delegate[d] = NoPage
               /\ \A c \in Chains \ {d} :
                     /\ g.links[c] = h.links[c]
                     /\ g.nr_links[c] = h.nr_links[c]
                     /\ g.ref_counter[c] = h.ref_counter[c]
                     /\ g.anchor[c] = h.anchor[c]
                     /\ g.delegate[c] = h.delegate[c]
<1> DEFINE g == UnlinkChain(h, d)
<1>1. /\ g.referenced  = h.referenced \ h.links[d]
      /\ g.mlocked     = h.mlocked \ {h.anchor[d]}
      /\ g.chain       = [q \in Pages |-> IF q \in h.links[d] THEN NoChain
                                                             ELSE h.chain[q]]
      /\ g.links       = [h.links EXCEPT ![d] = {}]
      /\ g.anchor      = [h.anchor EXCEPT ![d] = NoPage]
      /\ g.delegate    = [h.delegate EXCEPT ![d] = NoPage]
      /\ g.nr_links    = [h.nr_links EXCEPT ![d] = 0]
      /\ g.ref_counter = [h.ref_counter EXCEPT ![d] = 0]
  BY DEF Heaps, UnlinkChain, UnpinAnchor
<1>2. g \in [links : {g.links}, nr_links : {g.nr_links},
             ref_counter : {g.ref_counter}, anchor : {g.anchor},
             delegate : {g.delegate}, chain : {g.chain},
             referenced : {g.referenced}, mlocked : {g.mlocked}]
  BY DEF Heaps, UnlinkChain, UnpinAnchor
<1> HIDE DEF g
<1>3. g \in Heaps  BY <1>1, <1>2 DEF Heaps
<1>4. QED  BY <1>1, <1>3 DEF Heaps, g

LEMMA UnlinkChainsFastFields ==
    ASSUME NEW h \in Heaps, NEW D \in SUBSET Chains
    PROVE  LET g == UnlinkChainsFast(h, D)
           IN  /\ g \in Heaps
               /\ g.referenced = h.referenced /\ g.mlocked = h.mlocked
               /\ g.anchor = h.anchor /\ g.delegate = h.delegate
               /\ g.nr_links = h.nr_links /\ g.ref_counter = h.ref_counter
               /\ \A q \in Pages : g.chain[q] =
                     IF \E c \in D : q \in h.links[c] THEN NoChain ELSE h.chain[q]
               /\ \A c \in Chains : g.links[c] = IF c \in D THEN {} ELSE h.links[c]
BY DEF UnlinkChainsFast, Heaps

-----------------------------------------------------------------------------
(***************************************************************************)
(* Consistency: each operator restores it.                                 *)
(***************************************************************************)

\* The parts of Consistent in the form the steps below use.
LEMMA ConsistentTypes ==
    ASSUME NEW h, NEW O \in SUBSET Chains, NEW A, Consistent(h, O, A), NEW c \in O
    PROVE  /\ h \in Heaps /\ c \in Chains
           /\ h.links[c] \in SUBSET Pages
           /\ ReferencedLinks(h, c) \in SUBSET Pages
           /\ ReferencedLinks(h, c) \in SUBSET h.links[c]
           /\ h.ref_counter[c] \in Int
           /\ Cardinality(ReferencedLinks(h, c)) \in Nat
           /\ Cardinality(h.links[c]) \in Nat
           /\ ChainOK(h, c)
<1>1. h \in Heaps /\ c \in Chains /\ ChainOK(h, c)  BY DEF Consistent
<1>2. h.links[c] \in SUBSET Pages /\ h.ref_counter[c] \in Int
  BY <1>1 DEF Heaps
<1>3. /\ ReferencedLinks(h, c) \in SUBSET Pages
      /\ ReferencedLinks(h, c) \in SUBSET h.links[c]
  BY <1>2 DEF ReferencedLinks
<1>4. QED  BY <1>1, <1>2, <1>3, PagesFinite

LEMMA SetPageReferencedConsistent ==
    ASSUME NEW h, NEW O \in SUBSET Chains, NEW A, Consistent(h, O, A),
           NEW p \in Pages
    PROVE  Consistent(SetPageReferenced(h, p), O, A)
<1> DEFINE g == SetPageReferenced(h, p)
<1>1. h \in Heaps  BY DEF Consistent
<1>0. /\ g \in Heaps
      /\ g.links = h.links /\ g.nr_links = h.nr_links
      /\ g.anchor = h.anchor /\ g.delegate = h.delegate
      /\ g.chain = h.chain /\ g.mlocked = h.mlocked
  BY <1>1, SetPageReferencedFields
<1>2. ASSUME NEW c \in O  PROVE  ChainOK(g, c)
  <2>0. /\ h \in Heaps /\ c \in Chains
        /\ h.links[c] \in SUBSET Pages
        /\ ReferencedLinks(h, c) \in SUBSET Pages
        /\ ReferencedLinks(h, c) \in SUBSET h.links[c]
        /\ h.ref_counter[c] \in Int
        /\ Cardinality(ReferencedLinks(h, c)) \in Nat
        /\ Cardinality(h.links[c]) \in Nat
        /\ ChainOK(h, c)
    BY ConsistentTypes
  <2>1. /\ h.links[c] = {q \in Pages : h.chain[q] = c}
        /\ h.ref_counter[c] >= Cardinality(ReferencedLinks(h, c))
    BY <2>0 DEF ChainOK
  <2>2. g.ref_counter[c] >= Cardinality(ReferencedLinks(g, c))
    <3>1. CASE h.chain[p] = c
      <4>1. ReferencedLinks(g, c) = ReferencedLinks(h, c) \cup {p}
        BY <1>1, <2>1, <3>1, SetPageReferencedFields DEF ReferencedLinks
      <4>2. /\ Cardinality(ReferencedLinks(g, c)) <= Cardinality(ReferencedLinks(h, c)) + 1
            /\ Cardinality(ReferencedLinks(g, c)) \in Nat
        BY <4>1, <2>0, PagesAdd, PagesFinite
      <4>3. g.ref_counter[c] = h.ref_counter[c] + 1
        BY <1>1, <3>1, SetPageReferencedFields
      <4>4. QED  BY <2>1, <4>2, <4>3, <2>0
    <3>2. CASE h.chain[p] # c
      <4>1. ReferencedLinks(g, c) = ReferencedLinks(h, c)
        BY <1>1, <2>1, <3>2, SetPageReferencedFields DEF ReferencedLinks
      <4>2. QED  BY <1>1, <2>1, <3>2, <4>1, SetPageReferencedFields
    <3>3. QED  BY <3>1, <3>2
  <2> HIDE DEF g
  <2>3. QED  BY <2>2, <1>0, <2>0 DEF ChainOK
<1>3. QED  BY <1>1, <1>2, SetPageReferencedFields DEF Consistent, Linked

LEMMA ClearPageReferencedConsistent ==
    ASSUME NEW h, NEW O \in SUBSET Chains, NEW A, Consistent(h, O, A),
           NEW p \in Pages
    PROVE  Consistent(ClearPageReferenced(h, p), O, A)
<1> DEFINE g == ClearPageReferenced(h, p)
<1>1. h \in Heaps  BY DEF Consistent
<1>0. /\ g \in Heaps
      /\ g.links = h.links /\ g.nr_links = h.nr_links
      /\ g.anchor = h.anchor /\ g.delegate = h.delegate
      /\ g.chain = h.chain /\ g.mlocked = h.mlocked
  BY <1>1, ClearPageReferencedFields
<1>2. ASSUME NEW c \in O  PROVE  ChainOK(g, c)
  <2>0. /\ h \in Heaps /\ c \in Chains
        /\ h.links[c] \in SUBSET Pages
        /\ ReferencedLinks(h, c) \in SUBSET Pages
        /\ ReferencedLinks(h, c) \in SUBSET h.links[c]
        /\ h.ref_counter[c] \in Int
        /\ Cardinality(ReferencedLinks(h, c)) \in Nat
        /\ Cardinality(h.links[c]) \in Nat
        /\ ChainOK(h, c)
    BY ConsistentTypes
  <2>1. /\ h.links[c] = {q \in Pages : h.chain[q] = c}
        /\ h.ref_counter[c] >= Cardinality(ReferencedLinks(h, c))
    BY <2>0 DEF ChainOK
  <2>2. g.ref_counter[c] >= Cardinality(ReferencedLinks(g, c))
    <3>1. ReferencedLinks(g, c) = ReferencedLinks(h, c) \ {p}
      BY <1>1, ClearPageReferencedFields DEF ReferencedLinks
    <3>2. Cardinality(ReferencedLinks(g, c)) \in Nat
      BY <3>1, <2>0, PagesFinite
    <3>3. CASE h.chain[p] = c /\ p \in h.referenced
      <4>1. p \in ReferencedLinks(h, c)  BY <2>1, <3>3 DEF ReferencedLinks
      <4>2. Cardinality(ReferencedLinks(g, c)) = Cardinality(ReferencedLinks(h, c)) - 1
        BY <3>1, <4>1, <2>0, PagesRemove
      <4>3. g.ref_counter[c] = h.ref_counter[c] - 1
        BY <1>1, <3>3, ClearPageReferencedFields
      <4>4. QED  BY <2>1, <3>2, <4>2, <4>3, <2>0
    <3>4. CASE ~(h.chain[p] = c /\ p \in h.referenced)
      <4>1. Cardinality(ReferencedLinks(g, c)) <= Cardinality(ReferencedLinks(h, c))
        BY <3>1, <2>0, PagesRemove
      <4>2. g.ref_counter[c] = h.ref_counter[c]
        BY <1>1, <3>4, ClearPageReferencedFields
      <4>3. QED  BY <2>1, <3>2, <4>1, <4>2, <2>0
    <3>5. QED  BY <3>3, <3>4
  <2> HIDE DEF g
  <2>3. QED  BY <2>2, <1>0, <2>0 DEF ChainOK
<1>3. QED  BY <1>1, <1>2, ClearPageReferencedFields DEF Consistent, Linked

LEMMA TouchChainConsistent ==
    ASSUME NEW h, NEW O \in SUBSET Chains, NEW A, Consistent(h, O, A),
           NEW p \in Pages
    PROVE  Consistent(TouchChain(h, p), O, A)
<1> DEFINE g == TouchChain(h, p)
<1>1. h \in Heaps  BY DEF Consistent
<1>0. /\ g \in Heaps
      /\ g.links = h.links /\ g.nr_links = h.nr_links
      /\ g.anchor = h.anchor /\ g.chain = h.chain
      /\ g.mlocked = h.mlocked
  BY <1>1, TouchChainFields
<1>2. ASSUME NEW c \in O  PROVE  ChainOK(g, c)
  <2>0. /\ h \in Heaps /\ c \in Chains
        /\ h.links[c] \in SUBSET Pages
        /\ ReferencedLinks(h, c) \in SUBSET Pages
        /\ ReferencedLinks(h, c) \in SUBSET h.links[c]
        /\ h.ref_counter[c] \in Int
        /\ Cardinality(ReferencedLinks(h, c)) \in Nat
        /\ Cardinality(h.links[c]) \in Nat
        /\ ChainOK(h, c)
    BY ConsistentTypes
  <2>1. /\ h.links[c] = {q \in Pages : h.chain[q] = c}
        /\ h.nr_links[c] = Cardinality(h.links[c])
        /\ h.ref_counter[c] >= Cardinality(ReferencedLinks(h, c))
        /\ h.delegate[c] # NoPage => h.delegate[c] \in h.links[c]
    BY <2>0 DEF ChainOK
  <2>2. ReferencedLinks(g, c) = ReferencedLinks(h, c)
    BY <1>1, TouchChainFields DEF ReferencedLinks
  <2>3. g.ref_counter[c] >= Cardinality(ReferencedLinks(g, c))
    <3>1. CASE h.chain[p] = c
      <4>1. g.ref_counter[c] = Cardinality(h.links[c])
        BY <1>1, <2>1, <3>1, TouchChainFields
      <4>2. Cardinality(ReferencedLinks(h, c)) <= Cardinality(h.links[c])
        BY <2>0, PagesSubset
      <4>3. QED  BY <2>2, <4>1, <4>2, <2>0
    <3>2. CASE h.chain[p] # c
      BY <1>1, <2>1, <2>2, <3>2, TouchChainFields
    <3>3. QED  BY <3>1, <3>2
  <2>4. g.delegate[c] # NoPage => g.delegate[c] \in h.links[c]
    BY <1>1, <2>1, TouchChainFields, SMTT(60)
  <2> HIDE DEF g
  <2>5. QED  BY <2>3, <2>4, <1>0, <2>0 DEF ChainOK
<1>3. QED  BY <1>1, <1>2, TouchChainFields DEF Consistent, Linked

LEMMA MarkPageAccessedConsistent ==
    ASSUME NEW h, NEW O \in SUBSET Chains, NEW A, Consistent(h, O, A),
           NEW p \in Pages, NEW candidate \in BOOLEAN
    PROVE  Consistent(MarkPageAccessed(h, p, candidate), O, A)
<1> DEFINE t == TouchChain(h, p)
           s == SetIfClear(t, p)
           u == IF Linked(t, p) THEN s ELSE t
<1>1. Consistent(t, O, A)  BY TouchChainConsistent
<1>2. Consistent(s, O, A)
  BY <1>1, SetPageReferencedConsistent DEF SetIfClear
<1>3. Consistent(u, O, A)  BY <1>1, <1>2
<1>4. Consistent(ClearPageReferenced(u, p), O, A)
  BY <1>3, ClearPageReferencedConsistent
<1>5. \/ MarkPageAccessed(h, p, candidate) = ClearPageReferenced(u, p)
      \/ MarkPageAccessed(h, p, candidate) = s
  BY DEF MarkPageAccessed
<1> HIDE DEF s, u
<1>6. QED  BY <1>2, <1>4, <1>5

LEMMA UnlinkPageConsistent ==
    ASSUME NEW h, NEW O \in SUBSET Chains, NEW A, Consistent(h, O, A),
           NEW p \in Pages, Linked(h, p)
    PROVE  /\ Consistent(UnlinkPage(h, p), O, A \ {p})
           /\ ~Linked(UnlinkPage(h, p), p)
<1> DEFINE g == UnlinkPage(h, p)
           d == h.chain[p]
<1>1. h \in Heaps /\ d \in O  BY DEF Consistent
<1>2. d \in Chains /\ d # NoChain  BY <1>1, NoChainAssumption
<1>d. d = h.chain[p]  OBVIOUS
<1>f. g \in Heaps /\ Unlinked(g, h, p)  BY <1>1, UnlinkPageFields
<1> HIDE DEF g, d
<1>3. /\ g \in Heaps
      /\ g.referenced = h.referenced
      /\ g.mlocked = IF h.anchor[d] = p THEN h.mlocked \ {p} ELSE h.mlocked
      /\ \A q \in Pages : g.chain[q] = IF q = p THEN NoChain ELSE h.chain[q]
  BY <1>1, <1>2, <1>d, <1>f DEF Heaps, Unlinked
<1>4. /\ g.links[d] = h.links[d] \ {p}
      /\ g.nr_links[d] = h.nr_links[d] - 1
      /\ g.ref_counter[d] =
            h.ref_counter[d] - (IF p \in h.referenced THEN 1 ELSE 0)
      /\ g.anchor[d] = IF h.anchor[d] = p THEN NoPage ELSE h.anchor[d]
      /\ g.delegate[d] = IF h.delegate[d] = p THEN NoPage ELSE h.delegate[d]
  BY <1>1, <1>2, <1>d, <1>f DEF Heaps, Unlinked
<1>5. \A c \in Chains \ {d} :
         /\ g.links[c] = h.links[c]
         /\ g.nr_links[c] = h.nr_links[c]
         /\ g.ref_counter[c] = h.ref_counter[c]
         /\ g.anchor[c] = h.anchor[c]
         /\ g.delegate[c] = h.delegate[c]
  BY <1>1, <1>2, <1>d, <1>f DEF Heaps, Unlinked
<1>6. ChainOK(g, d)
  <2>0. /\ d \in Chains
        /\ h.links[d] \in SUBSET Pages
        /\ ReferencedLinks(h, d) \in SUBSET Pages
        /\ h.ref_counter[d] \in Int
        /\ Cardinality(ReferencedLinks(h, d)) \in Nat
        /\ Cardinality(h.links[d]) \in Nat
        /\ ChainOK(h, d)
    BY <1>1, ConsistentTypes
  <2>1. h.links[d] = {q \in Pages : h.chain[q] = d} /\ p \in h.links[d]
    BY <2>0, <1>d DEF ChainOK
  <2>2. g.links[d] = {q \in Pages : g.chain[q] = d}
    BY <1>2, <1>3, <1>4, <2>1
  <2>3. g.nr_links[d] = Cardinality(g.links[d])
    <3>1. Cardinality(g.links[d]) = Cardinality(h.links[d]) - 1
      BY <1>4, <2>0, <2>1, PagesRemove
    <3>2. h.nr_links[d] = Cardinality(h.links[d])  BY <2>0 DEF ChainOK
    <3>3. QED  BY <1>4, <3>1, <3>2
  <2>4. g.ref_counter[d] >= Cardinality(ReferencedLinks(g, d))
    <3>1. ReferencedLinks(g, d) = ReferencedLinks(h, d) \ {p}
      BY <1>3, <1>4 DEF ReferencedLinks
    <3>2. h.ref_counter[d] >= Cardinality(ReferencedLinks(h, d))
      BY <2>0 DEF ChainOK
    <3>3. CASE p \in h.referenced
      <4>1. p \in ReferencedLinks(h, d)  BY <2>1, <3>3 DEF ReferencedLinks
      <4>2. Cardinality(ReferencedLinks(g, d)) = Cardinality(ReferencedLinks(h, d)) - 1
        BY <2>0, <3>1, <4>1, PagesRemove
      <4>3. g.ref_counter[d] = h.ref_counter[d] - 1  BY <1>4, <3>3
      <4>4. QED  BY <2>0, <3>2, <4>2, <4>3
    <3>4. CASE p \notin h.referenced
      <4>1. ReferencedLinks(g, d) = ReferencedLinks(h, d)
        BY <3>1, <3>4 DEF ReferencedLinks
      <4>2. g.ref_counter[d] = h.ref_counter[d]  BY <1>4, <2>0, <3>4
      <4>3. QED  BY <3>2, <4>1, <4>2
    <3>5. QED  BY <3>3, <3>4
  <2>5. /\ g.anchor[d] # NoPage => g.anchor[d] \in g.links[d] \cap g.mlocked
        /\ g.delegate[d] # NoPage => g.delegate[d] \in g.links[d]
    BY <1>3, <1>4, <2>0 DEF ChainOK
  <2>6. QED  BY <2>2, <2>3, <2>4, <2>5 DEF ChainOK
<1>7. ASSUME NEW c \in O, c # d  PROVE  ChainOK(g, c)
  <2>0. /\ c \in Chains
        /\ h.links[c] \in SUBSET Pages
        /\ ReferencedLinks(h, c) \in SUBSET Pages
        /\ h.ref_counter[c] \in Int
        /\ Cardinality(ReferencedLinks(h, c)) \in Nat
        /\ Cardinality(h.links[c]) \in Nat
        /\ ChainOK(h, c)
    BY ConsistentTypes
  <2>1. h.links[c] = {q \in Pages : h.chain[q] = c} /\ p \notin h.links[c]
    BY <1>7, <2>0, <1>d DEF ChainOK
  <2>2. c # NoChain  BY <2>0, NoChainAssumption
  <2>3. g.links[c] = {q \in Pages : g.chain[q] = c}
    BY <1>3, <1>5, <1>7, <2>0, <2>1, <2>2
  <2>4. ReferencedLinks(g, c) = ReferencedLinks(h, c)
    BY <1>3, <1>5, <1>7, <2>0 DEF ReferencedLinks
  <2>5. g.anchor[c] # NoPage => g.anchor[c] \in g.links[c] \cap g.mlocked
    BY <1>3, <1>5, <1>7, <2>0, <2>1 DEF ChainOK
  <2>6. QED  BY <1>5, <1>7, <2>0, <2>3, <2>4, <2>5 DEF ChainOK
<1>8. \A q \in Pages : Linked(g, q) => g.chain[q] \in O /\ q \in A \ {p}
  BY <1>3 DEF Consistent, Linked
<1>9. ~Linked(g, p)  BY <1>3 DEF Linked
<1>10. QED  BY <1>3, <1>6, <1>7, <1>8, <1>9 DEF Consistent, g

LEMMA AttachPageConsistent ==
    ASSUME NEW h, NEW O \in SUBSET Chains, NEW A, Consistent(h, O, A),
           NEW p \in Pages, ~Linked(h, p), NEW d \in O, p \in A
    PROVE  /\ Consistent(AttachPage(h, d, p), O, A)
           /\ AttachPage(h, d, p).chain[p] = d
<1> DEFINE g == AttachPage(h, d, p)
<1>1. h \in Heaps /\ d \in Chains /\ d # NoChain
  BY NoChainAssumption DEF Consistent
<1>2. /\ g \in Heaps
      /\ g.referenced = h.referenced /\ g.mlocked = h.mlocked
      /\ g.anchor = h.anchor /\ g.delegate = h.delegate
      /\ \A q \in Pages : g.chain[q] = IF q = p THEN d ELSE h.chain[q]
  BY <1>1, AttachPageFields
<1>3. /\ g.links[d] = h.links[d] \cup {p}
      /\ g.nr_links[d] = h.nr_links[d] + 1
      /\ g.ref_counter[d] =
            h.ref_counter[d] + (IF p \in h.referenced THEN 1 ELSE 0)
  BY <1>1, AttachPageFields
<1>4. \A c \in Chains \ {d} :
         /\ g.links[c] = h.links[c]
         /\ g.nr_links[c] = h.nr_links[c]
         /\ g.ref_counter[c] = h.ref_counter[c]
  BY <1>1, AttachPageFields
<1> HIDE DEF g
<1>5. ChainOK(g, d)
  <2>0. /\ d \in Chains
        /\ h.links[d] \in SUBSET Pages
        /\ ReferencedLinks(h, d) \in SUBSET Pages
        /\ h.ref_counter[d] \in Int
        /\ Cardinality(ReferencedLinks(h, d)) \in Nat
        /\ Cardinality(h.links[d]) \in Nat
        /\ ChainOK(h, d)
    BY <1>1, ConsistentTypes
  <2>1. h.links[d] = {q \in Pages : h.chain[q] = d} /\ p \notin h.links[d]
    BY <1>1, <2>0 DEF ChainOK, Linked
  <2>2. g.links[d] = {q \in Pages : g.chain[q] = d}
    BY <1>2, <1>3, <2>1
  <2>3. g.nr_links[d] = Cardinality(g.links[d])
    <3>1. Cardinality(g.links[d]) = Cardinality(h.links[d]) + 1
      BY <1>3, <2>0, <2>1, PagesAdd
    <3>2. h.nr_links[d] = Cardinality(h.links[d])  BY <2>0 DEF ChainOK
    <3>3. QED  BY <1>3, <3>1, <3>2
  <2>4. g.ref_counter[d] >= Cardinality(ReferencedLinks(g, d))
    <3>1. h.ref_counter[d] >= Cardinality(ReferencedLinks(h, d))
      BY <2>0 DEF ChainOK
    <3>2. CASE p \in h.referenced
      <4>1. ReferencedLinks(g, d) = ReferencedLinks(h, d) \cup {p}
        BY <1>2, <1>3, <3>2 DEF ReferencedLinks
      <4>2. /\ Cardinality(ReferencedLinks(g, d)) <= Cardinality(ReferencedLinks(h, d)) + 1
            /\ Cardinality(ReferencedLinks(g, d)) \in Nat
        BY <2>0, <4>1, PagesAdd, PagesFinite
      <4>3. g.ref_counter[d] = h.ref_counter[d] + 1  BY <1>3, <3>2
      <4>4. QED  BY <2>0, <3>1, <4>2, <4>3
    <3>3. CASE p \notin h.referenced
      <4>1. ReferencedLinks(g, d) = ReferencedLinks(h, d)
        BY <1>2, <1>3, <3>3 DEF ReferencedLinks
      <4>2. g.ref_counter[d] = h.ref_counter[d]  BY <1>3, <2>0, <3>3
      <4>3. QED  BY <3>1, <4>1, <4>2
    <3>4. QED  BY <3>2, <3>3
  <2>5. /\ g.anchor[d] # NoPage => g.anchor[d] \in g.links[d] \cap g.mlocked
        /\ g.delegate[d] # NoPage => g.delegate[d] \in g.links[d]
    BY <1>2, <1>3, <2>0 DEF ChainOK
  <2>6. QED  BY <2>2, <2>3, <2>4, <2>5 DEF ChainOK
<1>6. ASSUME NEW c \in O, c # d  PROVE  ChainOK(g, c)
  <2>0. /\ c \in Chains
        /\ h.links[c] \in SUBSET Pages
        /\ ReferencedLinks(h, c) \in SUBSET Pages
        /\ h.ref_counter[c] \in Int
        /\ Cardinality(ReferencedLinks(h, c)) \in Nat
        /\ Cardinality(h.links[c]) \in Nat
        /\ ChainOK(h, c)
    BY ConsistentTypes
  <2>1. h.links[c] = {q \in Pages : h.chain[q] = c} /\ p \notin h.links[c]
    BY <2>0, NoChainAssumption DEF ChainOK, Linked
  <2>2. g.links[c] = {q \in Pages : g.chain[q] = c}
    BY <1>2, <1>4, <1>6, <2>0, <2>1
  <2>3. ReferencedLinks(g, c) = ReferencedLinks(h, c)
    BY <1>2, <1>4, <1>6, <2>0 DEF ReferencedLinks
  <2>4. QED  BY <1>2, <1>4, <1>6, <2>0, <2>2, <2>3 DEF ChainOK
<1>7. \A q \in Pages : Linked(g, q) => g.chain[q] \in O /\ q \in A
  BY <1>2 DEF Consistent, Linked
<1>8. QED  BY <1>2, <1>5, <1>6, <1>7 DEF Consistent, g

\* Shrinking A is the only thing that a smaller A asks for.
LEMMA ConsistentMonotone ==
    ASSUME NEW h, NEW O, NEW A, NEW B, Consistent(h, O, A), A \subseteq B
    PROVE  Consistent(h, O, B)
BY DEF Consistent

LEMMA LinkPageConsistent ==
    ASSUME NEW h, NEW O \in SUBSET Chains, NEW A, Consistent(h, O, A),
           NEW p \in Pages, NEW d \in O, p \in A
    PROVE  /\ Consistent(LinkPage(h, d, p), O, A)
           /\ LinkPage(h, d, p).chain[p] = d
<1>1. CASE h.chain[p] = d
  BY <1>1 DEF LinkPage
<1>2. CASE h.chain[p] # d /\ Linked(h, p)
  <2>1. Consistent(UnlinkPage(h, p), O, A \ {p}) /\ ~Linked(UnlinkPage(h, p), p)
    BY <1>2, UnlinkPageConsistent
  <2>2. Consistent(UnlinkPage(h, p), O, A)  BY <2>1, ConsistentMonotone
  <2>3. LinkPage(h, d, p) = AttachPage(UnlinkPage(h, p), d, p)
    BY <1>2 DEF LinkPage
  <2>4. QED  BY <2>1, <2>2, <2>3, AttachPageConsistent
<1>3. CASE h.chain[p] # d /\ ~Linked(h, p)
  <2>1. LinkPage(h, d, p) = AttachPage(h, d, p)  BY <1>3 DEF LinkPage
  <2>2. QED  BY <1>3, <2>1, AttachPageConsistent
<1>4. QED  BY <1>1, <1>2, <1>3

LEMMA AnchorPageConsistent ==
    ASSUME NEW h, NEW O \in SUBSET Chains, NEW A, Consistent(h, O, A),
           NEW p \in Pages, NEW d \in O, h.chain[p] = d
    PROVE  Consistent(AnchorPage(h, d, p), O, A)
<1> DEFINE g == AnchorPage(h, d, p)
<1>1. h \in Heaps /\ d \in Chains  BY DEF Consistent
<1>2. /\ g \in Heaps
      /\ g.links = h.links /\ g.nr_links = h.nr_links
      /\ g.ref_counter = h.ref_counter /\ g.delegate = h.delegate
      /\ g.chain = h.chain /\ g.referenced = h.referenced
      /\ g.mlocked = h.mlocked \cup {p}
      /\ g.anchor = [h.anchor EXCEPT ![d] = p]
  BY <1>1 DEF AnchorPage, Heaps
<1> HIDE DEF g
<1>3. ASSUME NEW c \in O  PROVE  ChainOK(g, c)
  <2>0. /\ c \in Chains
        /\ h.links[c] \in SUBSET Pages
        /\ ReferencedLinks(h, c) \in SUBSET Pages
        /\ h.ref_counter[c] \in Int
        /\ Cardinality(ReferencedLinks(h, c)) \in Nat
        /\ Cardinality(h.links[c]) \in Nat
        /\ ChainOK(h, c)
    BY ConsistentTypes
  <2>1. ReferencedLinks(g, c) = ReferencedLinks(h, c)
    BY <1>2 DEF ReferencedLinks
  <2>2. g.anchor[c] # NoPage => g.anchor[c] \in g.links[c] \cap g.mlocked
    <3>1. CASE c = d
      <4>1. g.anchor[c] = p  BY <1>1, <1>2, <3>1 DEF Heaps
      <4>2. p \in h.links[c]  BY <2>0, <3>1 DEF ChainOK
      <4>3. QED  BY <1>2, <4>1, <4>2
    <3>2. CASE c # d
      <4>1. g.anchor[c] = h.anchor[c]  BY <1>1, <1>2, <2>0, <3>2 DEF Heaps
      <4>2. QED  BY <1>2, <2>0, <4>1 DEF ChainOK
    <3>3. QED  BY <3>1, <3>2
  <2>3. QED  BY <1>2, <2>0, <2>1, <2>2 DEF ChainOK
<1>4. QED  BY <1>2, <1>3 DEF Consistent, Linked, g

\* Clearing referenced bits behind the counters' back, raising counters, and
\* unpinning a page that is on no chain leave a heap consistent.
LEMMA ConsistentRelaxed ==
    ASSUME NEW h, NEW O \in SUBSET Chains, NEW A, Consistent(h, O, A),
           NEW p \in Pages, ~Linked(h, p),
           NEW g \in Heaps,
           g.links = h.links, g.nr_links = h.nr_links, g.anchor = h.anchor,
           g.delegate = h.delegate, g.chain = h.chain,
           g.referenced \subseteq h.referenced,
           \A c \in Chains : g.ref_counter[c] >= h.ref_counter[c],
           h.mlocked \ {p} \subseteq g.mlocked
    PROVE  Consistent(g, O, A)
<1>1. h \in Heaps  BY DEF Consistent
<1>2. ASSUME NEW c \in O  PROVE  ChainOK(g, c)
  <2>0. /\ c \in Chains
        /\ h.links[c] \in SUBSET Pages
        /\ ReferencedLinks(h, c) \in SUBSET Pages
        /\ h.ref_counter[c] \in Int
        /\ Cardinality(ReferencedLinks(h, c)) \in Nat
        /\ Cardinality(h.links[c]) \in Nat
        /\ ChainOK(h, c)
    BY ConsistentTypes
  <2>1. p \notin h.links[c]
    BY <2>0, NoChainAssumption DEF ChainOK, Linked
  <2>2. g.ref_counter[c] >= Cardinality(ReferencedLinks(g, c))
    <3>1. ReferencedLinks(g, c) \in SUBSET ReferencedLinks(h, c)
      BY DEF ReferencedLinks
    <3>2. Cardinality(ReferencedLinks(g, c)) <= Cardinality(ReferencedLinks(h, c))
      BY <2>0, <3>1, PagesSubset
    <3>3. Cardinality(ReferencedLinks(g, c)) \in Nat
      BY <2>0, <3>1, PagesFinite
    <3>4. g.ref_counter[c] \in Int  BY <2>0 DEF Heaps
    <3>5. h.ref_counter[c] >= Cardinality(ReferencedLinks(h, c))
      BY <2>0 DEF ChainOK
    <3>6. g.ref_counter[c] >= h.ref_counter[c]  BY <2>0
    <3>7. QED  BY <2>0, <3>2, <3>3, <3>4, <3>5, <3>6
  <2>3. g.anchor[c] # NoPage => g.anchor[c] \in g.links[c] \cap g.mlocked
    BY <2>0, <2>1 DEF ChainOK
  <2>4. QED  BY <2>0, <2>2, <2>3 DEF ChainOK
<1>3. QED  BY <1>2 DEF Consistent, Linked

LEMMA FreePageConsistent ==
    ASSUME NEW h, NEW O \in SUBSET Chains, NEW A, Consistent(h, O, A),
           NEW p \in Pages
    PROVE  Consistent(FreePage(h, p), O, A \ {p})
<1> DEFINE f == [h EXCEPT !.referenced = @ \ {p}, !.mlocked = @ \ {p}]
           g == FreePage(h, p)
<1>1. h \in Heaps  BY DEF Consistent
<1>2. /\ f \in Heaps
      /\ f.links = h.links /\ f.nr_links = h.nr_links /\ f.anchor = h.anchor
      /\ f.delegate = h.delegate /\ f.chain = h.chain
      /\ f.ref_counter = h.ref_counter
      /\ f.referenced = h.referenced \ {p} /\ f.mlocked = h.mlocked \ {p}
  BY <1>1 DEF Heaps
<1>3. g = IF Linked(f, p) THEN UnlinkPage(f, p) ELSE f  BY DEF FreePage
<1>4. Linked(f, p) <=> Linked(h, p)  BY <1>2 DEF Linked
<1> HIDE DEF f, g
<1>5. CASE ~Linked(h, p)
  <2>1. g = f  BY <1>3, <1>4, <1>5
  <2>2. \A c \in Chains : f.ref_counter[c] >= h.ref_counter[c]
    BY <1>1, <1>2 DEF Heaps
  <2>3. Consistent(f, O, A)
    BY <1>2, <1>5, <2>2, ConsistentRelaxed
  <2>4. QED  BY <1>4, <1>5, <2>1, <2>3 DEF Consistent, g
<1>6. CASE Linked(h, p)
  <2> DEFINE u == UnlinkPage(h, p)
             d == h.chain[p]
  <2>1. Consistent(u, O, A \ {p}) /\ ~Linked(u, p)
    BY <1>6, UnlinkPageConsistent
  <2>2. d \in Chains  BY <1>1, <1>6, NoChainAssumption DEF Heaps, Linked
  <2>3. u \in Heaps /\ Unlinked(u, h, p)  BY <1>1, <1>6, UnlinkPageFields
  <2>4. g = UnlinkPage(f, p) /\ f.chain[p] = d  BY <1>2, <1>3, <1>4, <1>6
  <2>5. g \in Heaps /\ Unlinked(g, f, p)
    BY <1>2, <1>4, <1>6, <2>4, UnlinkPageFields
  <2>6. d = h.chain[p]  OBVIOUS
  <2> HIDE DEF u, d
  <2>7. /\ g.links = u.links /\ g.nr_links = u.nr_links /\ g.anchor = u.anchor
        /\ g.delegate = u.delegate /\ g.chain = u.chain
        /\ g.referenced \subseteq u.referenced
        /\ u.mlocked \ {p} \subseteq g.mlocked
    BY <1>2, <2>3, <2>4, <2>5, <2>6 DEF Unlinked
  <2>8. \A c \in Chains : g.ref_counter[c] >= u.ref_counter[c]
    BY <1>1, <1>2, <2>2, <2>3, <2>4, <2>5, <2>6 DEF Heaps, Unlinked
  <2>9. QED  BY <2>1, <2>5, <2>7, <2>8, ConsistentRelaxed DEF g
<1>7. QED  BY <1>5, <1>6

\* After a break no page points to the chain, so that it may also be freed.
LEMMA UnlinkChainConsistent ==
    ASSUME NEW h, NEW O \in SUBSET Chains, NEW A, Consistent(h, O, A),
           NEW d \in O
    PROVE  /\ Consistent(UnlinkChain(h, d), O, A)
           /\ Consistent(UnlinkChain(h, d), O \ {d}, A)
<1> DEFINE g == UnlinkChain(h, d)
<1>1. h \in Heaps /\ d \in Chains /\ d # NoChain
  BY NoChainAssumption DEF Consistent
<1>2. /\ g \in Heaps
      /\ g.referenced = h.referenced \ h.links[d]
      /\ g.mlocked = h.mlocked \ {h.anchor[d]}
      /\ \A q \in Pages : g.chain[q] =
            IF q \in h.links[d] THEN NoChain ELSE h.chain[q]
  BY <1>1, UnlinkChainFields
<1>3. /\ g.links[d] = {} /\ g.nr_links[d] = 0 /\ g.ref_counter[d] = 0
      /\ g.anchor[d] = NoPage /\ g.delegate[d] = NoPage
  BY <1>1, UnlinkChainFields
<1>4. \A c \in Chains \ {d} :
         /\ g.links[c] = h.links[c]
         /\ g.nr_links[c] = h.nr_links[c]
         /\ g.ref_counter[c] = h.ref_counter[c]
         /\ g.anchor[c] = h.anchor[c]
         /\ g.delegate[c] = h.delegate[c]
  BY <1>1, UnlinkChainFields
<1> HIDE DEF g
<1>5. h.links[d] = {q \in Pages : h.chain[q] = d}
  BY DEF Consistent, ChainOK
<1>6. \A q \in Pages : g.chain[q] # d
  BY <1>1, <1>2, <1>5
<1>7. ChainOK(g, d)
  <2>1. g.links[d] = {q \in Pages : g.chain[q] = d}  BY <1>3, <1>6
  <2>2. ReferencedLinks(g, d) = {}  BY <1>3 DEF ReferencedLinks
  <2>3. Cardinality({}) = 0  BY FS_EmptySet
  <2>4. QED  BY <1>3, <2>1, <2>2, <2>3 DEF ChainOK
<1>8. ASSUME NEW c \in O, c # d  PROVE  ChainOK(g, c)
  <2>0. /\ c \in Chains
        /\ h.links[c] \in SUBSET Pages
        /\ ReferencedLinks(h, c) \in SUBSET Pages
        /\ h.ref_counter[c] \in Int
        /\ Cardinality(ReferencedLinks(h, c)) \in Nat
        /\ Cardinality(h.links[c]) \in Nat
        /\ ChainOK(h, c)
    BY ConsistentTypes
  <2>1. h.links[c] = {q \in Pages : h.chain[q] = c} /\ c # NoChain
    BY <2>0, NoChainAssumption DEF ChainOK
  <2>2. h.links[c] \cap h.links[d] = {}  BY <1>5, <1>8, <2>1
  <2>3. g.links[c] = {q \in Pages : g.chain[q] = c}
    BY <1>2, <1>4, <1>5, <1>8, <2>0, <2>1
  <2>4. ReferencedLinks(g, c) = ReferencedLinks(h, c)
    BY <1>2, <1>4, <1>8, <2>0, <2>2 DEF ReferencedLinks
  <2>5. g.anchor[c] # NoPage => g.anchor[c] \in g.links[c] \cap g.mlocked
    <3>1. h.anchor[d] # NoPage => h.anchor[d] \in h.links[d]
      BY DEF Consistent, ChainOK
    <3>2. h.anchor[c] # NoPage => h.anchor[c] \in h.links[c] \cap h.mlocked
      BY <2>0 DEF ChainOK
    <3>3. g.anchor[c] = h.anchor[c] /\ g.links[c] = h.links[c]
      BY <1>4, <1>8, <2>0
    <3>4. QED  BY <1>2, <2>2, <3>1, <3>2, <3>3
  <2>6. QED  BY <1>4, <1>8, <2>0, <2>3, <2>4, <2>5 DEF ChainOK
<1>9. \A q \in Pages : Linked(g, q) => g.chain[q] \in O \ {d} /\ q \in A
  BY <1>2, <1>6 DEF Consistent, Linked
<1>10. QED  BY <1>2, <1>7, <1>8, <1>9 DEF Consistent, g

LEMMA UnlinkChainsFastConsistent ==
    ASSUME NEW h, NEW O \in SUBSET Chains, NEW A, Consistent(h, O, A),
           NEW D \in SUBSET O
    PROVE  Consistent(UnlinkChainsFast(h, D), O \ D, A)
<1> DEFINE g == UnlinkChainsFast(h, D)
<1>1. h \in Heaps /\ D \in SUBSET Chains  BY DEF Consistent
<1>2. /\ g \in Heaps
      /\ g.referenced = h.referenced /\ g.mlocked = h.mlocked
      /\ g.anchor = h.anchor /\ g.delegate = h.delegate
      /\ g.nr_links = h.nr_links /\ g.ref_counter = h.ref_counter
      /\ \A q \in Pages : g.chain[q] =
            IF \E c \in D : q \in h.links[c] THEN NoChain ELSE h.chain[q]
      /\ \A c \in Chains : g.links[c] = IF c \in D THEN {} ELSE h.links[c]
  BY <1>1, UnlinkChainsFastFields
<1> HIDE DEF g
<1>3. \A c \in O : h.links[c] = {q \in Pages : h.chain[q] = c} /\ c # NoChain
  BY NoChainAssumption DEF Consistent, ChainOK
<1>4. ASSUME NEW c \in O \ D  PROVE  ChainOK(g, c)
  <2>0. /\ c \in Chains
        /\ h.links[c] \in SUBSET Pages
        /\ ReferencedLinks(h, c) \in SUBSET Pages
        /\ h.ref_counter[c] \in Int
        /\ Cardinality(ReferencedLinks(h, c)) \in Nat
        /\ Cardinality(h.links[c]) \in Nat
        /\ ChainOK(h, c)
    BY ConsistentTypes
  <2>1. g.links[c] = h.links[c]  BY <1>2, <2>0
  <2>2. g.links[c] = {q \in Pages : g.chain[q] = c}
    BY <1>2, <1>3, <2>1
  <2>3. ReferencedLinks(g, c) = ReferencedLinks(h, c)
    BY <1>2, <2>1 DEF ReferencedLinks
  <2>4. QED  BY <1>2, <2>0, <2>1, <2>2, <2>3 DEF ChainOK
<1>5. \A q \in Pages : Linked(g, q) => g.chain[q] \in O \ D /\ q \in A
  BY <1>2, <1>3 DEF Consistent, Linked
<1>6. QED  BY <1>2, <1>4, <1>5 DEF Consistent, g

\* A fresh chain object may take the place of one that nothing points to.
LEMMA FreshChainConsistent ==
    ASSUME NEW h, NEW O \in SUBSET Chains, NEW A, Consistent(h, O, A),
           NEW d \in Chains \ O
    PROVE  Consistent(FreshChain(h, d), O \cup {d}, A)
<1> DEFINE g == FreshChain(h, d)
<1>1. h \in Heaps  BY DEF Consistent
<1>2. /\ g.links       = [h.links EXCEPT ![d] = {}]
      /\ g.nr_links    = [h.nr_links EXCEPT ![d] = 0]
      /\ g.ref_counter = [h.ref_counter EXCEPT ![d] = 0]
      /\ g.anchor      = [h.anchor EXCEPT ![d] = NoPage]
      /\ g.delegate    = [h.delegate EXCEPT ![d] = NoPage]
      /\ g.chain = h.chain /\ g.referenced = h.referenced
      /\ g.mlocked = h.mlocked
  BY <1>1 DEF FreshChain, Heaps
<1>3. g \in Heaps
  <2>1. g \in [links : {g.links}, nr_links : {g.nr_links},
               ref_counter : {g.ref_counter}, anchor : {g.anchor},
               delegate : {g.delegate}, chain : {g.chain},
               referenced : {g.referenced}, mlocked : {g.mlocked}]
    BY <1>1 DEF FreshChain, Heaps
  <2> HIDE DEF g
  <2>2. QED  BY <1>1, <1>2, <2>1 DEF Heaps
<1> HIDE DEF g
<1>4. ChainOK(g, d)
  <2>1. \A q \in Pages : h.chain[q] # d  BY NoChainAssumption DEF Consistent, Linked
  <2>2. g.links[d] = {q \in Pages : g.chain[q] = d}
    BY <1>1, <1>2, <2>1 DEF Heaps
  <2>3. ReferencedLinks(g, d) = {} /\ g.links[d] = {}
    BY <1>1, <1>2 DEF ReferencedLinks, Heaps
  <2>4. Cardinality({}) = 0  BY FS_EmptySet
  <2>5. /\ g.nr_links[d] = 0 /\ g.ref_counter[d] = 0
        /\ g.anchor[d] = NoPage /\ g.delegate[d] = NoPage
    BY <1>1, <1>2 DEF Heaps
  <2>6. QED  BY <2>2, <2>3, <2>4, <2>5 DEF ChainOK
<1>5. ASSUME NEW c \in O  PROVE  ChainOK(g, c)
  <2>0. /\ c \in Chains
        /\ h.links[c] \in SUBSET Pages
        /\ ReferencedLinks(h, c) \in SUBSET Pages
        /\ h.ref_counter[c] \in Int
        /\ Cardinality(ReferencedLinks(h, c)) \in Nat
        /\ Cardinality(h.links[c]) \in Nat
        /\ ChainOK(h, c)
    BY ConsistentTypes
  <2>1. /\ g.links[c] = h.links[c] /\ g.nr_links[c] = h.nr_links[c]
        /\ g.ref_counter[c] = h.ref_counter[c] /\ g.anchor[c] = h.anchor[c]
        /\ g.delegate[c] = h.delegate[c]
    BY <1>1, <1>2, <2>0 DEF Heaps
  <2>2. ReferencedLinks(g, c) = ReferencedLinks(h, c)
    BY <1>2, <2>1 DEF ReferencedLinks
  <2>3. QED  BY <1>2, <2>0, <2>1, <2>2, ZenonT(60) DEF ChainOK
<1>6. QED  BY <1>2, <1>3, <1>4, <1>5 DEF Consistent, Linked, g

-----------------------------------------------------------------------------
(***************************************************************************)
(* The inductive invariant.                                                *)
(***************************************************************************)

\* A call works on an open chain of its own task.  That the chain is the
\* task's own is what keeps it open: nobody else releases it.
CallsOwn ==
    \A t \in Tasks :
        call[t] # Idle => call[t].chain \in open /\ call[t].chain[1] = t

IInv == TypeOK /\ Consistent(heap, open, alloc) /\ CallsOwn

LEMMA InitIInv == Init => IInv
<1> SUFFICES ASSUME Init PROVE IInv  OBVIOUS
<1>1. heap \in Heaps  BY DEF Init, Heaps
<1>2. TypeOK
  <2>1. Idle \in Calls  BY DEF Calls
  <2>2. call \in [Tasks -> Calls]  BY <2>1 DEF Init
  <2>3. count \in [Tasks -> Int]  BY DEF Init
  <2>4. /\ open \in SUBSET Chains /\ alloc \in SUBSET Pages
        /\ oops \in BOOLEAN
    BY DEF Init
  <2>5. QED  BY <1>1, <2>2, <2>3, <2>4 DEF TypeOK
<1>3. \A p \in Pages : heap.chain[p] = NoChain  BY DEF Init
<1>4. Consistent(heap, open, alloc)
  BY <1>1, <1>3 DEF Init, Consistent, Linked
<1>5. CallsOwn  BY DEF Init, CallsOwn
<1>6. QED  BY <1>2, <1>4, <1>5 DEF IInv

\* Steps that change neither the collections nor the calls.
LEMMA HeapStep ==
    ASSUME IInv, Consistent(heap', open, alloc'), alloc' \in SUBSET Pages,
           UNCHANGED <<open, count, call, oops>>
    PROVE  IInv'
<1>1. heap' \in Heaps  BY DEF Consistent
<1>2. TypeOK'  BY <1>1 DEF IInv, TypeOK
<1>3. CallsOwn'  BY DEF IInv, CallsOwn
<1>4. QED  BY <1>2, <1>3 DEF IInv

\* Steps of a call: the heap and the calls change, the collections do not.
LEMMA CallStep ==
    ASSUME IInv, Consistent(heap', open, alloc), NEW t \in Tasks,
           NEW k \in Calls, call' = [call EXCEPT ![t] = k],
           k # Idle => k.chain \in open /\ k.chain[1] = t,
           oops' \in BOOLEAN, UNCHANGED <<open, count, alloc>>
    PROVE  IInv'
<1>1. heap' \in Heaps  BY DEF Consistent
<1>2. TypeOK'  BY <1>1 DEF IInv, TypeOK
<1>3. CallsOwn'  BY DEF IInv, TypeOK, CallsOwn
<1>4. Consistent(heap', open', alloc')  OBVIOUS
<1>5. QED  BY <1>2, <1>3, <1>4 DEF IInv

\* A call that has pages left to do is a call on an open chain.
LEMMA BusyCall ==
    ASSUME IInv, NEW t \in Tasks, call[t].todo > 0
    PROVE  /\ call[t].chain \in open /\ call[t].chain[1] = t
           /\ [call[t] EXCEPT !.todo = @ - 1] \in Calls
           /\ [call[t] EXCEPT !.todo = @ - 1].chain = call[t].chain
           /\ call[t] # Idle
<1>1. call[t] # Idle  BY DEF Idle
<1>2. call[t] \in [chain : Chains, todo : 0 .. MaxRange, anchored : BOOLEAN]
  BY <1>1 DEF IInv, TypeOK, Calls
<1>3. call[t].todo - 1 \in 0 .. MaxRange  BY <1>2, RangeAssumption
<1>4. QED  BY <1>1, <1>2, <1>3 DEF IInv, CallsOwn, Calls

LEMMA NewMemChainIInv ==
    ASSUME IInv, NEW t \in Tasks, NewMemChain(t)
    PROVE  IInv'
<1>1. PICK s \in FreeSlots(t) :
         open' = open \cup {<<t, s>>} /\ heap' = FreshChain(heap, <<t, s>>)
  BY DEF NewMemChain
<1>2. <<t, s>> \in Chains \ open  BY <1>1 DEF FreeSlots, Chains
<1>3. Consistent(heap', open', alloc)
  BY <1>1, <1>2, FreshChainConsistent DEF IInv, TypeOK
<1>4. heap' \in Heaps  BY <1>3 DEF Consistent
<1>5. TypeOK'  BY <1>1, <1>2, <1>4 DEF IInv, TypeOK, NewMemChain
<1>6. CallsOwn'  BY <1>1 DEF IInv, CallsOwn, NewMemChain
<1>7. QED  BY <1>3, <1>5, <1>6 DEF IInv, NewMemChain

LEMMA BeginLinkIInv ==
    ASSUME IInv, NEW t \in Tasks, NEW c \in Chains, NEW n \in 1 .. MaxRange,
           NEW a \in BOOLEAN, BeginLink(t, c, n, a)
    PROVE  IInv'
<1> DEFINE k == [chain |-> c, todo |-> n, anchored |-> a]
<1>1. k \in Calls  BY RangeAssumption DEF Calls
<1>2. k.chain \in open /\ k.chain[1] = t  BY DEF BeginLink
<1>3. call' = [call EXCEPT ![t] = k]  BY DEF BeginLink
<1>4. Consistent(heap', open, alloc)  BY DEF IInv, BeginLink
<1>5. oops' \in BOOLEAN /\ UNCHANGED <<open, count, alloc>>
  BY DEF IInv, TypeOK, BeginLink
<1> HIDE DEF k
<1>6. QED  BY <1>1, <1>2, <1>3, <1>4, <1>5, CallStep

LEMMA MlinkPageIInv ==
    ASSUME IInv, NEW t \in Tasks, NEW p \in Pages, NEW b \in BOOLEAN,
           MlinkPage(t, p, b)
    PROVE  IInv'
<1> DEFINE c == call[t].chain
           g == LinkPage(heap, c, p)
           a == IF call[t].anchored THEN AnchorPage(g, c, p) ELSE g
           k == [call[t] EXCEPT !.todo = @ - 1]
<1>1. call[t].todo > 0 /\ p \in alloc /\ UNCHANGED <<open, count, alloc>>
  BY DEF MlinkPage
<1>2. c \in open /\ c[1] = t /\ k \in Calls /\ k.chain = c  BY <1>1, BusyCall
<1>3. /\ Consistent(heap, open, alloc) /\ open \in SUBSET Chains
      /\ oops \in BOOLEAN /\ call \in [Tasks -> Calls]
  BY DEF IInv, TypeOK
<1>4. CASE SMP /\ heap.chain[p] \notin {NoChain, c}
  <2>1. oops' = TRUE /\ heap' = UnlinkPage(heap, p) /\ UNCHANGED call
    BY <1>4 DEF MlinkPage
  <2>2. Consistent(UnlinkPage(heap, p), open, alloc \ {p})
    BY <1>3, <1>4, UnlinkPageConsistent DEF Linked
  <2>3. Consistent(heap', open, alloc)  BY <2>1, <2>2, ConsistentMonotone
  <2>4. heap' \in Heaps  BY <2>3 DEF Consistent
  <2>5. TypeOK'  BY <1>1, <2>1, <2>4 DEF IInv, TypeOK
  <2>6. CallsOwn'  BY <1>1, <2>1 DEF IInv, CallsOwn
  <2>7. QED  BY <1>1, <2>3, <2>5, <2>6 DEF IInv
<1>5. CASE ~(SMP /\ heap.chain[p] \notin {NoChain, c})
  <2>1. /\ heap' = MarkPageAccessed(a, p, b)
        /\ call' = [call EXCEPT ![t] = k]
        /\ UNCHANGED oops
    BY <1>5 DEF MlinkPage
  <2> HIDE DEF c
  <2>2. Consistent(g, open, alloc) /\ g.chain[p] = c
    BY <1>1, <1>2, <1>3, LinkPageConsistent
  <2>3. Consistent(AnchorPage(g, c, p), open, alloc)
    BY <1>2, <1>3, <2>2, AnchorPageConsistent
  <2>4. Consistent(a, open, alloc)  BY <2>2, <2>3
  <2> HIDE DEF a, g, k
  <2>5. Consistent(heap', open, alloc)
    BY <1>3, <2>1, <2>4, MarkPageAccessedConsistent
  <2>6. QED  BY <1>1, <1>2, <1>3, <2>1, <2>5, CallStep
<1>6. QED  BY <1>4, <1>5

LEMMA MlinkNoPageIInv ==
    ASSUME IInv, NEW t \in Tasks, MlinkNoPage(t)
    PROVE  IInv'
<1> DEFINE k == [call[t] EXCEPT !.todo = @ - 1]
<1>1. call' = [call EXCEPT ![t] = k] /\ UNCHANGED <<open, count, heap, alloc, oops>>
  BY DEF MlinkNoPage
<1>2. k \in Calls /\ k.chain \in open /\ k.chain[1] = t
  BY BusyCall DEF MlinkNoPage
<1>3. Consistent(heap', open, alloc) /\ oops' \in BOOLEAN
  BY <1>1 DEF IInv, TypeOK
<1> HIDE DEF k
<1>4. QED  BY <1>1, <1>2, <1>3, CallStep

LEMMA EndLinkIInv ==
    ASSUME IInv, NEW t \in Tasks, EndLink(t)
    PROVE  IInv'
<1>1. Idle \in Calls  BY DEF Calls
<1>2. /\ Consistent(heap', open, alloc) /\ oops' \in BOOLEAN
      /\ call' = [call EXCEPT ![t] = Idle] /\ UNCHANGED <<open, count, alloc>>
  BY DEF IInv, TypeOK, EndLink
<1>3. QED  BY <1>1, <1>2, CallStep

LEMMA BrkMemChainIInv ==
    ASSUME IInv, NEW t \in Tasks, NEW c \in Chains, BrkMemChain(t, c)
    PROVE  IInv'
<1>1. Consistent(heap', open, alloc)
  BY UnlinkChainConsistent DEF IInv, TypeOK, BrkMemChain
<1>2. QED  BY <1>1, HeapStep DEF IInv, TypeOK, BrkMemChain

\* The two ways to close chains: none of them is the chain of a call.
LEMMA CloseStep ==
    ASSUME IInv, NEW t \in Tasks, NEW D \in SUBSET open, \A c \in D : c[1] = t,
           call[t] = Idle, open' = open \ D, Consistent(heap', open \ D, alloc),
           count' \in [Tasks -> Int], UNCHANGED <<alloc, call, oops>>
    PROVE  IInv'
<1>1. heap' \in Heaps  BY DEF Consistent
<1>2. TypeOK'  BY <1>1 DEF IInv, TypeOK
<1>3. CallsOwn'
  <2> SUFFICES ASSUME NEW u \in Tasks, call[u] # Idle
               PROVE  call[u].chain \in open \ D /\ call[u].chain[1] = u
    BY DEF CallsOwn
  <2>1. call[u].chain \in open /\ call[u].chain[1] = u  BY DEF IInv, CallsOwn
  <2>2. u # t  OBVIOUS
  <2>3. QED  BY <2>1, <2>2
<1>4. QED  BY <1>2, <1>3 DEF IInv

LEMMA RlsMemChainIInv ==
    ASSUME IInv, NEW t \in Tasks, NEW c \in Chains, RlsMemChain(t, c)
    PROVE  IInv'
<1>1. c \in open /\ c[1] = t /\ call[t] = Idle /\ heap' = UnlinkChain(heap, c)
  BY DEF RlsMemChain
<1>2. Consistent(heap', open \ {c}, alloc)
  BY <1>1, UnlinkChainConsistent DEF IInv, TypeOK
<1>3. count' \in [Tasks -> Int]  BY DEF IInv, TypeOK, RlsMemChain
<1>4. open' = open \ {c} /\ UNCHANGED <<alloc, call, oops>>  BY DEF RlsMemChain
<1>5. {c} \in SUBSET open /\ \A d \in {c} : d[1] = t  BY <1>1
<1>6. QED  BY <1>1, <1>2, <1>3, <1>4, <1>5, CloseStep

LEMMA ExitIInv ==
    ASSUME IInv, NEW t \in Tasks, Exit(t)
    PROVE  IInv'
<1> DEFINE mine == {c \in open : c[1] = t}
<1>1. /\ call[t] = Idle /\ heap' = UnlinkChainsFast(heap, mine)
      /\ open' = open \ mine /\ UNCHANGED <<alloc, call, oops>>
  BY DEF Exit
<1>2. mine \in SUBSET open /\ \A c \in mine : c[1] = t  OBVIOUS
<1>3. Consistent(heap', open \ mine, alloc)
  BY <1>1, <1>2, UnlinkChainsFastConsistent DEF IInv, TypeOK
<1>4. count' \in [Tasks -> Int]  BY DEF IInv, TypeOK, Exit
<1> HIDE DEF mine
<1>5. QED  BY <1>1, <1>2, <1>3, <1>4, CloseStep

\* Steps of the allocator, of accesses, of the scan and of hate.
LEMMA PageIInv ==
    ASSUME IInv, NEW p \in Pages, NEW b \in BOOLEAN,
           \/ PrepNewPage(p)
           \/ FreePagesPrepare(p)
           \/ Access(p, b)
           \/ CheckReferences(p, b)
           \/ Hate(p)
    PROVE  IInv'
<1>1. /\ Consistent(heap, open, alloc) /\ open \in SUBSET Chains
      /\ alloc \in SUBSET Pages /\ heap \in Heaps
  BY DEF IInv, TypeOK
<1>2. CASE PrepNewPage(p)
  <2>1. /\ alloc' = alloc \cup {p} /\ UNCHANGED <<open, count, call, oops>>
        /\ heap' = [heap EXCEPT !.chain[p] = NoChain]
    BY <1>2 DEF PrepNewPage
  <2>2. heap.chain[p] = NoChain  BY <1>1, <1>2 DEF PrepNewPage, Consistent, Linked
  <2>3. heap' = heap  BY <1>1, <2>1, <2>2 DEF Heaps
  <2>4. Consistent(heap', open, alloc')  BY <1>1, <2>1, <2>3, ConsistentMonotone
  <2>5. QED  BY <1>1, <2>1, <2>4, HeapStep
<1>3. CASE FreePagesPrepare(p)
  <2>1. Consistent(heap', open, alloc')
    BY <1>1, <1>3, FreePageConsistent DEF FreePagesPrepare
  <2>2. QED  BY <1>1, <1>3, <2>1, HeapStep DEF FreePagesPrepare
<1>4. CASE Access(p, b)
  <2>1. Consistent(heap', open, alloc')
    BY <1>1, <1>4, MarkPageAccessedConsistent DEF Access
  <2>2. QED  BY <1>1, <1>4, <2>1, HeapStep DEF Access
<1>5. CASE CheckReferences(p, b)
  <2>1. Consistent(ClearPageReferenced(heap, p), open, alloc)
    BY <1>1, ClearPageReferencedConsistent
  <2>2. Consistent(SetPageReferenced(ClearPageReferenced(heap, p), p), open, alloc)
    BY <1>1, <2>1, SetPageReferencedConsistent
  <2>3. \/ heap' = ClearPageReferenced(heap, p)
        \/ heap' = SetPageReferenced(ClearPageReferenced(heap, p), p)
    BY <1>5 DEF CheckReferences
  <2>4. QED
    BY <1>1, <1>5, <2>1, <2>2, <2>3, HeapStep DEF CheckReferences
<1>6. CASE Hate(p)
  <2>1. ~Linked(heap, p) /\ heap' = [heap EXCEPT !.referenced = @ \ {p}]
    BY <1>6 DEF Hate
  <2>2. /\ heap' \in Heaps
        /\ heap'.links = heap.links /\ heap'.nr_links = heap.nr_links
        /\ heap'.anchor = heap.anchor /\ heap'.delegate = heap.delegate
        /\ heap'.chain = heap.chain /\ heap'.ref_counter = heap.ref_counter
        /\ heap'.referenced \subseteq heap.referenced
        /\ heap.mlocked \ {p} \subseteq heap'.mlocked
    BY <1>1, <2>1 DEF Heaps
  <2>3. \A c \in Chains : heap'.ref_counter[c] >= heap.ref_counter[c]
    BY <1>1, <2>2 DEF Heaps
  <2>4. Consistent(heap', open, alloc)
    BY <1>1, <2>1, <2>2, <2>3, ConsistentRelaxed
  <2>5. QED  BY <1>1, <1>6, <2>4, HeapStep DEF Hate
<1>7. QED  BY <1>2, <1>3, <1>4, <1>5, <1>6

LEMMA NextIInv == IInv /\ [Next]_vars => IInv'
<1> SUFFICES ASSUME IInv, [Next]_vars PROVE IInv'  OBVIOUS
<1>1. CASE UNCHANGED vars
  BY <1>1 DEF vars, IInv, TypeOK, CallsOwn
<1>2. ASSUME NEW t \in Tasks, NewMemChain(t) PROVE IInv'
  BY <1>2, NewMemChainIInv
<1>3. ASSUME NEW t \in Tasks, NEW c \in Chains,
             \/ \E n \in 1 .. MaxRange, a \in BOOLEAN : BeginLink(t, c, n, a)
             \/ BrkMemChain(t, c)
             \/ RlsMemChain(t, c)
      PROVE  IInv'
  BY <1>3, BeginLinkIInv, BrkMemChainIInv, RlsMemChainIInv
<1>4. ASSUME NEW t \in Tasks, NEW p \in Pages, NEW b \in BOOLEAN, MlinkPage(t, p, b)
      PROVE  IInv'
  BY <1>4, MlinkPageIInv
<1>5. ASSUME NEW t \in Tasks, MlinkNoPage(t) \/ EndLink(t) \/ Exit(t)
      PROVE  IInv'
  BY <1>5, MlinkNoPageIInv, EndLinkIInv, ExitIInv
<1>6. ASSUME NEW p \in Pages, NEW b \in BOOLEAN,
             \/ PrepNewPage(p) \/ FreePagesPrepare(p) \/ Access(p, b)
             \/ CheckReferences(p, b) \/ Hate(p)
      PROVE  IInv'
  BY <1>6, PageIInv
<1>7. TRUE \in BOOLEAN  OBVIOUS
<1>8. QED  BY <1>1, <1>2, <1>3, <1>4, <1>5, <1>6, <1>7 DEF Next

\* The inductive invariant holds in every reachable state.
THEOREM Invariance == Spec => []IInv
BY InitIInv, NextIInv, PTL DEF Spec

-----------------------------------------------------------------------------
(***************************************************************************)
(* The properties that the runs check on small instances.                  *)
(***************************************************************************)

\* Types are respected.
THEOREM TypeCorrect == Spec => []TypeOK
<1>1. IInv => TypeOK  BY DEF IInv
<1>2. QED  BY <1>1, Invariance, PTL

\* No page->chain pointer dangles, and pointers and lists agree.
THEOREM MembershipTheorem == Spec => []MembershipAgrees
<1>1. IInv => MembershipAgrees
  BY DEF IInv, Consistent, ChainOK, MembershipAgrees
<1>2. QED  BY <1>1, Invariance, PTL

\* nr_links is the length of the list of every open chain.
THEOREM NrLinksTheorem == Spec => []NrLinksExact
<1>1. IInv => NrLinksExact  BY DEF IInv, Consistent, ChainOK, NrLinksExact
<1>2. QED  BY <1>1, Invariance, PTL

\* Anchor and delegate never point outside their chain.
THEOREM AnchorTheorem == Spec => []AnchorAndDelegateLinked
<1>1. IInv => AnchorAndDelegateLinked
  BY DEF IInv, Consistent, ChainOK, AnchorAndDelegateLinked
<1>2. QED  BY <1>1, Invariance, PTL

\* A chain with a referenced page always counts as referenced.
THEOREM RefCounterTheorem == Spec => []RefCounterCovers
<1>1. IInv => RefCounterCovers
  BY DEF IInv, Consistent, ChainOK, RefCounterCovers
<1>2. QED  BY <1>1, Invariance, PTL

\* A free page is on no chain.
THEOREM LinkedAllocatedTheorem == Spec => []LinkedAllocated
<1>1. IInv => LinkedAllocated  BY DEF IInv, Consistent, LinkedAllocated
<1>2. QED  BY <1>1, Invariance, PTL

\* A range walk never outlives the chain it links to.
THEOREM CallTheorem == Spec => []CallOnOpenChain
<1>1. IInv => CallOnOpenChain  BY DEF IInv, CallsOwn, CallOnOpenChain
<1>2. QED  BY <1>1, Invariance, PTL

\* An access to a page of a chain of two or more protects the whole chain.
THEOREM AccessTheorem == Spec => AccessProtectsChain
<1>1. ASSUME IInv, NEW p \in Pages, NEW b \in BOOLEAN, Access(p, b),
             Linked(heap, p), heap.nr_links[heap.chain[p]] >= 2,
             NEW q \in heap.links[heap.chain[p]]
      PROVE  PageReferenced(heap', q)
  <2> DEFINE c == heap.chain[p]
             t == TouchChain(heap, p)
             s == SetPageReferenced(t, p)
             u == IF p \in t.referenced THEN t ELSE s
  <2>1. /\ heap \in Heaps /\ c \in Chains /\ c # NoChain /\ c \in open
        /\ heap.links[c] = {r \in Pages : heap.chain[r] = c}
    BY <1>1 DEF IInv, TypeOK, Consistent, ChainOK, Linked
  <2>2. q \in Pages /\ heap.chain[q] = c  BY <2>1
  <2>3. /\ t \in Heaps /\ t.chain = heap.chain
        /\ t.ref_counter[c] = heap.nr_links[c] /\ heap.nr_links[c] \in Int
    BY <2>1, TouchChainFields DEF Heaps
  <2>4. /\ s \in Heaps /\ s.chain = heap.chain
        /\ s.ref_counter[c] = heap.nr_links[c] + 1
    BY <2>1, <2>3, SetPageReferencedFields
  <2>5. /\ u \in Heaps /\ u.chain = heap.chain
        /\ u.ref_counter[c] \in Int /\ u.ref_counter[c] >= heap.nr_links[c]
    BY <2>3, <2>4
  <2>6. \/ heap' = u
        \/ heap' = ClearPageReferenced(u, p)
    BY <1>1, <2>1, <2>3
    DEF Access, MarkPageAccessed, SetIfClear, Linked
  <2> HIDE DEF u
  <2>7. /\ ClearPageReferenced(u, p).chain = heap.chain
        /\ ClearPageReferenced(u, p).ref_counter[c] \in Int
        /\ ClearPageReferenced(u, p).ref_counter[c] >= u.ref_counter[c] - 1
    BY <2>1, <2>5, ClearPageReferencedFields
  <2>8. heap'.chain[q] = c /\ heap'.ref_counter[c] # 0
    BY <1>1, <2>2, <2>3, <2>5, <2>6, <2>7
  <2>9. QED  BY <2>1, <2>8 DEF PageReferenced, Linked
<1>2. IInv /\ [Next]_vars => [AccessStep]_vars
  BY <1>1 DEF AccessStep
<1>3. QED  BY <1>2, Invariance, PTL DEF Spec, AccessProtectsChain

-----------------------------------------------------------------------------
(* The count of the collection. *)

Occupied(t, O) == {s \in Slots : <<t, s>> \in O}

\* Opening a slot that was free adds one, closing one that was occupied
\* takes one away.
LEMMA OccupiedFinite ==
    ASSUME NEW t, NEW O
    PROVE  IsFiniteSet(Occupied(t, O)) /\ Cardinality(Occupied(t, O)) \in Nat
<1>1. IsFiniteSet(Slots)  BY CapacityAssumption, FS_Interval DEF Slots
<1>2. Occupied(t, O) \in SUBSET Slots  BY DEF Occupied
<1>3. QED  BY <1>1, <1>2, FS_Subset, FS_CardinalityType

\* count follows the occupied slots of the task's chain array.
THEOREM CountTheorem == Spec => []CountExact
<1>1. Init => CountExact
  <2> SUFFICES ASSUME Init, NEW t \in Tasks
               PROVE  count[t] = Cardinality(Occupied(t, open))
    BY DEF CountExact, Occupied
  <2>1. Occupied(t, open) = {}  BY DEF Init, Occupied
  <2>2. QED  BY <2>1, FS_EmptySet DEF Init
<1>2. TypeOK /\ CountExact /\ [Next]_vars => CountExact'
  <2> SUFFICES ASSUME TypeOK, CountExact, [Next]_vars, NEW u \in Tasks
               PROVE  count'[u] = Cardinality(Occupied(u, open'))
    BY DEF CountExact, Occupied
  <2>1. count[u] = Cardinality(Occupied(u, open))
    BY DEF CountExact, Occupied
  <2>2. CASE UNCHANGED <<count, open>>
    BY <2>1, <2>2
  <2>3. ASSUME NEW t \in Tasks, NewMemChain(t)
        PROVE  count'[u] = Cardinality(Occupied(u, open'))
    <3>1. PICK s \in FreeSlots(t) : open' = open \cup {<<t, s>>}
      BY <2>3 DEF NewMemChain
    <3>2. count' = [count EXCEPT ![t] = @ + 1]  BY <2>3 DEF NewMemChain
    <3>3. CASE u = t
      <4>1. Occupied(u, open') = Occupied(u, open) \cup {s} /\ s \notin Occupied(u, open)
        BY <3>1, <3>3 DEF Occupied, FreeSlots
      <4>2. Cardinality(Occupied(u, open')) = Cardinality(Occupied(u, open)) + 1
        BY <4>1, OccupiedFinite, FS_AddElement
      <4>3. QED  BY <2>1, <3>2, <3>3, <4>2 DEF TypeOK
    <3>4. CASE u # t
      <4>1. Occupied(u, open') = Occupied(u, open)
        BY <3>1, <3>4 DEF Occupied
      <4>2. QED  BY <2>1, <3>2, <3>4, <4>1 DEF TypeOK
    <3>5. QED  BY <3>3, <3>4
  <2>4. ASSUME NEW t \in Tasks, NEW c \in Chains, RlsMemChain(t, c)
        PROVE  count'[u] = Cardinality(Occupied(u, open'))
    <3>1. /\ c \in open /\ c[1] = t /\ open' = open \ {c}
          /\ count' = [count EXCEPT ![t] = @ - 1]
      BY <2>4 DEF RlsMemChain
    <3>2. PICK s \in Slots : c = <<t, s>>
      BY <3>1 DEF Chains
    <3>3. CASE u = t
      <4>1. Occupied(u, open') = Occupied(u, open) \ {s} /\ s \in Occupied(u, open)
        BY <3>1, <3>2, <3>3 DEF Occupied
      <4>2. Cardinality(Occupied(u, open')) = Cardinality(Occupied(u, open)) - 1
        BY <4>1, OccupiedFinite, FS_RemoveElement
      <4>3. QED  BY <2>1, <3>1, <3>3, <4>2 DEF TypeOK
    <3>4. CASE u # t
      <4>1. Occupied(u, open') = Occupied(u, open)
        BY <3>1, <3>2, <3>4 DEF Occupied
      <4>2. QED  BY <2>1, <3>1, <3>4, <4>1 DEF TypeOK
    <3>5. QED  BY <3>3, <3>4
  <2>5. ASSUME NEW t \in Tasks, Exit(t)
        PROVE  count'[u] = Cardinality(Occupied(u, open'))
    <3>1. /\ open' = open \ {c \in open : c[1] = t}
          /\ count' = [count EXCEPT ![t] = 0]
      BY <2>5 DEF Exit
    <3>2. CASE u = t
      <4>1. Occupied(u, open') = {}  BY <3>1, <3>2 DEF Occupied
      <4>2. QED  BY <3>1, <3>2, <4>1, FS_EmptySet DEF TypeOK
    <3>3. CASE u # t
      <4>1. Occupied(u, open') = Occupied(u, open)
        BY <3>1, <3>3 DEF Occupied
      <4>2. QED  BY <2>1, <3>1, <3>3, <4>1 DEF TypeOK
    <3>4. QED  BY <3>2, <3>3
  <2>6. QED
    BY <2>2, <2>3, <2>4, <2>5
    DEF Next, vars, BeginLink, BrkMemChain, MlinkPage, MlinkNoPage, EndLink,
        PrepNewPage, FreePagesPrepare, Access, CheckReferences, Hate
<1>3. QED  BY <1>1, <1>2, TypeCorrect, PTL DEF Spec

-----------------------------------------------------------------------------
(***************************************************************************)
(* Who takes a page off its chain.                                         *)
(***************************************************************************)

\* Neither an access nor the scan moves pages between chains.
LEMMA MarkPageAccessedChain ==
    ASSUME NEW h \in Heaps, NEW p \in Pages, NEW b \in BOOLEAN
    PROVE  MarkPageAccessed(h, p, b).chain = h.chain
<1> DEFINE t == TouchChain(h, p)
           s == SetIfClear(t, p)
           u == IF Linked(t, p) THEN s ELSE t
<1>1. t \in Heaps /\ t.chain = h.chain  BY TouchChainFields
<1>2. s \in Heaps /\ s.chain = h.chain
  BY <1>1, SetPageReferencedFields DEF SetIfClear
<1>3. u \in Heaps /\ u.chain = h.chain  BY <1>1, <1>2
<1>4. ClearPageReferenced(u, p).chain = h.chain  BY <1>3, ClearPageReferencedFields
<1>5. MarkPageAccessed(h, p, b) \in {ClearPageReferenced(u, p), s}
  BY DEF MarkPageAccessed
<1>6. QED  BY <1>2, <1>4, <1>5

\* Linking p, and pinning it, moves p to chain c and no other page.
LEMMA LinkPageChain ==
    ASSUME NEW h \in Heaps, NEW c \in Chains, NEW p \in Pages
    PROVE  LET g == LinkPage(h, c, p)
           IN  /\ g \in Heaps /\ g.chain[p] = c
               /\ \A q \in Pages \ {p} : g.chain[q] = h.chain[q]
<1> DEFINE f == IF Linked(h, p) THEN UnlinkPage(h, p) ELSE h
<1>1. f \in Heaps /\ \A q \in Pages \ {p} : f.chain[q] = h.chain[q]
  <2>1. CASE Linked(h, p)
    <3>1. f = UnlinkPage(h, p)  BY <2>1
    <3>2. f \in Heaps /\ f.chain = [h.chain EXCEPT ![p] = NoChain]
      BY <2>1, <3>1, UnlinkPageFields, ZenonT(60) DEF Unlinked
    <3>3. QED  BY <3>2 DEF Heaps
  <2>2. CASE ~Linked(h, p)  BY <2>2
  <2>3. QED  BY <2>1, <2>2
<1>2. CASE h.chain[p] = c  BY <1>2 DEF LinkPage
<1>3. CASE h.chain[p] # c
  <2>1. LinkPage(h, c, p) = AttachPage(f, c, p)  BY <1>3 DEF LinkPage
  <2> HIDE DEF f
  <2>2. QED  BY <1>1, <2>1, AttachPageFields
<1>4. QED  BY <1>2, <1>3

\* A walk takes its page to an open chain, or stops the machine.
LEMMA MlinkPageLeave ==
    ASSUME IInv, NEW t \in Tasks, NEW p \in Pages, NEW b \in BOOLEAN,
           MlinkPage(t, p, b)
    PROVE  \/ oops'
           \/ /\ heap'.chain[p] \in open
              /\ \A q \in Pages \ {p} : heap'.chain[q] = heap.chain[q]
<1> DEFINE c == call[t].chain
           g == LinkPage(heap, c, p)
           a == IF call[t].anchored THEN AnchorPage(g, c, p) ELSE g
<1>1. CASE SMP /\ heap.chain[p] \notin {NoChain, c}
  BY <1>1 DEF MlinkPage
<1>2. CASE ~(SMP /\ heap.chain[p] \notin {NoChain, c})
  <2>1. heap' = MarkPageAccessed(a, p, b)  BY <1>2 DEF MlinkPage
  <2>2. c \in open  BY BusyCall DEF MlinkPage
  <2>3. c \in Chains /\ heap \in Heaps  BY <2>2 DEF IInv, TypeOK
  <2> HIDE DEF c
  <2>4. /\ g \in Heaps /\ g.chain[p] = c
        /\ \A q \in Pages \ {p} : g.chain[q] = heap.chain[q]
    BY <2>3, LinkPageChain
  <2> HIDE DEF g
  <2>5. a \in Heaps /\ a.chain = g.chain
    BY <2>3, <2>4 DEF AnchorPage, Heaps
  <2> HIDE DEF a
  <2>6. heap'.chain = g.chain  BY <2>1, <2>5, MarkPageAccessedChain
  <2>7. QED  BY <2>2, <2>4, <2>6
<1>3. QED  BY <1>1, <1>2

\* A break and a release empty the chain, and only pages of the chain leave it.
LEMMA UnlinkChainLeave ==
    ASSUME IInv, NEW c \in open, heap' = UnlinkChain(heap, c), NEW q \in Pages,
           heap'.chain[q] # heap.chain[q]
    PROVE  heap.chain[q] = c /\ heap'.links[c] = {}
<1>1. c \in Chains /\ heap \in Heaps  BY DEF IInv, TypeOK
<1>2. heap.links[c] = {p \in Pages : heap.chain[p] = c}
  BY DEF IInv, Consistent, ChainOK
<1>3. QED  BY <1>1, <1>2, UnlinkChainFields

LEMMA ExitLeave ==
    ASSUME IInv, NEW t \in Tasks, Exit(t), NEW q \in Pages,
           heap'.chain[q] # heap.chain[q]
    PROVE  heap.chain[q][1] = t /\ heap'.links[heap.chain[q]] = {}
<1> DEFINE mine == {c \in open : c[1] = t}
<1>1. heap \in Heaps /\ mine \in SUBSET Chains  BY DEF IInv, TypeOK
<1>2. heap' = UnlinkChainsFast(heap, mine)  BY DEF Exit
<1>3. PICK c \in mine : q \in heap.links[c]
  <2> HIDE DEF mine
  <2>1. QED  BY <1>1, <1>2, UnlinkChainsFastFields
<1>4. heap.chain[q] = c  BY <1>3 DEF IInv, Consistent, ChainOK
<1>5. heap'.links[c] = {}
  <2>1. c \in mine /\ c \in Chains  BY <1>1, <1>3
  <2> HIDE DEF mine
  <2>2. QED  BY <1>1, <1>2, <2>1, UnlinkChainsFastFields
<1>6. QED  BY <1>3, <1>4, <1>5

\* A free takes off its page alone.
LEMMA FreeLeave ==
    ASSUME NEW h \in Heaps, NEW p \in Pages, NEW q \in Pages \ {p}
    PROVE  FreePage(h, p).chain[q] = h.chain[q]
<1> DEFINE g == [h EXCEPT !.referenced = @ \ {p}, !.mlocked = @ \ {p}]
<1>1. g \in Heaps /\ g.chain = h.chain  BY DEF Heaps
<1>2. FreePage(h, p) = IF Linked(g, p) THEN UnlinkPage(g, p) ELSE g
  BY DEF FreePage
<1> HIDE DEF g
<1>3. CASE Linked(g, p)
  <2>1. UnlinkPage(g, p).chain = [g.chain EXCEPT ![p] = NoChain]
    BY <1>1, <1>3, UnlinkPageFields DEF Unlinked
  <2>2. QED  BY <1>1, <1>2, <1>3, <2>1 DEF Heaps
<1>4. CASE ~Linked(g, p)  BY <1>1, <1>2, <1>4
<1>5. QED  BY <1>3, <1>4

\* The remaining steps leave every chain pointer of a linked page as it is.
LEMMA PageLeave ==
    ASSUME IInv, NEW p \in Pages, NEW b \in BOOLEAN, NEW q \in Pages,
           \/ PrepNewPage(p)
           \/ Access(p, b)
           \/ CheckReferences(p, b)
           \/ Hate(p),
           Linked(heap, q)
    PROVE  heap'.chain[q] = heap.chain[q]
<1>1. heap \in Heaps  BY DEF IInv, TypeOK
<1>2. CASE PrepNewPage(p)
  <2>1. ~Linked(heap, p)  BY <1>2 DEF PrepNewPage, IInv, Consistent
  <2>2. heap'.chain = [heap.chain EXCEPT ![p] = NoChain]
    BY <1>1, <1>2 DEF PrepNewPage, Heaps
  <2>3. QED  BY <1>1, <2>1, <2>2 DEF Linked, Heaps
<1>3. CASE Access(p, b)  BY <1>1, <1>3, MarkPageAccessedChain DEF Access
<1>4. CASE CheckReferences(p, b)
  <2> DEFINE g == ClearPageReferenced(heap, p)
  <2>1. g \in Heaps /\ g.chain = heap.chain  BY <1>1, ClearPageReferencedFields
  <2>2. heap' = IF b THEN SetPageReferenced(g, p) ELSE g
    BY <1>4 DEF CheckReferences
  <2> HIDE DEF g
  <2>3. QED  BY <2>1, <2>2, SetPageReferencedFields
<1>5. CASE Hate(p)  BY <1>1, <1>5 DEF Hate, Heaps
<1>6. QED  BY <1>2, <1>3, <1>4, <1>5

\* Collections and calls are sound: types, count and the chain of each call.
THEOREM CollectionTheorem == Spec => []CollectionSound
BY TypeCorrect, CountTheorem, CallTheorem, PTL DEF CollectionSound


\* Only its owner takes a page off a chain, by a break, a release or an exit,
\* except for the free of the page and a link by another task.
THEOREM OwnerTheorem == Spec => LeavesOnlyByOwner
<1>1. ASSUME IInv, Next, NEW q \in Pages, Linked(heap, q),
             heap'.chain[q] # heap.chain[q]
      PROVE  \/ q \notin alloc'
             \/ heap'.chain[q] \in open
             \/ oops'
             \/ LET t == heap.chain[q][1]
                IN  call[t] = Idle /\ heap'.links[heap.chain[q]] = {}
  <2>1. ASSUME NEW t \in Tasks, NewMemChain(t)  PROVE FALSE
    <3>1. PICK s \in FreeSlots(t) : heap' = FreshChain(heap, <<t, s>>)
      BY <2>1 DEF NewMemChain
    <3>2. heap'.chain = heap.chain  BY <1>1, <3>1 DEF FreshChain, Heaps, IInv, TypeOK
    <3>3. QED  BY <1>1, <3>2
  <2>2. ASSUME NEW t \in Tasks, NEW c \in Chains, BrkMemChain(t, c) \/ RlsMemChain(t, c)
        PROVE  call[heap.chain[q][1]] = Idle /\ heap'.links[heap.chain[q]] = {}
    <3>1. /\ call[t] = Idle /\ c \in open /\ c[1] = t
          /\ heap' = UnlinkChain(heap, c)
      BY <2>2 DEF BrkMemChain, RlsMemChain
    <3>2. heap.chain[q] = c /\ heap'.links[c] = {}  BY <1>1, <3>1, UnlinkChainLeave
    <3>3. QED  BY <3>1, <3>2
  <2>3. ASSUME NEW t \in Tasks, Exit(t)
        PROVE  call[heap.chain[q][1]] = Idle /\ heap'.links[heap.chain[q]] = {}
    BY <1>1, <2>3, ExitLeave DEF Exit
  <2>4. ASSUME NEW t \in Tasks, NEW p \in Pages, NEW b \in BOOLEAN, MlinkPage(t, p, b)
        PROVE  oops' \/ heap'.chain[q] \in open
    BY <1>1, <2>4, MlinkPageLeave
  <2>5. ASSUME NEW p \in Pages, FreePagesPrepare(p)  PROVE q \notin alloc'
    <3>1. heap' = FreePage(heap, p) /\ alloc' = alloc \ {p}  BY <2>5 DEF FreePagesPrepare
    <3>2. q = p  BY <1>1, <3>1, FreeLeave DEF IInv, TypeOK
    <3>3. QED  BY <3>1, <3>2
  <2>6. ASSUME NEW p \in Pages, NEW b \in BOOLEAN,
               PrepNewPage(p) \/ Access(p, b) \/ CheckReferences(p, b) \/ Hate(p)
        PROVE  FALSE
    BY <1>1, <2>6, PageLeave
  <2>7. ASSUME NEW t \in Tasks, MlinkNoPage(t) \/ EndLink(t)  PROVE FALSE
    BY <1>1, <2>7 DEF MlinkNoPage, EndLink
  <2>8. ASSUME NEW t \in Tasks, NEW c \in Chains, NEW n \in 1 .. MaxRange,
               NEW a \in BOOLEAN, BeginLink(t, c, n, a)
        PROVE  FALSE
    BY <1>1, <2>8 DEF BeginLink
  <2>9. TRUE \in BOOLEAN  OBVIOUS
  <2>10. QED
    BY <1>1, <2>1, <2>2, <2>3, <2>4, <2>5, <2>6, <2>7, <2>8, <2>9 DEF Next
<1>2. IInv /\ [Next]_vars => [LeaveStep]_vars
  BY <1>1 DEF LeaveStep
<1>3. QED  BY <1>2, Invariance, PTL DEF Spec, LeavesOnlyByOwner
=============================================================================
