----------------------------- MODULE MemoryChain -----------------------------
(***************************************************************************)
(* The memory chains of the modified Linux kernel (src/Linux/mchain.c and  *)
(* the hooks it needs in page-flags.h, swap.c, page_alloc.c and exit.c).   *)
(*                                                                         *)
(* A task owns up to Capacity chains.  mlink() puts pages on a chain; all  *)
(* pages of a chain share one effective referenced bit, which the kernel   *)
(* keeps as the chain's ref_counter beside the pages' own PG_referenced    *)
(* bits.  Pages leave a chain when they are freed, linked elsewhere, or    *)
(* when the chain is broken or released.                                   *)
(*                                                                         *)
(* Grain: one step is one critical section of the code (a page of an       *)
(* mlink() range, a break, a release, the free of a page, one flag macro). *)
(* An mlink() range is therefore many steps, and other tasks and the       *)
(* reclaimer act between them.  What happens inside these sections when    *)
(* the locks do not exclude each other is the subject of ChainRace.        *)
(***************************************************************************)
EXTENDS Integers, FiniteSets

CONSTANTS
    Tasks,      \* tasks that use chains
    Capacity,   \* slots of a task's chain array (MAX_NUM_CHAINS, 255)
    Pages,      \* page frames
    MaxRange,   \* bound: pages one mlink() range may span
    SMP,        \* TRUE when spin locks are compiled in (CONFIG_SMP)
    NoPage,     \* a NULL struct page pointer
    NoChain     \* a NULL struct memory_chain pointer

ASSUME TasksAssumption    == IsFiniteSet(Tasks)
ASSUME CapacityAssumption == Capacity \in Nat \ {0}
ASSUME PagesAssumption    == IsFiniteSet(Pages) /\ NoPage \notin Pages
ASSUME RangeAssumption    == MaxRange \in Nat
ASSUME SMPAssumption      == SMP \in BOOLEAN

Slots  == 0 .. Capacity - 1

\* A chain object is named by its owner and its slot, i.e. its descriptor.
Chains == Tasks \X Slots

ASSUME NoChainAssumption == NoChain \notin Chains

VARIABLES
    open,     \* chains whose slot in the owner's array is not NULL
    count,    \* per task, the collection's count field
    heap,     \* chain objects and the page fields they depend on
    alloc,    \* pages handed out by the page allocator
    call,     \* per task, the link_addr_rng or anchor call in progress
    oops      \* TRUE once the kernel has dereferenced a NULL pointer

vars == <<open, count, heap, alloc, call, oops>>

Heaps ==
    [ links       : [Chains -> SUBSET Pages],
      nr_links    : [Chains -> Int],
      ref_counter : [Chains -> Int],
      anchor      : [Chains -> Pages \cup {NoPage}],
      delegate    : [Chains -> Pages \cup {NoPage}],
      chain       : [Pages -> Chains \cup {NoChain}],
      referenced  : SUBSET Pages,     \* pages with PG_referenced set
      mlocked     : SUBSET Pages ]    \* pages pinned by an anchor

Idle  == [chain |-> NoChain, todo |-> 0, anchored |-> FALSE]
Calls == [chain : Chains, todo : 0 .. MaxRange, anchored : BOOLEAN] \cup {Idle}

-----------------------------------------------------------------------------
(***************************************************************************)
(* Functions of the source, as operators from a heap to a heap.            *)
(***************************************************************************)

Linked(h, p) == h.chain[p] # NoChain

\* The effective referenced bit: the page's own, or that of its chain.
PageReferenced(h, p) ==
    p \in h.referenced \/ (Linked(h, p) /\ h.ref_counter[h.chain[p]] # 0)

AddRef(h, p, n) ==
    IF Linked(h, p) THEN [h EXCEPT !.ref_counter[h.chain[p]] = @ + n] ELSE h

SetPageReferenced(h, p) ==
    AddRef([h EXCEPT !.referenced = @ \cup {p}], p, 1)

\* Faulty variant: the counter drops even when the bit was clear.
ClearPageReferenced_Always(h, p) ==
    AddRef([h EXCEPT !.referenced = @ \ {p}], p, -1)

ClearPageReferenced(h, p) ==
    AddRef([h EXCEPT !.referenced = @ \ {p}],
           p, IF p \in h.referenced THEN -1 ELSE 0)

\* mlock_vma_page and munlock_vma_page set and clear the page's pin.
UnpinAnchor(h, c) == [h EXCEPT !.mlocked = @ \ {h.anchor[c]}]

\* Faulty variant: the delegate survives the unlink of its page.
UnlinkPage_KeepDelegate(h, p) ==
    LET c == h.chain[p]
        g == IF h.anchor[c] = p THEN UnpinAnchor(h, c) ELSE h
    IN  [g EXCEPT !.links[c]       = @ \ {p},
                  !.anchor[c]      = IF @ = p THEN NoPage ELSE @,
                  !.nr_links[c]    = @ - 1,
                  !.ref_counter[c] = @ - (IF p \in h.referenced THEN 1 ELSE 0),
                  !.chain[p]       = NoChain]

\* __unlink_page(p), for a page on a chain.  The referenced bit survives.
UnlinkPage(h, p) ==
    LET c == h.chain[p]
        g == IF h.anchor[c] = p THEN UnpinAnchor(h, c) ELSE h
    IN  [g EXCEPT !.links[c]       = @ \ {p},
                  !.anchor[c]      = IF @ = p THEN NoPage ELSE @,
                  !.delegate[c]    = IF @ = p THEN NoPage ELSE @,
                  !.nr_links[c]    = @ - 1,
                  !.ref_counter[c] = @ - (IF p \in h.referenced THEN 1 ELSE 0),
                  !.chain[p]       = NoChain]

\* __link_page(c, p) without the early return and the break of an old link.
AttachPage(h, c, p) ==
    [h EXCEPT !.chain[p]       = c,
              !.links[c]       = @ \cup {p},
              !.nr_links[c]    = @ + 1,
              !.ref_counter[c] = @ + (IF p \in h.referenced THEN 1 ELSE 0)]

\* Faulty variant: no early return for a page already on the chain.
LinkPage_Again(h, c, p) ==
    AttachPage(IF h.chain[p] \notin {NoChain, c} THEN UnlinkPage(h, p) ELSE h, c, p)

LinkPage(h, c, p) ==
    IF h.chain[p] = c THEN h
    ELSE AttachPage(IF Linked(h, p) THEN UnlinkPage(h, p) ELSE h, c, p)

AnchorPage(h, c, p) ==
    [h EXCEPT !.mlocked = @ \cup {p}, !.anchor[c] = p]

\* Faulty variant: the counter is left alone.
TouchChain_NoReset(h, p) ==
    IF Linked(h, p) THEN [h EXCEPT !.delegate[h.chain[p]] = p] ELSE h

\* mark_page_accessed(p).  candidate is the part of its condition that chains
\* do not touch: the page is on an LRU list, inactive and evictable.
TouchChain(h, p) ==
    IF Linked(h, p)
    THEN [h EXCEPT !.ref_counter[h.chain[p]] = h.nr_links[h.chain[p]],
                   !.delegate[h.chain[p]]    = p]
    ELSE h

SetIfClear(h, p) == IF p \in h.referenced THEN h ELSE SetPageReferenced(h, p)

MarkPageAccessed(h, p, candidate) ==
    LET t == TouchChain(h, p)
    IN  IF candidate /\ PageReferenced(t, p)
        THEN ClearPageReferenced(IF Linked(t, p) THEN SetIfClear(t, p) ELSE t, p)
        ELSE SetIfClear(t, p)

\* __unlink_chain(c): brk_mem_chain and rls_mem_chain.  Every page is unlinked
\* and loses its referenced bit, the anchor is unpinned, the fields are reset.
UnlinkChain(h, c) ==
    [UnpinAnchor(h, c) EXCEPT
        !.referenced     = @ \ h.links[c],
        !.chain          = [p \in Pages |-> IF p \in h.links[c] THEN NoChain
                                                                ELSE @[p]],
        !.links[c]       = {},
        !.anchor[c]      = NoPage,
        !.delegate[c]    = NoPage,
        !.nr_links[c]    = 0,
        !.ref_counter[c] = 0]

\* Faulty variant: the lists are emptied, the pages keep their chain pointer.
UnlinkChainsFast_KeepPointers(h, cs) ==
    [h EXCEPT !.links = [c \in Chains |-> IF c \in cs THEN {} ELSE @[c]]]

\* unlink_chain_fast of the exit path, for a set of chains: only the pages'
\* fields change, since the chain objects are freed at once.
UnlinkChainsFast(h, cs) ==
    LET gone == UNION {h.links[c] : c \in cs}
    IN  [h EXCEPT !.chain = [p \in Pages |-> IF p \in gone THEN NoChain ELSE @[p]],
                  !.links = [c \in Chains |-> IF c \in cs THEN {} ELSE @[c]]]

\* Faulty variant: the free path without its unlink.
FreePage_NoUnlink(h, p) ==
    [h EXCEPT !.referenced = @ \ {p}, !.mlocked = @ \ {p}]

\* The free path: __TestClearPageMlocked, then free_pages_check clears every
\* flag of the page, and only then free_pages_prepare unlinks it.
FreePage(h, p) ==
    LET g == [h EXCEPT !.referenced = @ \ {p}, !.mlocked = @ \ {p}]
    IN  IF Linked(g, p) THEN UnlinkPage(g, p) ELSE g

\* __new_mem_chain: the fields of a fresh chain object.
FreshChain(h, c) ==
    [h EXCEPT !.links[c]       = {},
              !.nr_links[c]    = 0,
              !.ref_counter[c] = 0,
              !.anchor[c]      = NoPage,
              !.delegate[c]    = NoPage]

-----------------------------------------------------------------------------
Init ==
    /\ open = {}
    /\ count = [t \in Tasks |-> 0]
    /\ heap = [ links       |-> [c \in Chains |-> {}],
                nr_links    |-> [c \in Chains |-> 0],
                ref_counter |-> [c \in Chains |-> 0],
                anchor      |-> [c \in Chains |-> NoPage],
                delegate    |-> [c \in Chains |-> NoPage],
                chain       |-> [p \in Pages |-> NoChain],
                referenced  |-> {},
                mlocked     |-> {} ]
    /\ alloc = {}
    /\ call = [t \in Tasks |-> Idle]
    /\ oops = FALSE

FreeSlots(t) == {s \in Slots : <<t, s>> \notin open}

\* new_mem_chain: the first NULL slot gets a fresh chain object, unless the
\* count says that the collection is full.
NewMemChain(t) ==
    /\ ~oops
    /\ call[t] = Idle
    /\ count[t] < Capacity
    /\ \E s \in FreeSlots(t) :
          /\ \A r \in FreeSlots(t) : s <= r
          /\ open' = open \cup {<<t, s>>}
          /\ heap' = FreshChain(heap, <<t, s>>)
    /\ count' = [count EXCEPT ![t] = @ + 1]
    /\ UNCHANGED <<alloc, call, oops>>

\* link_addr_rng and anchor: the descriptor is validated and the range walk
\* begins; anchor's one page is also pinned.  The chain's lock is not taken.
BeginLink(t, c, n, anchored) ==
    /\ ~oops
    /\ call[t] = Idle
    /\ c \in open /\ c[1] = t
    /\ n \in 1 .. MaxRange
    /\ anchored => n = 1
    /\ call' = [call EXCEPT ![t] = [chain |-> c, todo |-> n, anchored |-> anchored]]
    /\ UNCHANGED <<open, count, heap, alloc, oops>>

\* One page of the walk: link, pin if it is the anchor, mark accessed.
\* Moving a page from another chain reads page->chain->lock after
\* __unlink_page has set page->chain to NULL: fatal when locks exist.
MlinkPage(t, p, candidate) ==
    /\ ~oops
    /\ call[t].todo > 0
    /\ p \in alloc
    /\ LET c == call[t].chain
           g == LinkPage(heap, c, p)
           a == IF call[t].anchored THEN AnchorPage(g, c, p) ELSE g
       IN  IF SMP /\ heap.chain[p] \notin {NoChain, c}
           THEN /\ oops' = TRUE
                /\ heap' = UnlinkPage(heap, p)
                /\ UNCHANGED call
           ELSE /\ heap' = MarkPageAccessed(a, p, candidate)
                /\ call' = [call EXCEPT ![t].todo = @ - 1]
                /\ UNCHANGED oops
    /\ UNCHANGED <<open, count, alloc>>

\* An address for which __get_user_page finds no page is skipped.
MlinkNoPage(t) ==
    /\ ~oops
    /\ call[t].todo > 0
    /\ call' = [call EXCEPT ![t].todo = @ - 1]
    /\ UNCHANGED <<open, count, heap, alloc, oops>>

EndLink(t) ==
    /\ ~oops
    /\ call[t] # Idle /\ call[t].todo = 0
    /\ call' = [call EXCEPT ![t] = Idle]
    /\ UNCHANGED <<open, count, heap, alloc, oops>>

\* Faulty variant: the descriptor is not looked up in the caller's collection.
BrkMemChain_AnyOwner(t, c) ==
    /\ ~oops
    /\ call[t] = Idle
    /\ c \in open
    /\ heap' = UnlinkChain(heap, c)
    /\ UNCHANGED <<open, count, alloc, call, oops>>

BrkMemChain(t, c) ==
    /\ ~oops
    /\ call[t] = Idle
    /\ c \in open /\ c[1] = t
    /\ heap' = UnlinkChain(heap, c)
    /\ UNCHANGED <<open, count, alloc, call, oops>>

\* Faulty variant: a release during the owner's own range walk.
RlsMemChain_DuringCall(t, c) ==
    /\ ~oops
    /\ c \in open /\ c[1] = t
    /\ heap' = UnlinkChain(heap, c)
    /\ open' = open \ {c}
    /\ count' = [count EXCEPT ![t] = @ - 1]
    /\ UNCHANGED <<alloc, call, oops>>

RlsMemChain(t, c) ==
    /\ ~oops
    /\ call[t] = Idle
    /\ c \in open /\ c[1] = t
    /\ heap' = UnlinkChain(heap, c)
    /\ open' = open \ {c}
    /\ count' = [count EXCEPT ![t] = @ - 1]
    /\ UNCHANGED <<alloc, call, oops>>

\* do_exit frees every chain of the task, then its collection.  The task id
\* may be used again, by a task whose collection is still NULL.
Exit(t) ==
    /\ ~oops
    /\ call[t] = Idle
    /\ count[t] > 0
    /\ LET mine == {c \in open : c[1] = t}
       IN  /\ heap' = UnlinkChainsFast(heap, mine)
           /\ open' = open \ mine
    /\ count' = [count EXCEPT ![t] = 0]
    /\ UNCHANGED <<alloc, call, oops>>

\* prep_new_page: the chain pointer of a page handed out is reset.
PrepNewPage(p) ==
    /\ ~oops
    /\ p \notin alloc
    /\ alloc' = alloc \cup {p}
    /\ heap' = [heap EXCEPT !.chain[p] = NoChain]
    /\ UNCHANGED <<open, count, call, oops>>

FreePagesPrepare(p) ==
    /\ ~oops
    /\ p \in alloc
    /\ alloc' = alloc \ {p}
    /\ heap' = FreePage(heap, p)
    /\ UNCHANGED <<open, count, call, oops>>

\* An access through the page cache or a fault.
Access(p, candidate) ==
    /\ ~oops
    /\ p \in alloc
    /\ heap' = MarkPageAccessed(heap, p, candidate)
    /\ UNCHANGED <<open, count, alloc, call, oops>>

\* page_check_references: the scan of an inactive page tests and clears its
\* referenced bit, and sets it again for a page whose page table entries were
\* referenced (unless lumpy reclaim, an mlocked mapping or an anonymous page
\* made the function return before).
CheckReferences(p, markAgain) ==
    /\ ~oops
    /\ p \in alloc
    /\ LET g == ClearPageReferenced(heap, p)
       IN  heap' = IF markAgain THEN SetPageReferenced(g, p) ELSE g
    /\ UNCHANGED <<open, count, alloc, call, oops>>

\* hate: an unlinked page goes to the inactive list and loses its referenced
\* bit; a linked page is refused.
Hate(p) ==
    /\ ~oops
    /\ p \in alloc
    /\ ~Linked(heap, p)
    /\ heap' = [heap EXCEPT !.referenced = @ \ {p}]
    /\ UNCHANGED <<open, count, alloc, call, oops>>

Next ==
    \/ \E t \in Tasks :
          \/ NewMemChain(t)
          \/ \E c \in Chains :
                \/ \E n \in 1 .. MaxRange, a \in BOOLEAN : BeginLink(t, c, n, a)
                \/ BrkMemChain(t, c)
                \/ RlsMemChain(t, c)
          \/ \E p \in Pages, b \in BOOLEAN : MlinkPage(t, p, b)
          \/ MlinkNoPage(t)
          \/ EndLink(t)
          \/ Exit(t)
    \/ \E p \in Pages :
          \/ PrepNewPage(p)
          \/ FreePagesPrepare(p)
          \/ \E b \in BOOLEAN : Access(p, b) \/ CheckReferences(p, b)
          \/ Hate(p)

Spec == Init /\ [][Next]_vars
-----------------------------------------------------------------------------
(***************************************************************************)
(* Invariants.                                                             *)
(***************************************************************************)

\* Every variable ranges over the values its C type and its use allow.
TypeOK ==
    /\ open \in SUBSET Chains
    /\ count \in [Tasks -> Int]
    /\ heap \in Heaps
    /\ alloc \in SUBSET Pages
    /\ call \in [Tasks -> Calls]
    /\ oops \in BOOLEAN

\* A page's chain pointer and the chains' lists tell the same story, and a
\* chain pointer never outlives its chain object: what page->chain is
\* dereferenced for in the flag macros, in mark_page_accessed and on free.
MembershipAgrees ==
    /\ \A p \in Pages : Linked(heap, p) => heap.chain[p] \in open
    /\ \A c \in open : heap.links[c] = {p \in Pages : heap.chain[p] = c}

\* nr_links, kept by increments and decrements in three files, is the length
\* of the list (mm_types.h:136).
NrLinksExact ==
    \A c \in open : heap.nr_links[c] = Cardinality(heap.links[c])

\* The anchor and the delegate of a chain are pages of that chain, and the
\* anchor is pinned: no unlink path may leave either pointer behind.
AnchorAndDelegateLinked ==
    \A c \in open :
        /\ heap.anchor[c] # NoPage =>
              heap.anchor[c] \in heap.links[c] \cap heap.mlocked
        /\ heap.delegate[c] # NoPage => heap.delegate[c] \in heap.links[c]

ReferencedLinks(h, c) == h.links[c] \cap h.referenced

\* While a page of the chain is referenced, the chain's counter says so, and
\* so every page of the chain counts as referenced: the counter is never below
\* the number of linked pages with PG_referenced set.  Several functions change
\* the bits and the counter apart, and the free path clears the bit behind the
\* counter's back.
RefCounterCovers ==
    \A c \in open :
        heap.ref_counter[c] >= Cardinality(ReferencedLinks(heap, c))

\* A linked page is an allocated page: the allocator unlinks what it takes
\* back, so that a free page is never on a chain's list.
LinkedAllocated == \A p \in Pages : Linked(heap, p) => p \in alloc

\* A call in progress works on a chain that is still open.
CallOnOpenChain == \A t \in Tasks : call[t] # Idle => call[t].chain \in open

\* The collection's count is the number of its occupied slots, which is what
\* makes __find_free_slot succeed whenever count is below capacity and do_exit
\* stop only after the last chain.
CountExact ==
    \A t \in Tasks :
        count[t] = Cardinality({s \in Slots : <<t, s>> \in open})

\* The collections and the calls that use them: types are respected, the count
\* of a collection is exact, and a call never outlives its chain (the collection's
\* lock is released before do_mlink_pages walks the range, mchain.c:464).
CollectionSound == TypeOK /\ CountExact /\ CallOnOpenChain

(***************************************************************************)
(* Action properties.                                                      *)
(***************************************************************************)

\* An access to one page of a chain of two or more protects all of its pages:
\* right after mark_page_accessed every page of the chain is referenced, also
\* when the access activated its page and cleared the page's own bit.
AccessStep ==
    \A p \in Pages, b \in BOOLEAN :
        (/\ Access(p, b)
         /\ Linked(heap, p)
         /\ heap.nr_links[heap.chain[p]] >= 2)
        => \A q \in heap.links[heap.chain[p]] : PageReferenced(heap', q)

AccessProtectsChain == [][AccessStep]_vars

\* Only its owner takes a page off a chain, except for the free of the page
\* and a link by another task: a page that stays allocated and unclaimed by a
\* link keeps its chain until the owner breaks or releases it or exits.
LeaveStep ==
    \A p \in Pages :
        (Linked(heap, p) /\ heap'.chain[p] # heap.chain[p]) =>
            \/ p \notin alloc'
            \/ heap'.chain[p] \in open
            \/ oops'
            \/ LET t == heap.chain[p][1]
               IN  /\ call[t] = Idle
                   /\ heap'.links[heap.chain[p]] = {}

LeavesOnlyByOwner == [][LeaveStep]_vars

(***************************************************************************)
(* What the documentation says and the code does not do.                   *)
(***************************************************************************)

\* mlink(): "Any previously established links held by the page are
\* automatically broken" (report.tex).
NoOops == ~oops

\* ref_counter is the "nr of linked pages with PG_reference bit set"
\* (mm_types.h:140).
RefCounterExact ==
    \A c \in open :
        heap.ref_counter[c] = Cardinality(ReferencedLinks(heap, c))

\* A chain has one "anchored (pseudo-locked) page" (mm_types.h:138): a linked
\* page that is pinned is the anchor of its chain.
PinnedIsAnchor ==
    \A p \in heap.mlocked :
        Linked(heap, p) => heap.anchor[heap.chain[p]] = p

\* "page anchoring is a local (w.r.t. to containing chain) pin operation"
\* (report.tex): a page pinned by an anchor call is linked to a chain.
PinnedWhileLinked == \A p \in heap.mlocked : Linked(heap, p)

=============================================================================
