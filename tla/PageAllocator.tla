---------------------------- MODULE PageAllocator ----------------------------
(***************************************************************************)
(* The buddy allocator of one zone, its per-processor page lists and the   *)
(* hook that unlinks a freed page from its memory chain                    *)
(* (Linux/page_alloc.c).                                                   *)
(*                                                                         *)
(* The free lists are sets: at which end of a list a block is put or taken *)
(* is a matter of cache heat and is left open.  A step is what the code    *)
(* does under one hold of zone->lock or with interrupts off.  Freeing      *)
(* takes two steps, because the type of the page's block is read before    *)
(* interrupts go off, and so does an allocation of several pages, because  *)
(* NR_FREE_PAGES is lowered after the lock is dropped.                     *)
(***************************************************************************)
EXTENDS Integers, FiniteSets, FiniteSetsExt, SequencesExt

CONSTANTS
    CPUs,           \* processors
    Tasks,          \* contexts that free or allocate
    NPages,         \* pages of the zone, which starts at page 0
    MaxOrder,       \* MAX_ORDER: orders are 0 .. MaxOrder - 1
    PageblockOrder, \* pageblock_order
    Batch, High,    \* pcp->batch and pcp->high
    AllocTypes,     \* the types requested by allocations
    MaxReserve,     \* the largest reserve that is set up, in pageblocks
    Isolation,      \* are pageblocks isolated in this instance?
    Linkable,       \* the pages that a task may link
    LinkTails       \* may a page of a block of several pages be linked?

ASSUME AllocatorAssumption ==
    /\ NPages \in Nat \ {0}
    /\ MaxOrder \in Nat \ {0}
    /\ PageblockOrder \in 1..MaxOrder - 1
    /\ Batch \in Nat \ {0}
    /\ High \in Nat
    /\ High >= Batch
    /\ MaxReserve \in 0..2
    /\ Isolation \in BOOLEAN
    /\ Linkable \subseteq 0..NPages - 1
    /\ LinkTails \in BOOLEAN

Pages    == 0..NPages - 1
Orders   == 0..MaxOrder - 1
Blocks   == 0..(NPages - 1) \div 2^PageblockOrder
PcpTypes == {"UNMOVABLE", "RECLAIMABLE", "MOVABLE"}
Types    == PcpTypes \union {"RESERVE", "ISOLATE"}

ASSUME AllocTypesAssumption == AllocTypes \subseteq PcpTypes

VARIABLES
    zone,   \* lists, flags and counters under zone->lock
    pcp,    \* per processor: lists of <<page, page_private>>, and their count
    used,   \* the blocks handed out: head page -> order
    linked, \* pages whose chain is not NULL
    doing   \* per task: the free or allocation it is in the middle of

vars == <<zone, pcp, used, linked, doing>>

NoOrder == -1
Idle    == [op |-> "idle"]

Span(p, o)     == p .. p + 2^o - 1
BlockOf(p)     == p \div 2^PageblockOrder
PagesOf(b)     == {p \in Pages : BlockOf(p) = b}
PageBuddy(z,p) == z.order[p] # NoOrder

----------------------------------------------------------------------------
(* Putting blocks on the free lists and taking them off. *)

AddBlock(z, p, o, t) ==
    [z EXCEPT !.list[o][t] = @ \union {p}, !.nr[o] = @ + 1, !.order[p] = o]

\* Faulty variant: the block is looked for on the list of its pageblock's type.
DelBlock_OfType(z, p) ==
    LET o == z.order[p]
    IN  [z EXCEPT !.list[o][z.type[BlockOf(p)]] = @ \ {p},
                  !.nr[o] = @ - 1, !.order[p] = NoOrder]

\* list_del, rmv_page_order and the decrement of nr_free
DelBlock(z, p) ==
    LET o == z.order[p]
    IN  [z EXCEPT !.list[o] = [t \in Types |-> @[t] \ {p}],
                  !.nr[o] = @ - 1, !.order[p] = NoOrder]

AlignTo(p, o) == p - (p % 2^o)

\* The buddy of the block of order o that page p is in
BuddyOf(p, o) ==
    LET h == AlignTo(p, o)
    IN  IF (h \div 2^o) % 2 = 0 THEN h + 2^o ELSE h - 2^o

\* Faulty variant: a free block of another order is taken for the buddy.
page_is_buddy_AnyOrder(z, b, o) == b \in Pages /\ z.order[b] # NoOrder

page_is_buddy(z, b, o) == b \in Pages /\ z.order[b] = o

\* The order a block freed at order o reaches by merging with its buddies
MergedOrder(z, p, o) ==
    Max({k \in o..MaxOrder - 1 :
            \A j \in o..k - 1 : page_is_buddy(z, BuddyOf(p, j), j)})

FreeOnePage(z, p, o, t) ==
    LET m    == MergedOrder(z, p, o)
        gone == {BuddyOf(p, j) : j \in o..m - 1}
    IN  AddBlock(FoldSet(LAMBDA b, y : DelBlock(y, b), z, gone),
                 AlignTo(p, m), m, t)

free_one_page(z, p, o, t) == [FreeOnePage(z, p, o, t) EXCEPT !.free = @ + 2^o]

\* The upper halves of a block of order hi go back, down to order lo
expand(z, p, lo, hi, t) ==
    FoldSet(LAMBDA j, y : AddBlock(y, p + 2^j, j, t), z, lo..hi - 1)

move_freepages(z, b, t) ==
    LET heads == {p \in PagesOf(b) : PageBuddy(z, p)}
        Moved(o) == heads \intersect {p \in Pages : z.order[p] = o}
    IN  [z EXCEPT !.list = [o \in Orders |-> [s \in Types |->
            IF s = t THEN @[o][s] \union Moved(o) ELSE @[o][s] \ Moved(o)]]]

\* A block of pages that crosses the end of the zone is left alone
Movable(b) == (b + 1) * 2^PageblockOrder <= NPages

move_freepages_block(z, b, t) ==
    IF Movable(b) THEN move_freepages(z, b, t) ELSE z

PagesMoved(z, b) ==
    IF Movable(b)
    THEN MapThenSumSet(LAMBDA p : 2^z.order[p],
                       {p \in PagesOf(b) : PageBuddy(z, p)})
    ELSE 0

SetType(z, bs, t) == [z EXCEPT !.type = [b \in Blocks |->
                                           IF b \in bs THEN t ELSE @[b]]]

----------------------------------------------------------------------------
(* Taking a block from the free lists: each operator yields the set of its *)
(* outcomes <<zone, page>>, which is empty when the code returns NULL.     *)

Smallest(z, o, t) ==
    LET fit == {k \in o..MaxOrder - 1 : z.list[k][t] # {}}
    IN  IF fit = {} THEN {}
        ELSE LET k == Min(fit)
             IN  {<<expand(DelBlock(z, p), p, o, k, t), p>> : p \in z.list[k][t]}

\* MIGRATE_RESERVE ends each row of the code's array and is skipped there
fallbacks == [UNMOVABLE   |-> <<"RECLAIMABLE", "MOVABLE">>,
              RECLAIMABLE |-> <<"UNMOVABLE", "MOVABLE">>,
              MOVABLE     |-> <<"RECLAIMABLE", "UNMOVABLE">>]

\* A large block, or any for a reclaimable allocation, takes the free pages
\* around it along, and the whole pageblock when half of it is free.
Claims(k, t) == k >= PageblockOrder \div 2 \/ t = "RECLAIMABLE"

ClaimBlock(z, p, t) ==
    LET b == BlockOf(p)
        y == move_freepages_block(z, b, t)
    IN  IF PagesMoved(z, b) >= 2^(PageblockOrder - 1)
        THEN SetType(y, {b}, t) ELSE y

StealBlock(z, p, o, k, from, t) ==
    LET claimed == Claims(k, t)
        y == DelBlock(IF claimed THEN ClaimBlock(z, p, t) ELSE z, p)
        w == IF k >= PageblockOrder
             THEN SetType(y, {BlockOf(q) : q \in Span(p, k)}, t) ELSE y
    IN  expand(w, p, o, k, IF claimed THEN t ELSE from)

Fallback(z, o, t) ==
    LET rows == 1..Len(fallbacks[t])
        fit  == {k \in o..MaxOrder - 1 :
                    \E i \in rows : z.list[k][fallbacks[t][i]] # {}}
    IN  IF fit = {} THEN {}
        ELSE LET k    == Max(fit)
                 from == fallbacks[t][Min({i \in rows :
                                        z.list[k][fallbacks[t][i]] # {}})]
             IN  {<<StealBlock(z, p, o, k, from, t), p>> : p \in z.list[k][from]}

rmqueue(z, o, t) ==
    IF Smallest(z, o, t) # {} THEN Smallest(z, o, t)
    ELSE IF Fallback(z, o, t) # {} THEN Fallback(z, o, t)
    ELSE Smallest(z, o, "RESERVE")

\* Up to n single pages under one hold of the lock: outcomes <<zone, pages>>
rmqueue_bulk(z, n, t) ==
    LET bulk[i \in 0..n] ==
          IF i = 0 THEN {<<z, {}>>}
          ELSE UNION {IF rmqueue(r[1], 0, t) = {} THEN {r}
                      ELSE {<<s[1], r[2] \union {s[2]}>> : s \in rmqueue(r[1], 0, t)}
                      : r \in bulk[i - 1]}
    IN  {<<[r[1] EXCEPT !.free = @ - Cardinality(r[2])], r[2]>> : r \in bulk[n]}

----------------------------------------------------------------------------
(* The lists of a processor. *)

OnLists(list) == UNION {list[t] : t \in PcpTypes}

\* The orders in which n pages of a set can leave the lists.  The code goes
\* round the lists and takes from their tails; any order is allowed here.
Drains(S, n) == {s \in [1..n -> S] : IsInjective(s)}

free_pcppages_bulk(z, s) ==
    LET freed == FoldLeft(LAMBDA y, e : FreeOnePage(y, e[1], 0, e[2]), z, s)
    IN  [freed EXCEPT !.free = @ + Len(s)]

Without(list, S) == [t \in PcpTypes |-> list[t] \ S]

Init ==
    \* after free_all_bootmem: all blocks movable, everything free
    LET top(p) == Max({o \in Orders : p % 2^o = 0 /\ p + 2^o <= NPages})
        cover  == {p \in Pages : \A q \in 0..p - 1 : q + 2^top(q) <= p}
        empty  == [list  |-> [o \in Orders |-> [t \in Types |-> {}]],
                   order |-> [p \in Pages |-> NoOrder],
                   nr    |-> [o \in Orders |-> 0],
                   type  |-> [b \in Blocks |-> "MOVABLE"],
                   free  |-> NPages]
    IN  /\ zone = FoldSet(LAMBDA p, z : AddBlock(z, p, top(p), "MOVABLE"),
                          empty, cover)
        /\ pcp = [c \in CPUs |-> [list |-> [t \in PcpTypes |-> {}], count |-> 0]]
        /\ used = [p \in {} |-> 0]
        /\ linked = {}
        /\ doing = [k \in Tasks |-> Idle]

Begin(k, what) == doing' = [doing EXCEPT ![k] = what]
End(k)         == doing' = [doing EXCEPT ![k] = Idle]
Drop(p)        == [q \in DOMAIN used \ {p} |-> used[q]]
Grant(p, o)    == used @@ (p :> o)

\* prep_new_page: the first page of a block leaves its chain
prep_new_page(p) == linked' = linked \ {p}

\* Faulty variant: the hook is missing.
free_pages_prepare_NoHook(p) == UNCHANGED linked

\* free_pages_prepare: the first page of a block is unlinked
free_pages_prepare(p) == linked' = linked \ {p}

----------------------------------------------------------------------------
(* Freeing. *)

\* __free_pages by the last user, up to the point where interrupts go off.
FreeBegin(k, p) ==
    /\ doing[k] = Idle
    /\ free_pages_prepare(p)
    /\ LET o == used[p]
           t == zone.type[BlockOf(p)]
       IN  Begin(k, [op |-> "free", page |-> p, order |-> o, type |-> t])
    /\ used' = Drop(p)
    /\ UNCHANGED <<zone, pcp>>

\* The rest of __free_pages_ok, and of free_hot_cold_page for a page of an
\* isolated block: straight to the free lists
FreeOne(k) ==
    /\ doing[k].op = "free"
    /\ doing[k].order > 0 \/ doing[k].type = "ISOLATE"
    /\ LET d == doing[k]
       IN  zone' = free_one_page(zone, d.page, d.order, d.type)
    /\ End(k)
    /\ UNCHANGED <<pcp, used, linked>>

\* The rest of free_hot_cold_page, on the processor the task runs on now
FreeHotCold(k, c) ==
    /\ doing[k].op = "free"
    /\ doing[k].order = 0 /\ doing[k].type # "ISOLATE"
    /\ LET d    == doing[k]
           t    == IF d.type = "RESERVE" THEN "MOVABLE" ELSE d.type
           l    == [pcp[c].list EXCEPT ![t] = @ \union {<<d.page, d.type>>}]
           n    == pcp[c].count + 1
       IN  IF n < High
           THEN /\ pcp' = [pcp EXCEPT ![c] = [list |-> l, count |-> n]]
                /\ zone' = zone
           ELSE \E s \in Drains(OnLists(l), Batch) :
                /\ pcp' = [pcp EXCEPT ![c] = [list  |-> Without(l, Range(s)),
                                              count |-> n - Batch]]
                /\ zone' = free_pcppages_bulk(zone, s)
    /\ End(k)
    /\ UNCHANGED <<used, linked>>

\* Of the processor itself (an interrupt of drain_all_pages) or of one that
\* has gone away
DrainPages(c) ==
    /\ pcp[c].count > 0
    /\ \E s \in Drains(OnLists(pcp[c].list), pcp[c].count) :
         zone' = free_pcppages_bulk(zone, s)
    /\ pcp' = [pcp EXCEPT ![c] = [list  |-> [t \in PcpTypes |-> {}], count |-> 0]]
    /\ UNCHANGED <<used, linked, doing>>

\* The updater of the counters of a remote node drains at most a batch
DrainZonePages(c) ==
    LET n == IF pcp[c].count >= Batch THEN Batch ELSE pcp[c].count
    IN  /\ n > 0
        /\ \E s \in Drains(OnLists(pcp[c].list), n) :
             /\ zone' = free_pcppages_bulk(zone, s)
             /\ pcp' = [pcp EXCEPT ![c] = [list  |-> Without(@.list, Range(s)),
                                           count |-> @.count - n]]
        /\ UNCHANGED <<used, linked, doing>>

----------------------------------------------------------------------------
(* Allocating. *)

\* buffered_rmqueue of a single page from the lists of the processor
AllocPage(k, c, t) ==
    /\ doing[k] = Idle
    /\ \E r \in (IF pcp[c].list[t] # {} THEN {<<zone, {}>>}
                 ELSE rmqueue_bulk(zone, Batch, t)) :
         LET l == [pcp[c].list EXCEPT ![t] = @ \union (r[2] \X {t})]
         IN  /\ zone' = r[1]
             /\ \E e \in l[t] :
                  /\ pcp' = [pcp EXCEPT ![c] =
                                [list  |-> [l EXCEPT ![t] = @ \ {e}],
                                 count |-> @.count + Cardinality(r[2]) - 1]]
                  /\ used' = Grant(e[1], 0)
                  /\ prep_new_page(e[1])
    /\ UNCHANGED doing

\* Of several pages: the block is taken under the lock ...
AllocBlock(k, o, t) ==
    /\ doing[k] = Idle
    /\ \E r \in rmqueue(zone, o, t) :
         /\ zone' = r[1]
         /\ Begin(k, [op |-> "alloc", page |-> r[2], order |-> o])
    /\ UNCHANGED <<pcp, used, linked>>

\* ... and the counter lowered after it
AllocFinish(k) ==
    /\ doing[k].op = "alloc"
    /\ zone' = [zone EXCEPT !.free = @ - 2^doing[k].order]
    /\ used' = Grant(doing[k].page, doing[k].order)
    /\ prep_new_page(doing[k].page)
    /\ End(k)
    /\ UNCHANGED pcp

\* split_page: a block becomes pages that are freed one by one
SplitPage(p) ==
    /\ used[p] > 0
    /\ used' = [q \in DOMAIN used \union Span(p, used[p]) |->
                  IF q \in Span(p, used[p]) THEN 0 ELSE used[q]]
    /\ UNCHANGED <<zone, pcp, linked, doing>>

----------------------------------------------------------------------------
(* Watermarks.  The mark is that of the caller after ALLOC_HIGH and        *)
(* ALLOC_HARDER; lowmem_reserve is 0 for the zone's own class.             *)

\* What __zone_watermark_ok leaves of free_pages before order o is looked at
FreeAbove(z, order, o) ==
    z.free - (2^order + 1) - MapThenSumSet(LAMBDA j : z.nr[j] * 2^j, 0..o - 1)

zone_watermark_ok(z, order, mark) ==
    \A o \in 0..order : FreeAbove(z, order, o) > mark \div 2^o

\* split_free_page: compaction takes a whole free block, low_wmark_pages(zone)
\* being 0, and not from a reserved or isolated pageblock.  Unlike an
\* allocation it does not go through prep_new_page.
SplitFreePage(p) ==
    LET o == zone.order[p]
    IN  /\ PageBuddy(zone, p) /\ zone.type[BlockOf(p)] \notin {"RESERVE", "ISOLATE"}
        /\ zone_watermark_ok(zone, 0, 2^o)
        /\ LET z  == [DelBlock(zone, p) EXCEPT !.free = @ - 2^o]
               bs == {BlockOf(q) : q \in Span(p, o) \ {p + 2^o - 1}}
           IN  zone' = IF o >= PageblockOrder - 1 THEN SetType(z, bs, "MOVABLE") ELSE z
        /\ used' = [q \in DOMAIN used \union Span(p, o) |->
                      IF q \in Span(p, o) THEN 0 ELSE used[q]]
        /\ UNCHANGED <<pcp, linked, doing>>

----------------------------------------------------------------------------
(* Types of pageblocks. *)

\* setup_zone_migrate_reserve for n blocks, when min_free_kbytes changes.
\* The first blocks that are reserved or movable make up the reserve.
SetupReserve(n) ==
    LET able == {b \in Blocks : zone.type[b] \in {"RESERVE", "MOVABLE"}}
        keep == {b \in able : Cardinality({a \in able : a < b}) < n}
        take == {b \in keep : zone.type[b] = "MOVABLE"}
        back == {b \in able \ keep : zone.type[b] = "RESERVE"}
        Turn(z, bs, t) == FoldSet(LAMBDA b, y : move_freepages_block(y, b, t),
                                  SetType(z, bs, t), bs)
    IN  /\ zone' = Turn(Turn(zone, take, "RESERVE"), back, "MOVABLE")
        /\ UNCHANGED <<pcp, used, linked, doing>>

\* set_migratetype_isolate.  Which users of a block can be moved away is not
\* modelled.  The drain_all_pages that follows is DrainPages.
SetIsolate(b) ==
    /\ Isolation /\ zone.type[b] # "ISOLATE"
    /\ zone' = move_freepages_block(SetType(zone, {b}, "ISOLATE"), b, "ISOLATE")
    /\ UNCHANGED <<pcp, used, linked, doing>>

UnsetIsolate(b) ==
    /\ zone.type[b] = "ISOLATE"
    /\ zone' = move_freepages_block(SetType(zone, {b}, "MOVABLE"), b, "MOVABLE")
    /\ UNCHANGED <<pcp, used, linked, doing>>

\* __link_page: a page a task has mapped enters a chain
Link(p) ==
    /\ \E h \in DOMAIN used : /\ p \in Span(h, used[h])
                              /\ used[h] = 0 \/ LinkTails
    /\ linked' = linked \union {p}
    /\ UNCHANGED <<zone, pcp, used, doing>>

Next ==
    \/ \E k \in Tasks, p \in DOMAIN used : FreeBegin(k, p)
    \/ \E k \in Tasks : FreeOne(k)
    \/ \E k \in Tasks, c \in CPUs : FreeHotCold(k, c)
    \/ \E c \in CPUs : DrainPages(c)
    \/ \E c \in CPUs : DrainZonePages(c)
    \/ \E k \in Tasks, c \in CPUs, t \in AllocTypes : AllocPage(k, c, t)
    \/ \E k \in Tasks, o \in Orders \ {0}, t \in AllocTypes : AllocBlock(k, o, t)
    \/ \E k \in Tasks : AllocFinish(k)
    \/ \E p \in DOMAIN used : SplitPage(p)
    \/ \E p \in Pages : SplitFreePage(p)
    \/ \E n \in 0..MaxReserve : SetupReserve(n)
    \/ \E b \in Blocks : SetIsolate(b)
    \/ \E b \in Blocks : UnsetIsolate(b)
    \/ \E p \in Linkable : Link(p)

Spec == Init /\ [][Next]_vars

----------------------------------------------------------------------------
(* Properties. *)

TypeOK ==
    /\ zone.list \in [Orders -> [Types -> SUBSET Pages]]
    /\ zone.order \in [Pages -> Orders \union {NoOrder}]
    /\ zone.nr \in [Orders -> Int]
    /\ zone.type \in [Blocks -> Types]
    /\ zone.free \in Int
    /\ \A c \in CPUs : /\ pcp[c].list \in [PcpTypes -> SUBSET (Pages \X Types)]
                       /\ pcp[c].count \in Int
    /\ DOMAIN used \subseteq Pages
    /\ \A p \in DOMAIN used : used[p] \in Orders
    /\ linked \subseteq Pages
    /\ \A k \in Tasks : doing[k].op \in {"idle", "free", "alloc"}

FreeHeads(z) == {p \in Pages : PageBuddy(z, p)}
Busy         == {k \in Tasks : doing[k].op # "idle"}

InPcp(p)     == {<<c, t>> \in CPUs \X PcpTypes : \E e \in pcp[c].list[t] : e[1] = p}

\* Every page is in exactly one place: in one free block, once on the lists
\* of one processor, with one user, or in the hands of one task.  No order of
\* frees, merges, splits and moves between lists loses a page or hands it out
\* twice.
EachPageOnce ==
    \A p \in Pages :
        Cardinality({h \in FreeHeads(zone) : p \in Span(h, zone.order[h])})
      + Cardinality({h \in DOMAIN used : p \in Span(h, used[h])})
      + Cardinality({k \in Busy : p \in Span(doing[k].page, doing[k].order)})
      + Cardinality(InPcp(p)) = 1

\* The flag and order kept in a page agree with the list it is on, although a
\* block changes lists when its pageblock changes type and neither the flag
\* nor the order is written then.
FlagsMatchLists ==
    \A p \in Pages :
        {<<o, t>> \in Orders \X Types : p \in zone.list[o][t]} \in
            (IF PageBuddy(zone, p) THEN {{<<zone.order[p], t>>} : t \in Types}
             ELSE {{}})

\* nr_free, NR_FREE_PAGES and the count of each processor's lists are exact,
\* except that NR_FREE_PAGES is too high by the blocks whose allocation has
\* not lowered it yet.
CountersExact ==
    LET owed == MapThenSumSet(LAMBDA k : 2^doing[k].order,
                              {k \in Tasks : doing[k].op = "alloc"})
    IN  /\ \A o \in Orders :
             zone.nr[o] = Cardinality({p \in Pages : zone.order[p] = o})
        /\ zone.free - owed = MapThenSumSet(LAMBDA p : 2^zone.order[p], FreeHeads(zone))
        /\ \A c \in CPUs : pcp[c].count = Cardinality(OnLists(pcp[c].list))

\* Two free buddies never stay apart, whatever path they came back by.
Coalesced ==
    \A p \in FreeHeads(zone) :
        \/ zone.order[p] = MaxOrder - 1
        \/ ~ page_is_buddy(zone, BuddyOf(p, zone.order[p]), zone.order[p])

\* The free lists under any sequence of frees, merges, splits, steals and moves:
\* flags and lists agree, the counters are exact, and buddies merge
\* (__free_one_page, __rmqueue, move_freepages).
FreeListsSound == TypeOK /\ FlagsMatchLists /\ CountersExact /\ Coalesced

\* The hook keeps its promise for single pages: a page that nobody uses is in
\* no chain, so the next user does not find it there and no chain walk
\* reaches a page that has a new owner.
FreeIsUnlinked ==
    \A p \in linked : \E h \in DOMAIN used : p \in Span(h, used[h])

=============================================================================
