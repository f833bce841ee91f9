------------------------------- MODULE Kswapd -------------------------------
(***************************************************************************)
(* Memory pressure in one node: the slow path of the page allocator        *)
(* (Linux/page_alloc.c), direct reclaim, and kswapd, the thread that       *)
(* reclaims in the background (Linux/vmscan.c).                            *)
(*                                                                         *)
(* A zone is the numbers of its free blocks of each order, of the pages on *)
(* its LRU lists and, implicitly, of the pages in use that are on none.    *)
(* What reclaim makes of the pages it scans is left open: PageAllocator    *)
(* and LinkedLru model how pages are freed and how lists are scanned.      *)
(*                                                                         *)
(* A task checks a watermark in one step and takes the page in another.    *)
(* kswapd reads its request, clears it, queues itself, tests the zones and *)
(* sleeps in separate steps, and scans one zone in a step; it marks a zone *)
(* unreclaimable in a step of its own, because the test before it is not   *)
(* under a lock.                                                           *)
(***************************************************************************)
EXTENDS Integers, FiniteSets, FiniteSetsExt

CONSTANTS
    Tasks,          \* tasks that allocate
    NZones,         \* zones are 0 .. NZones - 1, as in pgdat->node_zones
    MaxOrder,       \* orders are 0 .. MaxOrder - 1
    Present,        \* zone -> zone->present_pages
    Wmark,          \* zone -> [min, low, high]
    LowmemReserve,  \* zone -> class zone -> zone->lowmem_reserve
    DefPriority,    \* DEF_PRIORITY
    SwapCluster,    \* SWAP_CLUSTER_MAX
    ScanFactor,     \* a zone is unreclaimable after that many full scans (6)
    CostlyOrder,    \* PAGE_ALLOC_COSTLY_ORDER
    MaxLru,         \* bound: pages on the LRU lists of a zone
    Kinds           \* the requests

Zones  == 0..NZones - 1
Orders == 0..MaxOrder - 1

ASSUME NodeAssumption ==
    /\ NZones \in Nat \ {0}
    /\ MaxOrder \in Nat \ {0}
    /\ DefPriority \in Nat
    /\ SwapCluster \in Nat \ {0}
    /\ ScanFactor \in Nat \ {0}
    /\ CostlyOrder \in Nat
    /\ MaxLru \in [Zones -> Nat]
    /\ Present \in [Zones -> Nat \ {0}]
    /\ LowmemReserve \in [Zones -> [Zones -> Nat]]
    /\ \A z \in Zones : \A cz \in 0..z : LowmemReserve[z][cz] = 0
    /\ Wmark \in [Zones -> [{"min", "low", "high"} -> Nat]]
    /\ \A z \in Zones : /\ Wmark[z].min <= Wmark[z].low
                        /\ Wmark[z].low <= Wmark[z].high
    /\ Kinds \subseteq [order : Orders, top : Zones, wait : BOOLEAN, high : BOOLEAN,
                        fs : BOOLEAN, noretry : BOOLEAN, nofail : BOOLEAN,
                        memalloc : BOOLEAN]

VARIABLES
    zone,   \* zone -> [nr, lru, scanned, saved, dead]: free_area[].nr_free, the
            \* pages on the LRU lists, pages_scanned, nr_saved_scan and
            \* all_unreclaimable
    want,   \* pgdat->kswapd_max_order and classzone_idx
    queued, \* kswapd is on kswapd_wait and would sleep
    k,      \* kswapd's place and locals
    task,   \* per task: its place in the allocator and its locals
    oom,    \* zones whose OOM lock is held
    unmet   \* history: zones wakeup_kswapd found below their low watermark, up
            \* to the time they are above it or unreclaimable

vars == <<zone, want, queued, k, task, oom, unmet>>

Idle == [pc |-> "idle"]

----------------------------------------------------------------------------
(* Zones. *)

\* The pages of a block, 1 << order
Size[o \in Nat] == IF o = 0 THEN 1 ELSE 2 * Size[o - 1]

\* The pages in the free blocks below each order, added up order by order
PagesBelow(nr) ==
    LET below[o \in 0..MaxOrder] ==
            IF o = 0 THEN 0 ELSE below[o - 1] + nr[o - 1] * Size[o - 1]
    IN  below

PagesIn(nr) == PagesBelow(nr)[MaxOrder]
Free(zn)    == PagesIn(zn.nr)
Pinned(z)   == Present[z] - Free(zone[z]) - zone[z].lru

Plain  == [high |-> FALSE, harder |-> FALSE]

\* __zone_watermark_ok
WatermarkOk(zn, z, order, mark, cz, flags) ==
    LET half    == IF flags.high THEN mark - mark \div 2 ELSE mark
        min     == IF flags.harder THEN half - half \div 4 ELSE half
        left[o \in 0..order] ==
            IF o = 0 THEN Free(zn) - Size[order] - 1
                     ELSE left[o - 1] - zn.nr[o - 1] * Size[o - 1]
    IN  /\ left[0] > min + LowmemReserve[z][cz]
        /\ \A o \in 1..order : left[o] > min \div Size[o]

AtHigh(zn, z, order, cz) == WatermarkOk(zn, z, order, Wmark[z].high, cz, Plain)
AtLow(zn, z, order)      == WatermarkOk(zn, z, order, Wmark[z].low, 0, Plain)

\* A block taken at order o is split off the smallest one that is large enough.
Blocks(zn, o)    == {p \in o..MaxOrder - 1 : zn.nr[p] > 0}
TakeBlock(zn, o) ==
    LET p == Min(Blocks(zn, o))
    IN  [zn EXCEPT !.nr = [q \in Orders |->
            IF q = p THEN @[q] - 1 ELSE IF q \in o..p - 1 THEN @[q] + 1 ELSE @[q]]]

\* The zone after n of its pages have been freed one by one: blocks may merge and
\* never break up (PageAllocator), and all_unreclaimable and pages_scanned are
\* cleared.
Freed(zn, n) ==
    IF n = 0 THEN {zn}
    ELSE {[zn EXCEPT !.nr = f, !.scanned = 0, !.dead = FALSE] :
            f \in {g \in [Orders -> 0..Free(zn) + n] :
                      /\ PagesIn(g) = Free(zn) + n
                      /\ \A o \in Orders : PagesIn(g) - PagesBelow(g)[o]
                                                >= Free(zn) - PagesBelow(zn.nr)[o]}}

\* zone_reclaimable
Reclaimable(zn) == zn.scanned < zn.lru * ScanFactor

\* pages_scanned, capped where it no longer matters
Scanned(zn, n) == [zn EXCEPT !.scanned = Min({@ + n, ScanFactor * zn.lru})]

\* get_scan_count: the whole list at priority 0, at a lower urgency a part of it,
\* down to nothing.  nr_scan_try_batch saves small numbers up.
ScanCounts(zn, prio) ==
    {IF zn.saved + n >= SwapCluster THEN [nr |-> Min({zn.saved + n, zn.lru}), saved |-> 0]
     ELSE [nr |-> 0, saved |-> zn.saved + n]
     : n \in IF prio = 0 THEN {zn.lru} ELSE 0..zn.lru}

\* What shrink_zone and shrink_slab may make of a zone: [zn, got, slab].  Any of the
\* pages scanned may be freed.  The shrinkers free at most one page, which was on no
\* list.
Shrunk(zn, pinned, prio) ==
    LET Outcomes == {o \in [scan : ScanCounts(zn, prio), got : 0..zn.lru, slab : {0, 1}] :
                        o.got <= o.scan.nr /\ o.slab <= pinned}
        After(o) == {[zn |-> y, got |-> o.got, slab |-> o.slab] :
                        y \in Freed([Scanned(zn, o.scan.nr) EXCEPT !.lru = @ - o.got,
                                                                  !.saved = o.scan.saved],
                                    o.got + o.slab)}
    IN  UNION {After(o) : o \in Outcomes}

\* The zones change, and what is unmet is looked at again.
Become(new, asked) ==
    /\ zone'  = new
    /\ unmet' = {z \in unmet \union asked : ~AtLow(new[z], z, 0) /\ ~new[z].dead}

----------------------------------------------------------------------------
Init ==
    /\ zone \in {z \in [Zones -> [nr : [Orders -> 0..Max({Present[y] : y \in Zones})],
                                  lru : {0}, scanned : {0}, saved : {0},
                                  dead : {FALSE}]] :
                    \A y \in Zones : /\ Free(z[y]) = Present[y]
                                     /\ \A o \in 0..MaxOrder - 2 : z[y].nr[o] <= 1}
    /\ want = [order |-> 0, cz |-> NZones - 1]
    /\ queued = FALSE
    /\ k = [pc |-> "read", order |-> 0, cz |-> NZones - 1, new |-> want,
            prio |-> 0, i |-> 0, end |-> 0, ok |-> TRUE, bal |-> 0, got |-> 0,
            kill |-> FALSE, early |-> FALSE]
    /\ task = [t \in Tasks |-> Idle]
    /\ oom = {} /\ unmet = {}

NoZoneChange == UNCHANGED <<zone, unmet>>

----------------------------------------------------------------------------
(* A task in the allocator. *)

Goto(t, r)    == task' = [task EXCEPT ![t] = r]
Walk(r, s)    == [r EXCEPT !.pc = "scan", !.stage = s, !.zone = r.kind.top]
At(t, pc)     == task[t].pc = pc

\* gfp_to_alloc_flags: what a request may take in the slow path
AllocFlags(r) ==
    IF r.stage \in {"slow", "reclaimed"}
    THEN [high |-> r.kind.high, harder |-> ~r.kind.wait]
    ELSE Plain

MarkOf(r, z) ==
    IF r.stage = "first" THEN Wmark[z].low
    ELSE IF r.stage = "oom" THEN Wmark[z].high ELSE Wmark[z].min

NoWatermarks(r) == r.stage = "desperate" \/ (r.stage = "reclaimed" /\ r.nowm)

Passes(r, z) ==
    \/ NoWatermarks(r)
    \/ WatermarkOk(zone[z], z, r.kind.order, MarkOf(r, z), r.kind.top, AllocFlags(r))

\* should_alloc_retry
ShouldRetry(kind) == ~kind.noretry /\ (kind.order <= CostlyOrder \/ kind.nofail)

\* rebalance, for a task that may not use the reserves or has not found a page there
Balance(r) ==
    IF ~r.kind.wait \/ r.kind.memalloc THEN Idle
    ELSE [r EXCEPT !.pc = "reclaim", !.stage = "slow", !.zone = r.kind.top,
                   !.prio = DefPriority]

\* Where a walk that found no page leads to
AfterWalk(r) ==
    CASE r.stage = "first"     -> [r EXCEPT !.pc = "wake"]
      [] r.stage = "slow"      -> IF r.nowm THEN Walk(r, "desperate") ELSE Balance(r)
      [] r.stage = "desperate" -> IF r.kind.nofail THEN Walk(r, "desperate")
                                  ELSE Balance(r)
      [] r.stage = "reclaimed" -> IF ShouldRetry(r.kind) THEN Balance(r) ELSE Idle
      [] r.stage = "oom"       -> [r EXCEPT !.pc = "blamo"]

\* get_page_from_freelist: find a zone above the watermark, ...
Search(t, r) ==
    LET zs == {z \in 0..r.zone : Passes(r, z)}
    IN  Goto(t, IF zs = {} THEN AfterWalk(r) ELSE [r EXCEPT !.pc = "take", !.zone = Max(zs)])

\* __alloc_pages_nodemask begins with a walk of the zones, ...
Request(t, kind) ==
    /\ At(t, "idle")
    /\ Search(t, [pc |-> "scan", stage |-> "first", kind |-> kind, zone |-> kind.top,
                  nowm |-> FALSE, prio |-> 0, got |-> 0])
    /\ NoZoneChange /\ UNCHANGED <<want, queued, k, oom>>

\* ... and the slow path walks them again and again.
Scan(t) ==
    /\ At(t, "scan")
    /\ Search(t, task[t])
    /\ NoZoneChange /\ UNCHANGED <<want, queued, k, oom>>

\* Faulty variant: the zones stay locked when the last walk finds a page.
Unlock_Killed(r) == IF r.pc = "blamo" THEN oom \ (0..r.kind.top) ELSE oom

\* clear_zonelist_oom, on the way out of __alloc_pages_may_oom
Unlock(r) == IF r.stage = "oom" THEN oom \ (0..r.kind.top) ELSE oom

\* ... and take a block from it, or go on to the next zone.  A page of order 0 may
\* become a page of the LRU lists.
TakePage(t) ==
    LET r == task[t]
        z == r.zone
    IN  /\ At(t, "take")
        /\ IF Blocks(zone[z], r.kind.order) = {}
           THEN /\ Goto(t, [r EXCEPT !.pc = "scan", !.zone = z - 1])
                /\ NoZoneChange /\ UNCHANGED oom
           ELSE /\ \E n \in {0, 1} :
                      /\ n = 1 => r.kind.order = 0 /\ zone[z].lru < MaxLru[z]
                      /\ LET b == TakeBlock(zone[z], r.kind.order)
                         IN  Become([zone EXCEPT ![z] = [b EXCEPT !.lru = @ + n]], {})
                /\ oom' = Unlock(r)
                /\ Goto(t, Idle)
        /\ UNCHANGED <<want, queued, k>>

\* Faulty variant: kswapd is left alone when it has a request of that order.
WakeAllKswapd_OnlyRaised(t) ==
    LET r   == task[t]
        low == {z \in 0..r.kind.top : ~AtLow(zone[z], z, r.kind.order)}
    IN  /\ At(t, "wake")
        /\ want' = IF want.order >= r.kind.order THEN want
                   ELSE [order |-> r.kind.order, cz |-> Min({want.cz, r.kind.top})]
        /\ queued' = (queued /\ want' = want)
        /\ Goto(t, [Walk(r, "slow") EXCEPT !.nowm = r.kind.memalloc])
        /\ Become(zone, {z \in low : ~AtLow(zone[z], z, 0)})
        /\ UNCHANGED <<k, oom>>

\* restart: wake_all_kswapd, with wakeup_kswapd of each zone, and the flags of
\* the slow path
WakeAllKswapd(t) ==
    LET r   == task[t]
        low == {z \in 0..r.kind.top : ~AtLow(zone[z], z, r.kind.order)}
    IN  /\ At(t, "wake")
        /\ want' = IF want.order >= r.kind.order THEN want
                   ELSE [order |-> r.kind.order, cz |-> Min({want.cz, r.kind.top})]
        /\ queued' = (queued /\ low = {})
        /\ Goto(t, [Walk(r, "slow") EXCEPT !.nowm = r.kind.memalloc])
        /\ Become(zone, {z \in low : ~AtLow(zone[z], z, 0)})
        /\ UNCHANGED <<k, oom>>

\* do_try_to_free_pages, one zone of one priority of shrink_zones in a step
DirectReclaim(t) ==
    LET r == task[t]
        z == r.zone
    IN  /\ At(t, "reclaim")
        /\ \E x \in IF zone[z].dead /\ r.prio # DefPriority
                    THEN {[zn |-> zone[z], got |-> 0, slab |-> 0]}
                    ELSE Shrunk(zone[z], Pinned(z), r.prio) :
              LET got == Min({r.got + x.got + x.slab, SwapCluster})
              IN  /\ Become([zone EXCEPT ![z] = x.zn], {})
                  /\ Goto(t, IF z > 0 THEN [r EXCEPT !.zone = z - 1, !.got = got]
                             ELSE IF got = SwapCluster \/ r.prio = 0
                             THEN [r EXCEPT !.pc = "result", !.got = got]
                             ELSE [r EXCEPT !.zone = r.kind.top, !.got = got,
                                            !.prio = @ - 1])
        /\ UNCHANGED <<want, queued, k, oom>>

\* The answer of do_try_to_free_pages and what the slow path makes of it
ReclaimResult(t) ==
    LET r        == task[t]
        progress == r.got > 0 \/ \E z \in 0..r.kind.top : Reclaimable(zone[z])
        done     == [r EXCEPT !.got = 0, !.prio = 0]
    IN  /\ At(t, "result")
        /\ Goto(t, IF progress THEN Walk(done, "reclaimed")
                   ELSE IF r.kind.fs /\ ~r.kind.noretry THEN [done EXCEPT !.pc = "oom"]
                   ELSE IF ShouldRetry(r.kind) THEN Balance(done) ELSE Idle)
        /\ NoZoneChange /\ UNCHANGED <<want, queued, k, oom>>

\* The OOM killer does not help a costly order or a request for low memory.
OomHelps(kind) == kind.nofail \/ (kind.order <= CostlyOrder /\ kind.top = NZones - 1)
AfterOom(r)    == IF OomHelps(r.kind) THEN [r EXCEPT !.pc = "wake"] ELSE Idle

\* __alloc_pages_may_oom: lock the zones and walk them a last time, ...
OomLock(t) ==
    LET r == task[t]
    IN  /\ At(t, "oom")
        /\ IF oom \intersect (0..r.kind.top) # {}
           THEN Goto(t, AfterOom(r)) /\ UNCHANGED oom
           ELSE Goto(t, Walk(r, "oom")) /\ oom' = oom \union (0..r.kind.top)
        /\ NoZoneChange /\ UNCHANGED <<want, queued, k>>

\* ... and kill a process, which is not modelled: its pages are released in time
OutOfMemory(t) ==
    LET r == task[t]
    IN  /\ At(t, "blamo")
        /\ oom' = Unlock(r)
        /\ Goto(t, AfterOom(r))
        /\ NoZoneChange /\ UNCHANGED <<want, queued, k>>

\* Someone frees a page, of the LRU lists or not.
Release(z, lru) ==
    /\ IF lru = 1 THEN zone[z].lru > 0 ELSE Pinned(z) > 0
    /\ \E y \in Freed([zone[z] EXCEPT !.lru = @ - lru], 1) :
          Become([zone EXCEPT ![z] = y], {})
    /\ UNCHANGED <<want, queued, k, task, oom>>

----------------------------------------------------------------------------
(* kswapd. *)

NoTaskChange == UNCHANGED <<task, oom>>
Clear        == [order |-> 0, cz |-> NZones - 1]

PresentIn(S) == MapThenSumSet(LAMBDA z : Present[z], S)

\* pgdat_balanced
PgdatBalanced(pages, cz) == pages > PresentIn(0..cz) \div 4

\* Faulty variant: a zone that is given up counts as out of balance.
sleeping_prematurely_DeadCounts(order, cz) ==
    LET good == {z \in Zones : AtHigh(zone[z], z, order, cz)}
    IN  IF order > 0
        THEN PgdatBalanced(PresentIn(good), cz)
        ELSE good # Zones

\* sleeping_prematurely, after a sleep that was not cut short.  For an order above
\* 0 the code returns what pgdat_balanced returns.
sleeping_prematurely(order, cz) ==
    LET good == {z \in Zones : zone[z].dead \/ AtHigh(zone[z], z, order, cz)}
    IN  IF order > 0
        THEN PgdatBalanced(PresentIn(good), cz)
        ELSE good # Zones

\* balance_pgdat: loop_again
Again(x) == [x EXCEPT !.pc = "find", !.prio = DefPriority, !.got = 0]

\* kswapd: read the request, ...
KRead ==
    /\ k.pc \in {"read", "request"}
    /\ k' = [k EXCEPT !.pc = IF @ = "read" THEN "clear" ELSE "clear2", !.new = want]
    /\ NoZoneChange /\ NoTaskChange /\ UNCHANGED <<want, queued>>

\* ... clear it, and balance or try to sleep
KClear ==
    /\ k.pc \in {"clear", "clear2"}
    /\ want' = Clear
    /\ k' = IF k.pc = "clear2" \/ k.order < k.new.order \/ k.cz > k.new.cz
            THEN Again([k EXCEPT !.order = k.new.order, !.cz = k.new.cz, !.new = Clear])
            ELSE [k EXCEPT !.pc = "prepare", !.new = Clear]
    /\ NoZoneChange /\ NoTaskChange /\ UNCHANGED queued

\* kswapd_try_to_sleep: prepare_to_wait, ...
KPrepare ==
    /\ k.pc \in {"prepare", "prepare2"}
    /\ queued' = TRUE
    /\ k' = [k EXCEPT !.pc = IF @ = "prepare" THEN "check" ELSE "check2"]
    /\ NoZoneChange /\ NoTaskChange /\ UNCHANGED want

\* ... a short sleep if the zones allow it, ...
KCheck ==
    /\ k.pc = "check"
    /\ k' = [k EXCEPT !.pc = IF sleeping_prematurely(k.order, k.cz) THEN "check2"
                             ELSE "nap"]
    /\ NoZoneChange /\ NoTaskChange /\ UNCHANGED <<want, queued>>

\* ... which ends with the timeout or early, when kswapd has been woken, ...
KNap ==
    /\ k.pc = "nap"
    /\ k' = [k EXCEPT !.pc = "prepare2", !.early = ~queued]
    /\ queued' = FALSE
    /\ NoZoneChange /\ NoTaskChange /\ UNCHANGED want

\* ... and a sleep until it is woken, which begins at once unless it was woken since
\* it queued itself
KCheck2 ==
    /\ k.pc = "check2"
    /\ IF k.early \/ sleeping_prematurely(k.order, k.cz)
       THEN /\ k' = [k EXCEPT !.pc = "request", !.early = FALSE]
            /\ queued' = FALSE
       ELSE /\ k' = [k EXCEPT !.pc = "asleep"]
            /\ UNCHANGED queued
    /\ NoZoneChange /\ NoTaskChange /\ UNCHANGED want

KWoken ==
    /\ k.pc = "asleep" /\ ~queued
    /\ k' = [k EXCEPT !.pc = "request"]
    /\ NoZoneChange /\ NoTaskChange /\ UNCHANGED <<want, queued>>

Skipped(z) == zone[z].dead /\ k.prio # DefPriority

\* back to kswapd
Done(x) == [x EXCEPT !.pc = "read", !.cz = x.end, !.prio = 0, !.got = 0, !.ok = TRUE,
                     !.bal = 0, !.end = 0]

AllDone(x) == x.ok \/ (x.order > 0 /\ PgdatBalanced(x.bal, x.cz))

\* out: another round, at order 0 if this one has reclaimed little, or done
Out(x) ==
    IF ~AllDone(x) THEN Again([x EXCEPT !.order = IF x.got < SwapCluster THEN 0 ELSE @])
    ELSE IF x.order > 0 THEN [x EXCEPT !.pc = "confirm"] ELSE Done(x)

\* the next zone or, after the last one, the next priority
NextZone(x) ==
    IF x.i < x.end THEN [x EXCEPT !.i = @ + 1, !.pc = "shrink"]
    ELSE LET y == [x EXCEPT !.i = 0]
         IN  IF AllDone(y) \/ y.got = SwapCluster THEN Out(y)
             ELSE IF y.prio = 0 THEN Out([y EXCEPT !.prio = -1])
             ELSE [y EXCEPT !.pc = "find", !.prio = @ - 1]

\* the highest zone that needs scanning
KFind ==
    LET low == {z \in Zones : ~Skipped(z) /\ ~AtHigh(zone[z], z, k.order, 0)}
    IN  /\ k.pc = "find"
        /\ k' = IF low = {}
                THEN Out([k EXCEPT !.ok = TRUE, !.bal = 0])
                ELSE [k EXCEPT !.pc = "shrink", !.ok = TRUE, !.bal = 0, !.i = 0,
                               !.end = Max(low), !.cz = Max(low)]
        /\ NoZoneChange /\ NoTaskChange /\ UNCHANGED <<want, queued>>

\* one zone: shrink_zone, unless it has plenty, and shrink_slab
KShrink ==
    LET z == k.i
    IN  /\ k.pc = "shrink"
        /\ IF Skipped(z) THEN k' = NextZone(k) /\ NoZoneChange
           ELSE \E x \in Shrunk(zone[z], Pinned(z), k.prio) :
                  LET got == Min({k.got + x.got + x.slab, SwapCluster})
                  IN  /\ WatermarkOk(zone[z], z, k.order, 8 * Wmark[z].high, k.end, Plain)
                            => x.got = 0 /\ x.zn.scanned \in {0, zone[z].scanned}
                      /\ Become([zone EXCEPT ![z] = x.zn], {})
                      /\ k' = IF x.zn.dead THEN NextZone([k EXCEPT !.got = got])
                              ELSE [k EXCEPT !.got = got, !.pc = "mark",
                                             !.kill = x.slab = 0 /\ ~Reclaimable(x.zn)]
        /\ NoTaskChange /\ UNCHANGED <<want, queued>>

\* give the zone up, if the test said so, and see whether it is balanced
KMark ==
    LET z == k.i
        y == [zone[z] EXCEPT !.dead = @ \/ k.kill]
    IN  /\ k.pc = "mark"
        /\ Become([zone EXCEPT ![z] = y], {})
        /\ k' = NextZone(IF ~AtHigh(y, z, k.order, k.end)
                         THEN [k EXCEPT !.kill = FALSE, !.ok = FALSE]
                         ELSE [k EXCEPT !.kill = FALSE,
                                  !.bal = @ + IF z <= k.cz THEN Present[z] ELSE 0])
        /\ NoTaskChange /\ UNCHANGED <<want, queued>>

\* before it sleeps over a high order, all zones must be balanced for order 0
KConfirm ==
    /\ k.pc = "confirm"
    /\ k' = IF \A z \in 0..k.end : Skipped(z) \/ AtHigh(zone[z], z, 0, 0)
            THEN Done(k) ELSE Again([k EXCEPT !.order = 0])
    /\ NoZoneChange /\ NoTaskChange /\ UNCHANGED <<want, queued>>

----------------------------------------------------------------------------
Kswapd == \/ KRead \/ KClear \/ KPrepare \/ KCheck \/ KNap \/ KCheck2 \/ KWoken
          \/ KFind \/ KShrink \/ KMark \/ KConfirm

Next ==
    \/ \E t \in Tasks, kind \in Kinds : Request(t, kind)
    \/ \E t \in Tasks : Scan(t)
    \/ \E t \in Tasks : TakePage(t)
    \/ \E t \in Tasks : WakeAllKswapd(t)
    \/ \E t \in Tasks : DirectReclaim(t)
    \/ \E t \in Tasks : ReclaimResult(t)
    \/ \E t \in Tasks : OomLock(t)
    \/ \E t \in Tasks : OutOfMemory(t)
    \/ \E z \in Zones, lru \in {0, 1} : Release(z, lru)
    \/ KRead \/ KClear \/ KPrepare \/ KCheck \/ KNap \/ KCheck2 \/ KWoken
    \/ KFind \/ KShrink \/ KMark \/ KConfirm

Spec == Init /\ [][Next]_vars

\* kswapd is a thread of its own and its timeouts expire.
FairSpec == Spec /\ WF_vars(Kswapd)

----------------------------------------------------------------------------
(* Properties. *)

TypeOK ==
    /\ \A z \in Zones :
          /\ zone[z].nr \in [Orders -> Nat]
          /\ zone[z].lru \in 0..MaxLru[z]
          /\ zone[z].scanned \in 0..MaxLru[z] * ScanFactor
          /\ zone[z].saved \in 0..SwapCluster - 1
          /\ zone[z].dead \in BOOLEAN
          /\ Pinned(z) >= 0
    /\ want \in [order : Orders, cz : Zones]
    /\ queued \in BOOLEAN
    /\ k.order \in Orders /\ k.cz \in Zones /\ k.end \in Zones /\ k.i \in Zones
    /\ k.prio \in -1..DefPriority /\ k.got \in 0..SwapCluster
    /\ DOMAIN task = Tasks
    /\ oom \subseteq Zones /\ unmet \subseteq Zones

\* No wakeup is lost: while kswapd sleeps after a test at order 0, no zone that
\* wakeup_kswapd (vmscan.c:2698) found below its low watermark is still there,
\* unless it is unreclaimable.  The order of prepare_to_wait, the test of the
\* watermarks and schedule against waitqueue_active makes it so.
NoLostWakeup == k.pc = "asleep" /\ queued /\ k.order = 0 => unmet = {}

\* The OOM lock of a zone is held exactly while one task, and only one, is past
\* try_set_zonelist_oom: no path out of __alloc_pages_may_oom keeps it.
OomLockOwned ==
    \A z \in Zones :
        LET inside == {t \in Tasks : /\ task[t].pc \in {"scan", "take", "blamo"}
                                     /\ task[t].stage = "oom"
                                     /\ task[t].kind.top >= z}
        IN  Cardinality(inside) = IF z \in oom THEN 1 ELSE 0

\* Of all the ways out of __alloc_pages_may_oom none keeps the OOM lock and none
\* gives back another task's, and the zones' counts add up throughout.
OomLockSound == TypeOK /\ OomLockOwned

\* When no task allocates any more, kswapd goes to sleep and stays there: it does
\* not loop in balance_pgdat, nor between it and sleeping_prematurely, over zones
\* that cannot be balanced.
KswapdSettles ==
    <>[](\A t \in Tasks : task[t].pc = "idle") => <>[](k.pc = "asleep")
=============================================================================
