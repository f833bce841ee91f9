----------------------------- MODULE BootMemory -----------------------------
(***************************************************************************)
(* How the memory of the machine becomes zones (Linux/page_alloc.c): the   *)
(* architecture reports ranges of page frames, which early_node_map keeps, *)
(* and takes some back; the command line may ask for a movable zone; then  *)
(* free_area_init_nodes divides the nodes into zones, and the watermarks   *)
(* and reserves of the zones are set, at the end of boot and whenever a    *)
(* sysctl changes what they depend on.                                     *)
(*                                                                         *)
(* All this runs on one processor, step by step.  What makes it hard is    *)
(* that the length of a zone, its holes and its first page are computed    *)
(* apart, each from its own walk of the map.                               *)
(***************************************************************************)
EXTENDS Integers, FiniteSets, FiniteSetsExt, SequencesExt, TLC

CONSTANTS
    NNodes,         \* nodes are 0 .. NNodes - 1, all of them online
    NZones,         \* MAX_NR_ZONES; the last zone is ZONE_MOVABLE
    MaxZonePfn,     \* zone -> where it ends at most, for the other zones
    Highmem,        \* ZONE_HIGHMEM, as a set, empty if there is no such zone
    MaxRegions,     \* MAX_ACTIVE_REGIONS
    BlockPages,     \* MAX_ORDER_NR_PAGES
    ULong,          \* an unsigned long is less than ULong
    MapPages,       \* a page of the mem_map describes that many pages
    DmaReserve,     \* dma_reserve
    MaxLowPfn,      \* the end of the memory that the boot allocator manages
    Edges,          \* bound: where ranges begin and end
    Cores,          \* bound: values of kernelcore= and movablecore=
    MinFrees,       \* bound: values of min_free_kbytes, in pages
    Ratios          \* bound: values of lowmem_reserve_ratio

Nodes   == 0..NNodes - 1
Zones   == 0..NZones - 1
Movable == NZones - 1
Fixed  == 0..NZones - 2
AnyNode == NNodes

\* What the constants must be; the module that instantiates this one assumes it.
BootAssumption ==
    /\ NNodes \in Nat \ {0}
    /\ NZones \in Nat \ {0, 1}
    /\ MaxZonePfn \in [Fixed -> Nat]
    /\ Edges \subseteq Nat
    /\ \A e \in Edges : e <= MaxZonePfn[NZones - 2] /\ 2 * e < ULong
    /\ MaxRegions \in Nat \ {0}
    /\ BlockPages \in Nat \ {0}
    /\ MapPages \in Nat \ {0}

VARIABLES
    map,    \* early_node_map up to nr_nodemap_entries: <<[nid, start, end]>>
    core,   \* [kernel, movable]: required_kernelcore, required_movablecore
    movable_zone,
    zones,  \* node -> zone -> what is known of it; empty before free_area_init_nodes
    ratio,  \* sysctl_lowmem_reserve_ratio
    ram,    \* history: node -> the frames reported and not taken back
    cut     \* history: a region was dropped because the map was full

vars == <<map, core, movable_zone, zones, ratio, ram, cut>>

Least(a, b)    == IF a < b THEN a ELSE b
Greatest(a, b) == IF a > b THEN a ELSE b
Minus(a, b)    == (a - b) % ULong
Roundup(a, b)  == ((a + b - 1) \div b) * b

----------------------------------------------------------------------------
(* The map *)

\* for_each_active_range_index_in_nid
Regions(m, n) == SelectSeq(m, LAMBDA r : n = AnyNode \/ r.nid = n)

\* __early_pfn_to_nid: -1 in a hole
PfnToNid(p) ==
    LET here == {i \in DOMAIN map : map[i].start <= p /\ p < map[i].end}
    IN  IF here = {} THEN -1 ELSE map[Min(here)].nid

Covers(r, s, e)   == s >= r.start /\ e <= r.end
Forward(r, s, e)  == s <= r.end /\ e > r.end
Backward(r, s, e) == s < r.start /\ e >= r.start

\* The regions of node n that cover the range or can be merged with it
Touching(m, n, s, e) ==
    {i \in DOMAIN m : /\ m[i].nid = n
                      /\ Covers(m[i], s, e) \/ Forward(m[i], s, e) \/ Backward(m[i], s, e)}

\* add_active_range: the first region of the node that covers the range or can be
\* merged with it decides
AddRegion(m, n, s, e) ==
    LET hits == Touching(m, n, s, e)
        i    == Min(hits)
    IN  IF hits = {}
        THEN IF Len(m) >= MaxRegions THEN m
             ELSE Append(m, [nid |-> n, start |-> s, end |-> e])
        ELSE IF Covers(m[i], s, e) THEN m
        ELSE IF Forward(m[i], s, e) THEN [m EXCEPT ![i].end = e]
        ELSE [m EXCEPT ![i].start = s]

\* remove_active_range, one region: cleared, cut off, split, or shortened in front
CutRegion(m, i, n, s, e) ==
    LET r == m[i]
    IN  IF r.nid # n THEN m
        ELSE IF r.start >= s /\ r.end <= e
             THEN [m EXCEPT ![i].start = 0, ![i].end = 0]
        ELSE IF r.start < s /\ r.end > s
             THEN LET head == [m EXCEPT ![i].end = s]
                  IN  IF r.end > e THEN AddRegion(head, n, e, r.end) ELSE head
        ELSE IF r.start >= s /\ r.end > e /\ r.start < e
             THEN [m EXCEPT ![i].start = e]
        ELSE m

\* remove_active_range: cut every region, then take out the blank ones, of which the
\* loop leaves one at the head of the map
RemoveRegions(m, n, s, e) ==
    LET step[i \in 0..Len(m)] == IF i = 0 THEN m ELSE CutRegion(step[i - 1], i, n, s, e)
        cleared == \E i \in DOMAIN m : m[i].nid = n /\ Covers([start |-> s, end |-> e],
                                                             m[i].start, m[i].end)
        done    == step[Len(m)]
    IN  IF ~cleared THEN done
        ELSE <<Head(done)>> \o SelectSeq(Tail(done), LAMBDA r : ~(r.nid = n /\ r.end = 0))

\* get_pfn_range_for_nid
RangeOf(m, n) ==
    LET rs == ToSet(Regions(m, n))
    IN  IF rs = {} THEN [start |-> 0, end |-> 0]
        ELSE [start |-> Min({r.start : r \in rs}), end |-> Max({r.end : r \in rs})]

\* __absent_pages_in_range: the holes before, between and behind the regions, and
\* whether its BUG_ON strikes
Absent(m, n, s, e) ==
    LET rs    == Regions(m, n)
        first == Least(rs[1].start, e)
        start == [prev |-> first, bug |-> FALSE, stop |-> FALSE,
                  hole |-> IF rs[1].start > s THEN Minus(first, s) ELSE 0]
        Step(a, r) ==
            LET from == Least(r.start, e)
                prev == Greatest(a.prev, s)
            IN  IF a.stop \/ a.prev >= e THEN [a EXCEPT !.stop = TRUE]
                ELSE IF from > s
                THEN [a EXCEPT !.prev = r.end, !.bug = @ \/ prev > from,
                               !.hole = @ + Minus(from, prev)]
                ELSE [a EXCEPT !.prev = r.end]
        end   == FoldLeft(Step, start, rs)
    IN  IF rs = <<>> THEN [hole |-> 0, bug |-> FALSE]
        ELSE [bug  |-> end.bug,
              hole |-> end.hole + IF e > end.prev THEN Minus(e, Greatest(s, end.prev)) ELSE 0]

----------------------------------------------------------------------------
(* ZONE_MOVABLE *)

\* find_zone_movable_pfns_for_nodes, one range of node n.  a.left is
\* kernelcore_remaining, a.need is required_kernelcore.
MovableRange(a, r, n, usable) ==
    LET s      == Greatest(r.start, a.mov[n])
        kernel == IF s < usable THEN Least(r.end, usable) - s ELSE 0
        left   == a.left - Least(kernel, a.left)
        need   == a.need - Least(kernel, a.need)
        from   == Greatest(s, usable)
        size   == Least(r.end - from, left)
    IN  IF a.met \/ s >= r.end THEN a
        ELSE IF r.end <= usable
        THEN [a EXCEPT !.mov[n] = r.end, !.left = left, !.need = need]
        ELSE [a EXCEPT !.mov[n] = from + size, !.left = left - size,
                       !.need = need - Least(need, size), !.met = left = size]

\* One pass over the nodes with memory, of which count are still thought usable
MovablePass(m, a, count, usable) ==
    LET nodes == SetToSortSeq({n \in Nodes : \E i \in DOMAIN m : m[i].nid = n
                                                 /\ m[i].end > m[i].start}, <)
        OfNode(b, n) ==
            LET share == IF b.need < b.share THEN b.need \div count ELSE b.share
            IN  FoldLeft(LAMBDA c, r : MovableRange(c, r, n, usable),
                         [b EXCEPT !.share = share, !.left = share, !.met = FALSE],
                         Regions(m, n))
    IN  FoldLeft(OfNode, [a EXCEPT !.share = a.need \div count], nodes)

\* early_calculate_totalpages
TotalPages(m) == FoldLeft(LAMBDA t, r : t + r.end - r.start, 0, m)
UsableNodes(m) == {m[i].nid : i \in {j \in DOMAIN m : m[j].end > m[j].start}}

\* What the command line comes to: movablecore= is the rest of what there is
KernelCore(m) ==
    IF core.movable = 0 THEN core.kernel
    ELSE Greatest(core.kernel, Minus(TotalPages(m), Roundup(core.movable, BlockPages)))

\* find_zone_movable_pfns_for_nodes: passes over the nodes until enough memory is
\* left to the kernel.  The answer is 0 for a node without movable zone.
MovablePfns(m, usable) ==
    LET nodes == Cardinality(UsableNodes(m))
        start == [mov |-> [n \in Nodes |-> 0], need |-> KernelCore(m), share |-> 0,
                  left |-> 0, met |-> FALSE, over |-> FALSE]
        pass[i \in 0..nodes] ==
            IF i = 0 THEN start
            ELSE LET a == pass[i - 1]
                     b == MovablePass(m, a, nodes - i + 1, usable)
                 IN  IF a.over THEN a
                     ELSE [b EXCEPT !.over = b.need <= nodes - i]
    IN  IF KernelCore(m) = 0 THEN start.mov
        ELSE [n \in Nodes |-> Roundup(pass[nodes].mov[n], BlockPages)]

----------------------------------------------------------------------------
(* Zones *)

\* arch_zone_lowest_possible_pfn and arch_zone_highest_possible_pfn
Limits(m) ==
    LET lim[z \in Zones] ==
            IF z = 0 THEN [low |-> RangeOf(m, AnyNode).start, high |-> MaxZonePfn[0]]
            ELSE IF z = Movable THEN [low |-> 0, high |-> 0]
            ELSE [low  |-> lim[z - 1].high,
                  high |-> Greatest(MaxZonePfn[z], lim[z - 1].high)]
    IN  lim

\* find_usable_zone_for_movable
MovableZone(lim) == Max({z \in Fixed : lim[z].high > lim[z].low})

\* adjust_zone_range_for_zone_movable
Adjust(z, mov, top, node, r) ==
    IF mov = 0 THEN r
    ELSE IF z = Movable THEN [start |-> mov, end |-> Least(node.end, top)]
    ELSE IF r.start < mov /\ r.end > mov THEN [r EXCEPT !.end = mov]
    ELSE IF r.start >= mov THEN [r EXCEPT !.start = r.end]
    ELSE r

\* Faulty variant: the holes are counted in the range without ZONE_MOVABLE.
AbsentRange_NotAdjusted(z, mov, top, node, lim) ==
    [start |-> Greatest(lim[z].low, node.start), end |-> Least(lim[z].high, node.end)]

\* zone_absent_pages_in_node: the range in which holes are counted
AbsentRange(z, mov, top, node, lim) ==
    Adjust(z, mov, top, node, [start |-> Greatest(lim[z].low, node.start),
                               end   |-> Least(lim[z].high, node.end)])

\* zone_spanned_pages_in_node
Spanned(z, mov, top, node, lim) ==
    LET r == Adjust(z, mov, top, node, [start |-> lim[z].low, end |-> lim[z].high])
    IN  IF r.end < node.start \/ r.start > node.end THEN 0
        ELSE Minus(Least(r.end, node.end), Greatest(r.start, node.start))

\* free_area_init_core: what is present, less the mem_map and what the
\* architecture keeps of the first zone
Managed(z, size, pages) ==
    LET memmap == Roundup(size, MapPages) \div MapPages
        rest   == IF pages >= memmap THEN pages - memmap ELSE pages
    IN  IF z = 0 /\ rest > DmaReserve THEN rest - DmaReserve ELSE rest

\* free_area_init_core: zones follow each other from the first page of the node.
\* The watermarks are not set yet.
NodeZones(m, n, mov, lim, top) ==
    LET node    == RangeOf(m, n)
        size(z) == Spanned(z, mov, top, node, lim)
        hole(z) == LET r == AbsentRange(z, mov, top, node, lim)
                   IN  Absent(m, n, r.start, r.end)
        start[z \in Zones] == IF z = 0 THEN node.start ELSE start[z - 1] + size(z - 1)
    IN  [z \in Zones |->
            LET pages == Minus(size(z), hole(z).hole)
            IN  [start |-> start[z], spanned |-> size(z), pages |-> pages,
                 present |-> Managed(z, size(z), pages), bug |-> hole(z).bug,
                 min |-> 0, low |-> 0, high |-> 0, reserve |-> [c \in Zones |-> 0]]]

----------------------------------------------------------------------------
Init ==
    /\ map = <<>> /\ core = [kernel |-> 0, movable |-> 0]
    /\ movable_zone = 0 /\ zones = <<>>
    /\ ratio = [z \in Fixed |-> Max(Ratios)]
    /\ ram = [n \in Nodes |-> {}] /\ cut = FALSE

Early   == zones = <<>>
Booted  == ~Early
Frames(s, e) == s..e - 1

\* The architecture reports a range: new memory, or a part of a region once more.  The
\* second is left out where a region before that one adjoins the range: that one
\* would grow over it, and the map would have the frames twice.
AddRange(n, s, e) ==
    /\ Early /\ s < e
    /\ \/ \A o \in Nodes : ram[o] \intersect Frames(s, e) = {}
       \/ LET hits == Touching(map, n, s, e)
          IN  hits # {} /\ Covers(map[Min(hits)], s, e)
    /\ map' = AddRegion(map, n, s, e)
    /\ cut' = (cut \/ (map' = map /\ ~(Frames(s, e) \subseteq ram[n])))
    /\ ram' = [ram EXCEPT ![n] = @ \union Frames(s, e)]
    /\ UNCHANGED <<core, movable_zone, zones, ratio>>

\* ... or takes one back, to keep something there.
RemoveRange(n, s, e) ==
    /\ Early /\ s < e
    /\ ram[n] \intersect Frames(s, e) # {}
    /\ map' = RemoveRegions(map, n, s, e)
    /\ ram' = [ram EXCEPT ![n] = @ \ Frames(s, e)]
    /\ cut' = (cut \/ (Len(map) = MaxRegions /\ \E i \in DOMAIN map :
                                   map[i].nid = n /\ map[i].start < s /\ e < map[i].end))
    /\ UNCHANGED <<core, movable_zone, zones, ratio>>

\* remove_all_active_ranges, to begin again with another table
RemoveAll ==
    /\ Early
    /\ map' = <<>> /\ ram' = [n \in Nodes |-> {}] /\ cut' = FALSE
    /\ UNCHANGED <<core, movable_zone, zones, ratio>>

\* cmdline_parse_kernelcore, cmdline_parse_movablecore
ParseKernelcore(v) ==
    /\ Early
    /\ core' = [core EXCEPT !.kernel = v]
    /\ UNCHANGED <<map, movable_zone, zones, ratio, ram, cut>>

ParseMovablecore(v) ==
    /\ Early
    /\ core' = [core EXCEPT !.movable = v]
    /\ UNCHANGED <<map, movable_zone, zones, ratio, ram, cut>>

\* sort_node_map
Sorted(m) == SortSeq(m, LAMBDA a, b : a.start < b.start)

FreeAreaInitNodes ==
    LET m   == Sorted(map)
        lim == Limits(m)
        mz  == IF KernelCore(m) = 0 THEN movable_zone ELSE MovableZone(lim)
        mov == MovablePfns(m, lim[mz].low)
    IN  /\ Early /\ UsableNodes(map) # {}
        /\ map' = m
        /\ movable_zone' = mz
        /\ zones' = [n \in Nodes |-> NodeZones(m, n, mov[n], lim, lim[mz].high)]
        /\ UNCHANGED <<core, ratio, ram, cut>>

\* is_highmem: ZONE_MOVABLE is in high memory if the zone it is cut from is
IsHighmem(z) == (IF z = Movable THEN movable_zone ELSE z) \in Highmem

SumOver(S, f(_)) == MapThenSumSet(f, S)
AllZones == Nodes \X Zones

\* free_bootmem_with_active_regions: the frames that go to the allocator of the node
Released(n) ==
    UNION {Frames(r.start, Least(r.end, MaxLowPfn)) : r \in ToSet(Regions(map, n))}

\* calculate_node_totalpages
NodePages(n) == SumOver(Zones, LAMBDA z : zones[n][z].pages)
NodeSpan(n)  == SumOver(Zones, LAMBDA z : zones[n][z].spanned)

\* setup_per_zone_wmarks
SetupWmarks(pages_min) ==
    LET lowmem  == SumOver(AllZones, LAMBDA q : IF IsHighmem(q[2]) THEN 0
                                                ELSE zones[q[1]][q[2]].present)
        Part(n, z) == (pages_min * zones[n][z].present) \div lowmem
        MinOf(n, z) == IF IsHighmem(z)
                       THEN Least(Greatest(zones[n][z].present \div 1024, 32), 128)
                       ELSE Part(n, z)
    IN  /\ Booted /\ lowmem > 0
        /\ zones' = [n \in Nodes |-> [z \in Zones |->
                        [zones[n][z] EXCEPT !.min  = MinOf(n, z),
                                            !.low  = MinOf(n, z) + Part(n, z) \div 4,
                                            !.high = MinOf(n, z) + Part(n, z) \div 2]]]
        /\ UNCHANGED <<map, core, movable_zone, ratio, ram, cut>>

\* lowmem_reserve_ratio_sysctl_handler, setup_per_zone_lowmem_reserve: what zone z
\* keeps from requests that could be met by zones up to c
SetupFixedReserve(z0, v) ==
    LET set   == [ratio EXCEPT ![z0] = v]
        fixed == [z \in Fixed |-> Greatest(set[z], 1)]
        Reserve(n, z, c) ==
            IF c = z THEN 0
            ELSE IF c < z THEN zones[n][z].reserve[c]
            ELSE SumOver(z + 1..c, LAMBDA y : zones[n][y].present) \div fixed[z]
    IN  /\ Booted
        /\ ratio' = fixed
        /\ zones' = [n \in Nodes |-> [z \in Zones |->
                        [zones[n][z] EXCEPT !.reserve = [c \in Zones |-> Reserve(n, z, c)]]]]
        /\ UNCHANGED <<map, core, movable_zone, ram, cut>>

\* calculate_totalreserve_pages
TotalReserve ==
    SumOver(AllZones, LAMBDA q :
        LET zn == zones[q[1]][q[2]]
        IN  Least(Max({zn.reserve[c] : c \in q[2]..Movable}) + zn.high, zn.present))

Next ==
    \/ \E n \in Nodes, s \in Edges, e \in Edges : AddRange(n, s, e)
    \/ \E n \in Nodes, s \in Edges, e \in Edges : RemoveRange(n, s, e)
    \/ RemoveAll
    \/ \E v \in Cores : ParseKernelcore(v)
    \/ \E v \in Cores : ParseMovablecore(v)
    \/ FreeAreaInitNodes
    \/ \E v \in MinFrees : SetupWmarks(v)
    \/ \E z \in Fixed, v \in Ratios : SetupFixedReserve(z, v)

Spec == Init /\ [][Next]_vars

----------------------------------------------------------------------------
(* Properties. *)

RegionFrames(r) == Frames(r.start, r.end)
ZoneFrames(zn)  == Frames(zn.start, zn.start + zn.spanned)

\* The regions of a node are disjoint and are what was reported for it and not taken
\* back, whatever was merged, split and cleared on the way (add_active_range,
\* remove_active_range); a full map may lack some.
MapExact ==
    \A n \in Nodes :
        LET rs == Regions(map, n)
        IN  /\ \A i, j \in DOMAIN rs : i # j => RegionFrames(rs[i]) \intersect RegionFrames(rs[j]) = {}
            /\ UNION {RegionFrames(rs[i]) : i \in DOMAIN rs} \subseteq ram[n]
            /\ ~cut => ram[n] \subseteq UNION {RegionFrames(rs[i]) : i \in DOMAIN rs}

\* A frame is found on the node it was reported for (__early_pfn_to_nid).
NidExact ==
    ~cut => \A p \in Frames(0, Max(Edges)), n \in Nodes : PfnToNid(p) = n <=> p \in ram[n]

\* Each frame of a node lies in one zone of the node, a zone in the limits of the
\* architecture or in ZONE_MOVABLE; its length less its holes is what it has.  The
\* start of a zone, its length and its holes are computed apart (free_area_init_core,
\* zone_spanned_pages_in_node, zone_absent_pages_in_node), and must fit.
ZonesExact ==
    Booted /\ ~cut =>
        \A n \in Nodes :
            /\ \A p \in ram[n] :
                 \E z \in Zones : /\ p \in ZoneFrames(zones[n][z])
                                  /\ z \in Fixed => p < MaxZonePfn[z]
                                  /\ z \in Fixed \ {0} => p >= MaxZonePfn[z - 1]
            /\ \A z \in Zones :
                 LET zn == zones[n][z]
                 IN  /\ ~zn.bug
                     /\ zn.pages = Cardinality(ZoneFrames(zn) \intersect ram[n])
                     /\ zn.present <= zn.pages
            /\ NodePages(n) = Cardinality(ram[n])
            /\ NodeSpan(n) = RangeOf(map, n).end - RangeOf(map, n).start

\* What is left to the kernel is what the command line asks for, or all there is, but
\* for less than a page per node (find_zone_movable_pfns_for_nodes).
KernelcoreMet ==
    Booted /\ ~cut =>
        SumOver(Nodes \X Fixed, LAMBDA q : zones[q[1]][q[2]].pages) + Cardinality(UsableNodes(map))
            >= Least(KernelCore(map), TotalPages(map))

\* What Kswapd assumes: watermarks rise, and a zone reserves nothing against requests that have it or a
\* lower one as their highest and the more the higher that is; reserves and high
\* watermarks together are not more than the memory.
WatermarksFit ==
    Booted =>
        /\ \A n \in Nodes, z \in Zones :
             LET zn == zones[n][z]
             IN  /\ zn.min <= zn.low /\ zn.low <= zn.high
                 /\ \A c \in Zones : /\ c <= z => zn.reserve[c] = 0
                                     /\ c < Movable => zn.reserve[c] <= zn.reserve[c + 1]
        /\ TotalReserve <= SumOver(AllZones, LAMBDA q : zones[q[1]][q[2]].present)

\* Memory gets into zones frame by frame, whatever ranges are reported and taken back
\* and whatever the command line asks for, and watermarks and reserves fit the zones.
BootSound == MapExact /\ NidExact /\ ZonesExact /\ KernelcoreMet /\ WatermarksFit
=============================================================================
