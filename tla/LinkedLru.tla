------------------------------ MODULE LinkedLru ------------------------------
(***************************************************************************)
(* The LRU lists of a zone with the linked lists that chains add, the      *)
(* vmstat counters of those lists, and the operations of swap.c, vmscan.c  *)
(* and mhint.c that move pages between them.  The list that the code takes *)
(* a page to be on is computed from the page's flags and from page->chain, *)
(* and link and unlink change page->chain of a page that is on a list.     *)
(*                                                                         *)
(* A step is a section under zone->lru_lock, or the work on one page that  *)
(* a scan does outside it.  There is one zone and one scanning process;    *)
(* order within a list, lumpy reclaim and memory cgroups are left out.     *)
(* Which pages a scan frees, keeps or activates is left open.              *)
(***************************************************************************)
EXTENDS Integers, FiniteSets, FiniteSetsExt

CONSTANTS
    Pages,
    FilePages,  \* pages of files, the others are anonymous
    NoPage,
    Preempt,    \* TRUE where another processor may run between hate's test and its lock
    MaxDrift    \* bound: no link or unlink with the counters further off in all

ASSUME PagesAssumption     == IsFiniteSet(Pages)
ASSUME FilePagesAssumption == FilePages \subseteq Pages
ASSUME NoPageAssumption    == NoPage \notin Pages
ASSUME PreemptAssumption   == Preempt \in BOOLEAN
ASSUME MaxDriftAssumption  == MaxDrift \in Nat

\* enum lru_list: an index is the sum of its properties.
LRU_BASE   == 0
LRU_ACTIVE == 1
LRU_LINKED == 2
LRU_FILE   == 4
LRU_UNEVICTABLE == 8
Evictable == 0 .. LRU_FILE + LRU_LINKED + LRU_ACTIVE
Lists     == Evictable \cup {LRU_UNEVICTABLE}

is_active_lru(l) == l \in Evictable /\ l % 2 = 1
is_file_lru(l)   == l \in LRU_FILE .. LRU_FILE + LRU_LINKED + LRU_ACTIVE

\* Where a page is when it is on no list of the zone: free, taken off by
\* isolate_lru_page, in a pagevec, or on a private list of the scan, which has
\* yet to look at it (Taken) or has looked at it (Kept).
Free     == -1
Isolated == -2
Pagevec  == -3
Taken    == -4
Kept     == -5
Places == Lists \cup {Free, Isolated, Pagevec, Taken, Kept}

VARIABLES
    m,       \* pages and counters, see TypeOK
    scan,    \* the scan: its kind, file or anonymous, and its isolated pages
    hating,  \* the page between hate's test and its lock, or NoPage
    bug,     \* TRUE once a BUG or VM_BUG_ON was met
    oops     \* TRUE once a page that is on no list was unlinked from one

vars == <<m, scan, hating, bug, oops>>

FileOf(p) == IF p \in FilePages THEN LRU_FILE ELSE 0

page_lru_base_type(h, p) ==
    FileOf(p) + (IF p \in h.linked THEN LRU_LINKED ELSE LRU_BASE)

page_lru(h, p) ==
    IF p \in h.unevictable THEN LRU_UNEVICTABLE
    ELSE page_lru_base_type(h, p) + (IF p \in h.active THEN LRU_ACTIVE ELSE 0)

add_page_to_lru_list(h, p, l) == [h EXCEPT !.on[p] = l, !.stat[l] = @ + 1]

\* The page leaves the list it is on; the counter of list l goes down.
del_page_from_lru_list(h, p, l) == [h EXCEPT !.on[p] = Isolated, !.stat[l] = @ - 1]

del_page_from_lru(h, p) ==
    [del_page_from_lru_list(h, p, page_lru(h, p)) EXCEPT
        !.unevictable = @ \ {p},
        !.active      = IF p \in h.unevictable THEN @ ELSE @ \ {p}]

\* Pages of R are put on the lists dest names, marked PageLRU and counted.
Refile(h, R, dest) ==
    [h EXCEPT
        !.on   = [p \in Pages |-> IF p \in R THEN dest[p] ELSE @[p]],
        !.lru  = @ \cup R,
        !.stat = [l \in Lists |-> @[l] + Cardinality({p \in R : dest[p] = l})]]

\* A page is refused for its own lock or that of its mapping; the model has one
\* flag for both.
page_evictable(h, p) == p \notin h.mlocked

lru_cache_add_lru(h, p, l) ==
    [h EXCEPT !.on[p] = Pagevec, !.goal[p] = l,
              !.active = @ \ {p}, !.unevictable = @ \ {p}]

isolate_lru_page(h, p) ==
    IF p \in h.lru
    THEN [del_page_from_lru_list(h, p, page_lru(h, p)) EXCEPT !.lru = @ \ {p}]
    ELSE h

putback_lru_page(h, p) ==
    LET active == IF p \in h.active THEN LRU_ACTIVE ELSE 0
        g == [h EXCEPT !.active = @ \ {p}, !.unevictable = @ \ {p}]
    IN  IF page_evictable(g, p)
        THEN lru_cache_add_lru(g, p, active + page_lru_base_type(g, p))
        ELSE [Refile(g, {p}, [q \in {p} |-> LRU_UNEVICTABLE]) EXCEPT !.unevictable = @ \cup {p}]

\* The page is freed: taken off its chain, its flags cleared.
Freed(h, p) ==
    [h EXCEPT !.on[p] = Free, !.lru = @ \ {p}, !.active = @ \ {p},
              !.unevictable = @ \ {p}, !.mlocked = @ \ {p}, !.linked = @ \ {p}]

-----------------------------------------------------------------------------
(***************************************************************************)
(* Pages come, go, move, and are linked.                                   *)
(***************************************************************************)

\* How far the counter of list l is from the pages on it.
Drift(l) ==
    LET d == m.stat[l] - Cardinality({p \in Pages : m.on[p] = l})
    IN  IF d < 0 THEN -d ELSE d

\* Only links and unlinks send the counters off, and each one a bounded way.
Bounded == MapThenSumSet(Drift, Lists) <= MaxDrift

\* Only hate goes on where nothing else may run beside it.
Runs == ~bug /\ ~oops /\ (Preempt \/ hating = NoPage)

OnlyPages == UNCHANGED <<scan, hating, bug, oops>>

\* A page fault: the page is queued for the active anonymous or the inactive
\* file list.
Fault(p) ==
    /\ Runs
    /\ m.on[p] = Free
    /\ m' = lru_cache_add_lru(m, p, IF p \in FilePages THEN LRU_FILE ELSE LRU_ACTIVE)
    /\ OnlyPages

\* ____pagevec_lru_add: the page goes to the list it was queued for.
PagevecLruAdd(p) ==
    /\ Runs
    /\ m.on[p] = Pagevec
    /\ m' = [Refile(m, {p}, m.goal) EXCEPT
               !.active = IF is_active_lru(m.goal[p]) THEN @ \cup {p} ELSE @,
               !.goal[p] = LRU_BASE]   \* of no use any more
    /\ bug' = (p \in m.active \cup m.unevictable \cup m.lru)
    /\ UNCHANGED <<scan, hating, oops>>

\* The last reference is dropped.
Release(p) ==
    /\ Runs
    /\ m.on[p] \in Lists
    /\ m' = Freed(IF p \in m.lru THEN del_page_from_lru(m, p) ELSE m, p)
    /\ OnlyPages

Link(p) ==
    /\ Runs
    /\ m.on[p] # Free /\ p \notin m.linked
    /\ Bounded
    /\ m' = [m EXCEPT !.linked = @ \cup {p}]
    /\ OnlyPages

Unlink(p) ==
    /\ Runs
    /\ p \in m.linked
    /\ Bounded
    /\ m' = [m EXCEPT !.linked = @ \ {p}]
    /\ OnlyPages

ActivatePage(p) ==
    /\ Runs
    /\ p \in m.lru /\ p \notin m.active \cup m.unevictable
    /\ LET l == page_lru_base_type(m, p)
       IN  m' = [add_page_to_lru_list(del_page_from_lru_list(m, p, l), p, l + LRU_ACTIVE)
                   EXCEPT !.active = @ \cup {p}]
    /\ OnlyPages

\* pagevec_move_tail: the page moves to the list of its type, uncounted.
MoveTail(p) ==
    /\ Runs
    /\ p \in m.lru /\ p \notin m.active \cup m.unevictable
    /\ m' = [m EXCEPT !.on[p] = page_lru_base_type(m, p)]
    /\ OnlyPages

\* mlock_vma_page and munlock_vma_page: the flag, and the page off its list;
\* the page is put back in a step of its own.
Mlock(p) ==
    /\ Runs
    /\ m.on[p] # Free /\ p \notin m.mlocked
    /\ m' = isolate_lru_page([m EXCEPT !.mlocked = @ \cup {p}], p)
    /\ OnlyPages

Munlock(p) ==
    /\ Runs
    /\ p \in m.mlocked
    /\ m' = isolate_lru_page([m EXCEPT !.mlocked = @ \ {p}], p)
    /\ OnlyPages

\* SHM_LOCK and SHM_UNLOCK: page_evictable sees a flag of the page's mapping,
\* which changes while the page stays on its list.  Pages of shared memory are
\* on the lists of anonymous pages.
ShmLock(p) ==
    /\ Runs
    /\ m.on[p] # Free /\ p \notin FilePages \cup m.mlocked
    /\ m' = [m EXCEPT !.mlocked = @ \cup {p}]
    /\ OnlyPages

ShmUnlock(p) ==
    /\ Runs
    /\ p \in m.mlocked \ FilePages
    /\ m' = [m EXCEPT !.mlocked = @ \ {p}]
    /\ OnlyPages

PutbackLruPage(p) ==
    /\ Runs
    /\ m.on[p] = Isolated
    /\ m' = putback_lru_page(m, p)
    /\ bug' = (p \in m.lru)
    /\ UNCHANGED <<scan, hating, oops>>

\* check_move_unevictable_page
CheckMoveUnevictablePage(p) ==
    /\ Runs
    /\ p \in m.lru \cap m.unevictable /\ page_evictable(m, p)
    /\ LET l == page_lru_base_type(m, p)
       IN  m' = [m EXCEPT !.unevictable = @ \ {p}, !.on[p] = l,
                          !.stat[LRU_UNEVICTABLE] = @ - 1, !.stat[l] = @ + 1]
    /\ bug' = (p \in m.active)
    /\ UNCHANGED <<scan, hating, oops>>

-----------------------------------------------------------------------------
(***************************************************************************)
(* Reclaim: pages are taken off a list under the lock, looked at without   *)
(* it, and put back under it.                                              *)
(***************************************************************************)

Idle == [kind |-> "idle", file |-> 0, nr |-> 0]

\* isolate_lru_pages meets a page that __isolate_lru_page refuses, or that is
\* not PageLRU.
Refused(h, p, active, file) ==
    \/ p \notin h.lru \/ p \in h.unevictable
    \/ (p \in h.active) # active
    \/ FileOf(p) # file

Take(h, T) ==
    [h EXCEPT !.lru = @ \ T, !.on = [p \in Pages |-> IF p \in T THEN Taken ELSE @[p]]]

\* shrink_inactive_list up to its first unlock: isolate_pages_global takes from
\* the unlinked list, update_isolated_counts counts the lists it knows, each
\* page on the list of its type.
ShrinkInactiveList(file) ==
    /\ Runs
    /\ scan = Idle
    /\ \E T \in (SUBSET {p \in Pages : m.on[p] = LRU_BASE + file}) \ {{}} :
          LET count(l) == Cardinality({p \in T : page_lru_base_type(m, p) +
                                          (IF p \in m.active THEN LRU_ACTIVE ELSE 0) = l})
              known == {LRU_BASE, LRU_ACTIVE, LRU_FILE, LRU_FILE + LRU_ACTIVE}
              nr    == count(file) + count(file + LRU_ACTIVE)
          IN  /\ m' = [Take(m, T) EXCEPT
                         !.active = @ \ T,
                         !.stat = [l \in Lists |-> IF l \in known THEN @[l] - count(l) ELSE @[l]],
                         !.isolated[file] = @ + nr]
              /\ scan' = [kind |-> "inactive", file |-> file, nr |-> nr]
              /\ bug' = \E p \in T : Refused(m, p, FALSE, file)
    /\ UNCHANGED <<hating, oops>>

\* Faulty variant: the pages that are linked are not counted as taken.
ShrinkActiveList_Known(file) ==
    /\ Runs
    /\ scan = Idle
    /\ \E T \in (SUBSET {p \in Pages : m.on[p] = LRU_ACTIVE + file}) \ {{}} :
          /\ m' = [Take(m, T) EXCEPT
                     !.stat[LRU_ACTIVE + file] = @ - Cardinality(T),
                     !.isolated[file] = @ + Cardinality(T \ m.linked)]
          /\ scan' = [kind |-> "active", file |-> file, nr |-> Cardinality(T \ m.linked)]
          /\ bug' = \E p \in T : Refused(m, p, TRUE, file)
    /\ UNCHANGED <<hating, oops>>

\* shrink_active_list up to its first unlock.
ShrinkActiveList(file) ==
    /\ Runs
    /\ scan = Idle
    /\ \E T \in (SUBSET {p \in Pages : m.on[p] = LRU_ACTIVE + file}) \ {{}} :
          /\ m' = [Take(m, T) EXCEPT
                     !.stat[LRU_ACTIVE + file] = @ - Cardinality(T),
                     !.isolated[file] = @ + Cardinality(T)]
          /\ scan' = [kind |-> "active", file |-> file, nr |-> Cardinality(T)]
          /\ bug' = \E p \in T : Refused(m, p, TRUE, file)
    /\ UNCHANGED <<hating, oops>>

\* shrink_page_list for one page: kept (also when its lock is not to be had),
\* culled, activated or freed.
ShrinkPage(p) ==
    /\ Runs
    /\ scan.kind = "inactive" /\ m.on[p] = Taken
    /\ \/ m' = [m EXCEPT !.on[p] = Kept]
       \/ ~page_evictable(m, p) /\ m' = putback_lru_page(m, p)
       \/ page_evictable(m, p) /\ m' = [m EXCEPT !.on[p] = Kept, !.active = @ \cup {p}]
       \/ page_evictable(m, p) /\ m' = Freed(m, p)
    /\ bug' = (p \in m.active \cup m.lru \cup m.unevictable)
    /\ UNCHANGED <<scan, hating, oops>>

\* shrink_active_list for one page: culled, rotated or deactivated.
DeactivatePage(p) ==
    /\ Runs
    /\ scan.kind = "active" /\ m.on[p] = Taken
    /\ IF ~page_evictable(m, p) THEN m' = putback_lru_page(m, p)
       ELSE \/ p \in FilePages /\ m' = [m EXCEPT !.on[p] = Kept]
            \/ m' = [m EXCEPT !.on[p] = Kept, !.active = @ \ {p}]
    /\ OnlyPages

KeptPages == {p \in Pages : m.on[p] = Kept}

\* putback_lru_pages: to the list of the page's type, or the unevictable list.
PutbackLruPages ==
    /\ Runs
    /\ scan.kind = "inactive" /\ \A p \in Pages : m.on[p] # Taken
    /\ LET locked == KeptPages \ {p \in Pages : page_evictable(m, p)}
           g == Refile(m, KeptPages,
                  [p \in KeptPages |-> IF p \in locked THEN LRU_UNEVICTABLE ELSE page_lru(m, p)])
       IN  m' = [g EXCEPT !.unevictable = @ \cup locked, !.active = @ \ locked,
                          !.isolated[scan.file] = @ - scan.nr]
    /\ scan' = Idle
    /\ bug' = (KeptPages \cap m.lru # {})
    /\ UNCHANGED <<hating, oops>>

\* move_active_pages_to_lru, twice: to the unlinked lists, linked or not.
MoveActivePagesToLru ==
    /\ Runs
    /\ scan.kind = "active" /\ \A p \in Pages : m.on[p] # Taken
    /\ LET g == Refile(m, KeptPages, [p \in KeptPages |->
                  scan.file + (IF p \in m.active THEN LRU_ACTIVE ELSE LRU_BASE)])
       IN  m' = [g EXCEPT !.isolated[scan.file] = @ - scan.nr]
    /\ scan' = Idle
    /\ bug' = (KeptPages \cap m.lru # {})
    /\ UNCHANGED <<hating, oops>>

-----------------------------------------------------------------------------
(***************************************************************************)
(* hate.                                                                   *)
(***************************************************************************)

\* Faulty variant: PageLRU is not tested.
HateTest_NoLru(p) ==
    /\ Runs
    /\ hating = NoPage
    /\ m.on[p] # Free /\ p \notin m.linked
    /\ hating' = p
    /\ UNCHANGED <<m, scan, bug, oops>>

\* PageLinked and PageLRU are tested without the lock.
HateTest(p) ==
    /\ Runs
    /\ hating = NoPage
    /\ p \in m.lru \ m.linked
    /\ hating' = p
    /\ UNCHANGED <<m, scan, bug, oops>>

\* Under the lock the page is taken off the list it is on, whichever that is
\* by now, and added to an inactive list; PageLRU is left as it is.
HateMove ==
    /\ ~bug /\ ~oops
    /\ hating # NoPage
    /\ hating' = NoPage
    /\ LET p == hating
           l == page_lru_base_type(m, p)
       IN  IF m.on[p] \in Lists \cup {Taken, Kept}
           THEN /\ m' = [add_page_to_lru_list(del_page_from_lru(m, p), p, l)
                           EXCEPT !.active = @ \ {p}]
                /\ UNCHANGED oops
           ELSE oops' = TRUE /\ UNCHANGED m
    /\ UNCHANGED <<scan, bug>>

-----------------------------------------------------------------------------

Init ==
    /\ m = [ on |-> [p \in Pages |-> Free], goal |-> [p \in Pages |-> LRU_BASE],
             lru |-> {}, active |-> {}, unevictable |-> {}, mlocked |-> {}, linked |-> {},
             stat |-> [l \in Lists |-> 0], isolated |-> [f \in {0, LRU_FILE} |-> 0] ]
    /\ scan = Idle
    /\ hating = NoPage
    /\ bug = FALSE
    /\ oops = FALSE

Next ==
    \/ \E p \in Pages :
         \/ Fault(p) \/ PagevecLruAdd(p) \/ Release(p) \/ Link(p) \/ Unlink(p)
         \/ ActivatePage(p) \/ MoveTail(p) \/ Mlock(p) \/ Munlock(p)
         \/ ShmLock(p) \/ ShmUnlock(p)
         \/ PutbackLruPage(p) \/ CheckMoveUnevictablePage(p)
         \/ ShrinkPage(p) \/ DeactivatePage(p) \/ HateTest(p)
    \/ \E file \in {0, LRU_FILE} : ShrinkInactiveList(file) \/ ShrinkActiveList(file)
    \/ PutbackLruPages \/ MoveActivePagesToLru \/ HateMove

Spec == Init /\ [][Next]_vars
-----------------------------------------------------------------------------
(***************************************************************************)
(* Properties.                                                             *)
(***************************************************************************)

TypeOK ==
    /\ m \in [ on : [Pages -> Places], goal : [Pages -> Evictable],
               lru : SUBSET Pages, active : SUBSET Pages, unevictable : SUBSET Pages,
               mlocked : SUBSET Pages, linked : SUBSET Pages,
               stat : [Lists -> Int], isolated : [{0, LRU_FILE} -> 0 .. Cardinality(Pages)] ]
    /\ scan \in [ kind : {"idle", "inactive", "active"}, file : {0, LRU_FILE},
                  nr : 0 .. Cardinality(Pages) ]
    /\ hating \in Pages \cup {NoPage}
    /\ bug \in BOOLEAN /\ oops \in BOOLEAN

\* PageLRU, PageActive, PageUnevictable and the page's kind name the list that
\* the page is on, up to linked or not.  Every operation computes the list from
\* the flags, which are set far from where the list is changed.
ListMatchesFlags ==
    \A p \in Pages :
        /\ p \in m.lru <=> m.on[p] \in Lists
        /\ p \in m.lru =>
              /\ m.on[p] = LRU_UNEVICTABLE <=> p \in m.unevictable
              /\ m.on[p] # LRU_UNEVICTABLE =>
                    /\ is_active_lru(m.on[p]) <=> p \in m.active
                    /\ is_file_lru(m.on[p]) <=> p \in FilePages

\* No BUG or VM_BUG_ON of these files is reached: the scan meets only pages
\* that are PageLRU (vmscan.c:1041) and of the kind that it looks for (1057).
NoBug == ~bug

\* No page that is on no list is unlinked from one.
NoOops == ~oops

\* However a page moves between lists, pagevecs and the scan, and whenever it is
\* linked or unlinked on the way, its flags name its list, no list operation
\* meets a page that is on none, and no BUG is reached.
FlagsSound == TypeOK /\ ListMatchesFlags /\ NoBug /\ NoOops

\* The sum of the counters of kind file.
Counted(file) ==
    m.stat[file] + m.stat[file + LRU_ACTIVE] + m.stat[file + LRU_LINKED] +
    m.stat[file + LRU_LINKED + LRU_ACTIVE] + m.isolated[file]

\* Linking and unlinking pages on lists makes the counters of single lists
\* wrong, but all counters of anonymous or file pages together never count
\* less than the pages that are on the lists or in the hands of the scan, and
\* the unevictable pages are counted exactly.
NothingUncounted ==
    /\ m.stat[LRU_UNEVICTABLE] = Cardinality({p \in Pages : m.on[p] = LRU_UNEVICTABLE})
    /\ \A file \in {0, LRU_FILE} :
          Counted(file) >= Cardinality({p \in Pages : FileOf(p) = file /\
                                          m.on[p] \in Evictable \cup {Taken, Kept}})

\* "Isolates a @page from an LRU list, clears PageLRU and adjusts the vmstat
\* statistic corresponding to whatever LRU list the page was on"
\* (vmscan.c:1178-1179).
IsolateStep ==
    \A p \in Pages :
        (m.on[p] \in Lists /\ m'.on[p] = Isolated) => m'.stat[m.on[p]] = m.stat[m.on[p]] - 1

IsolateAdjustsItsList == [][IsolateStep]_vars
=============================================================================
