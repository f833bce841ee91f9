----------------------------- MODULE HierManager -----------------------------
(***************************************************************************)
(* The simulator's HierarchicalMemoryManager with its MemoryChain objects  *)
(* at the level of their pointers: doubly linked lists with a head, a      *)
(* tail, a size, a timestamp and a representative, the page table, and the *)
(* timestamps of the logical clock.                                        *)
(*                                                                         *)
(* Left out because the code never reaches it: eviction from a bounded     *)
(* chain, its policies, its anchor and the spill-over queue, since the     *)
(* constructor sets bounded to false whatever it is given                  *)
(* (MemoryChain.java:88).  Statistics are left out as well.                *)
(***************************************************************************)
EXTENDS Integers, FiniteSets

CONSTANTS
    Pages,       \* virtual addresses
    UserChains,  \* chains that createMemoryChain may make
    Size,        \* frames of physical memory
    Null,        \* a null reference
    MaxClock     \* bound: no call begins with the clock at this value

ASSUME SizeAssumption == Size \in Nat \ {0}
ASSUME NullAssumption == Null \notin Pages
ASSUME PagesAssumption == IsFiniteSet(Pages)

None         == "none"                 \* the id -1 of resides and assigned
SystemChains == {"hated", "default"}
Chains       == SystemChains \cup UserChains
Frames       == 0 .. Size - 1

\* Chain ids are numbers: no user chain has a system queue's or none.
ASSUME ChainsAssumption == UserChains \cap (SystemChains \cup {None, "out"}) = {}

VARIABLES
    h,       \* chain and page objects
    table,   \* page table: the frame of each page, -1 when it has none
    clock,   \* the logical clock
    open,    \* the keys of usr_chains
    made,    \* user chains created so far: ids are not used twice
    crash    \* TRUE once a null reference was used

vars == <<h, table, clock, open, made, crash>>

-----------------------------------------------------------------------------
(***************************************************************************)
(* MemoryChain.java.                                                       *)
(***************************************************************************)

\* Faulty variant: the successor keeps its old prev.
Unlink_KeepPrev(m, c, p) ==
    LET b == m.prev[p]
        n == m.next[p]
    IN  [m EXCEPT
          !.head[c] = IF b = Null THEN n ELSE @,
          !.tail[c] = IF b # Null /\ n = Null THEN b ELSE @,
          !.next    = [q \in Pages |-> IF q = p THEN Null ELSE IF q = b THEN n ELSE @[q]],
          !.prev[p] = Null,
          !.rep[c]  = IF @ = p THEN Null ELSE @,
          !.resides[p] = None,
          !.size[c] = @ - 1]

\* unlink(page).  The tail of a chain that becomes empty is left as it is.
Unlink(m, c, p) ==
    LET b == m.prev[p]
        n == m.next[p]
    IN  [m EXCEPT
          !.head[c] = IF b = Null THEN n ELSE @,
          !.tail[c] = IF b # Null /\ n = Null THEN b ELSE @,
          !.next    = [q \in Pages |-> IF q = p THEN Null ELSE IF q = b THEN n ELSE @[q]],
          !.prev    = [q \in Pages |-> IF q = p THEN Null ELSE IF q = n THEN b ELSE @[q]],
          !.rep[c]  = IF @ = p THEN Null ELSE @,
          !.resides[p] = None,
          !.size[c] = @ - 1]

\* representative(page): the page takes over when it is a newer member.
Represent(m, c, p) ==
    IF m.ts[p] > m.stamp[c] /\ m.resides[p] = c
    THEN [m EXCEPT !.stamp[c] = m.ts[p], !.rep[c] = p] ELSE m

\* link(page), at the head, unless the page is on the chain.
Link(m, c, p) ==
    IF m.resides[p] = c THEN m
    ELSE LET g == [m EXCEPT
                     !.size[c]    = @ + 1,
                     !.head[c]    = p,
                     !.tail[c]    = IF m.head[c] = Null THEN p ELSE @,
                     !.prev       = [q \in Pages |-> IF q = m.head[c] THEN p ELSE @[q]],
                     !.next[p]    = IF m.head[c] = Null THEN @ ELSE m.head[c],
                     !.resides[p] = c]
         IN  Represent(g, c, p)

\* The n-th page from the head, following next.
Nth(m, c) ==
    LET f[n \in 0 .. Cardinality(Pages)] ==
            IF n = 0 THEN m.head[c]
            ELSE IF f[n - 1] = Null THEN Null ELSE m.next[f[n - 1]]
    IN  f

Members(m, c) == {Nth(m, c)[n] : n \in 0 .. Cardinality(Pages)} \ {Null}

\* timestamp(), for the chains in C: the newest member becomes representative
\* where there is none.
Refresh(m, C) ==
    LET stale   == {c \in C : m.rep[c] = Null}
        Newest(c) == CHOOSE p \in Members(m, c) : \A q \in Members(m, c) : m.ts[q] <= m.ts[p]
    IN  [m EXCEPT
          !.stamp = [c \in Chains |-> IF c \in stale THEN m.ts[Newest(c)] ELSE @[c]],
          !.rep   = [c \in Chains |-> IF c \in stale THEN Newest(c) ELSE @[c]]]

\* unchain(), and the pages' move to the hated queue, one by one from the head.
\* The chain's timestamp and representative are left as they are.
Hate(m, c) ==
    LET f == Nth(m, c)
        P == Members(m, c)
        g == [m EXCEPT !.head[c] = Null, !.tail[c] = Null, !.size[c] = 0,
                !.next     = [p \in Pages |-> IF p \in P THEN Null ELSE @[p]],
                !.prev     = [p \in Pages |-> IF p \in P THEN Null ELSE @[p]],
                !.resides  = [p \in Pages |-> IF p \in P THEN None ELSE @[p]],
                !.assigned = [p \in Pages |-> IF p \in P THEN "default" ELSE @[p]]]
        moved[n \in 0 .. Cardinality(P)] ==
            IF n = 0 THEN g ELSE Link(moved[n - 1], "hated", f[n - 1])
    IN  moved[Cardinality(P)]

-----------------------------------------------------------------------------
(***************************************************************************)
(* HierarchicalMemoryManager.java.                                         *)
(***************************************************************************)

NonEmptyUser == {c \in open : h.size[c] > 0}

Oldest(m, P) == {p \in P : \A q \in P : m.ts[p] <= m.ts[q]}

\* Faulty variant: a user chain is as old as its oldest page.
Victims_ByOldest(m) ==
    IF m.size["hated"] > 0 THEN {<<"hated", m.tail["hated"]>>}
    ELSE {<<m.resides[p], p>> : p \in Oldest(m, {q \in Pages : table[q] # -1})}

\* evict(): the tail of the hated queue if it has pages; otherwise the oldest
\* of the default queue's pages, each for itself, and the user chains, each
\* with its timestamp, of which the oldest page goes.
Victims(m) ==
    LET D == Members(m, "default")
        U == NonEmptyUser
        least == CHOOSE n \in {m.ts[p] : p \in D} \cup {m.stamp[c] : c \in U} :
                    \A k \in {m.ts[p] : p \in D} \cup {m.stamp[c] : c \in U} : n <= k
    IN  IF m.size["hated"] > 0 THEN {<<"hated", m.tail["hated"]>>}
        ELSE {<<"default", p>> : p \in {q \in D : m.ts[q] = least}} \cup
             UNION {{<<c, p>> : p \in Oldest(m, Members(m, c))} :
                       c \in {d \in U : m.stamp[d] = least}}

UsedFrames == {table[p] : p \in Pages} \ {-1}

Begin == ~crash /\ clock < MaxClock

\* access(address) of a resident page.
Hit(p) ==
    /\ Begin
    /\ table[p] # -1
    /\ LET g == [h EXCEPT !.ts[p] = clock + 1]
       IN  h' = IF g.resides[p] \in UserChains THEN Represent(g, g.resides[p], p) ELSE g
    /\ clock' = clock + 1
    /\ UNCHANGED <<table, open, made, crash>>

FreeFrame(t) ==
    CHOOSE i \in Frames :
        /\ \A q \in Pages : t[q] # i
        /\ \A k \in 0 .. i - 1 : \E q \in Pages : t[q] = k

\* Faulty variant: the page is not linked again to the chain it is assigned to.
Load_Default(m, t, p) ==
    /\ table' = [t EXCEPT ![p] = FreeFrame(t)]
    /\ clock' = clock + 2
    /\ h' = Link([m EXCEPT !.ts[p] = clock + 2], "default", p)
    /\ UNCHANGED crash

\* The page is stored in the frame, stamped twice, and linked to the chain it
\* is assigned to.  A released chain is no longer found in usr_chains.
Load(m, t, p) ==
    LET g == [m EXCEPT !.ts[p] = clock + 2]
        c == IF g.assigned[p] = None THEN "default" ELSE g.assigned[p]
    IN  /\ table' = [t EXCEPT ![p] = FreeFrame(t)]
        /\ clock' = clock + 2
        /\ IF c \in open \cup SystemChains
           THEN h' = Link(g, c, p) /\ UNCHANGED crash
           ELSE h' = g /\ crash' = TRUE

\* access(address) of a page that is not resident.
Fault(p) ==
    /\ Begin
    /\ table[p] = -1
    /\ IF UsedFrames # Frames THEN Load(h, table, p)
       ELSE LET m == IF h.size["hated"] > 0 THEN h ELSE Refresh(h, NonEmptyUser)
            IN  \E v \in Victims(m) :
                   Load(Unlink(m, v[1], v[2]), [table EXCEPT ![v[2]] = -1], p)
    /\ UNCHANGED <<open, made>>

CreateMemoryChain(c) ==
    /\ Begin
    /\ c \notin made
    /\ open' = open \cup {c}
    /\ made' = made \cup {c}
    /\ UNCHANGED <<h, table, clock, crash>>

\* link and anchor, of a page the client has just accessed.
LinkPage(c, p) ==
    /\ Begin
    /\ c \in open /\ table[p] # -1
    /\ LET old == h.resides[p]
           g   == IF old \notin {None, c} THEN Unlink(h, old, p) ELSE h
       IN  h' = Link([g EXCEPT !.assigned[p] = c], c, p)
    /\ UNCHANGED <<table, clock, open, made, crash>>

\* unlink(address): to the hated queue, unless the page is there.
UnlinkPage(p) ==
    /\ Begin
    /\ table[p] # -1 /\ h.resides[p] # "hated"
    /\ h' = Link([Unlink(h, h.resides[p], p) EXCEPT !.assigned[p] = "default"], "hated", p)
    /\ UNCHANGED <<table, clock, open, made, crash>>

BreakMemoryChain(c) ==
    /\ Begin
    /\ c \in open
    /\ h' = Hate(h, c)
    /\ UNCHANGED <<table, clock, open, made, crash>>

ReleaseMemoryChain(c) ==
    /\ Begin
    /\ c \in open
    /\ h' = Hate(h, c)
    /\ open' = open \ {c}
    /\ UNCHANGED <<table, clock, made, crash>>

Init ==
    /\ h = [ head |-> [c \in Chains |-> Null], tail |-> [c \in Chains |-> Null],
             size |-> [c \in Chains |-> 0],    rep  |-> [c \in Chains |-> Null],
             stamp |-> [c \in Chains |-> 0],
             next |-> [p \in Pages |-> Null],  prev |-> [p \in Pages |-> Null],
             resides |-> [p \in Pages |-> None], assigned |-> [p \in Pages |-> None],
             ts |-> [p \in Pages |-> 0] ]
    /\ table = [p \in Pages |-> -1]
    /\ clock = 0
    /\ open = {} /\ made = {}
    /\ crash = FALSE

Next ==
    \/ \E p \in Pages : Hit(p) \/ Fault(p) \/ UnlinkPage(p)
    \/ \E c \in UserChains :
          \/ CreateMemoryChain(c) \/ BreakMemoryChain(c) \/ ReleaseMemoryChain(c)
          \/ \E p \in Pages : LinkPage(c, p)

Spec == Init /\ [][Next]_vars
-----------------------------------------------------------------------------
(***************************************************************************)
(* Properties.                                                             *)
(***************************************************************************)

TypeOK ==
    /\ h \in [ head : [Chains -> Pages \cup {Null}], tail : [Chains -> Pages \cup {Null}],
               size : [Chains -> 0 .. Cardinality(Pages)],
               rep : [Chains -> Pages \cup {Null}], stamp : [Chains -> Nat],
               next : [Pages -> Pages \cup {Null}], prev : [Pages -> Pages \cup {Null}],
               resides : [Pages -> Chains \cup {None}],
               assigned : [Pages -> Chains \cup {None}], ts : [Pages -> Nat] ]
    /\ table \in [Pages -> Frames \cup {-1}]
    /\ clock \in Nat /\ open \in SUBSET UserChains /\ made \in SUBSET UserChains
    /\ crash \in BOOLEAN

\* Every chain is a proper doubly linked list: size pages from head to tail,
\* each reached once, prev the reverse of next, and all of them say that they
\* are on this chain.  The two-ended loops of timestamp() and victim() go
\* wrong otherwise.
ListsWellFormed ==
    \A c \in Chains :
        LET f == Nth(h, c)
            n == h.size[c]
        IN  /\ Cardinality(Members(h, c)) = n
            /\ n > 0 => f[n - 1] = h.tail[c] /\ h.next[h.tail[c]] = Null
            /\ \A i \in 0 .. n - 1 :
                  h.prev[f[i]] = IF i = 0 THEN Null ELSE f[i - 1]
            /\ \A p \in Pages : p \in Members(h, c) <=> h.resides[p] = c

\* A chain with a representative has a timestamp that no member exceeds, and
\* that is the representative's own while it is a member: what makes one
\* access protect the whole chain.  (After a break it may be too new, never
\* too old.)
TimestampIsNewest ==
    \A c \in open : h.rep[c] # Null =>
        /\ \A p \in Members(h, c) : h.ts[p] <= h.stamp[c]
        /\ h.resides[h.rep[c]] = c => h.ts[h.rep[c]] = h.stamp[c]

\* What every method relies on: proper lists, and a cached timestamp that is
\* never older than a member (MemoryChain.java:100-206, 340-380).
ListsSound == TypeOK /\ ListsWellFormed /\ TimestampIsNewest

\* How old a page is to the evictor: its chain's newest timestamp.
Age(p) ==
    IF h.resides[p] \in UserChains
    THEN CHOOSE n \in {h.ts[q] : q \in Members(h, h.resides[p])} :
            \A q \in Members(h, h.resides[p]) : h.ts[q] <= n
    ELSE h.ts[p]

\* No chain carries the timestamp of a page that has left it by a break.
NoStaleRep == \A c \in open : h.rep[c] # Null => h.resides[h.rep[c]] = c

EvictStep ==
    \A v \in Pages :
        (table[v] # -1 /\ table'[v] = -1) =>
            IF h.size["hated"] > 0 THEN h.resides[v] = "hated"
            ELSE NoStaleRep =>
                    \A p \in Pages : table[p] # -1 =>
                        /\ Age(v) <= Age(p)
                        /\ h.resides[p] = h.resides[v] => h.ts[v] <= h.ts[p]

\* The page that is evicted is hated if any page is; otherwise no chain and no
\* page of the default queue was unused for longer than its chain, and it is
\* the chain's own oldest page (unless a break has left a stale timestamp).
EvictsOldest == [][EvictStep]_vars

\* Where a page is to a client: the chain whose list holds it, if it is resident.
Where == [p \in Pages |-> IF table[p] = -1 \/ (crash /\ h.resides[p] = None) THEN "out"
                          ELSE CHOOSE c \in Chains : p \in Members(h, c)]

\* The manager implements the interface, as long as it has not crashed.
Promise == INSTANCE HierPromise WITH
    place <- Where, home <- h.assigned, open <- open

KeepsPromise == Promise!Init /\ [][crash' \/ Promise!Next]_(Promise!vars)

\* "If the page is not found in physical memory, a page fault occurs and the
\* page is retrieved" (IMemoryManager.java:8-10).
NoCrash == ~crash
=============================================================================
