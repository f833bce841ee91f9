----------------------------- MODULE HierPromise -----------------------------
(***************************************************************************)
(* What IMemoryManager promises its clients: physical memory holds at most *)
(* Size pages, a resident page is on exactly one chain, a page comes back  *)
(* to the chain it was assigned to, hated pages are evicted first, and     *)
(* links, breaks and releases move pages between chains and never out of   *)
(* memory.  How chains are stored and how a victim is chosen is left open. *)
(***************************************************************************)
EXTENDS Integers, FiniteSets

CONSTANTS
    Pages,       \* virtual addresses
    UserChains,  \* chains made by createMemoryChain
    Size         \* capacity of physical memory

Out  == "out"    \* where a page is that is not in physical memory
None == "none"   \* the assignment of a page that no call has assigned
SystemChains == {"hated", "default"}

VARIABLES
    place,   \* per page, the chain it is on, or Out
    home,    \* per page, the chain it is assigned to
    open     \* user chains created and not released

vars == <<place, home, open>>

Init ==
    /\ place = [p \in Pages |-> Out]
    /\ home = [p \in Pages |-> None]
    /\ open = {}

Resident == {p \in Pages : place[p] # Out}

Hated == {p \in Pages : place[p] = "hated"}

\* Pages that may be evicted: hated ones while there are any.
Candidates == IF Hated # {} THEN Hated ELSE Resident

Hit(p) == place[p] # Out /\ UNCHANGED vars

\* A page fault: at most one page leaves, and only when memory is full.
Fault(p) ==
    /\ place[p] = Out
    /\ home[p] \in open \cup SystemChains \cup {None}
    /\ \E gone \in SUBSET Candidates :
          /\ Cardinality(gone) = IF Cardinality(Resident) = Size THEN 1 ELSE 0
          /\ place' = [q \in Pages |->
                         CASE q \in gone -> Out
                           [] q = p      -> IF home[p] = None THEN "default" ELSE home[p]
                           [] OTHER      -> place[q]]
    /\ UNCHANGED <<home, open>>

Create(c) ==
    /\ open' = open \cup {c}
    /\ UNCHANGED <<place, home>>

Link(c, p) ==
    /\ c \in open /\ place[p] # Out
    /\ place' = [place EXCEPT ![p] = c]
    /\ home' = [home EXCEPT ![p] = c]
    /\ UNCHANGED open

Unlink(p) ==
    /\ place[p] # Out
    /\ place' = [place EXCEPT ![p] = "hated"]
    /\ home' = [home EXCEPT ![p] = "default"]
    /\ UNCHANGED open

\* The resident pages of c are hated from now on; with release, c is closed.
Break(c, close) ==
    /\ c \in open
    /\ place' = [p \in Pages |-> IF place[p] = c THEN "hated" ELSE place[p]]
    /\ home' = [p \in Pages |-> IF place[p] = c THEN "default" ELSE home[p]]
    /\ open' = open \ close

Next ==
    \/ \E p \in Pages : Hit(p) \/ Fault(p) \/ Unlink(p)
    \/ \E c \in UserChains :
          \/ Create(c) \/ Break(c, {}) \/ Break(c, {c})
          \/ \E p \in Pages : Link(c, p)

Spec == Init /\ [][Next]_vars
=============================================================================
