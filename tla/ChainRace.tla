------------------------------ MODULE ChainRace ------------------------------
(***************************************************************************)
(* The memory chains at the grain of their locks: what MemoryChain does in *)
(* one step is here a thread that takes locks, reads and writes, while     *)
(* other processors do the same.  Each task has one chain, named after it. *)
(*                                                                         *)
(* The locks are chain->lock and page->link_lock.  A collection's lock is  *)
(* only ever taken by its owner and zone->lru_lock never encloses another  *)
(* lock, so neither is modelled.  spin_lock_init by prep_new_page is.      *)
(*                                                                         *)
(* mm_types.h claims pairwise protection, and so the module is about       *)
(* pairs: the constant Overlap says which operations may be in progress    *)
(* together.  A run with every safe pair shows what the locks achieve; a   *)
(* run with one pair more shows what they do not.                          *)
(***************************************************************************)
EXTENDS Integers, FiniteSets

CONSTANTS
    Tasks,      \* owners of chains; a task also names its chain
    Workers,    \* other processors: reclaim, faults of other tasks, frees
    Pages,      \* page frames
    Overlap,    \* sets {a, b} of operations that may be in progress together
    Nobody,     \* the owner of a free lock
    NoPage,     \* a NULL struct page pointer
    NoChain     \* a NULL struct memory_chain pointer

Threads == Tasks \cup Workers
Chains  == Tasks
Locks   == Chains \cup Pages

ASSUME DisjointAssumption ==
    /\ Tasks \cap Workers = {} /\ Threads \cap Pages = {}
    /\ NoChain \notin Tasks /\ NoPage \notin Pages /\ Nobody \notin Threads
    /\ IsFiniteSet(Pages)

VARIABLES
    mem,    \* chain objects, page fields and the allocator's pages
    lock,   \* who holds each spin lock
    reg,    \* per thread: operation, program counter and local variables
    fault   \* what a wild pointer or a damaged list has led to

vars == <<mem, lock, reg, fault>>

Unlinkers  == {"brk", "rls", "exit"}
Operations == Unlinkers \cup {"link", "access", "scan", "free"}

\* Operations that may overlap safely.  Operations of one task never overlap.
Safe ==
    { {"scan"}, {"free"}, {"scan", "free"}, {"scan", "brk"}, {"scan", "rls"},
      {"scan", "exit"}, {"free", "brk"}, {"free", "access"},
      {"scan", "access"}, {"access"} }

\* Two tasks, whose operations overlap too, and links that overlap with users
\* of the page's referenced bit.
TwoOwners ==
    Safe \cup {{a, b} : a, b \in Unlinkers}
         \cup {{"link"}, {"link", "scan"}, {"link", "access"}}

Labels ==
    { "link.lock", "link.add", "link.break", "link.count", "link.unlock",
      "touch.test", "touch.set", "touch.delegate", "touch.flags",
      "set.bit", "set.count", "clear.bit", "clear.count",
      "free.read", "free.lock1", "free.lock2", "free.unlink", "free.count",
      "free.unlock", "brk.lock", "brk.next", "brk.page", "brk.del",
      "brk.reset", "brk.kfree" }

Idle ==
    [ op |-> "idle", pc |-> "idle", then |-> "idle", page |-> NoPage,
      next |-> NoPage, chain |-> NoChain, was |-> FALSE, n |-> 0 ]

Init ==
    /\ mem = [ alive |-> {},     \* chain objects not yet passed to kfree
               links |-> [c \in Chains |-> {}],
               nr    |-> [c \in Chains |-> 0],
               rc    |-> [c \in Chains |-> 0],
               chain |-> [p \in Pages |-> NoChain],
               ref   |-> {},     \* pages with PG_referenced set
               alloc |-> {} ]
    /\ lock = [l \in Locks |-> Nobody]
    /\ reg = [t \in Threads |-> Idle]
    /\ fault = "none"

-----------------------------------------------------------------------------
(***************************************************************************)
(* Building blocks of a step.                                              *)
(***************************************************************************)

At(t, label) == fault = "none" /\ reg[t].pc = label

Goto(t, label) == reg' = [reg EXCEPT ![t].pc = label]
Finish(t)      == reg' = [reg EXCEPT ![t] = Idle]

\* Leave a flag macro for what follows it in the operation.
Return(t) ==
    reg' = [reg EXCEPT ![t] =
              IF reg[t].then = "idle" THEN Idle
              ELSE [reg[t] EXCEPT !.pc = reg[t].then, !.then = "idle"]]

Fail(kind) == fault' = kind /\ UNCHANGED <<mem, lock, reg>>

Acquire(t, l) == lock[l] = Nobody /\ lock' = [lock EXCEPT ![l] = t]
Release(ls)   == lock' = [l \in Locks |-> IF l \in ls THEN Nobody ELSE lock[l]]

Compatible(t, op) ==
    \A u \in Threads \ {t} : reg[u].pc # "idle" => {op, reg[u].op} \in Overlap

Begin(t, op, p, label, then) ==
    /\ fault = "none"
    /\ reg[t] = Idle
    /\ Compatible(t, op)
    /\ reg' = [reg EXCEPT ![t] =
                 [Idle EXCEPT !.op = op, !.pc = label, !.then = then, !.page = p,
                              !.chain = IF t \in Tasks THEN t ELSE NoChain]]
    /\ UNCHANGED <<lock, fault>>

\* An access or a scan has a reference to its page, which keeps the page from
\* being freed; a range walk has none (follow_page is called without FOLL_GET).
Held(p) ==
    \E t \in Threads : reg[t].op \in {"access", "scan", "free"} /\ reg[t].page = p

-----------------------------------------------------------------------------
(***************************************************************************)
(* Operations begin.                                                       *)
(***************************************************************************)

\* new_mem_chain.  No other thread can reach the object yet.
NewMemChain(t) ==
    /\ fault = "none"
    /\ reg[t] = Idle /\ t \notin mem.alive
    /\ mem' = [mem EXCEPT !.alive = @ \cup {t}, !.links[t] = {},
                          !.nr[t] = 0, !.rc[t] = 0]
    /\ lock' = [lock EXCEPT ![t] = Nobody]
    /\ UNCHANGED <<reg, fault>>

BeginLink(t, p) ==
    /\ t \in mem.alive /\ p \in mem.alloc
    /\ Begin(t, "link", p, "link.lock", "idle")
    /\ UNCHANGED mem

BeginUnlink(t, op) ==
    /\ t \in mem.alive
    /\ Begin(t, op, NoPage, "brk.lock", "idle")
    /\ UNCHANGED mem

BeginAccess(t, p) ==
    /\ p \in mem.alloc /\ ~Held(p)
    /\ Begin(t, "access", p, "touch.test", "idle")
    /\ UNCHANGED mem

\* page_check_references: test and clear the bit, perhaps set it again.
BeginScan(t, p, again) ==
    /\ p \in mem.alloc /\ ~Held(p)
    /\ Begin(t, "scan", p, "clear.bit", IF again THEN "set.bit" ELSE "idle")
    /\ UNCHANGED mem

\* The last reference to a page is dropped; free_pages_check clears its flags.
BeginFree(t, p) ==
    /\ p \in mem.alloc /\ ~Held(p)
    /\ Begin(t, "free", p, "free.read", "idle")
    /\ mem' = [mem EXCEPT !.ref = @ \ {p}]

\* prep_new_page initializes the page's lock, its list node and its pointer.
\* A list that still leads through the node is damaged.
PrepNewPage(p) ==
    /\ fault = "none"
    /\ p \notin mem.alloc
    /\ fault' = IF \E c \in mem.alive : p \in mem.links[c] THEN "list" ELSE "none"
    /\ mem' = [mem EXCEPT !.alloc = @ \cup {p}, !.chain[p] = NoChain]
    /\ lock' = [lock EXCEPT ![p] = Nobody]
    /\ UNCHANGED reg

-----------------------------------------------------------------------------
(***************************************************************************)
(* One page of a range walk (mchain.c, __mlink_vma_pages_range).           *)
(***************************************************************************)

LinkLock(t) ==
    /\ At(t, "link.lock")
    /\ Acquire(t, reg[t].page)
    /\ Goto(t, "link.add")
    /\ UNCHANGED <<mem, fault>>

\* __link_page up to the list_add; the length is read to be incremented.
LinkAdd(t) ==
    /\ At(t, "link.add")
    /\ LET c == reg[t].chain
           p == reg[t].page
       IN  \/ /\ mem.chain[p] = c
              /\ Goto(t, "link.unlock")
              /\ UNCHANGED mem
           \/ /\ mem.chain[p] \notin {c, NoChain}
              /\ Goto(t, "link.break")
              /\ UNCHANGED mem
           \/ /\ mem.chain[p] = NoChain
              /\ mem' = [mem EXCEPT !.chain[p] = c, !.links[c] = @ \cup {p}]
              /\ reg' = [reg EXCEPT ![t].pc = "link.count", ![t].n = mem.nr[c]]
    /\ UNCHANGED <<lock, fault>>

\* The page is on another chain: that chain's lock is taken, the page is
\* unlinked, and the unlock goes through the pointer just set to NULL.
LinkBreak(t) ==
    /\ At(t, "link.break")
    /\ LET old == mem.chain[reg[t].page]
       IN  old \in Chains => lock[old] = Nobody
    /\ Fail("null")

LinkCount(t) ==
    /\ At(t, "link.count")
    /\ LET c == reg[t].chain
       IN  mem' = [mem EXCEPT !.nr[c] = reg[t].n + 1,
                              !.rc[c] = IF reg[t].page \in mem.ref THEN @ + 1 ELSE @]
    /\ Goto(t, "link.unlock")
    /\ UNCHANGED <<lock, fault>>

\* The walk then calls mark_page_accessed, without the page's lock.
LinkUnlock(t) ==
    /\ At(t, "link.unlock")
    /\ Release({reg[t].page})
    /\ Goto(t, "touch.test")
    /\ UNCHANGED <<mem, fault>>

-----------------------------------------------------------------------------
(***************************************************************************)
(* mark_page_accessed (swap.c) and the flag macros (page-flags.h).         *)
(***************************************************************************)

TouchTest(t) ==
    /\ At(t, "touch.test")
    /\ LET c == mem.chain[reg[t].page]
       IN  reg' = [reg EXCEPT ![t].chain = c,
                              ![t].pc = IF c = NoChain THEN "touch.flags"
                                                       ELSE "touch.set"]
    /\ UNCHANGED <<mem, lock, fault>>

TouchSet(t) ==
    /\ At(t, "touch.set")
    /\ LET c == reg[t].chain
       IN  IF c \notin mem.alive
           THEN Fail("freed")
           ELSE /\ mem' = [mem EXCEPT !.rc[c] = mem.nr[c]]
                /\ Goto(t, "touch.delegate")
                /\ UNCHANGED <<lock, fault>>

\* page->chain is loaded again: the store to ref_counter may alias it.  The
\* delegate itself is read by no one and is left to MemoryChain.
TouchDelegate(t) ==
    /\ At(t, "touch.delegate")
    /\ LET c == mem.chain[reg[t].page]
       IN  IF c \in mem.alive
           THEN Goto(t, "touch.flags") /\ UNCHANGED <<mem, lock, fault>>
           ELSE Fail(IF c = NoChain THEN "null" ELSE "freed")

\* The macros add n to the counter of the page's chain with the page's
\* link_lock held.  The critical section is one step, which needs the lock free.
UnderLinkLock(t, n) ==
    LET p == reg[t].page
        c == mem.chain[p]
    IN  /\ lock[p] = Nobody
        /\ IF c = NoChain THEN mem' = mem /\ Return(t) /\ UNCHANGED <<lock, fault>>
           ELSE IF c \notin mem.alive THEN Fail("freed")
           ELSE /\ mem' = [mem EXCEPT !.rc[c] = @ + n]
                /\ Return(t)
                /\ UNCHANGED <<lock, fault>>

\* What mark_page_accessed does to the page's bit.  candidate: the page is on
\* an LRU list, inactive and evictable, so that PageReferenced is evaluated.
TouchFlags(t, candidate) ==
    LET p      == reg[t].page
        c      == mem.chain[p]
        set    == p \in mem.ref
        active == set \/ (c # NoChain /\ mem.rc[c] # 0)
    IN  /\ At(t, "touch.flags")
        /\ (candidate /\ ~set) => lock[p] = Nobody
        /\ IF candidate /\ ~set /\ c # NoChain /\ c \notin mem.alive THEN Fail("freed")
           ELSE /\ reg' = [reg EXCEPT ![t] =
                     IF candidate /\ active
                     THEN [@ EXCEPT !.pc   = IF set THEN "clear.bit" ELSE "set.bit",
                                    !.then = IF set THEN "idle" ELSE "clear.bit"]
                     ELSE IF set THEN Idle ELSE [@ EXCEPT !.pc = "set.bit"]]
                /\ UNCHANGED <<mem, lock, fault>>

SetBit(t) ==
    /\ At(t, "set.bit")
    /\ mem' = [mem EXCEPT !.ref = @ \cup {reg[t].page}]
    /\ Goto(t, "set.count")
    /\ UNCHANGED <<lock, fault>>

SetCount(t) == At(t, "set.count") /\ UnderLinkLock(t, 1)

ClearBit(t) ==
    /\ At(t, "clear.bit")
    /\ mem' = [mem EXCEPT !.ref = @ \ {reg[t].page}]
    /\ reg' = [reg EXCEPT ![t].pc = "clear.count", ![t].was = reg[t].page \in mem.ref]
    /\ UNCHANGED <<lock, fault>>

\* Faulty variant: the counter drops although the bit was clear.
ClearCount_Always(t) == At(t, "clear.count") /\ UnderLinkLock(t, -1)

ClearCount(t) ==
    At(t, "clear.count") /\ UnderLinkLock(t, IF reg[t].was THEN -1 ELSE 0)

-----------------------------------------------------------------------------
(***************************************************************************)
(* The free of a page (page_alloc.c, free_pages_prepare).                  *)
(***************************************************************************)

\* page->chain is read without a lock, to know which chain to lock.
FreeRead(t) ==
    /\ At(t, "free.read")
    /\ LET p == reg[t].page
           c == mem.chain[p]
       IN  IF c = NoChain
           THEN mem' = [mem EXCEPT !.alloc = @ \ {p}] /\ Finish(t)
           ELSE /\ reg' = [reg EXCEPT ![t].chain = c, ![t].pc = "free.lock1"]
                /\ UNCHANGED mem
    /\ UNCHANGED <<lock, fault>>

\* Faulty variant: the page is locked before the chain.
FreeOrder_PageFirst(r) == <<r.page, r.chain>>

FreeOrder(r) == <<r.chain, r.page>>

\* Faulty variant: the chain is not locked.
FreeLock1_None(t) ==
    /\ At(t, "free.lock1")
    /\ Goto(t, "free.lock2")
    /\ UNCHANGED <<mem, lock, fault>>

FreeLock1(t) ==
    /\ At(t, "free.lock1")
    /\ IF reg[t].chain \notin mem.alive THEN Fail("freed")
       ELSE /\ Acquire(t, FreeOrder(reg[t])[1])
            /\ Goto(t, "free.lock2")
            /\ UNCHANGED <<mem, fault>>

FreeLock2(t) ==
    /\ At(t, "free.lock2")
    /\ Acquire(t, FreeOrder(reg[t])[2])
    /\ Goto(t, "free.unlink")
    /\ UNCHANGED <<mem, fault>>

\* __unlink_page reads page->chain again, now with both locks: the page may
\* have left its chain in between.
FreeUnlink(t) ==
    /\ At(t, "free.unlink")
    /\ LET p == reg[t].page
           c == mem.chain[p]
       IN  IF c = NoChain THEN Goto(t, "free.unlock") /\ UNCHANGED <<mem, lock, fault>>
           ELSE IF c \notin mem.alive THEN Fail("freed")
           ELSE IF p \notin mem.links[c] THEN Fail("list")
           ELSE /\ mem' = [mem EXCEPT !.links[c] = @ \ {p}]
                /\ reg' = [reg EXCEPT ![t].pc = "free.count", ![t].n = mem.nr[c]]
                /\ UNCHANGED <<lock, fault>>

FreeCount(t) ==
    /\ At(t, "free.count")
    /\ LET p == reg[t].page
           c == mem.chain[p]
       IN  IF c \notin mem.alive THEN Fail(IF c = NoChain THEN "null" ELSE "freed")
           ELSE /\ mem' = [mem EXCEPT !.nr[c]    = reg[t].n - 1,
                                      !.rc[c]    = IF p \in mem.ref THEN @ - 1 ELSE @,
                                      !.chain[p] = NoChain]
                /\ Goto(t, "free.unlock")
                /\ UNCHANGED <<lock, fault>>

\* Both locks are released, the chain's through the pointer read at first.
FreeUnlock(t) ==
    /\ At(t, "free.unlock")
    /\ IF reg[t].chain \notin mem.alive THEN Fail("freed")
       ELSE /\ Release({reg[t].chain, reg[t].page})
            /\ mem' = [mem EXCEPT !.alloc = @ \ {reg[t].page}]
            /\ Finish(t)
            /\ UNCHANGED fault

-----------------------------------------------------------------------------
(***************************************************************************)
(* brk_mem_chain and rls_mem_chain (mchain.c), and exit (exit.c).          *)
(***************************************************************************)

Elem(S) == IF S = {} THEN {NoPage} ELSE S

\* Faulty variant: the chain is not locked.
BrkLock_None(t) ==
    /\ At(t, "brk.lock")
    /\ \E p \in Elem(mem.links[reg[t].chain]) :
          reg' = [reg EXCEPT ![t].pc = "brk.next", ![t].page = p]
    /\ UNCHANGED <<mem, lock, fault>>

BrkLock(t) ==
    /\ At(t, "brk.lock")
    /\ Acquire(t, reg[t].chain)
    /\ \E p \in Elem(mem.links[reg[t].chain]) :
          reg' = [reg EXCEPT ![t].pc = "brk.next", ![t].page = p]
    /\ UNCHANGED <<mem, fault>>

\* list_for_each_entry_safe reads the next page before the body runs.
BrkNext(t) ==
    /\ At(t, "brk.next")
    /\ LET p == reg[t].page
           S == mem.links[reg[t].chain]
       IN  IF p = NoPage THEN Goto(t, "brk.reset") /\ UNCHANGED <<mem, lock, fault>>
           ELSE IF p \notin S THEN Fail("list")
           ELSE \E q \in Elem(S \ {p}) :
                   /\ reg' = [reg EXCEPT ![t].pc = "brk.page", ![t].next = q]
                   /\ UNCHANGED <<mem, lock, fault>>

BrkPage(t) ==
    /\ At(t, "brk.page")
    /\ Acquire(t, reg[t].page)
    /\ Goto(t, "brk.del")
    /\ UNCHANGED <<mem, fault>>

\* The page leaves the list; break and release also clear its referenced bit.
Detached(t) ==
    LET p     == reg[t].page
        c     == mem.chain[p]
        clear == reg[t].op # "exit" /\ p \in mem.ref
    IN  [mem EXCEPT !.links[reg[t].chain] = @ \ {p},
                    !.chain[p] = NoChain,
                    !.ref      = IF clear THEN @ \ {p} ELSE @,
                    !.rc       = [d \in Chains |-> @[d] - IF clear /\ d = c THEN 1 ELSE 0]]

\* Faulty variant: the page's lock is not released.
BrkDel_KeepLock(t) ==
    /\ At(t, "brk.del")
    /\ mem' = Detached(t)
    /\ reg' = [reg EXCEPT ![t].pc = "brk.next", ![t].page = reg[t].next]
    /\ UNCHANGED <<lock, fault>>

BrkDel(t) ==
    /\ At(t, "brk.del")
    /\ LET p == reg[t].page
       IN  IF p \notin mem.links[reg[t].chain] THEN Fail("list")
           ELSE IF reg[t].op # "exit" /\ p \in mem.ref /\ mem.chain[p] = NoChain
           THEN Fail("null")
           ELSE /\ mem' = Detached(t)
                /\ Release({p})
                /\ reg' = [reg EXCEPT ![t].pc = "brk.next", ![t].page = reg[t].next]
                /\ UNCHANGED fault

\* Break and release reset the chain's fields; exit does not.
BrkReset(t) ==
    /\ At(t, "brk.reset")
    /\ LET c == reg[t].chain
       IN  /\ mem' = IF reg[t].op = "exit" THEN mem
                     ELSE [mem EXCEPT !.links[c] = {}, !.nr[c] = 0, !.rc[c] = 0]
           /\ Release({c})
    /\ IF reg[t].op = "brk" THEN Finish(t) ELSE Goto(t, "brk.kfree")
    /\ UNCHANGED fault

Kfree(t) ==
    /\ At(t, "brk.kfree")
    /\ mem' = [mem EXCEPT !.alive = @ \ {reg[t].chain}]
    /\ Finish(t)
    /\ UNCHANGED <<lock, fault>>

-----------------------------------------------------------------------------
BeginNext ==
    \/ \E t \in Tasks :
          \/ NewMemChain(t)
          \/ \E p \in Pages : BeginLink(t, p) \/ BeginAccess(t, p)
          \/ \E op \in Unlinkers : BeginUnlink(t, op)
    \/ \E w \in Workers, p \in Pages :
          \/ BeginAccess(w, p)
          \/ \E again \in BOOLEAN : BeginScan(w, p, again)
          \/ BeginFree(w, p)
    \/ \E p \in Pages : PrepNewPage(p)

Step(t) ==
    \/ LinkLock(t) \/ LinkAdd(t) \/ LinkBreak(t) \/ LinkCount(t) \/ LinkUnlock(t)
    \/ TouchTest(t) \/ TouchSet(t) \/ TouchDelegate(t)
    \/ \E candidate \in BOOLEAN : TouchFlags(t, candidate)
    \/ SetBit(t) \/ SetCount(t) \/ ClearBit(t) \/ ClearCount(t)
    \/ FreeRead(t) \/ FreeLock1(t) \/ FreeLock2(t)
    \/ FreeUnlink(t) \/ FreeCount(t) \/ FreeUnlock(t)
    \/ BrkLock(t) \/ BrkNext(t) \/ BrkPage(t) \/ BrkDel(t) \/ BrkReset(t) \/ Kfree(t)

Next == BeginNext \/ \E t \in Threads : Step(t)

Spec == Init /\ [][Next]_vars

\* A processor runs the code it has begun, and ticket spin locks are granted
\* in the order they were asked for, so that no waiter is passed over forever.
FairSpec == Spec /\ \A t \in Threads : SF_vars(Step(t))

-----------------------------------------------------------------------------
(***************************************************************************)
(* Properties.                                                             *)
(***************************************************************************)

\* Every variable has its type; nr_links, an unsigned long, never wraps below
\* zero nor exceeds the number of pages while only safe pairs overlap.
TypeOK ==
    /\ mem \in [ alive : SUBSET Chains, links : [Chains -> SUBSET Pages],
                 nr : [Chains -> 0 .. Cardinality(Pages)], rc : [Chains -> Int],
                 chain : [Pages -> Chains \cup {NoChain}],
                 ref : SUBSET Pages, alloc : SUBSET Pages ]
    /\ lock \in [Locks -> Threads \cup {Nobody}]
    /\ reg \in [Threads ->
          [ op : Operations \cup {"idle"}, pc : Labels \cup {"idle"},
            then : Labels \cup {"idle"}, page : Pages \cup {NoPage},
            next : Pages \cup {NoPage}, chain : Chains \cup {NoChain},
            was : BOOLEAN, n : Int ]]
    /\ fault \in {"none", "null", "freed", "list"}

\* No thread follows a NULL or freed chain pointer, and no list operation meets
\* a node that is not where it should be, however the overlapping operations
\* interleave: the pairwise protection mm_types.h:107 speaks of.  A link that
\* moves a page from another task's chain always faults, and it alone may.
FaultsOnlyByTransfer ==
    fault # "none" => fault = "null" /\ \E t \in Threads : reg[t].pc = "link.break"

AtRest == \A t \in Threads : reg[t].pc = "idle"

\* When no operation is in progress nr_links is the length of the list: no
\* increment or decrement (plain ones, mchain.c:137 and 183) has been lost.
NrLinksAtRest ==
    AtRest => \A c \in mem.alive : mem.nr[c] = Cardinality(mem.links[c])

\* At rest, moreover, the pages' chain pointers and the lists of the chains
\* agree, and no pointer is left to a chain that was freed.
MembershipAtRest ==
    /\ NrLinksAtRest
    /\ AtRest =>
          /\ \A p \in Pages : mem.chain[p] # NoChain => mem.chain[p] \in mem.alive
          /\ \A c \in mem.alive : mem.links[c] = {p \in Pages : mem.chain[p] = c}

\* When no operation is in progress a chain's ref_counter is at least the
\* number of its referenced pages, although the bit and the counter are
\* changed apart (page-flags.h:506-511, 515-520, 524-532).
RefCounterAtRest ==
    AtRest => \A c \in mem.alive :
                 mem.rc[c] >= Cardinality(mem.links[c] \cap mem.ref)

\* A freed page is on no chain (page_alloc.c:664, "unlink freed page").
FreedIsUnlinked ==
    AtRest => \A c \in mem.alive : mem.links[c] \subseteq mem.alloc

\* What the locks are for: no thread meets a wild pointer or a damaged list, and
\* whenever no operation is in progress, lists, lengths and chain pointers agree,
\* no pointer is left to a freed chain, and no free page is on a chain.
ConsistentAtRest == TypeOK /\ FaultsOnlyByTransfer /\ MembershipAtRest /\ FreedIsUnlinked

\* The lock a thread is spinning for, if it is.
Wants(t) ==
    CASE reg[t].pc \in {"link.lock", "brk.page", "set.count", "clear.count"} ->
            {reg[t].page}
      [] reg[t].pc = "brk.lock"   -> {reg[t].chain}
      [] reg[t].pc = "free.lock1" -> {FreeOrder(reg[t])[1]}
      [] reg[t].pc = "free.lock2" -> {FreeOrder(reg[t])[2]}
      [] reg[t].pc = "link.break" -> {mem.chain[reg[t].page]} \cap Chains
      [] OTHER                    -> {}

\* Threads never wait for each other in a circle: free, break, release and
\* exit all lock the chain before the page (page_alloc.c:667, mchain.c:577 and
\* 538, exit.c:911), and a link holds its page's lock alone.
NoWaitCycle ==
    \A S \in (SUBSET Threads) \ {{}} :
        \E t \in S : \A l \in Wants(t) : lock[l] \notin S

\* Every system call, free and flag update that has begun comes to its end.
Terminates == \A t \in Threads : reg[t].pc # "idle" ~> reg[t].pc = "idle"


=============================================================================
