-------------------------- MODULE ChainRaceProofs --------------------------
(***************************************************************************)
(* What the chains' locks achieve, for any number of tasks, processors and *)
(* pages.  The hypothesis on Overlap says which operations are in progress *)
(* together: it is the claim of mm_types.h, stated pair by pair.           *)
(*                                                                         *)
(* Core, the invariant, has a conjunct for each thing a thread relies on   *)
(* between two of its steps: which operation its label belongs to, who may *)
(* run beside it, which locks it holds there, what the page's chain        *)
(* pointer and the list say of each other while a free is half done, which *)
(* page its walk has got to, and which pages nr_links counts while an      *)
(* increment is on its way.  RInv adds the pages that a chain's reference  *)
(* counter has to cover while its flags and the counter are apart.         *)
(***************************************************************************)
EXTENDS ChainRace, FiniteSetTheorems, TLAPS

-----------------------------------------------------------------------------
(* The inductive invariant *)

Mem == [ alive : SUBSET Chains, links : [Chains -> SUBSET Pages],
         nr : [Chains -> Int], rc : [Chains -> Int],
         chain : [Pages -> Chains \cup {NoChain}],
         ref : SUBSET Pages, alloc : SUBSET Pages ]

Reg == [ op : Operations \cup {"idle"}, pc : Labels \cup {"idle"},
         then : Labels \cup {"idle"}, page : Pages \cup {NoPage},
         next : Pages \cup {NoPage}, chain : Chains \cup {NoChain},
         was : BOOLEAN, n : Int ]

Types ==
    /\ mem \in Mem
    /\ lock \in [Locks -> Threads \cup {Nobody}]
    /\ reg \in [Threads -> Reg]
    /\ fault \in {"none", "null", "freed", "list"}

Linking == {"link.lock", "link.add", "link.break", "link.count", "link.unlock"}
Touching == {"touch.test", "touch.set", "touch.delegate", "touch.flags"}
Flagging == {"set.bit", "set.count", "clear.bit", "clear.count"}
Freeing == {"free.read", "free.lock1", "free.lock2", "free.unlink", "free.count", "free.unlock"}
Unlinking == {"brk.lock", "brk.next", "brk.page", "brk.del", "brk.reset", "brk.kfree"}

\* Operations that name a page from their beginning on
OnPages == {"link", "access", "scan", "free"}
Holders == {"access", "scan", "free"}

\* A thread is at a label of its operation.
Placed(r) ==
    /\ r.pc = "idle" => r = Idle
    /\ r.pc \in Linking => r.op = "link"
    /\ r.pc \in Touching => r.op \in {"link", "access"}
    /\ r.pc \in Flagging => r.op \in {"link", "access", "scan"}
    /\ r.pc \in Freeing => r.op = "free"
    /\ r.pc \in Unlinking => r.op \in Unlinkers
    /\ r.pc = "brk.kfree" => r.op # "brk"
    /\ r.then # "idle" =>
          \/ r.then = "clear.bit" /\ r.pc \in {"set.bit", "set.count"}
          \/ r.then = "set.bit" /\ r.pc \in {"clear.bit", "clear.count"}

\* Operations of tasks are on the task's own chain, which lives.
Owned(t) ==
    /\ reg[t].op \in Unlinkers \cup {"link"} => t \in Tasks /\ t \in mem.alive
    /\ reg[t].pc \in Linking \cup Unlinking => reg[t].chain = t
    /\ reg[t].op \in OnPages => reg[t].page \in mem.alloc

Sequenced == \A t \in Threads : Placed(reg[t]) /\ Owned(t)

\* Which operations are in progress together, and on which pages.
Paired ==
    \A t, u \in Threads : t # u /\ reg[t].pc # "idle" /\ reg[u].pc # "idle" =>
        /\ {reg[t].op, reg[u].op} \in Overlap
        /\ reg[t].op \in Holders /\ reg[u].op \in Holders => reg[t].page # reg[u].page

\* The locks a thread holds at its label
Holds(t) ==
    CASE reg[t].pc \in {"link.add", "link.break", "link.count", "link.unlock"} -> {reg[t].page}
      [] reg[t].pc \in {"free.lock2", "brk.next", "brk.page", "brk.reset"} -> {reg[t].chain}
      [] reg[t].pc \in {"free.unlink", "free.count", "free.unlock", "brk.del"} ->
            {reg[t].chain, reg[t].page}
      [] OTHER -> {}

Locked == \A l \in Locks, t \in Threads : lock[l] = t <=> l \in Holds(t)

\* Page p is off its list and not yet off its chain.
Leaving(p) == \E t \in Threads : reg[t].pc = "free.count" /\ reg[t].page = p

Member ==
    /\ \A p \in Pages : mem.chain[p] # NoChain =>
          /\ mem.chain[p] \in mem.alive
          /\ p \in mem.links[mem.chain[p]] \/ Leaving(p)
    /\ \A c \in mem.alive : \A p \in mem.links[c] : mem.chain[p] = c /\ p \in mem.alloc

\* The chain that a thread has in hand
InHand(t) ==
    LET r == reg[t]
    IN  /\ r.pc = "link.count" => mem.chain[r.page] = t /\ r.n = mem.nr[t]
        /\ r.pc = "link.count" => r.page \in mem.links[t]
        /\ r.pc \in {"touch.set", "touch.delegate"} =>
              r.chain = mem.chain[r.page] /\ r.chain \in mem.alive
        /\ r.pc \in Freeing \ {"free.read"} =>
              r.chain \in mem.alive /\ mem.chain[r.page] \in {r.chain, NoChain}
        /\ r.pc = "free.count" => /\ mem.chain[r.page] = r.chain /\ r.n = mem.nr[r.chain]
                                  /\ r.page \notin mem.links[r.chain]
        /\ r.pc = "free.unlock" => mem.chain[r.page] = NoChain
        /\ r.op = "free" => r.page \notin mem.ref

\* Where a walk over a chain's list stands
Walked(t) ==
    LET r == reg[t]
    IN  /\ r.pc = "brk.next" => IF r.page = NoPage THEN mem.links[t] = {}
                                ELSE r.page \in mem.links[t]
        /\ r.pc \in {"brk.page", "brk.del"} =>
              /\ r.page \in mem.links[t]
              /\ IF r.next = NoPage THEN mem.links[t] = {r.page}
                 ELSE r.next \in mem.links[t] \ {r.page}
        /\ r.pc \in {"brk.reset", "brk.kfree"} => mem.links[t] = {}

Walks == \A t \in Threads : InHand(t) /\ Walked(t)

\* The pages that nr_links of a chain counts
Counted(c) ==
    {p \in Pages : /\ mem.chain[p] = c
                   /\ ~\E t \in Threads : reg[t].pc = "link.count" /\ reg[t].page = p}

\* The chain lives and its task is not taking it apart.
Steady(c) == c \in mem.alive /\ reg[c].pc \notin Unlinking \ {"brk.lock"}

\* nr_links is the number of the counted pages.
Exact == \A c \in Chains : Steady(c) => mem.nr[c] = Cardinality(Counted(c))

Bounded == \A c \in Chains : mem.nr[c] \in 0 .. Cardinality(Pages)

\* What the locks preserve; it holds in a state with a fault, too
Core == Types /\ Sequenced /\ Paired /\ Locked /\ Member /\ Walks /\ Exact /\ Bounded
IInv == Core /\ FaultsOnlyByTransfer

\* A flag of p has been changed, and its chain's counter has not, yet.
SetPending(p)   == \E t \in Threads : reg[t].pc = "set.count" /\ reg[t].page = p
ClearPending(p) == \E t \in Threads : reg[t].pc = "clear.count" /\ reg[t].was /\ reg[t].page = p

\* The pages that the reference counter of a chain has to cover
Owed(c) == {p \in Counted(c) : (p \in mem.ref /\ ~SetPending(p)) \/ ClearPending(p)}

\* The reference counter covers what it owes, and a thread about to subtract
\* from it is right that the bit is clear.
Covers == \A c \in Chains : Steady(c) => mem.rc[c] >= Cardinality(Owed(c))
Cleared == \A t \in Threads : reg[t].pc = "clear.count" => reg[t].page \notin mem.ref

RInv == IInv /\ Covers /\ Cleared

-----------------------------------------------------------------------------
(* What a step does to the locals of its thread *)

\* The locals of an idle thread have their types.
LEMMA IdleReg == Idle \in Reg
  BY DEF Idle, Reg, Operations, Labels, Unlinkers

\* What a step leaves alone of a thread's locals
Keeps(t) ==
    /\ reg'[t].op = reg[t].op /\ reg'[t].page = reg[t].page /\ reg'[t].chain = reg[t].chain
    /\ reg'[t].then = reg[t].then /\ reg'[t].n = reg[t].n /\ reg'[t].was = reg[t].was
    /\ reg'[t].next = reg[t].next

\* The step is one of thread t.
Only(t) == reg' \in [Threads -> Reg] /\ \A u \in Threads \ {t} : reg'[u] = reg[u]

\* A step that replaces the locals of one thread is a step of that thread.
LEMMA OneReg ==
    ASSUME reg \in [Threads -> Reg], NEW t \in Threads, NEW r \in Reg, reg' = [reg EXCEPT ![t] = r]
    PROVE  Only(t) /\ reg'[t] = r
  BY DEF Only

\* A jump changes the label and nothing else.
LEMMA GotoReg ==
    ASSUME reg \in [Threads -> Reg], NEW t \in Threads, NEW pc \in Labels, Goto(t, pc)
    PROVE  Only(t) /\ reg'[t].pc = pc /\ Keeps(t)
<1> DEFINE r == [reg[t] EXCEPT !.pc = pc]
<1>1. reg[t] \in Reg
  OBVIOUS
<1>2. /\ r.op = reg[t].op /\ r.page = reg[t].page /\ r.chain = reg[t].chain
      /\ r.then = reg[t].then /\ r.n = reg[t].n /\ r.was = reg[t].was
      /\ r.next = reg[t].next /\ r.pc = pc
  BY <1>1 DEF Reg
<1>3. r \in Reg
  BY <1>1 DEF Reg
<1>4. reg' = [reg EXCEPT ![t] = r]
  BY DEF Goto
<1> HIDE DEF r
<1>5. Only(t) /\ reg'[t] = r
  BY <1>3, <1>4, OneReg
<1> QED  BY <1>2, <1>5 DEF Keeps

\* A thread that finishes is idle.
LEMMA FinishReg ==
    ASSUME reg \in [Threads -> Reg], NEW t \in Threads, Finish(t)
    PROVE  Only(t) /\ reg'[t] = Idle
  BY IdleReg, OneReg DEF Finish

\* A jump that reads nr_links into a local
LEMMA CountReg ==
    ASSUME reg \in [Threads -> Reg], NEW t \in Threads, NEW pc \in Labels,
           NEW x \in Int, reg' = [reg EXCEPT ![t].pc = pc, ![t].n = x]
    PROVE  /\ Only(t) /\ reg'[t].pc = pc /\ reg'[t].n = x
           /\ reg'[t].op = reg[t].op /\ reg'[t].page = reg[t].page /\ reg'[t].chain = reg[t].chain
           /\ reg'[t].then = reg[t].then /\ reg'[t].was = reg[t].was /\ reg'[t].next = reg[t].next
<1> DEFINE r == [reg[t] EXCEPT !.pc = pc, !.n = x]
<1>1. reg[t] \in Reg
  OBVIOUS
<1>2. /\ r.pc = pc /\ r.n = x
      /\ r.op = reg[t].op /\ r.page = reg[t].page /\ r.chain = reg[t].chain
      /\ r.then = reg[t].then /\ r.was = reg[t].was /\ r.next = reg[t].next
  BY <1>1 DEF Reg
<1>3. r \in Reg
  BY <1>1 DEF Reg
<1>4. reg' = [reg EXCEPT ![t] = r]
  BY DEF Reg
<1> HIDE DEF r
<1>5. Only(t) /\ reg'[t] = r
  BY <1>3, <1>4, OneReg
<1> QED  BY <1>2, <1>5

\* A jump that reads page->chain into a local
LEMMA ChainReg ==
    ASSUME reg \in [Threads -> Reg], NEW t \in Threads, NEW pc \in Labels,
           NEW x \in Chains \cup {NoChain}, reg' = [reg EXCEPT ![t].pc = pc, ![t].chain = x]
    PROVE  /\ Only(t) /\ reg'[t].pc = pc /\ reg'[t].chain = x
           /\ reg'[t].op = reg[t].op /\ reg'[t].page = reg[t].page /\ reg'[t].then = reg[t].then
           /\ reg'[t].n = reg[t].n /\ reg'[t].was = reg[t].was /\ reg'[t].next = reg[t].next
<1> DEFINE r == [reg[t] EXCEPT !.pc = pc, !.chain = x]
<1>1. reg[t] \in Reg
  OBVIOUS
<1>2. /\ r.pc = pc /\ r.chain = x
      /\ r.op = reg[t].op /\ r.page = reg[t].page /\ r.then = reg[t].then
      /\ r.n = reg[t].n /\ r.was = reg[t].was /\ r.next = reg[t].next
  BY <1>1 DEF Reg
<1>3. r \in Reg
  BY <1>1 DEF Reg
<1>4. reg' = [reg EXCEPT ![t] = r]
  BY DEF Reg
<1> HIDE DEF r
<1>5. Only(t) /\ reg'[t] = r
  BY <1>3, <1>4, OneReg
<1> QED  BY <1>2, <1>5

\* A jump that moves a walk on to another page
LEMMA PageReg ==
    ASSUME reg \in [Threads -> Reg], NEW t \in Threads, NEW pc \in Labels,
           NEW x \in Pages \cup {NoPage}, reg' = [reg EXCEPT ![t].pc = pc, ![t].page = x]
    PROVE  /\ Only(t) /\ reg'[t].pc = pc /\ reg'[t].page = x
           /\ reg'[t].op = reg[t].op /\ reg'[t].chain = reg[t].chain /\ reg'[t].then = reg[t].then
           /\ reg'[t].n = reg[t].n /\ reg'[t].was = reg[t].was /\ reg'[t].next = reg[t].next
<1> DEFINE r == [reg[t] EXCEPT !.pc = pc, !.page = x]
<1>1. reg[t] \in Reg
  OBVIOUS
<1>2. /\ r.pc = pc /\ r.page = x
      /\ r.op = reg[t].op /\ r.chain = reg[t].chain /\ r.then = reg[t].then
      /\ r.n = reg[t].n /\ r.was = reg[t].was /\ r.next = reg[t].next
  BY <1>1 DEF Reg
<1>3. r \in Reg
  BY <1>1 DEF Reg
<1>4. reg' = [reg EXCEPT ![t] = r]
  BY DEF Reg
<1> HIDE DEF r
<1>5. Only(t) /\ reg'[t] = r
  BY <1>3, <1>4, OneReg
<1> QED  BY <1>2, <1>5

\* A jump that reads the page after this one
LEMMA NextReg ==
    ASSUME reg \in [Threads -> Reg], NEW t \in Threads, NEW pc \in Labels,
           NEW x \in Pages \cup {NoPage}, reg' = [reg EXCEPT ![t].pc = pc, ![t].next = x]
    PROVE  /\ Only(t) /\ reg'[t].pc = pc /\ reg'[t].next = x
           /\ reg'[t].op = reg[t].op /\ reg'[t].page = reg[t].page /\ reg'[t].chain = reg[t].chain
           /\ reg'[t].then = reg[t].then /\ reg'[t].n = reg[t].n /\ reg'[t].was = reg[t].was
<1> DEFINE r == [reg[t] EXCEPT !.pc = pc, !.next = x]
<1>1. reg[t] \in Reg
  OBVIOUS
<1>2. /\ r.pc = pc /\ r.next = x
      /\ r.op = reg[t].op /\ r.page = reg[t].page /\ r.chain = reg[t].chain
      /\ r.then = reg[t].then /\ r.n = reg[t].n /\ r.was = reg[t].was
  BY <1>1 DEF Reg
<1>3. r \in Reg
  BY <1>1 DEF Reg
<1>4. reg' = [reg EXCEPT ![t] = r]
  BY DEF Reg
<1> HIDE DEF r
<1>5. Only(t) /\ reg'[t] = r
  BY <1>3, <1>4, OneReg
<1> QED  BY <1>2, <1>5

\* A jump that remembers whether the bit was set
LEMMA WasReg ==
    ASSUME reg \in [Threads -> Reg], NEW t \in Threads, NEW pc \in Labels,
           NEW x \in BOOLEAN, reg' = [reg EXCEPT ![t].pc = pc, ![t].was = x]
    PROVE  /\ Only(t) /\ reg'[t].pc = pc /\ reg'[t].was = x
           /\ reg'[t].op = reg[t].op /\ reg'[t].page = reg[t].page /\ reg'[t].chain = reg[t].chain
           /\ reg'[t].then = reg[t].then /\ reg'[t].n = reg[t].n /\ reg'[t].next = reg[t].next
<1> DEFINE r == [reg[t] EXCEPT !.pc = pc, !.was = x]
<1>1. reg[t] \in Reg
  OBVIOUS
<1>2. /\ r.pc = pc /\ r.was = x
      /\ r.op = reg[t].op /\ r.page = reg[t].page /\ r.chain = reg[t].chain
      /\ r.then = reg[t].then /\ r.n = reg[t].n /\ r.next = reg[t].next
  BY <1>1 DEF Reg
<1>3. r \in Reg
  BY <1>1 DEF Reg
<1>4. reg' = [reg EXCEPT ![t] = r]
  BY DEF Reg
<1> HIDE DEF r
<1>5. Only(t) /\ reg'[t] = r
  BY <1>3, <1>4, OneReg
<1> QED  BY <1>2, <1>5

\* The end of a flag macro: the thread is idle or at the label it was to go on at.
LEMMA ReturnReg ==
    ASSUME reg \in [Threads -> Reg], NEW t \in Threads, Return(t)
    PROVE  /\ Only(t)
           /\ reg[t].then = "idle" => reg'[t] = Idle
           /\ reg[t].then # "idle" =>
                 /\ reg'[t].pc = reg[t].then /\ reg'[t].then = "idle" /\ reg'[t].op = reg[t].op
                 /\ reg'[t].page = reg[t].page /\ reg'[t].chain = reg[t].chain
                 /\ reg'[t].n = reg[t].n /\ reg'[t].was = reg[t].was /\ reg'[t].next = reg[t].next
<1>1. CASE reg[t].then = "idle"
  BY <1>1, IdleReg, OneReg DEF Return
<1>2. CASE reg[t].then # "idle"
  <2> DEFINE r == [reg[t] EXCEPT !.pc = reg[t].then, !.then = "idle"]
  <2>1. reg[t] \in Reg
    OBVIOUS
  <2>2. /\ r.pc = reg[t].then /\ r.then = "idle" /\ r.op = reg[t].op
        /\ r.page = reg[t].page /\ r.chain = reg[t].chain /\ r.n = reg[t].n
        /\ r.was = reg[t].was /\ r.next = reg[t].next
    BY <2>1 DEF Reg
  <2>3. r \in Reg
    BY <2>1 DEF Reg
  <2>4. reg' = [reg EXCEPT ![t] = r]
    BY <1>2 DEF Return
  <2> HIDE DEF r
  <2>5. Only(t) /\ reg'[t] = r
    BY <2>3, <2>4, OneReg
  <2> QED  BY <1>2, <2>2, <2>5
<1> QED  BY <1>1, <1>2

-----------------------------------------------------------------------------
(* Operations that exclude each other *)

\* Of the operations that overlap here, none links beside an unlink or a free, none
\* frees beside a release or an exit, none accesses a page beside an unlink.
LEMMA Apart ==
    ASSUME Overlap \subseteq TwoOwners, Paired, NEW t \in Threads, NEW u \in Threads, t # u,
           reg[t].pc # "idle", reg[u].pc # "idle"
    PROVE  /\ reg[t].op = "link" => reg[u].op \notin Unlinkers \cup {"free"}
           /\ reg[t].op = "free" => reg[u].op \notin {"rls", "exit", "link"}
           /\ reg[t].op = "access" => reg[u].op \notin Unlinkers
<1>1. {reg[t].op, reg[u].op} \in TwoOwners
  BY DEF Paired
<1>2. ASSUME NEW S \in TwoOwners
      PROVE  /\ "link" \in S => S \subseteq {"link", "scan", "access"}
             /\ "free" \in S => S \subseteq {"free", "scan", "brk", "access"}
             /\ "access" \in S => S \subseteq {"link", "scan", "free", "access"}
  <2>1. CASE S \in Safe
    BY <2>1 DEF Safe
  <2>2. CASE S \in {{a, b} : a, b \in Unlinkers}
    BY <2>2 DEF Unlinkers
  <2>3. CASE S \in {{"link"}, {"link", "scan"}, {"link", "access"}}
    BY <2>3
  <2> QED  BY <2>1, <2>2, <2>3 DEF TwoOwners
<1> QED  BY <1>1, <1>2 DEF Unlinkers

-----------------------------------------------------------------------------
(* What the steps have in common *)

\* A step of t does not move the locks of another thread.
LEMMA HoldsOnly ==
    ASSUME NEW t \in Threads, Only(t), NEW u \in Threads \ {t}
    PROVE  Holds(u)' = Holds(u)
<1>1. reg'[u] = reg[u]
  BY DEF Only
<1> QED  BY <1>1 DEF Holds

\* A step that takes and gives no lock
LEMMA NoLock ==
    ASSUME Locked, NEW t \in Threads, Only(t), lock' = lock, Holds(t)' = Holds(t)
    PROVE  Locked'
<1>1. \A u \in Threads : Holds(u)' = Holds(u)
  BY HoldsOnly
<1> QED  BY <1>1 DEF Locked

\* A step that takes one lock
LEMMA TakesLock ==
    ASSUME Types, Locked, NEW t \in Threads, NEW l \in Locks, Only(t), lock[l] = Nobody,
           lock' = [lock EXCEPT ![l] = t], Holds(t)' = Holds(t) \cup {l}
    PROVE  Locked'
<1>1. \A u \in Threads \ {t} : Holds(u)' = Holds(u)
  BY HoldsOnly
<1>2. \A k \in Locks : lock'[k] = IF k = l THEN t ELSE lock[k]
  BY DEF Types
<1>3. \A u \in Threads : l \notin Holds(u)
  BY DisjointAssumption DEF Locked
<1>4. ASSUME NEW k \in Locks, NEW u \in Threads PROVE lock'[k] = u <=> k \in Holds(u)'
  <2>1. lock[k] = u <=> k \in Holds(u)
    BY DEF Locked
  <2>2. CASE u = t
    BY <1>2, <1>3, <2>1, <2>2
  <2>3. CASE u # t
    BY <1>1, <1>2, <1>3, <2>1, <2>3
  <2> QED  BY <2>2, <2>3
<1> QED  BY <1>4 DEF Locked

\* A step that gives locks back
LEMMA GivesLocks ==
    ASSUME Types, Locked, NEW t \in Threads, NEW ls \in SUBSET Locks, Only(t), Release(ls),
           ls \subseteq Holds(t), Holds(t)' = Holds(t) \ ls
    PROVE  Locked'
<1>1. \A u \in Threads \ {t} : Holds(u)' = Holds(u)
  BY HoldsOnly
<1>2. \A k \in Locks : lock'[k] = IF k \in ls THEN Nobody ELSE lock[k]
  BY DEF Release
<1>3. ASSUME NEW k \in Locks, NEW u \in Threads PROVE lock'[k] = u <=> k \in Holds(u)'
  <2>1. (lock[k] = u <=> k \in Holds(u)) /\ (lock[k] = t <=> k \in Holds(t))
    BY DEF Locked
  <2>2. u # Nobody
    BY DisjointAssumption
  <2>3. CASE u = t
    BY <1>2, <2>1, <2>2, <2>3
  <2>4. CASE u # t
    BY <1>1, <1>2, <2>1, <2>2, <2>4
  <2> QED  BY <2>3, <2>4
<1> QED  BY <1>3 DEF Locked

\* A step within an operation, or to its end
LEMMA SameCall ==
    ASSUME Paired, NEW t \in Threads, Only(t), reg[t].pc # "idle",
           \/ reg'[t].pc = "idle"
           \/ /\ reg'[t].op = reg[t].op
              /\ reg'[t].page = reg[t].page \/ reg[t].op \in Unlinkers
    PROVE  Paired'
<1>1. \A u \in Threads : u # t => reg'[u] = reg[u]
  BY DEF Only
<1> QED  BY <1>1 DEF Paired, Holders, Unlinkers

\* A step of t that changes no list and no length
Calm(t) ==
    /\ Only(t) /\ mem' \in Mem
    /\ mem'.alive = mem.alive /\ mem'.links = mem.links /\ mem'.chain = mem.chain
    /\ mem'.nr = mem.nr /\ mem'.alloc = mem.alloc
    /\ \A p \in mem'.ref \ mem.ref :
          p = reg[t].page /\ reg[t].pc # "idle" /\ reg[t].op \in {"link", "access", "scan"}
    /\ {reg[t].pc, reg'[t].pc} \cap {"link.count", "free.count"} = {}
    /\ reg'[t].pc \in Unlinking \ {"brk.lock"} \/ reg[t].pc \notin Unlinking \ {"brk.lock"}

\* A step that changes no list and no length has only its own thread to answer for.
LEMMA CalmCore ==
    ASSUME Core, Overlap \subseteq TwoOwners, NEW t \in Threads, Calm(t), Types', Locked', Paired',
           Placed(reg'[t]), Owned(t)', InHand(t)', Walked(t)'
    PROVE  Core'
<1>1. \A u \in Threads : u # t => reg'[u] = reg[u]
  BY DEF Calm, Only
<1>2. Sequenced'
  BY <1>1 DEF Calm, Core, Sequenced, Owned
<1>3. \A p : Leaving(p)' <=> Leaving(p)
  BY <1>1 DEF Calm, Leaving
<1>4. Member'
  BY <1>3 DEF Calm, Core, Member
<1>5. ASSUME NEW u \in Threads, u # t PROVE InHand(u)' /\ Walked(u)'
  <2>1. InHand(u) /\ Walked(u)
    BY DEF Core, Walks
  <2>2. reg[u].op = "free" /\ reg[u].pc # "idle" => reg[u].page \notin mem'.ref
    <3> SUFFICES ASSUME reg[u].op = "free", reg[u].pc # "idle", reg[u].page \in mem'.ref
                 PROVE  FALSE
      OBVIOUS
    <3>1. reg[u].page \notin mem.ref
      BY <2>1 DEF InHand
    <3>2. /\ reg[u].page = reg[t].page /\ reg[t].pc # "idle"
          /\ reg[t].op \in {"link", "access", "scan"}
      BY <3>1 DEF Calm
    <3>3. reg[t].op # "link"
      BY <1>5, <3>2, Apart DEF Core
    <3>4. reg[t].op \notin {"access", "scan"}
      BY <1>5, <3>2 DEF Core, Paired, Holders
    <3> QED  BY <3>2, <3>3, <3>4
  <2>3. reg[u].pc = "idle" => reg[u].op # "free"
    BY DEF Core, Sequenced, Placed, Idle
  <2> QED  BY <1>1, <1>5, <2>1, <2>2, <2>3 DEF Calm, InHand, Walked
<1>6. Walks'
  BY <1>5 DEF Walks
<1>7. \A c \in Chains : Counted(c)' = Counted(c)
  BY <1>1, ZenonT(60) DEF Calm, Counted
<1>8. \A c \in Chains : Steady(c)' => Steady(c)
  BY <1>1 DEF Calm, Steady, Chains, Threads
<1>9. Exact' /\ Bounded'
  BY <1>7, <1>8 DEF Calm, Core, Exact, Bounded
<1> QED  BY <1>2, <1>4, <1>6, <1>9 DEF Core

\* What the invariant says of one thread
LEMMA Here ==
    ASSUME Core, NEW t \in Threads
    PROVE  /\ Placed(reg[t]) /\ Owned(t) /\ InHand(t) /\ Walked(t)
           /\ reg[t] \in Reg /\ reg \in [Threads -> Reg] /\ mem \in Mem
           /\ lock \in [Locks -> Threads \cup {Nobody}]
           /\ reg[t].op \in OnPages /\ reg[t].pc # "idle" =>
                 reg[t].page \in mem.alloc /\ reg[t].page \in Pages /\ reg[t].page \in Locks
  BY DEF Core, Sequenced, Owned, Walks, Types, Mem, Locks

-----------------------------------------------------------------------------
(* The range walk *)

\* The walk takes the page's lock (mchain.c:329).
LEMMA LinkLockCore ==
    ASSUME Core, Overlap \subseteq TwoOwners, NEW t \in Threads, LinkLock(t)
    PROVE  Core' /\ fault' = fault
<1> DEFINE p == reg[t].page
<1>1. /\ reg[t].pc = "link.lock" /\ reg[t].op = "link" /\ reg[t].chain = t /\ t \in Tasks
      /\ t \in mem.alive /\ p \in mem.alloc /\ p \in Pages /\ p \in Locks
      /\ Placed(reg[t])
  BY DEF LinkLock, At, Core, Sequenced, Placed, Owned, Linking, OnPages, Types, Mem, Locks
<1>2. /\ Only(t) /\ reg'[t].pc = "link.add" /\ Keeps(t)
  BY <1>1, GotoReg DEF LinkLock, Labels, Core, Types
<1>3. /\ mem' = mem /\ fault' = fault /\ lock[p] = Nobody /\ lock' = [lock EXCEPT ![p] = t]
  BY DEF LinkLock, Acquire
<1>4. Types'
  BY <1>1, <1>2, <1>3 DEF Core, Types, Only
<1>5. Placed(reg'[t]) /\ Owned(t)' /\ InHand(t)' /\ Walked(t)'
  BY <1>1, <1>2, <1>3 DEF Placed, Owned, InHand, Walked, Keeps, Linking, Touching, Flagging,
     Freeing, Unlinking, OnPages
<1>6. Paired'
  BY <1>1, <1>2, SameCall DEF Core, Keeps
<1>7. Locked'
  <2>1. Holds(t) = {} /\ Holds(t)' = {p}
    BY <1>1, <1>2 DEF Holds, Keeps
  <2> QED  BY <1>1, <1>2, <1>3, <2>1, TakesLock DEF Core
<1>8. Calm(t)
  BY <1>1, <1>2, <1>3 DEF Calm, Core, Types, Unlinking
<1> QED  BY <1>3, <1>4, <1>5, <1>6, <1>7, <1>8, CalmCore

\* The walk gives the page's lock back.
LEMMA LinkUnlockCore ==
    ASSUME Core, Overlap \subseteq TwoOwners, NEW t \in Threads, LinkUnlock(t)
    PROVE  Core' /\ fault' = fault
<1> DEFINE p == reg[t].page
<1>1. /\ reg[t].pc = "link.unlock" /\ reg[t].op = "link" /\ p \in Locks
      /\ Placed(reg[t]) /\ Owned(t)
  BY Here DEF LinkUnlock, At, Placed, Linking, OnPages
<1>2. /\ Only(t) /\ reg'[t].pc = "touch.test" /\ Keeps(t)
  BY <1>1, GotoReg DEF LinkUnlock, Labels, Core, Types
<1>3. /\ mem' = mem /\ fault' = fault /\ Release({p})
  BY DEF LinkUnlock
<1>4. Types'
  BY <1>2, <1>3 DEF Core, Types, Only, Release
<1>5. Placed(reg'[t]) /\ Owned(t)' /\ InHand(t)' /\ Walked(t)'
  BY <1>1, <1>2, <1>3 DEF Placed, Owned, InHand, Walked, Keeps, Linking, Touching, Flagging,
     Freeing, Unlinking, OnPages
<1>6. Paired'
  BY <1>1, <1>2, SameCall DEF Core, Keeps
<1>7. Locked'
  <2>1. Holds(t) = {p} /\ Holds(t)' = {}
    BY <1>1, <1>2 DEF Holds, Keeps
  <2> QED  BY <1>1, <1>2, <1>3, <2>1, GivesLocks DEF Core
<1>8. Calm(t)
  BY <1>1, <1>2, <1>3 DEF Calm, Core, Types, Unlinking
<1> QED  BY <1>3, <1>4, <1>5, <1>6, <1>7, <1>8, CalmCore

\* __link_page up to list_add: the pointer and the list change, nr_links lags by one.
LEMMA LinkAddCore ==
    ASSUME Core, Overlap \subseteq TwoOwners, NEW t \in Threads, LinkAdd(t)
    PROVE  Core' /\ fault' = fault
<1> DEFINE p == reg[t].page
<1>1. /\ reg[t].pc = "link.add" /\ reg[t].op = "link" /\ reg[t].chain = t /\ t \in Tasks
      /\ t \in mem.alive /\ p \in mem.alloc /\ p \in Pages /\ mem \in Mem
      /\ Placed(reg[t]) /\ Owned(t)
  BY Here DEF LinkAdd, At, Placed, Owned, Linking, OnPages
<1>2. lock' = lock /\ fault' = fault
  BY DEF LinkAdd
<1>3. ASSUME NEW pc \in {"link.unlock", "link.break"}, Goto(t, pc), mem' = mem PROVE Core'
  <2>1. /\ Only(t) /\ reg'[t].pc = pc /\ Keeps(t)
    BY <1>3, GotoReg DEF Labels, Core, Types
  <2>2. Types'
    BY <1>2, <1>3, <2>1 DEF Core, Types, Only
  <2>3. Placed(reg'[t]) /\ Owned(t)' /\ InHand(t)' /\ Walked(t)'
    BY <1>1, <1>3, <2>1 DEF Placed, Owned, InHand, Walked, Keeps, Linking, Touching, Flagging,
       Freeing, Unlinking, OnPages
  <2>4. Paired'
    BY <1>1, <2>1, SameCall DEF Core, Keeps
  <2>5. Locked'
    <3>1. Holds(t)' = Holds(t)
      BY <1>1, <2>1 DEF Holds, Keeps
    <3> QED  BY <1>2, <2>1, <3>1, NoLock DEF Core
  <2>6. Calm(t)
    BY <1>1, <1>3, <2>1 DEF Calm, Core, Types, Unlinking
  <2> QED  BY <2>1, <2>2, <2>3, <2>4, <2>5, <2>6, CalmCore
<1>4. ASSUME mem.chain[p] = NoChain,
             mem' = [mem EXCEPT !.chain[p] = t, !.links[t] = @ \cup {p}],
             reg' = [reg EXCEPT ![t].pc = "link.count", ![t].n = mem.nr[t]]
      PROVE  Core'
  <2>1. /\ Only(t) /\ reg'[t].pc = "link.count" /\ reg'[t].n = mem.nr[t]
        /\ reg'[t].op = "link" /\ reg'[t].page = p /\ reg'[t].chain = t
        /\ reg'[t].then = reg[t].then
    <3>1. "link.count" \in Labels /\ mem.nr[t] \in Int /\ reg \in [Threads -> Reg]
      BY <1>1 DEF Labels, Core, Types, Mem, Chains
    <3>2. reg' = [reg EXCEPT ![t].pc = "link.count", ![t].n = mem.nr[t]]
      BY <1>4
    <3>3. /\ Only(t) /\ reg'[t].pc = "link.count" /\ reg'[t].n = mem.nr[t]
          /\ reg'[t].op = reg[t].op /\ reg'[t].page = reg[t].page /\ reg'[t].chain = reg[t].chain
          /\ reg'[t].then = reg[t].then
      BY <3>1, <3>2, CountReg
    <3> QED  BY <1>1, <3>3
  <2>2. /\ mem'.alive = mem.alive /\ mem'.nr = mem.nr /\ mem'.rc = mem.rc
        /\ mem'.ref = mem.ref /\ mem'.alloc = mem.alloc
        /\ mem'.chain = [mem.chain EXCEPT ![p] = t]
        /\ mem'.links = [mem.links EXCEPT ![t] = @ \cup {p}]
    BY <1>1, <1>4 DEF Mem
  <2>3. mem' \in Mem
    BY <1>1, <1>4 DEF Mem, Chains
  <2>4. /\ \A q \in Pages : mem'.chain[q] = IF q = p THEN t ELSE mem.chain[q]
        /\ \A c \in Chains : mem'.links[c] = IF c = t THEN mem.links[c] \cup {p} ELSE mem.links[c]
        /\ NoChain \notin mem.alive /\ mem.alive \subseteq Chains
    BY <1>1, <2>2, DisjointAssumption, ZenonT(60) DEF Mem, Chains
  <2>5. \A u \in Threads : u # t => /\ reg'[u] = reg[u]
                                    /\ reg[u].pc # "idle" => reg[u].op \notin Unlinkers \cup {"free"}
    BY <1>1, <2>1, Apart DEF Only, Core
  <2>6. Types'
    BY <1>2, <2>1, <2>3 DEF Core, Types, Only
  <2>7. Placed(reg'[t]) /\ Owned(t)'
    BY <1>1, <2>1, <2>2 DEF Placed, Owned, Linking, Touching, Flagging, Freeing, Unlinking, OnPages
  <2>8. Sequenced'
    BY <2>2, <2>5, <2>7 DEF Core, Sequenced, Owned
  <2>9. Paired'
    BY <1>1, <2>1, SameCall DEF Core
  <2>10. Locked'
    <3>1. Holds(t)' = Holds(t)
      BY <1>1, <2>1 DEF Holds
    <3> QED  BY <1>2, <2>1, <3>1, NoLock DEF Core
  <2>11. \A q : Leaving(q)' <=> Leaving(q)
    BY <1>1, <2>1, <2>5 DEF Leaving
  <2>12. Member'
    BY <1>1, <1>4, <2>2, <2>4, <2>11 DEF Core, Member
  <2>13. InHand(t)' /\ Walked(t)'
    BY <1>1, <2>1, <2>2, <2>4 DEF InHand, Walked, Freeing, Chains
  <2>14. ASSUME NEW u \in Threads, u # t PROVE InHand(u)' /\ Walked(u)'
    <3>1. Placed(reg[u]) /\ Owned(u) /\ InHand(u) /\ Walked(u) /\ reg'[u] = reg[u]
      BY <2>5, <2>14, Here
    <3>2. reg[u].pc \notin Freeing \cup Unlinking
      BY <2>5, <2>14, <3>1 DEF Placed, Freeing, Unlinking
    <3>3. reg[u].op # "free"
      BY <2>5, <2>14, <3>1 DEF Placed, Idle
    <3>4. reg[u].pc \in {"link.count", "touch.set", "touch.delegate"} =>
             reg[u].page \in Pages /\ u \in Threads
      BY <3>1, Here DEF Placed, Linking, Touching, OnPages
    <3>5. reg[u].pc = "link.count" => u \in Chains
      BY <3>1 DEF Placed, Owned, Linking, Chains
    <3>6. InHand(u)'
      <4>1. reg[u].pc \in {"link.count", "touch.set", "touch.delegate"} =>
               mem'.chain[reg[u].page] = mem.chain[reg[u].page]
        BY <1>4, <2>4, <3>1, <3>4, <3>5, DisjointAssumption DEF InHand, Chains
      <4>2. reg[u].pc = "link.count" => mem'.links[u] = mem.links[u]
        BY <2>4, <2>14, <3>5
      <4> HIDE DEF p
      <4> QED  BY <2>2, <3>1, <3>2, <3>3, <4>1, <4>2 DEF InHand, Freeing
    <3>7. Walked(u)'
      BY <3>1, <3>2 DEF Walked, Unlinking
    <3> QED  BY <3>6, <3>7
  <2>15. Walks'
    BY <2>13, <2>14 DEF Walks
  <2>16. ASSUME NEW c \in Chains PROVE Counted(c)' = Counted(c)
    <3>1. ASSUME NEW q \in Pages PROVE q \in Counted(c)' <=> q \in Counted(c)
      <4>1. CASE q = p
        BY <1>1, <1>4, <2>1, <2>4, <4>1, DisjointAssumption DEF Counted, Chains
      <4>2. CASE q # p
        <5>1. (\E u \in Threads : reg'[u].pc = "link.count" /\ reg'[u].page = q) <=>
              (\E u \in Threads : reg[u].pc = "link.count" /\ reg[u].page = q)
          BY <1>1, <2>1, <2>5, <4>2
        <5> QED  BY <2>4, <4>2, <5>1 DEF Counted
      <4> QED  BY <4>1, <4>2
    <3> QED  BY <3>1 DEF Counted
  <2>17. Exact' /\ Bounded'
    <3>1. \A c \in Chains : Steady(c)' => Steady(c)
      BY <1>1, <2>1, <2>2, <2>5 DEF Steady, Chains, Threads, Unlinking
    <3> QED  BY <2>2, <2>16, <3>1 DEF Core, Exact, Bounded
  <2> QED  BY <2>6, <2>8, <2>9, <2>10, <2>12, <2>15, <2>17 DEF Core
<1> QED  BY <1>1, <1>2, <1>3, <1>4 DEF LinkAdd

\* __link_page adds one to nr_links (mchain.c:183): no other count was lost.
LEMMA LinkCountCore ==
    ASSUME Core, Overlap \subseteq TwoOwners, NEW t \in Threads, LinkCount(t)
    PROVE  Core' /\ fault' = fault
<1> DEFINE p == reg[t].page
<1>1. /\ reg[t].pc = "link.count" /\ reg[t].op = "link" /\ reg[t].chain = t /\ t \in Tasks
      /\ t \in mem.alive /\ p \in mem.alloc /\ p \in Pages /\ mem \in Mem
      /\ Placed(reg[t]) /\ Owned(t) /\ InHand(t) /\ t \in Chains
  BY Here DEF LinkCount, At, Placed, Owned, Linking, OnPages, Chains
<1>2. mem.chain[p] = t /\ reg[t].n = mem.nr[t] /\ p \in mem.links[t]
  BY <1>1 DEF InHand
<1>3. /\ Only(t) /\ reg'[t].pc = "link.unlock" /\ Keeps(t)
  BY GotoReg DEF LinkCount, Labels, Core, Types
<1>4. /\ lock' = lock /\ fault' = fault
      /\ mem' = [mem EXCEPT !.nr[t] = mem.nr[t] + 1,
                            !.rc[t] = IF p \in mem.ref THEN @ + 1 ELSE @]
  BY <1>1, <1>2 DEF LinkCount
<1>5. /\ mem'.alive = mem.alive /\ mem'.links = mem.links /\ mem'.chain = mem.chain
      /\ mem'.ref = mem.ref /\ mem'.alloc = mem.alloc
      /\ mem'.nr = [mem.nr EXCEPT ![t] = mem.nr[t] + 1]
  BY <1>1, <1>4 DEF Mem
<1>6. mem' \in Mem
  <2> DEFINE n == [mem.nr EXCEPT ![t] = mem.nr[t] + 1]
             r == [mem.rc EXCEPT ![t] = IF p \in mem.ref THEN @ + 1 ELSE @]
  <2>1. mem' = [mem EXCEPT !.nr = n, !.rc = r]
    BY <1>1, <1>4 DEF Mem
  <2>2. n \in [Chains -> Int] /\ r \in [Chains -> Int]
    BY <1>1 DEF Mem
  <2> HIDE DEF n, r
  <2> QED  BY <1>1, <2>1, <2>2 DEF Mem
<1>7. \A c \in Chains : mem'.nr[c] = IF c = t THEN mem.nr[c] + 1 ELSE mem.nr[c]
  BY <1>1, <1>5 DEF Mem
<1> HIDE DEF p
<1>8. \A u \in Threads : u # t => /\ reg'[u] = reg[u]
                                  /\ reg[u].pc # "idle" => reg[u].op \notin Unlinkers \cup {"free"}
  BY <1>1, <1>3, Apart DEF Only, Core
<1>9. Types'
  BY <1>3, <1>4, <1>6 DEF Core, Types, Only
<1>10. Sequenced'
  <2>1. Placed(reg'[t]) /\ Owned(t)'
    BY <1>1, <1>3, <1>5 DEF Placed, Owned, Keeps, Linking, Touching, Flagging, Freeing,
       Unlinking, OnPages
  <2> QED  BY <1>5, <1>8, <2>1 DEF Core, Sequenced, Owned
<1>11. Paired'
  BY <1>1, <1>3, SameCall DEF Core, Keeps
<1>12. Locked'
  <2>1. Holds(t)' = Holds(t)
    BY <1>1, <1>3 DEF Holds, Keeps
  <2> QED  BY <1>3, <1>4, <2>1, NoLock DEF Core
<1>13. Member'
  <2>1. \A q : Leaving(q)' <=> Leaving(q)
    BY <1>1, <1>3, <1>8 DEF Leaving
  <2> QED  BY <1>5, <2>1 DEF Core, Member
<1>14. Walks'
  <2>1. InHand(t)' /\ Walked(t)'
    BY <1>1, <1>3, <1>5 DEF InHand, Walked, Freeing, Keeps
  <2>2. ASSUME NEW u \in Threads, u # t PROVE InHand(u)' /\ Walked(u)'
    <3>1. Placed(reg[u]) /\ Owned(u) /\ InHand(u) /\ Walked(u) /\ reg'[u] = reg[u]
      BY <1>8, <2>2, Here
    <3>2. reg[u].pc \notin Freeing
      BY <1>8, <2>2, <3>1 DEF Placed, Freeing
    <3>3. reg[u].pc = "link.count" => mem'.nr[u] = mem.nr[u]
      BY <1>7, <2>2, <3>1 DEF Placed, Owned, Linking, Chains
    <3> QED  BY <1>5, <3>1, <3>2, <3>3 DEF InHand, Walked, Freeing
  <2> QED  BY <2>1, <2>2 DEF Walks
<1>15. ASSUME NEW c \in Chains, c # t PROVE Counted(c)' = Counted(c)
  <2>1. ASSUME NEW q \in Pages PROVE q \in Counted(c)' <=> q \in Counted(c)
    BY <1>2, <1>3, <1>5, <1>8, <1>15 DEF Counted, Keeps, p
  <2> QED  BY <2>1 DEF Counted
<1>16. Counted(t)' = Counted(t) \cup {p} /\ p \notin Counted(t)
  <2>1. p \notin Counted(t)
    BY <1>1 DEF Counted, p
  <2>2. ASSUME NEW u \in Threads, u # t, reg[u].pc = "link.count" PROVE reg[u].page # p
    <3>1. mem.chain[reg[u].page] = u
      BY <2>2, Here DEF InHand
    <3> QED  BY <1>2, <2>2, <3>1
  <2>3. ASSUME NEW q \in Pages PROVE q \in Counted(t)' <=> q \in Counted(t) \/ q = p
    <3>1. CASE q = p
      BY <1>1, <1>2, <1>3, <1>5, <1>8, <2>2, <3>1 DEF Counted
    <3>2. CASE q # p
      BY <1>1, <1>3, <1>5, <1>8, <3>2 DEF Counted, p
    <3> QED  BY <3>1, <3>2
  <2> QED  BY <1>1, <2>1, <2>3 DEF Counted
<1>17. Exact' /\ Bounded'
  <2>1. \A c \in Chains : Steady(c)' => Steady(c)
    BY <1>1, <1>3, <1>5, <1>8 DEF Steady, Chains, Threads, Unlinking
  <2>2. Steady(t)
    BY <1>1 DEF Steady, Unlinking
  <2>3. /\ IsFiniteSet(Counted(t)) /\ IsFiniteSet(Counted(t) \cup {p})
        /\ Cardinality(Counted(t) \cup {p}) = Cardinality(Counted(t)) + 1
        /\ Cardinality(Counted(t) \cup {p}) <= Cardinality(Pages)
    <3>1. Counted(t) \subseteq Pages /\ Counted(t) \cup {p} \subseteq Pages
      BY <1>1 DEF Counted
    <3>2. IsFiniteSet(Counted(t)) /\ IsFiniteSet(Counted(t) \cup {p})
      BY <3>1, DisjointAssumption, FS_Subset
    <3> QED  BY <1>16, <3>1, <3>2, DisjointAssumption, FS_Subset, FS_AddElement
  <2>4. mem'.nr[t] = Cardinality(Counted(t)')
    BY <1>1, <1>7, <1>16, <2>2, <2>3 DEF Core, Exact
  <2>5. Exact'
    BY <1>7, <1>15, <2>1, <2>4 DEF Core, Exact
  <2>6. mem'.nr[t] \in 0 .. Cardinality(Pages)
    BY <1>16, <2>3, <2>4, DisjointAssumption, FS_CardinalityType
  <2> QED  BY <1>7, <2>5, <2>6 DEF Core, Bounded
<1> QED  BY <1>4, <1>9, <1>10, <1>11, <1>12, <1>13, <1>14, <1>17 DEF Core

-----------------------------------------------------------------------------
(* Accesses, scans and the flag macros *)

\* A thread that touches a page goes on to touch it, or is done.
Touches(t) ==
    /\ reg[t].pc \in Touching \cup Flagging
    /\ Only(t)
    /\ \/ reg'[t] = Idle
       \/ /\ reg'[t].pc \in Touching \cup Flagging /\ Placed(reg'[t])
          /\ reg'[t].op = reg[t].op /\ reg'[t].page = reg[t].page
          /\ reg'[t].pc \in {"touch.set", "touch.delegate"} =>
                reg'[t].chain = mem.chain[reg[t].page] /\ reg'[t].chain \in mem.alive

\* What touching a page may change of the chains and pages
Marks(t) ==
    /\ mem' \in Mem
    /\ mem'.alive = mem.alive /\ mem'.links = mem.links /\ mem'.chain = mem.chain
    /\ mem'.nr = mem.nr /\ mem'.alloc = mem.alloc
    /\ mem'.ref \subseteq mem.ref \cup {reg[t].page}

\* A step of mark_page_accessed, of a scan or of a flag macro
LEMMA TouchCore ==
    ASSUME Core, Overlap \subseteq TwoOwners, NEW t \in Threads, Touches(t), Marks(t),
           UNCHANGED <<lock, fault>>
    PROVE  Core'
<1>1. /\ Placed(reg[t]) /\ Owned(t) /\ reg[t].pc \in Touching \cup Flagging
      /\ reg[t].op \in {"link", "access", "scan"}
  BY Here DEF Touches, Placed
<1>2. reg'[t] = Idle \/ reg'[t].pc \in Touching \cup Flagging
  BY DEF Touches
<1>3. Types'
  BY DEF Core, Types, Touches, Marks, Only
<1>4. Placed(reg'[t]) /\ Owned(t)' /\ InHand(t)' /\ Walked(t)'
  <2>1. CASE reg'[t] = Idle
    BY <2>1 DEF Placed, Owned, InHand, Walked, Idle, Linking, Touching, Flagging, Freeing,
       Unlinking, OnPages, Unlinkers
  <2>2. CASE reg'[t] # Idle
    BY <1>1, <2>2 DEF Touches, Marks, Owned, InHand, Walked, Linking, Touching, Flagging, Freeing,
       Unlinking, OnPages
  <2> QED  BY <2>1, <2>2
<1>5. Locked'
  <2>1. Holds(t) = {}
    BY <1>1 DEF Holds, Touching, Flagging
  <2>2. Holds(t)' = {}
    BY <1>2 DEF Holds, Touching, Flagging, Idle
  <2> QED  BY <2>1, <2>2, NoLock DEF Core, Touches
<1>6. Paired'
  <2>1. reg[t].pc # "idle"
    BY <1>1 DEF Touching, Flagging
  <2>2. reg'[t].pc = "idle" \/ (reg'[t].op = reg[t].op /\ reg'[t].page = reg[t].page)
    <3>1. reg'[t] = Idle => reg'[t].pc = "idle"
      BY DEF Idle
    <3>2. reg'[t] # Idle => reg'[t].op = reg[t].op /\ reg'[t].page = reg[t].page
      BY DEF Touches
    <3> QED  BY <3>1, <3>2
  <2> QED  BY <2>1, <2>2, SameCall DEF Core, Touches
<1>7. Calm(t)
  BY <1>1, <1>2 DEF Calm, Touches, Marks, Touching, Flagging, Unlinking, Idle
<1> QED  BY <1>3, <1>4, <1>5, <1>6, <1>7, CalmCore

\* A page's chain is none or lives.
LEMMA ChainLives ==
    ASSUME Core, NEW p \in Pages, mem.chain[p] # NoChain
    PROVE  mem.chain[p] \in mem.alive /\ mem.chain[p] \in Chains
  BY DEF Core, Member, Types, Mem

\* mark_page_accessed reads page->chain.
LEMMA TouchTestCore ==
    ASSUME Core, Overlap \subseteq TwoOwners, NEW t \in Threads, TouchTest(t)
    PROVE  Core' /\ fault' = fault
<1> DEFINE c == mem.chain[reg[t].page]
           l == IF c = NoChain THEN "touch.flags" ELSE "touch.set"
<1>1. /\ reg[t].pc = "touch.test" /\ Placed(reg[t]) /\ reg[t].op \in {"link", "access"}
      /\ reg[t].page \in Pages /\ reg[t].then = "idle" /\ reg[t] \in Reg
  BY Here DEF TouchTest, At, Placed, Touching, OnPages
<1>2. /\ reg' = [reg EXCEPT ![t].pc = l, ![t].chain = c]
      /\ c \in Chains \cup {NoChain} /\ l \in Labels /\ reg \in [Threads -> Reg]
  BY <1>1 DEF TouchTest, Core, Types, Mem, Reg, Labels
<1>3. /\ Only(t) /\ reg'[t].pc = l /\ reg'[t].chain = c /\ reg'[t].op = reg[t].op
      /\ reg'[t].page = reg[t].page /\ reg'[t].then = reg[t].then
  <2> HIDE DEF c, l
  <2> QED  BY <1>2, ChainReg
<1>4. c # NoChain => c \in mem.alive
  BY <1>1, ChainLives
<1>5. Touches(t)
  BY <1>1, <1>3, <1>4 DEF Touches, Touching, Flagging, Placed, Linking, Freeing, Unlinking
<1>6. Marks(t) /\ UNCHANGED <<lock, fault>>
  BY DEF TouchTest, Marks, Core, Types
<1> QED  BY <1>5, <1>6, TouchCore

\* mark_page_accessed writes to the chain that it read before.
LEMMA TouchSetCore ==
    ASSUME Core, Overlap \subseteq TwoOwners, NEW t \in Threads, TouchSet(t)
    PROVE  Core' /\ fault' = fault
<1> DEFINE c == reg[t].chain
<1>1. /\ reg[t].pc = "touch.set" /\ Placed(reg[t]) /\ c = mem.chain[reg[t].page]
      /\ c \in mem.alive /\ reg[t].then = "idle"
  BY Here DEF TouchSet, At, Placed, InHand
<1>2. /\ mem' = [mem EXCEPT !.rc[c] = mem.nr[c]] /\ Goto(t, "touch.delegate")
      /\ UNCHANGED <<lock, fault>>
  BY <1>1 DEF TouchSet
<1>3. Only(t) /\ reg'[t].pc = "touch.delegate" /\ Keeps(t)
  BY <1>2, GotoReg DEF Labels, Core, Types
<1>4. Touches(t)
  BY <1>1, <1>3 DEF Touches, Touching, Flagging, Placed, Linking, Freeing, Unlinking, Keeps
<1>5. Marks(t)
  BY <1>1, <1>2 DEF Marks, Core, Types, Mem
<1> QED  BY <1>2, <1>4, <1>5, TouchCore

\* mark_page_accessed reads page->chain again, and it has not become NULL.
LEMMA TouchDelegateCore ==
    ASSUME Core, Overlap \subseteq TwoOwners, NEW t \in Threads, TouchDelegate(t)
    PROVE  Core' /\ fault' = fault
<1>1. /\ reg[t].pc = "touch.delegate" /\ Placed(reg[t]) /\ mem.chain[reg[t].page] \in mem.alive
      /\ reg[t].then = "idle"
  BY Here DEF TouchDelegate, At, Placed, InHand
<1>2. Goto(t, "touch.flags") /\ UNCHANGED <<mem, lock, fault>>
  BY <1>1 DEF TouchDelegate
<1>3. Only(t) /\ reg'[t].pc = "touch.flags" /\ Keeps(t)
  BY <1>2, GotoReg DEF Labels, Core, Types
<1>4. Touches(t)
  BY <1>1, <1>3 DEF Touches, Touching, Flagging, Placed, Linking, Freeing, Unlinking, Keeps
<1>5. Marks(t)
  BY <1>2 DEF Marks, Core, Types
<1> QED  BY <1>2, <1>4, <1>5, TouchCore

\* SetPageReferenced sets the bit.
LEMMA SetBitCore ==
    ASSUME Core, Overlap \subseteq TwoOwners, NEW t \in Threads, SetBit(t)
    PROVE  Core' /\ fault' = fault
<1>1. /\ reg[t].pc = "set.bit" /\ Placed(reg[t]) /\ reg[t].op \in OnPages /\ reg[t].page \in Pages
  BY Here DEF SetBit, At, Placed, Flagging, OnPages
<1>2. Goto(t, "set.count") /\ mem' = [mem EXCEPT !.ref = @ \cup {reg[t].page}] /\ UNCHANGED <<lock, fault>>
  BY DEF SetBit
<1>3. Only(t) /\ reg'[t].pc = "set.count" /\ Keeps(t)
  BY <1>2, GotoReg DEF Labels, Core, Types
<1>4. Touches(t)
  BY <1>1, <1>3 DEF Touches, Touching, Flagging, Placed, Linking, Freeing, Unlinking, Keeps
<1>5. Marks(t)
  BY <1>1, <1>2 DEF Marks, Core, Types, Mem
<1> QED  BY <1>2, <1>4, <1>5, TouchCore

\* ClearPageReferenced or TestClearPageReferenced clears the bit.
LEMMA ClearBitCore ==
    ASSUME Core, Overlap \subseteq TwoOwners, NEW t \in Threads, ClearBit(t)
    PROVE  Core' /\ fault' = fault
<1> DEFINE w == reg[t].page \in mem.ref
<1>1. /\ reg[t].pc = "clear.bit" /\ Placed(reg[t]) /\ reg[t].op \in OnPages /\ reg[t].page \in Pages
  BY Here DEF ClearBit, At, Placed, Flagging, OnPages
<1>2. /\ reg' = [reg EXCEPT ![t].pc = "clear.count", ![t].was = w]
      /\ mem' = [mem EXCEPT !.ref = @ \ {reg[t].page}] /\ UNCHANGED <<lock, fault>>
      /\ w \in BOOLEAN /\ "clear.count" \in Labels /\ reg \in [Threads -> Reg]
  BY DEF ClearBit, Labels, Core, Types
<1>3. Marks(t)
  BY <1>1, <1>2 DEF Marks, Core, Types, Mem
<1> HIDE DEF w
<1>4. /\ Only(t) /\ reg'[t].pc = "clear.count" /\ reg'[t].op = reg[t].op
      /\ reg'[t].page = reg[t].page /\ reg'[t].then = reg[t].then
  BY <1>2, WasReg
<1>5. Touches(t)
  BY <1>1, <1>4 DEF Touches, Touching, Flagging, Placed, Linking, Freeing, Unlinking
<1> QED  BY <1>2, <1>3, <1>5, TouchCore

\* mark_page_accessed chooses which flag to change.
LEMMA TouchFlagsCore ==
    ASSUME Core, Overlap \subseteq TwoOwners, NEW t \in Threads, NEW candidate \in BOOLEAN,
           TouchFlags(t, candidate)
    PROVE  /\ Core' /\ fault' = fault
           /\ Only(t) /\ mem' = mem /\ reg'[t].pc \in {"clear.bit", "set.bit", "idle"}
<1> DEFINE p == reg[t].page
           c == mem.chain[p]
           set == p \in mem.ref
           active == set \/ (c # NoChain /\ mem.rc[c] # 0)
           pc == IF candidate /\ active THEN (IF set THEN "clear.bit" ELSE "set.bit")
                 ELSE "set.bit"
           then == IF candidate /\ active /\ ~set THEN "clear.bit" ELSE "idle"
           r == [reg[t] EXCEPT !.pc = pc, !.then = then]
<1>1. /\ reg[t].pc = "touch.flags" /\ Placed(reg[t]) /\ reg[t].op \in {"link", "access"}
      /\ p \in Pages /\ reg[t].then = "idle" /\ reg[t] \in Reg /\ reg \in [Threads -> Reg]
  BY Here DEF TouchFlags, At, Placed, Touching, OnPages
<1>2. c # NoChain => c \in mem.alive
  BY <1>1, ChainLives
<1>3. UNCHANGED <<mem, lock, fault>>
  BY <1>2 DEF TouchFlags
<1>4. \/ reg' = [reg EXCEPT ![t] = Idle]
      \/ reg' = [reg EXCEPT ![t] = r]
  <2>1. reg' = [reg EXCEPT ![t] =
                  IF candidate /\ active
                  THEN [reg[t] EXCEPT !.pc   = IF set THEN "clear.bit" ELSE "set.bit",
                                      !.then = IF set THEN "idle" ELSE "clear.bit"]
                  ELSE IF set THEN Idle ELSE [reg[t] EXCEPT !.pc = "set.bit"]]
    BY <1>1, <1>2 DEF TouchFlags
  <2>2. CASE candidate /\ active
    BY <2>1, <2>2
  <2>3. CASE ~(candidate /\ active) /\ set
    BY <2>1, <2>3
  <2>4. CASE ~(candidate /\ active) /\ ~set
    <3>1. [reg[t] EXCEPT !.pc = "set.bit"] = [reg[t] EXCEPT !.pc = "set.bit", !.then = "idle"]
      BY <1>1 DEF Reg
    <3>2. r = [reg[t] EXCEPT !.pc = "set.bit", !.then = "idle"]
      BY <2>4
    <3>3. reg' = [reg EXCEPT ![t] = [reg[t] EXCEPT !.pc = "set.bit"]]
      BY <2>1, <2>4
    <3> QED  BY <3>1, <3>2, <3>3
  <2> QED  BY <2>2, <2>3, <2>4
<1>5. /\ r.pc = pc /\ r.then = then /\ r.op = reg[t].op /\ r.page = reg[t].page
      /\ pc \in {"clear.bit", "set.bit"} /\ then \in {"idle", "clear.bit"}
      /\ then = "clear.bit" => pc = "set.bit"
  BY <1>1 DEF Reg
<1>6. r \in Reg
  <2>1. pc \in Labels /\ then \in Labels \cup {"idle"}
    BY <1>5 DEF Labels
  <2> HIDE DEF pc, then
  <2> QED  BY <1>1, <2>1 DEF Reg
<1> HIDE DEF r
<1>7. Only(t) /\ (reg'[t] = Idle \/ reg'[t] = r)
  BY <1>1, <1>4, <1>6, IdleReg, OneReg
<1>8. Touches(t)
  <2>1. r.pc \in Flagging /\ Placed(r)
    BY <1>1, <1>5 DEF Flagging, Placed, Touching, Linking, Freeing, Unlinking
  <2> QED  BY <1>1, <1>5, <1>7, <2>1 DEF Touches, Touching, Flagging
<1>9. Marks(t)
  BY <1>3 DEF Marks, Core, Types
<1>10. reg'[t].pc \in {"clear.bit", "set.bit", "idle"}
  BY <1>5, <1>7 DEF Idle
<1> QED  BY <1>3, <1>7, <1>8, <1>9, <1>10, TouchCore

\* A flag macro changes the chain's counter; the page's chain is none or lives.
LEMMA UnderLinkLockCore ==
    ASSUME Core, Overlap \subseteq TwoOwners, NEW t \in Threads, NEW n \in Int,
           fault = "none", reg[t].pc \in {"set.count", "clear.count"}, UnderLinkLock(t, n)
    PROVE  /\ Core' /\ fault' = fault /\ Return(t)
           /\ IF mem.chain[reg[t].page] = NoChain THEN mem' = mem
              ELSE mem' = [mem EXCEPT !.rc[mem.chain[reg[t].page]] = @ + n]
           /\ Only(t) /\ reg'[t].pc \in {"idle", "set.bit", "clear.bit"}
<1> DEFINE c == mem.chain[reg[t].page]
<1>1. /\ Placed(reg[t]) /\ reg[t].op \in {"link", "access", "scan"} /\ reg[t].page \in Pages
  BY Here DEF Placed, Flagging, OnPages
<1>2. c # NoChain => c \in mem.alive /\ c \in Chains
  BY <1>1, ChainLives
<1>3. Return(t) /\ UNCHANGED <<lock, fault>>
  BY <1>2 DEF UnderLinkLock
<1>4. mem' = mem \/ (c \in Chains /\ mem' = [mem EXCEPT !.rc[c] = @ + n])
  BY <1>2 DEF UnderLinkLock
<1>5. Marks(t)
  BY <1>4 DEF Marks, Core, Types, Mem
<1>6. Touches(t) /\ Only(t) /\ reg'[t].pc \in {"idle", "set.bit", "clear.bit"}
  <2>1. Only(t) /\ (reg[t].then = "idle" => reg'[t] = Idle)
    BY <1>3, ReturnReg DEF Core, Types
  <2>2. reg[t].then # "idle" =>
           /\ reg'[t].pc = reg[t].then /\ reg'[t].then = "idle" /\ reg'[t].op = reg[t].op
           /\ reg'[t].page = reg[t].page
    BY <1>3, ReturnReg DEF Core, Types
  <2>3. reg[t].then \in {"idle", "set.bit", "clear.bit"}
    BY <1>1 DEF Placed
  <2>4. Touches(t)
    BY <1>1, <2>1, <2>2, <2>3 DEF Touches, Touching, Flagging, Placed, Linking, Freeing, Unlinking
  <2>5. reg'[t].pc \in {"idle", "set.bit", "clear.bit"}
    BY <2>1, <2>2, <2>3 DEF Idle
  <2> QED  BY <2>1, <2>4, <2>5
<1>7. IF c = NoChain THEN mem' = mem ELSE mem' = [mem EXCEPT !.rc[c] = @ + n]
  BY <1>2 DEF UnderLinkLock
<1> QED  BY <1>3, <1>5, <1>6, <1>7, TouchCore

\* Both counter updates of the flag macros
LEMMA CountCore ==
    ASSUME Core, Overlap \subseteq TwoOwners, NEW t \in Threads, SetCount(t) \/ ClearCount(t)
    PROVE  Core' /\ fault' = fault
<1>1. fault = "none" /\ reg[t].pc \in {"set.count", "clear.count"}
  BY DEF SetCount, ClearCount, At
<1>2. \E n \in Int : UnderLinkLock(t, n)
  BY DEF SetCount, ClearCount
<1> QED  BY <1>1, <1>2, UnderLinkLockCore

-----------------------------------------------------------------------------
(* The free of a page *)

\* What a thread at a label of a free knows
LEMMA FreeHere ==
    ASSUME Core, Overlap \subseteq TwoOwners, NEW t \in Threads, reg[t].pc \in Freeing
    PROVE  /\ Placed(reg[t]) /\ Owned(t) /\ InHand(t) /\ reg[t].op = "free"
           /\ reg[t].page \in Pages /\ reg[t].page \in mem.alloc /\ reg[t].page \in Locks
           /\ reg[t].page \notin mem.ref
           /\ reg[t].pc # "free.read" => /\ reg[t].chain \in mem.alive /\ reg[t].chain \in Chains
                                         /\ reg[t].chain \in Locks
           /\ reg \in [Threads -> Reg] /\ reg[t] \in Reg /\ mem \in Mem
           /\ \A u \in Threads : u # t /\ reg[u].pc # "idle" =>
                 /\ reg[u].op \notin {"link", "rls", "exit"}
                 /\ reg[u].op \in Holders => reg[u].page # reg[t].page
<1>1. /\ Placed(reg[t]) /\ Owned(t) /\ InHand(t) /\ reg[t].op = "free" /\ reg[t].pc # "idle"
      /\ reg[t].page \in Pages /\ reg[t].page \in mem.alloc /\ reg[t].page \in Locks
      /\ reg \in [Threads -> Reg] /\ reg[t] \in Reg /\ mem \in Mem
  BY Here DEF Placed, OnPages, Freeing
<1>2. /\ reg[t].page \notin mem.ref
      /\ reg[t].pc # "free.read" => reg[t].chain \in mem.alive
  BY <1>1 DEF InHand
<1>3. \A u \in Threads : u # t /\ reg[u].pc # "idle" =>
         /\ reg[u].op \notin {"link", "rls", "exit"}
         /\ reg[u].op \in Holders => reg[u].page # reg[t].page
  BY <1>1, Apart DEF Core, Paired, Holders
<1> QED  BY <1>1, <1>2, <1>3 DEF Mem, Locks

\* Nobody walks over the list of a chain that a free has locked.
LEMMA ChainHeld ==
    ASSUME Core, Overlap \subseteq TwoOwners, NEW t \in Threads,
           reg[t].pc \in {"free.lock2", "free.unlink", "free.count", "free.unlock"}
    PROVE  /\ Steady(reg[t].chain)
           /\ \A u \in Threads \ {t} :
                 reg[u].pc \in {"free.lock2", "free.unlink", "free.count", "free.unlock"} =>
                    reg[u].chain # reg[t].chain
           /\ \A u \in Threads : reg[u].pc \in Unlinking \ {"brk.lock"} => u # reg[t].chain
<1> DEFINE c == reg[t].chain
<1>1. c \in mem.alive /\ c \in Chains /\ c \in Locks /\ c \in Holds(t)
  BY FreeHere DEF Freeing, Holds
<1>2. \A u \in Threads : c \in Holds(u) => u = t
  BY <1>1 DEF Core, Locked
<1>3. ASSUME NEW u \in Threads, reg[u].pc \in Unlinking \ {"brk.lock"} PROVE u # c
  <2>1. reg[u].pc # "brk.kfree"
    <3>1. u # t
      BY <1>3 DEF Unlinking
    <3>2. reg[u].pc = "brk.kfree" => reg[u].op \in {"rls", "exit"}
      BY Here DEF Placed, Unlinking, Unlinkers
    <3> QED  BY <3>1, <3>2, FreeHere DEF Freeing
  <2>2. reg[u].chain = u
    BY <1>3, Here DEF Owned
  <2>3. u \in Holds(u)
    BY <1>3, <2>1, <2>2 DEF Holds, Unlinking
  <2>4. u # t
    BY <1>3 DEF Unlinking
  <2> QED  BY <1>2, <2>3, <2>4
<1>4. ASSUME NEW u \in Threads \ {t}, reg[u].chain = c,
             reg[u].pc \in {"free.lock2", "free.unlink", "free.count", "free.unlock"}
      PROVE FALSE
  <2>1. c \in Holds(u)
    BY <1>4 DEF Holds
  <2> QED  BY <1>2, <2>1
<1>5. Steady(c)
  BY <1>1, <1>3 DEF Steady, Chains, Threads
<1> QED  BY <1>3, <1>4, <1>5

\* The free takes the lock of the chain it has read: the chain lives.
LEMMA FreeLock1Core ==
    ASSUME Core, Overlap \subseteq TwoOwners, NEW t \in Threads, FreeLock1(t)
    PROVE  Core' /\ fault' = fault
<1> DEFINE c == reg[t].chain
<1>1. reg[t].pc = "free.lock1" /\ reg[t].pc \in Freeing
  BY DEF FreeLock1, At, Freeing
<1>2. /\ Placed(reg[t]) /\ Owned(t) /\ InHand(t) /\ reg[t].op = "free" /\ c \in mem.alive
      /\ c \in Locks
  BY <1>1, FreeHere
<1>3. /\ lock[c] = Nobody /\ lock' = [lock EXCEPT ![c] = t] /\ Goto(t, "free.lock2")
      /\ UNCHANGED <<mem, fault>>
  BY <1>2 DEF FreeLock1, FreeOrder, Acquire
<1>4. Only(t) /\ reg'[t].pc = "free.lock2" /\ Keeps(t)
  BY <1>3, GotoReg DEF Labels, Core, Types
<1>5. Types'
  BY <1>2, <1>3, <1>4 DEF Core, Types, Only
<1>6. Placed(reg'[t]) /\ Owned(t)' /\ InHand(t)' /\ Walked(t)'
  BY <1>1, <1>2, <1>3, <1>4 DEF Placed, Owned, InHand, Walked, Keeps, Linking, Touching, Flagging,
     Freeing, Unlinking, OnPages
<1>7. Paired'
  BY <1>1, <1>4, SameCall DEF Core, Keeps
<1>8. Locked'
  <2>1. Holds(t) = {} /\ Holds(t)' = {c}
    BY <1>1, <1>4 DEF Holds, Keeps
  <2> QED  BY <1>2, <1>3, <1>4, <2>1, TakesLock DEF Core
<1>9. Calm(t)
  BY <1>1, <1>3, <1>4 DEF Calm, Core, Types, Unlinking
<1> QED  BY <1>3, <1>5, <1>6, <1>7, <1>8, <1>9, CalmCore

\* The free takes the page's lock.
LEMMA FreeLock2Core ==
    ASSUME Core, Overlap \subseteq TwoOwners, NEW t \in Threads, FreeLock2(t)
    PROVE  Core' /\ fault' = fault
<1> DEFINE p == reg[t].page
<1>1. reg[t].pc = "free.lock2" /\ reg[t].pc \in Freeing
  BY DEF FreeLock2, At, Freeing
<1>2. /\ Placed(reg[t]) /\ Owned(t) /\ InHand(t) /\ reg[t].op = "free" /\ p \in Locks
  BY <1>1, FreeHere
<1>3. /\ lock[p] = Nobody /\ lock' = [lock EXCEPT ![p] = t] /\ Goto(t, "free.unlink")
      /\ UNCHANGED <<mem, fault>>
  BY <1>2 DEF FreeLock2, FreeOrder, Acquire
<1>4. Only(t) /\ reg'[t].pc = "free.unlink" /\ Keeps(t)
  BY <1>3, GotoReg DEF Labels, Core, Types
<1>5. Types'
  BY <1>2, <1>3, <1>4 DEF Core, Types, Only
<1>6. Placed(reg'[t]) /\ Owned(t)' /\ InHand(t)' /\ Walked(t)'
  BY <1>1, <1>2, <1>3, <1>4 DEF Placed, Owned, InHand, Walked, Keeps, Linking, Touching, Flagging,
     Freeing, Unlinking, OnPages
<1>7. Paired'
  BY <1>1, <1>4, SameCall DEF Core, Keeps
<1>8. Locked'
  <2>1. Holds(t) = {reg[t].chain} /\ Holds(t)' = {reg[t].chain, p}
    BY <1>1, <1>4 DEF Holds, Keeps
  <2>2. Holds(t)' = Holds(t) \cup {p}
    BY <2>1
  <2> QED  BY <1>2, <1>3, <1>4, <2>2, TakesLock DEF Core
<1>9. Calm(t)
  BY <1>1, <1>3, <1>4 DEF Calm, Core, Types, Unlinking
<1> QED  BY <1>3, <1>5, <1>6, <1>7, <1>8, <1>9, CalmCore

\* The free takes the page off the list that it is still on.
LEMMA FreeUnlinkCore ==
    ASSUME Core, Overlap \subseteq TwoOwners, NEW t \in Threads, FreeUnlink(t)
    PROVE  Core' /\ fault' = fault
<1>1. reg[t].pc = "free.unlink" /\ reg[t].pc \in Freeing
  BY DEF FreeUnlink, At, Freeing
<1> PICK p \in Pages : p = reg[t].page
  BY <1>1, FreeHere
<1> PICK c \in Chains : c = reg[t].chain
  BY <1>1, FreeHere
<1>2. /\ Placed(reg[t]) /\ Owned(t) /\ InHand(t) /\ reg[t].op = "free" /\ c \in mem.alive
      /\ c \in Chains /\ p \in Pages /\ p \in mem.alloc /\ p \notin mem.ref /\ mem \in Mem
      /\ reg \in [Threads -> Reg] /\ mem.chain[p] \in {c, NoChain} /\ c # NoChain
  BY <1>1, FreeHere, DisjointAssumption DEF InHand, Freeing, Chains
<1>3. \A u \in Threads : u # t /\ reg[u].pc # "idle" =>
         /\ reg[u].op \notin {"link", "rls", "exit"}
         /\ reg[u].op \in Holders => reg[u].page # p
  BY <1>1, FreeHere
<1>4. mem.chain[p] = c => p \in mem.links[c]
  <2>1. ~Leaving(p)
    <3>1. ASSUME NEW u \in Threads, reg[u].pc = "free.count", reg[u].page = p PROVE FALSE
      <4>1. u # t /\ reg[u].op = "free" /\ reg[u].pc # "idle"
        BY <1>1, <3>1, Here DEF Placed, Freeing
      <4> QED  BY <1>3, <3>1, <4>1 DEF Holders
    <3> QED  BY <3>1 DEF Leaving
  <2> QED  BY <1>2, <2>1 DEF Core, Member
<1>5. lock' = lock /\ fault' = fault
  BY <1>2, <1>4 DEF FreeUnlink
<1>6. CASE mem.chain[p] = NoChain
  <2>1. Goto(t, "free.unlock") /\ mem' = mem
    BY <1>2, <1>6 DEF FreeUnlink
  <2>2. Only(t) /\ reg'[t].pc = "free.unlock" /\ Keeps(t)
    BY <2>1, GotoReg DEF Labels, Core, Types
  <2>3. Types'
    BY <1>5, <2>1, <2>2 DEF Core, Types, Only
  <2>4. Placed(reg'[t]) /\ Owned(t)' /\ InHand(t)' /\ Walked(t)'
    BY <1>1, <1>2, <1>6, <2>1, <2>2 DEF Placed, Owned, InHand, Walked, Keeps, Linking, Touching,
       Flagging, Freeing, Unlinking, OnPages
  <2>5. Paired'
    BY <1>1, <2>2, SameCall DEF Core, Keeps
  <2>6. Locked'
    <3>1. Holds(t)' = Holds(t)
      BY <1>1, <2>2 DEF Holds, Keeps
    <3> QED  BY <1>5, <2>2, <3>1, NoLock DEF Core
  <2>7. Calm(t)
    BY <1>1, <2>1, <2>2 DEF Calm, Core, Types, Unlinking
  <2> QED  BY <1>5, <2>2, <2>3, <2>4, <2>5, <2>6, <2>7, CalmCore
<1>7. CASE mem.chain[p] = c
  <2>1. /\ mem' = [mem EXCEPT !.links[c] = @ \ {p}]
        /\ reg' = [reg EXCEPT ![t].pc = "free.count", ![t].n = mem.nr[c]]
    BY <1>2, <1>4, <1>7 DEF FreeUnlink
  <2>2. /\ mem'.alive = mem.alive /\ mem'.nr = mem.nr /\ mem'.chain = mem.chain
        /\ mem'.ref = mem.ref /\ mem'.alloc = mem.alloc
        /\ mem'.links = [mem.links EXCEPT ![c] = @ \ {p}]
    BY <1>2, <2>1 DEF Mem
  <2>3. mem' \in Mem
    BY <1>2, <2>1 DEF Mem
  <2>4. \A d \in Chains : mem'.links[d] = IF d = c THEN mem.links[d] \ {p} ELSE mem.links[d]
    BY <1>2, <2>2 DEF Mem
  <2>5. /\ Only(t) /\ reg'[t].pc = "free.count" /\ reg'[t].n = mem.nr[c]
        /\ reg'[t].op = reg[t].op /\ reg'[t].page = reg[t].page /\ reg'[t].chain = reg[t].chain
        /\ reg'[t].then = reg[t].then
    <3>1. "free.count" \in Labels /\ mem.nr[c] \in Int
      BY <1>2 DEF Labels, Mem
    <3>2. /\ reg \in [Threads -> Reg]
          /\ reg' = [reg EXCEPT ![t].pc = "free.count", ![t].n = mem.nr[c]]
      BY <1>2, <2>1
    <3> QED  BY <3>1, <3>2, CountReg, ZenonT(60)
  <2>6. \A u \in Threads : u # t => reg'[u] = reg[u]
    BY <2>5 DEF Only
  <2>7. Types'
    BY <1>5, <2>3, <2>5 DEF Core, Types, Only
  <2>8. Sequenced'
    <3>1. Placed(reg'[t]) /\ Owned(t)'
      BY <1>1, <1>2, <2>2, <2>5 DEF Placed, Owned, Linking, Touching, Flagging, Freeing, Unlinking,
         OnPages
    <3> QED  BY <2>2, <2>6, <3>1 DEF Core, Sequenced, Owned
  <2>9. Paired'
    BY <1>1, <2>5, SameCall DEF Core
  <2>10. Locked'
    <3>1. Holds(t)' = Holds(t)
      BY <1>1, <2>5 DEF Holds
    <3> QED  BY <1>5, <2>5, <3>1, NoLock DEF Core
  <2>11. Member'
    <3>1. Leaving(p)'
      BY <2>5 DEF Leaving
    <3>2. \A q : Leaving(q) => Leaving(q)'
      BY <1>1, <2>6 DEF Leaving
    <3>3. mem.alive \subseteq Chains
      BY <1>2 DEF Mem
    <3>4. ASSUME NEW q \in Pages, mem.chain[q] # NoChain
          PROVE  /\ mem.chain[q] \in mem.alive
                 /\ q \in mem'.links[mem.chain[q]] \/ Leaving(q)'
      <4>1. /\ mem.chain[q] \in mem.alive /\ mem.chain[q] \in Chains
            /\ q \in mem.links[mem.chain[q]] \/ Leaving(q)
        BY <3>3, <3>4 DEF Core, Member
      <4> QED  BY <2>4, <3>1, <3>2, <4>1
    <3>5. ASSUME NEW d \in mem.alive, NEW q \in mem'.links[d]
          PROVE  mem.chain[q] = d /\ q \in mem.alloc
      <4>1. q \in mem.links[d]
        BY <2>4, <3>3, <3>5
      <4> QED  BY <4>1 DEF Core, Member
    <3> QED  BY <2>2, <3>4, <3>5 DEF Member
  <2>12. InHand(t)' /\ Walked(t)'
    BY <1>1, <1>2, <1>7, <2>2, <2>4, <2>5 DEF InHand, Walked, Freeing, Unlinking
  <2>13. ASSUME NEW u \in Threads, u # t PROVE InHand(u)' /\ Walked(u)'
    <3>1. Placed(reg[u]) /\ Owned(u) /\ InHand(u) /\ Walked(u) /\ reg'[u] = reg[u]
      BY <2>6, <2>13, Here
    <3>2. reg[u].pc # "link.count"
      BY <1>3, <2>13, <3>1 DEF Placed, Linking
    <3>3. reg[u].pc \in Freeing \ {"free.read"} => reg[u].chain \in Chains
      BY FreeHere
    <3>4. InHand(u)'
      BY <2>2, <2>4, <3>1, <3>2, <3>3 DEF InHand, Freeing
    <3>5. reg[u].pc \in Unlinking \ {"brk.lock"} => u # c /\ u \in Chains
      BY <1>1, <3>1, ChainHeld DEF Placed, Owned, Chains
    <3>6. reg[u].pc \in Unlinking \ {"brk.lock"} => mem'.links[u] = mem.links[u]
      BY <2>4, <3>5
    <3>7. Walked(u)'
      BY <3>1, <3>6 DEF Walked, Unlinking
    <3> QED  BY <3>4, <3>7
  <2>14. Walks'
    BY <2>12, <2>13 DEF Walks
  <2>15. \A d \in Chains : Counted(d)' = Counted(d)
    BY <1>1, <2>2, <2>5, <2>6 DEF Counted
  <2>16. \A d \in Chains : Steady(d)' => Steady(d)
    BY <1>1, <2>2, <2>6 DEF Steady, Chains, Threads, Unlinking
  <2> QED  BY <1>5, <2>2, <2>7, <2>8, <2>9, <2>10, <2>11, <2>14, <2>15, <2>16
           DEF Core, Exact, Bounded
<1> QED  BY <1>2, <1>6, <1>7

\* The free subtracts from nr_links and clears the pointer.
LEMMA FreeCountCore ==
    ASSUME Core, Overlap \subseteq TwoOwners, NEW t \in Threads, FreeCount(t)
    PROVE  Core' /\ fault' = fault
<1>1. reg[t].pc = "free.count" /\ reg[t].pc \in Freeing
  BY DEF FreeCount, At, Freeing
<1> PICK p \in Pages : p = reg[t].page
  BY <1>1, FreeHere
<1> PICK c \in Chains : c = reg[t].chain
  BY <1>1, FreeHere
<1> DEFINE n == [mem.nr EXCEPT ![c] = mem.nr[c] - 1]
           r == [mem.rc EXCEPT ![c] = IF p \in mem.ref THEN @ - 1 ELSE @]
<1>2. /\ Placed(reg[t]) /\ Owned(t) /\ InHand(t) /\ reg[t].op = "free" /\ c \in mem.alive
      /\ c \in Chains /\ p \in Pages /\ p \in mem.alloc /\ p \notin mem.ref /\ mem \in Mem
      /\ reg \in [Threads -> Reg] /\ mem.chain[p] = c /\ reg[t].n = mem.nr[c]
      /\ p \notin mem.links[c]
  BY <1>1, FreeHere DEF InHand
<1>3. \A u \in Threads : u # t /\ reg[u].pc # "idle" =>
         /\ reg[u].op \notin {"link", "rls", "exit"}
         /\ reg[u].op \in Holders => reg[u].page # p
  BY <1>1, FreeHere
<1>4. /\ lock' = lock /\ fault' = fault /\ Goto(t, "free.unlock")
      /\ mem' = [mem EXCEPT !.nr[c]    = mem.nr[c] - 1,
                            !.rc[c]    = IF p \in mem.ref THEN @ - 1 ELSE @,
                            !.chain[p] = NoChain]
  BY <1>2 DEF FreeCount
<1>5. /\ mem'.alive = mem.alive /\ mem'.links = mem.links
      /\ mem'.ref = mem.ref /\ mem'.alloc = mem.alloc
      /\ mem'.nr = n /\ mem'.chain = [mem.chain EXCEPT ![p] = NoChain]
  BY <1>2, <1>4 DEF Mem
<1>6. mem' \in Mem
  <2> DEFINE g == [mem.chain EXCEPT ![p] = NoChain]
  <2>1. mem' = [mem EXCEPT !.nr = n, !.rc = r, !.chain = g]
    BY <1>2, <1>4 DEF Mem
  <2>2. n \in [Chains -> Int] /\ r \in [Chains -> Int] /\ g \in [Pages -> Chains \cup {NoChain}]
    BY <1>2 DEF Mem
  <2> HIDE DEF n, r, g
  <2> QED  BY <1>2, <2>1, <2>2 DEF Mem
<1>7. /\ \A d \in Chains : mem'.nr[d] = IF d = c THEN mem.nr[d] - 1 ELSE mem.nr[d]
      /\ \A q \in Pages : mem'.chain[q] = IF q = p THEN NoChain ELSE mem.chain[q]
  BY <1>2, <1>5 DEF Mem
<1> HIDE DEF n, r
<1>8. Only(t) /\ reg'[t].pc = "free.unlock" /\ Keeps(t)
  BY <1>4, GotoReg DEF Labels, Core, Types
<1>9. \A u \in Threads : u # t => reg'[u] = reg[u]
  BY <1>8 DEF Only
<1>10. Types'
  BY <1>4, <1>6, <1>8 DEF Core, Types, Only
<1>11. Sequenced'
  <2>1. Placed(reg'[t]) /\ Owned(t)'
    BY <1>1, <1>2, <1>5, <1>8 DEF Placed, Owned, Linking, Touching, Flagging, Freeing, Unlinking,
       OnPages, Keeps
  <2> QED  BY <1>5, <1>9, <2>1 DEF Core, Sequenced, Owned
<1>12. Paired'
  BY <1>1, <1>8, SameCall DEF Core, Keeps
<1>13. Locked'
  <2>1. Holds(t)' = Holds(t)
    BY <1>1, <1>8 DEF Holds, Keeps
  <2> QED  BY <1>4, <1>8, <2>1, NoLock DEF Core
<1>14. Member'
  <2>1. \A q : q # p /\ Leaving(q) => Leaving(q)'
    BY <1>9 DEF Leaving
  <2>2. \A d \in mem.alive : \A q \in mem.links[d] : q \in Pages /\ q # p
    BY <1>2 DEF Core, Member, Mem
  <2> QED  BY <1>5, <1>7, <2>1, <2>2 DEF Core, Member
<1>15. Walks'
  <2>1. InHand(t)' /\ Walked(t)'
    BY <1>1, <1>2, <1>5, <1>7, <1>8 DEF InHand, Walked, Freeing, Unlinking, Keeps
  <2>2. ASSUME NEW u \in Threads, u # t PROVE InHand(u)' /\ Walked(u)'
    <3>1. Placed(reg[u]) /\ Owned(u) /\ InHand(u) /\ Walked(u) /\ reg'[u] = reg[u]
      BY <1>9, <2>2, Here
    <3>2. reg[u].pc \notin Linking
      BY <1>3, <2>2, <3>1 DEF Placed, Linking
    <3>3. reg[u].pc \in Freeing \ {"free.read"} => reg[u].chain \in Chains
      BY FreeHere
    <3>4. reg[u].pc \in Freeing \cup Touching => reg[u].page \in Pages /\ reg[u].page # p
      BY <1>3, <2>2, <3>1, Here DEF Placed, Freeing, Touching, Holders, OnPages
    <3>5. reg[u].pc = "free.count" => reg[u].chain # c
      BY <1>1, <2>2, ChainHeld
    <3>6. reg[u].pc \in Freeing \cup Touching => mem'.chain[reg[u].page] = mem.chain[reg[u].page]
      BY <1>7, <3>4
    <3>7. reg[u].pc = "free.count" => mem'.nr[reg[u].chain] = mem.nr[reg[u].chain]
      BY <1>7, <3>3, <3>5 DEF Freeing
    <3>8. InHand(u)'
      BY <1>5, <3>1, <3>2, <3>6, <3>7 DEF InHand, Freeing, Touching, Linking
    <3>9. Walked(u)'
      BY <1>5, <3>1 DEF Walked
    <3> QED  BY <3>8, <3>9
  <2> QED  BY <2>1, <2>2 DEF Walks
<1>16. ASSUME NEW d \in Chains, d # c PROVE Counted(d)' = Counted(d)
  <2>1. \A q \in Pages : mem'.chain[q] = d <=> mem.chain[q] = d
    BY <1>2, <1>7, <1>16, DisjointAssumption DEF Chains
  <2> QED  BY <1>1, <1>8, <1>9, <2>1 DEF Counted
<1>17. p \in Counted(c) /\ Counted(c)' = Counted(c) \ {p}
  <2>1. \A u \in Threads : reg[u].pc # "link.count"
    <3>1. ASSUME NEW u \in Threads, reg[u].pc = "link.count" PROVE FALSE
      <4>1. u # t /\ reg[u].op = "link" /\ reg[u].pc # "idle"
        BY <1>1, <3>1, Here DEF Placed, Linking
      <4> QED  BY <1>3, <4>1
    <3> QED  BY <3>1
  <2>2. \A u \in Threads : reg'[u].pc # "link.count"
    BY <1>8, <1>9, <2>1
  <2>3. c # NoChain
    BY <1>2, DisjointAssumption DEF Chains
  <2>4. Counted(c) = {q \in Pages : mem.chain[q] = c}
    BY <2>1 DEF Counted
  <2>5. Counted(c)' = {q \in Pages : mem'.chain[q] = c}
    BY <2>2 DEF Counted
  <2>6. p \in Counted(c)
    BY <1>2, <2>4
  <2>7. \A q \in Pages : mem'.chain[q] = c <=> (mem.chain[q] = c /\ q # p)
    BY <1>7, <2>3
  <2> QED  BY <2>4, <2>5, <2>6, <2>7
<1>18. Exact' /\ Bounded'
  <2>1. \A d \in Chains : Steady(d)' => Steady(d)
    BY <1>1, <1>5, <1>9 DEF Steady, Chains, Threads, Unlinking
  <2>2. Steady(c)
    BY <1>1, ChainHeld
  <2>3. /\ IsFiniteSet(Counted(c))
        /\ Cardinality(Counted(c) \ {p}) = Cardinality(Counted(c)) - 1
        /\ Cardinality(Counted(c)) <= Cardinality(Pages)
        /\ Cardinality(Counted(c) \ {p}) \in Nat
    <3>1. Counted(c) \subseteq Pages
      BY DEF Counted
    <3>2. IsFiniteSet(Counted(c)) /\ IsFiniteSet(Counted(c) \ {p})
      BY <3>1, DisjointAssumption, FS_Subset
    <3> QED  BY <1>17, <3>1, <3>2, DisjointAssumption, FS_Subset, FS_RemoveElement,
                FS_CardinalityType
  <2>4. mem.nr[c] = Cardinality(Counted(c)) /\ mem'.nr[c] = Cardinality(Counted(c)')
    BY <1>2, <1>7, <1>17, <2>2, <2>3 DEF Core, Exact
  <2>5. Exact'
    <3>1. ASSUME NEW d \in Chains, Steady(d)' PROVE mem'.nr[d] = Cardinality(Counted(d)')
      <4>1. mem.nr[d] = Cardinality(Counted(d))
        BY <2>1, <3>1 DEF Core, Exact
      <4>2. d # c => Counted(d)' = Counted(d) /\ mem'.nr[d] = mem.nr[d]
        BY <1>7, <1>16
      <4>3. CASE d = c
        BY <2>4, <4>3
      <4>4. CASE d # c
        BY <4>1, <4>2, <4>4
      <4> QED  BY <4>3, <4>4
    <3> QED  BY <3>1 DEF Exact
  <2>6. mem'.nr[c] \in 0 .. Cardinality(Pages)
    BY <1>17, <2>3, <2>4, DisjointAssumption, FS_CardinalityType
  <2> QED  BY <1>7, <2>5, <2>6 DEF Core, Bounded
<1> QED  BY <1>4, <1>10, <1>11, <1>12, <1>13, <1>14, <1>15, <1>18 DEF Core

\* A page that is on no chain goes back to the allocator.
LEMMA GoneCore ==
    ASSUME Core, Overlap \subseteq TwoOwners, NEW t \in Threads,
           reg[t].pc \in {"free.read", "free.unlock"}, mem.chain[reg[t].page] = NoChain,
           mem' = [mem EXCEPT !.alloc = @ \ {reg[t].page}], Finish(t), fault' = fault, Locked',
           lock' \in [Locks -> Threads \cup {Nobody}]
    PROVE  Core'
<1>1. reg[t].pc \in Freeing
  BY DEF Freeing
<1> PICK p \in Pages : p = reg[t].page
  BY <1>1, FreeHere
<1>2. /\ reg \in [Threads -> Reg] /\ mem \in Mem
      /\ \A u \in Threads : u # t /\ reg[u].pc # "idle" =>
            /\ reg[u].op # "link"
            /\ reg[u].op \in Holders => reg[u].page # p
  BY <1>1, FreeHere
<1>3. Only(t) /\ reg'[t] = Idle /\ reg'[t].pc = "idle"
  <2>1. Only(t) /\ reg'[t] = Idle
    BY <1>2, FinishReg
  <2> QED  BY <2>1 DEF Idle
<1>4. \A u \in Threads : u # t => reg'[u] = reg[u]
  BY <1>3 DEF Only
<1>5. /\ mem' \in Mem /\ mem'.alive = mem.alive /\ mem'.nr = mem.nr /\ mem'.chain = mem.chain
      /\ mem'.ref = mem.ref /\ mem'.links = mem.links /\ mem'.alloc = mem.alloc \ {p}
  BY <1>2 DEF Mem
<1>6. Types'
  BY <1>3, <1>5 DEF Core, Types, Only
<1>7. Sequenced'
  <2>1. Placed(reg'[t]) /\ Owned(t)'
    BY <1>3 DEF Placed, Owned, Idle, Linking, Touching, Flagging, Freeing, Unlinking, OnPages,
       Unlinkers
  <2>2. ASSUME NEW u \in Threads, u # t PROVE Placed(reg'[u]) /\ Owned(u)'
    <3>1. Placed(reg[u]) /\ Owned(u) /\ reg'[u] = reg[u]
      BY <1>4, <2>2, Here
    <3>2. reg[u].op \in OnPages => reg[u].op \in Holders /\ reg[u].pc # "idle"
      BY <1>2, <2>2, <3>1 DEF Placed, OnPages, Holders, Idle
    <3>3. reg[u].op \in OnPages => reg[u].page # p
      BY <1>2, <2>2, <3>2
    <3> QED  BY <1>5, <3>1, <3>3 DEF Owned
  <2> QED  BY <2>1, <2>2 DEF Sequenced
<1>8. Paired'
  BY <1>1, <1>3, SameCall DEF Core, Freeing
<1>9. Member'
  <2>1. \A q : Leaving(q)' <=> Leaving(q)
    BY <1>3, <1>4 DEF Leaving
  <2>2. \A c \in mem.alive : \A q \in mem.links[c] : q # p
    BY <1>2, DisjointAssumption DEF Core, Member, Mem, Chains
  <2> QED  BY <1>5, <2>1, <2>2 DEF Core, Member
<1>10. Walks'
  <2>1. InHand(t)' /\ Walked(t)'
    BY <1>3 DEF InHand, Walked, Idle, Freeing
  <2>2. ASSUME NEW u \in Threads, u # t PROVE InHand(u)' /\ Walked(u)'
    <3>1. InHand(u) /\ Walked(u) /\ reg'[u] = reg[u]
      BY <1>4, <2>2, Here
    <3> QED  BY <1>5, <3>1 DEF InHand, Walked
  <2> QED  BY <2>1, <2>2 DEF Walks
<1>11. \A c \in Chains : Counted(c)' = Counted(c)
  BY <1>3, <1>4, <1>5 DEF Counted
<1>12. \A c \in Chains : Steady(c)' => Steady(c)
  BY <1>3, <1>4, <1>5 DEF Steady, Chains, Threads, Unlinking
<1> QED  BY <1>5, <1>6, <1>7, <1>8, <1>9, <1>10, <1>11, <1>12 DEF Core, Exact, Bounded

\* The free reads page->chain, or finds none and is done.
LEMMA FreeReadCore ==
    ASSUME Core, Overlap \subseteq TwoOwners, NEW t \in Threads, FreeRead(t)
    PROVE  Core' /\ fault' = fault
<1> DEFINE c == mem.chain[reg[t].page]
<1>1. reg[t].pc = "free.read" /\ reg[t].pc \in Freeing
  BY DEF FreeRead, At, Freeing
<1>2. /\ Placed(reg[t]) /\ Owned(t) /\ InHand(t) /\ reg[t].op = "free" /\ reg[t].page \in Pages
      /\ mem \in Mem /\ reg \in [Threads -> Reg]
  BY <1>1, FreeHere
<1>3. lock' = lock /\ fault' = fault
  BY DEF FreeRead
<1>4. CASE c = NoChain
  <2>1. mem' = [mem EXCEPT !.alloc = @ \ {reg[t].page}] /\ Finish(t)
    BY <1>4 DEF FreeRead
  <2>2. Only(t) /\ reg'[t] = Idle
    BY <1>2, <2>1, FinishReg
  <2>3. Locked'
    <3>1. Holds(t)' = Holds(t)
      BY <1>1, <2>2 DEF Holds, Idle
    <3> QED  BY <1>3, <2>2, <3>1, NoLock DEF Core
  <2> QED  BY <1>1, <1>3, <1>4, <2>1, <2>3, GoneCore DEF Core, Types
<1>5. CASE c # NoChain
  <2>1. /\ mem' = mem /\ reg' = [reg EXCEPT ![t].pc = "free.lock1", ![t].chain = c]
        /\ c \in Chains \cup {NoChain} /\ c \in mem.alive /\ "free.lock1" \in Labels
    BY <1>2, <1>5, ChainLives DEF FreeRead, Labels
  <2>2. /\ Only(t) /\ reg'[t].pc = "free.lock1" /\ reg'[t].chain = c /\ reg'[t].op = reg[t].op
        /\ reg'[t].page = reg[t].page /\ reg'[t].then = reg[t].then
    <3>1. /\ reg' = [reg EXCEPT ![t].pc = "free.lock1", ![t].chain = c]
          /\ c \in Chains \cup {NoChain} /\ "free.lock1" \in Labels
          /\ reg \in [Threads -> Reg]
      BY <1>2, <2>1
    <3> HIDE DEF c
    <3> QED  BY <3>1, ChainReg, ZenonT(60)
  <2>3. Types'
    BY <1>3, <2>1, <2>2 DEF Core, Types, Only
  <2>4. Placed(reg'[t]) /\ Owned(t)' /\ InHand(t)' /\ Walked(t)'
    BY <1>1, <1>2, <2>1, <2>2 DEF Placed, Owned, InHand, Walked, Linking, Touching, Flagging,
       Freeing, Unlinking, OnPages
  <2>5. Paired'
    BY <1>1, <2>2, SameCall DEF Core
  <2>6. Locked'
    <3>1. Holds(t)' = Holds(t)
      BY <1>1, <2>2 DEF Holds
    <3> QED  BY <1>3, <2>2, <3>1, NoLock DEF Core
  <2>7. Calm(t)
    BY <1>1, <2>1, <2>2 DEF Calm, Core, Types, Unlinking
  <2> QED  BY <1>3, <2>3, <2>4, <2>5, <2>6, <2>7, CalmCore
<1> QED  BY <1>4, <1>5

\* The free gives both locks back and the page to the allocator.
LEMMA FreeUnlockCore ==
    ASSUME Core, Overlap \subseteq TwoOwners, NEW t \in Threads, FreeUnlock(t)
    PROVE  Core' /\ fault' = fault
<1>1. reg[t].pc = "free.unlock" /\ reg[t].pc \in Freeing
  BY DEF FreeUnlock, At, Freeing
<1>2. /\ reg[t].chain \in mem.alive /\ reg[t].chain \in Locks /\ reg[t].page \in Locks
      /\ mem.chain[reg[t].page] = NoChain /\ reg \in [Threads -> Reg]
  BY <1>1, FreeHere DEF InHand
<1>3. /\ Release({reg[t].chain, reg[t].page}) /\ fault' = fault /\ Finish(t)
      /\ mem' = [mem EXCEPT !.alloc = @ \ {reg[t].page}]
  BY <1>2 DEF FreeUnlock
<1>4. Only(t) /\ reg'[t] = Idle
  BY <1>2, <1>3, FinishReg
<1>5. Locked'
  <2>1. Holds(t) = {reg[t].chain, reg[t].page} /\ Holds(t)' = {}
    BY <1>1, <1>4 DEF Holds, Idle
  <2>2. Holds(t)' = Holds(t) \ {reg[t].chain, reg[t].page}
    BY <2>1
  <2> QED  BY <1>2, <1>3, <1>4, <2>1, <2>2, GivesLocks DEF Core
<1>6. lock' \in [Locks -> Threads \cup {Nobody}]
  BY <1>3 DEF Release, Core, Types
<1> QED  BY <1>1, <1>2, <1>3, <1>5, <1>6, GoneCore

-----------------------------------------------------------------------------
(* Break, release and exit *)

\* What a thread at a label of one of them knows
LEMMA BreakHere ==
    ASSUME Core, Overlap \subseteq TwoOwners, NEW t \in Threads, reg[t].pc \in Unlinking
    PROVE  /\ Placed(reg[t]) /\ Owned(t) /\ InHand(t) /\ Walked(t) /\ reg[t].op \in Unlinkers
           /\ t \in Chains /\ t \in Locks /\ t \in mem.alive /\ reg[t].chain = t
           /\ reg \in [Threads -> Reg] /\ reg[t] \in Reg /\ mem \in Mem
           /\ \A u \in Threads : u # t /\ reg[u].pc # "idle" => reg[u].op \notin {"link", "access"}
<1>1. /\ Placed(reg[t]) /\ Owned(t) /\ InHand(t) /\ Walked(t) /\ reg[t].op \in Unlinkers
      /\ t \in Chains /\ t \in Locks /\ t \in mem.alive /\ reg[t].chain = t
      /\ reg \in [Threads -> Reg] /\ reg[t] \in Reg /\ mem \in Mem /\ reg[t].pc # "idle"
  BY Here DEF Placed, Owned, Unlinking, Chains, Locks
<1> QED  BY <1>1, Apart DEF Core

\* While a walk has the chain's lock, no free has a page of the list in hand.
LEMMA WalkHeld ==
    ASSUME Core, Overlap \subseteq TwoOwners, NEW t \in Threads,
           reg[t].pc \in {"brk.next", "brk.page", "brk.del", "brk.reset"}
    PROVE  \A u \in Threads :
              reg[u].pc \in {"free.lock2", "free.unlink", "free.count", "free.unlock"} =>
                 reg[u].chain # t
<1>1. reg[t].pc \in Unlinking
  BY DEF Unlinking
<1>2. t \in Locks /\ t \in Holds(t)
  BY <1>1, BreakHere DEF Holds
<1>3. ASSUME NEW u \in Threads, reg[u].chain = t,
             reg[u].pc \in {"free.lock2", "free.unlink", "free.count", "free.unlock"}
      PROVE  FALSE
  <2>1. t \in Holds(u)
    BY <1>3 DEF Holds
  <2>2. u = t
    BY <1>2, <2>1 DEF Core, Locked
  <2> QED  BY <1>3, <2>2
<1> QED  BY <1>3

\* A break, release or exit takes the chain's lock and reads the first page.
LEMMA BrkLockCore ==
    ASSUME Core, Overlap \subseteq TwoOwners, NEW t \in Threads, BrkLock(t)
    PROVE  Core' /\ fault' = fault
<1>1. reg[t].pc = "brk.lock" /\ reg[t].pc \in Unlinking
  BY DEF BrkLock, At, Unlinking
<1>2. /\ Placed(reg[t]) /\ Owned(t) /\ reg[t].op \in Unlinkers /\ t \in Chains /\ t \in Locks
      /\ t \in mem.alive /\ reg[t].chain = t /\ reg \in [Threads -> Reg] /\ mem \in Mem
  BY <1>1, BreakHere
<1>3. /\ lock[t] = Nobody /\ lock' = [lock EXCEPT ![t] = t] /\ UNCHANGED <<mem, fault>>
  BY <1>2 DEF BrkLock, Acquire
<1>4. PICK p \in Elem(mem.links[t]) : reg' = [reg EXCEPT ![t].pc = "brk.next", ![t].page = p]
  BY <1>2 DEF BrkLock
<1>5. /\ p \in Pages \cup {NoPage} /\ "brk.next" \in Labels
      /\ IF p = NoPage THEN mem.links[t] = {} ELSE p \in mem.links[t]
  <2>1. mem.links[t] \subseteq Pages /\ NoPage \notin mem.links[t]
    BY <1>2, DisjointAssumption DEF Mem
  <2> QED  BY <2>1 DEF Elem, Labels
<1>6. /\ Only(t) /\ reg'[t].pc = "brk.next" /\ reg'[t].page = p /\ reg'[t].op = reg[t].op
      /\ reg'[t].chain = reg[t].chain /\ reg'[t].then = reg[t].then
  <2>1. /\ reg \in [Threads -> Reg] /\ p \in Pages \cup {NoPage} /\ "brk.next" \in Labels
        /\ reg' = [reg EXCEPT ![t].pc = "brk.next", ![t].page = p]
    BY <1>2, <1>4, <1>5
  <2> QED  BY <2>1, PageReg, ZenonT(60)
<1>7. Types'
  BY <1>2, <1>3, <1>6 DEF Core, Types, Only
<1>8. Placed(reg'[t]) /\ Owned(t)'
  BY <1>1, <1>2, <1>3, <1>6 DEF Placed, Owned, Linking, Touching, Flagging, Freeing, Unlinking,
     OnPages, Unlinkers
<1>9. InHand(t)' /\ Walked(t)'
  BY <1>2, <1>3, <1>5, <1>6 DEF InHand, Walked, Freeing, Unlinkers
<1>10. Paired'
  BY <1>1, <1>2, <1>6, SameCall DEF Core
<1>11. Locked'
  <2>1. Holds(t) = {} /\ Holds(t)' = {t}
    BY <1>1, <1>2, <1>6 DEF Holds
  <2> QED  BY <1>2, <1>3, <1>6, <2>1, TakesLock DEF Core
<1>12. Calm(t)
  BY <1>1, <1>3, <1>6 DEF Calm, Core, Types, Unlinking
<1> QED  BY <1>3, <1>7, <1>8, <1>9, <1>10, <1>11, <1>12, CalmCore

\* The walk reads the page after the one it is at, which is on the list.
LEMMA BrkNextCore ==
    ASSUME Core, Overlap \subseteq TwoOwners, NEW t \in Threads, BrkNext(t)
    PROVE  Core' /\ fault' = fault
<1>1. reg[t].pc = "brk.next" /\ reg[t].pc \in Unlinking
  BY DEF BrkNext, At, Unlinking
<1>2. /\ Placed(reg[t]) /\ Owned(t) /\ Walked(t) /\ reg[t].op \in Unlinkers /\ t \in Chains
      /\ t \in mem.alive /\ reg[t].chain = t /\ reg \in [Threads -> Reg] /\ mem \in Mem
  BY <1>1, BreakHere
<1>3. /\ mem.links[t] \subseteq Pages /\ NoPage \notin mem.links[t]
      /\ IF reg[t].page = NoPage THEN mem.links[t] = {} ELSE reg[t].page \in mem.links[t]
  BY <1>1, <1>2, DisjointAssumption DEF Mem, Walked
<1>4. UNCHANGED <<mem, lock, fault>>
  BY <1>2, <1>3 DEF BrkNext
<1>5. ASSUME Only(t), reg'[t].op = reg[t].op, reg'[t].chain = reg[t].chain,
             reg'[t].then = reg[t].then, reg'[t].page = reg[t].page,
             reg'[t].pc \in {"brk.reset", "brk.page"}, Walked(t)'
      PROVE  Core'
  <2>1. Types'
    BY <1>4, <1>5 DEF Core, Types, Only
  <2>2. Placed(reg'[t]) /\ Owned(t)' /\ InHand(t)'
    BY <1>1, <1>2, <1>4, <1>5 DEF Placed, Owned, InHand, Linking, Touching, Flagging, Freeing,
       Unlinking, OnPages, Unlinkers
  <2>3. Paired'
    BY <1>1, <1>5, SameCall DEF Core
  <2>4. Locked'
    <3>1. Holds(t)' = Holds(t)
      BY <1>1, <1>5 DEF Holds
    <3> QED  BY <1>4, <1>5, <3>1, NoLock DEF Core
  <2>5. Calm(t)
    BY <1>1, <1>4, <1>5 DEF Calm, Core, Types, Unlinking
  <2> QED  BY <1>5, <2>1, <2>2, <2>3, <2>4, <2>5, CalmCore
<1>6. CASE reg[t].page = NoPage
  <2>1. Goto(t, "brk.reset")
    BY <1>6 DEF BrkNext
  <2>2. Only(t) /\ reg'[t].pc = "brk.reset" /\ Keeps(t)
    BY <1>2, <2>1, GotoReg DEF Labels
  <2>3. Walked(t)'
    BY <1>3, <1>4, <1>6, <2>2 DEF Walked
  <2> QED  BY <1>4, <1>5, <2>2, <2>3 DEF Keeps
<1>7. CASE reg[t].page # NoPage
  <2>1. PICK q \in Elem(mem.links[t] \ {reg[t].page}) :
           reg' = [reg EXCEPT ![t].pc = "brk.page", ![t].next = q]
    BY <1>2, <1>3, <1>7 DEF BrkNext
  <2>2. /\ q \in Pages \cup {NoPage} /\ "brk.page" \in Labels
        /\ IF q = NoPage THEN mem.links[t] = {reg[t].page}
           ELSE q \in mem.links[t] \ {reg[t].page}
    BY <1>3, <1>7 DEF Elem, Labels
  <2>3. /\ Only(t) /\ reg'[t].pc = "brk.page" /\ reg'[t].next = q /\ reg'[t].op = reg[t].op
        /\ reg'[t].chain = reg[t].chain /\ reg'[t].then = reg[t].then
        /\ reg'[t].page = reg[t].page
    <3>1. /\ reg \in [Threads -> Reg] /\ q \in Pages \cup {NoPage} /\ "brk.page" \in Labels
          /\ reg' = [reg EXCEPT ![t].pc = "brk.page", ![t].next = q]
      BY <1>2, <2>1, <2>2
    <3> QED  BY <3>1, NextReg, ZenonT(60)
  <2>4. Walked(t)'
    BY <1>3, <1>4, <1>7, <2>2, <2>3 DEF Walked
  <2> QED  BY <1>4, <1>5, <2>3, <2>4
<1> QED  BY <1>6, <1>7

\* The walk takes the page's lock.
LEMMA BrkPageCore ==
    ASSUME Core, Overlap \subseteq TwoOwners, NEW t \in Threads, BrkPage(t)
    PROVE  Core' /\ fault' = fault
<1> DEFINE p == reg[t].page
<1>1. reg[t].pc = "brk.page" /\ reg[t].pc \in Unlinking
  BY DEF BrkPage, At, Unlinking
<1>2. /\ Placed(reg[t]) /\ Owned(t) /\ Walked(t) /\ reg[t].op \in Unlinkers /\ t \in Chains
      /\ t \in mem.alive /\ reg[t].chain = t /\ mem \in Mem
  BY <1>1, BreakHere
<1>3. p \in Locks
  BY <1>1, <1>2 DEF Walked, Mem, Locks
<1>4. /\ lock[p] = Nobody /\ lock' = [lock EXCEPT ![p] = t] /\ Goto(t, "brk.del")
      /\ UNCHANGED <<mem, fault>>
  BY DEF BrkPage, Acquire
<1>5. Only(t) /\ reg'[t].pc = "brk.del" /\ Keeps(t)
  BY <1>4, GotoReg DEF Labels, Core, Types
<1>6. Types'
  BY <1>3, <1>4, <1>5 DEF Core, Types, Only
<1>7. Placed(reg'[t]) /\ Owned(t)' /\ InHand(t)' /\ Walked(t)'
  BY <1>1, <1>2, <1>4, <1>5 DEF Placed, Owned, InHand, Walked, Keeps, Linking, Touching, Flagging,
     Freeing, Unlinking, OnPages, Unlinkers
<1>8. Paired'
  BY <1>1, <1>5, SameCall DEF Core, Keeps
<1>9. Locked'
  <2>1. Holds(t) = {t} /\ Holds(t)' = {t, p}
    BY <1>1, <1>2, <1>5 DEF Holds, Keeps
  <2>2. Holds(t)' = Holds(t) \cup {p}
    BY <2>1
  <2> QED  BY <1>3, <1>4, <1>5, <2>2, TakesLock DEF Core
<1>10. Calm(t)
  BY <1>1, <1>4, <1>5 DEF Calm, Core, Types, Unlinking
<1> QED  BY <1>4, <1>6, <1>7, <1>8, <1>9, <1>10, CalmCore

\* The walk takes the page off the chain, and the page it read next is still on it.
LEMMA BrkDelCore ==
    ASSUME Core, Overlap \subseteq TwoOwners, NEW t \in Threads, BrkDel(t)
    PROVE  Core' /\ fault' = fault
<1>1. reg[t].pc = "brk.del" /\ reg[t].pc \in Unlinking
  BY DEF BrkDel, At, Unlinking
<1>2. /\ Placed(reg[t]) /\ Owned(t) /\ Walked(t) /\ reg[t].op \in Unlinkers /\ t \in Chains
      /\ t \in mem.alive /\ reg[t].chain = t /\ reg \in [Threads -> Reg] /\ reg[t] \in Reg
      /\ mem \in Mem
      /\ \A u \in Threads : u # t /\ reg[u].pc # "idle" => reg[u].op \notin {"link", "access"}
  BY <1>1, BreakHere
<1>0. ASSUME NEW x \in Pages \cup {NoPage},
              reg' = [reg EXCEPT ![t].pc = "brk.next", ![t].page = x]
       PROVE  /\ Only(t) /\ reg'[t].pc = "brk.next" /\ reg'[t].page = x
              /\ reg'[t].op = reg[t].op /\ reg'[t].chain = reg[t].chain
              /\ reg'[t].then = reg[t].then
  <2>1. /\ reg \in [Threads -> Reg] /\ "brk.next" \in Labels
        /\ reg' = [reg EXCEPT ![t].pc = "brk.next", ![t].page = x]
    BY <1>2, <1>0 DEF Labels
  <2> QED  BY <2>1, PageReg
<1> PICK p \in Pages : p = reg[t].page
  BY <1>1, <1>2 DEF Walked, Mem
<1> PICK q \in Pages \cup {NoPage} : q = reg[t].next
  BY <1>2 DEF Reg
<1>3. /\ p \in mem.links[t] /\ mem.chain[p] = t /\ t # NoChain
      /\ IF q = NoPage THEN mem.links[t] = {p} ELSE q \in mem.links[t] \ {p}
  BY <1>1, <1>2, DisjointAssumption DEF Walked, Core, Member, Chains
<1> DEFINE clear == reg[t].op # "exit" /\ p \in mem.ref
           f == IF clear THEN mem.ref \ {p} ELSE mem.ref
           r == [d \in Chains |-> mem.rc[d] - IF clear /\ d = t THEN 1 ELSE 0]
<1>4. /\ mem' = Detached(t) /\ Release({p}) /\ fault' = fault
      /\ reg' = [reg EXCEPT ![t].pc = "brk.next", ![t].page = q]
  BY <1>2, <1>3 DEF BrkDel
<1>5. mem' = [mem EXCEPT !.links[t] = @ \ {p}, !.chain[p] = NoChain, !.ref = f, !.rc = r]
  BY <1>2, <1>3, <1>4 DEF Detached
<1>6. f \subseteq mem.ref /\ f \in SUBSET Pages /\ r \in [Chains -> Int]
  BY <1>2 DEF Mem
<1> HIDE DEF clear, f, r
<1>7. /\ mem'.alive = mem.alive /\ mem'.nr = mem.nr /\ mem'.alloc = mem.alloc
      /\ mem'.ref = f /\ mem'.links = [mem.links EXCEPT ![t] = @ \ {p}]
      /\ mem'.chain = [mem.chain EXCEPT ![p] = NoChain]
  BY <1>2, <1>5 DEF Mem
<1>8. mem' \in Mem
  <2> DEFINE l == [mem.links EXCEPT ![t] = @ \ {p}]
             g == [mem.chain EXCEPT ![p] = NoChain]
  <2>1. mem' = [mem EXCEPT !.links = l, !.chain = g, !.ref = f, !.rc = r]
    BY <1>2, <1>5 DEF Mem
  <2>2. l \in [Chains -> SUBSET Pages] /\ g \in [Pages -> Chains \cup {NoChain}]
    BY <1>2 DEF Mem
  <2> HIDE DEF l, g
  <2> QED  BY <1>2, <1>6, <2>1, <2>2 DEF Mem
<1>9. /\ \A d \in Chains : mem'.links[d] = IF d = t THEN mem.links[d] \ {p} ELSE mem.links[d]
      /\ \A s \in Pages : mem'.chain[s] = IF s = p THEN NoChain ELSE mem.chain[s]
  BY <1>2, <1>7 DEF Mem
<1>10. /\ Only(t) /\ reg'[t].pc = "brk.next" /\ reg'[t].page = q /\ reg'[t].op = reg[t].op
       /\ reg'[t].chain = reg[t].chain /\ reg'[t].then = reg[t].then
  BY <1>4, <1>0
<1>11. \A u \in Threads : u # t => reg'[u] = reg[u]
  BY <1>10 DEF Only
<1>12. Types'
  BY <1>4, <1>8, <1>10 DEF Core, Types, Only, Release
<1>13. Sequenced'
  <2>1. Placed(reg'[t]) /\ Owned(t)'
    BY <1>1, <1>2, <1>7, <1>10 DEF Placed, Owned, Linking, Touching, Flagging, Freeing, Unlinking,
       OnPages, Unlinkers
  <2> QED  BY <1>7, <1>11, <2>1 DEF Core, Sequenced, Owned
<1>14. Paired'
  BY <1>1, <1>2, <1>10, SameCall DEF Core
<1>15. Locked'
  <2>1. Holds(t) = {t, p} /\ Holds(t)' = {t}
    BY <1>1, <1>2, <1>10 DEF Holds
  <2>2. t # p
    BY <1>2, DisjointAssumption DEF Chains, Threads
  <2>3. {p} \in SUBSET Locks /\ {p} \subseteq Holds(t) /\ Holds(t)' = Holds(t) \ {p}
    BY <2>1, <2>2 DEF Locks
  <2> QED  BY <1>4, <1>10, <2>3, GivesLocks DEF Core
<1>16. Member'
  <2>1. \A s : Leaving(s)' <=> Leaving(s)
    BY <1>1, <1>10, <1>11 DEF Leaving
  <2>2. mem.alive \subseteq Chains
    BY <1>2 DEF Mem
  <2>3. ASSUME NEW s \in Pages, mem'.chain[s] # NoChain
        PROVE  mem'.chain[s] \in mem.alive /\ (s \in mem'.links[mem'.chain[s]] \/ Leaving(s)')
    <3>1. s # p /\ mem'.chain[s] = mem.chain[s]
      BY <1>9, <2>3
    <3>2. mem.chain[s] \in mem.alive /\ (s \in mem.links[mem.chain[s]] \/ Leaving(s))
      BY <2>3, <3>1 DEF Core, Member
    <3> QED  BY <1>9, <2>1, <2>2, <3>1, <3>2
  <2>4. ASSUME NEW d \in mem.alive, NEW s \in mem'.links[d]
        PROVE  mem'.chain[s] = d /\ s \in mem.alloc
    <3>1. s \in mem.links[d] /\ s \in Pages /\ mem.chain[s] = d /\ s \in mem.alloc
      BY <1>2, <1>9, <2>2, <2>4, ZenonT(60) DEF Core, Member, Mem
    <3>2. s # p
      BY <1>3, <1>9, <2>2, <2>4, <3>1, ZenonT(60)
    <3> QED  BY <1>9, <3>1, <3>2
  <2> QED  BY <1>7, <2>3, <2>4 DEF Member
<1>17. Walks'
  <2>1. InHand(t)'
    BY <1>2, <1>10 DEF InHand, Freeing, Unlinkers
  <2>2. Walked(t)'
    BY <1>2, <1>3, <1>9, <1>10 DEF Walked
  <2>3. ASSUME NEW u \in Threads, u # t PROVE InHand(u)' /\ Walked(u)'
    <3>1. Placed(reg[u]) /\ Owned(u) /\ InHand(u) /\ Walked(u) /\ reg'[u] = reg[u]
      BY <1>11, <2>3, Here
    <3>2. reg[u].pc \notin Linking \cup Touching
      BY <1>2, <2>3, <3>1 DEF Placed, Linking, Touching
    <3>3. reg[u].pc \in Freeing => reg[u].page \in Pages
      BY FreeHere
    <3>4. reg[u].pc = "free.count" => reg[u].page # p
      BY <1>1, <1>3, <3>1, WalkHeld DEF InHand
    <3>5. reg[u].pc \in Freeing \ {"free.read"} => reg[u].chain \in Chains
      BY FreeHere
    <3>6. InHand(u)'
      <4>1. reg[u].pc \in Freeing \ {"free.read"} =>
               reg[u].chain \in mem.alive /\ mem'.chain[reg[u].page] \in {reg[u].chain, NoChain}
        BY <1>9, <3>1, <3>3 DEF InHand
      <4>2. reg[u].pc = "free.count" => mem'.chain[reg[u].page] = reg[u].chain
        BY <1>9, <3>1, <3>3, <3>4 DEF InHand, Freeing
      <4>3. reg[u].pc = "free.count" => reg[u].page \notin mem'.links[reg[u].chain]
        BY <1>9, <3>1, <3>5 DEF InHand, Freeing
      <4>4. reg[u].pc = "free.unlock" => mem'.chain[reg[u].page] = NoChain
        BY <1>9, <3>1, <3>3 DEF InHand, Freeing
      <4> QED  BY <1>6, <1>7, <3>1, <3>2, <4>1, <4>2, <4>3, <4>4 DEF InHand, Linking, Touching
    <3>7. Walked(u)'
      <4>1. reg[u].pc \in Unlinking => mem'.links[u] = mem.links[u]
        BY <1>9, <2>3, BreakHere
      <4> QED  BY <3>1, <4>1 DEF Walked, Unlinking
    <3> QED  BY <3>6, <3>7
  <2> QED  BY <2>1, <2>2, <2>3 DEF Walks
<1>18. ASSUME NEW d \in Chains, d # t PROVE Counted(d)' = Counted(d)
  <2>1. \A s \in Pages : mem'.chain[s] = d <=> mem.chain[s] = d
    BY <1>3, <1>9, <1>18, DisjointAssumption DEF Chains
  <2> QED  BY <1>1, <1>10, <1>11, <2>1 DEF Counted
<1>19. \A d \in Chains : Steady(d)' => Steady(d) /\ d # t
  BY <1>7, <1>10, <1>11 DEF Steady, Chains, Threads, Unlinking
<1>20. Exact' /\ Bounded'
  BY <1>7, <1>18, <1>19 DEF Core, Exact, Bounded
<1> QED  BY <1>4, <1>12, <1>13, <1>14, <1>15, <1>16, <1>17, <1>20 DEF Core

\* The chain's fields are reset: the list is empty and no page points to it.
LEMMA BrkResetCore ==
    ASSUME Core, Overlap \subseteq TwoOwners, NEW t \in Threads, BrkReset(t)
    PROVE  Core' /\ fault' = fault
<1>1. reg[t].pc = "brk.reset" /\ reg[t].pc \in Unlinking
  BY DEF BrkReset, At, Unlinking
<1>2. /\ Placed(reg[t]) /\ Owned(t) /\ Walked(t) /\ reg[t].op \in Unlinkers /\ t \in Chains
      /\ t \in mem.alive /\ reg[t].chain = t /\ reg \in [Threads -> Reg] /\ mem \in Mem
      /\ \A u \in Threads : u # t /\ reg[u].pc # "idle" => reg[u].op \notin {"link", "access"}
      /\ t \in Locks
  BY <1>1, BreakHere
<1>3. mem.links[t] = {}
  BY <1>1, <1>2 DEF Walked
<1>4. /\ Release({t}) /\ fault' = fault
      /\ IF reg[t].op = "brk" THEN Finish(t) ELSE Goto(t, "brk.kfree")
      /\ mem' = IF reg[t].op = "exit" THEN mem
                ELSE [mem EXCEPT !.links[t] = {}, !.nr[t] = 0, !.rc[t] = 0]
  BY <1>2 DEF BrkReset
<1>5. mem.links = [mem.links EXCEPT ![t] = {}]
  BY <1>2, <1>3 DEF Mem
<1> DEFINE n == IF reg[t].op = "exit" THEN mem.nr ELSE [mem.nr EXCEPT ![t] = 0]
           r == IF reg[t].op = "exit" THEN mem.rc ELSE [mem.rc EXCEPT ![t] = 0]
<1>6. n \in [Chains -> Int] /\ r \in [Chains -> Int]
  BY <1>2 DEF Mem
<1>7. mem' = [mem EXCEPT !.nr = n, !.rc = r]
  BY <1>2, <1>4, <1>5 DEF Mem
<1>8. /\ \A c \in Chains : c # t => n[c] = mem.nr[c]
      /\ reg[t].op # "exit" => n[t] = 0
  BY <1>2 DEF Mem
<1> HIDE DEF n, r
<1>9. /\ mem' \in Mem /\ mem'.alive = mem.alive /\ mem'.links = mem.links
      /\ mem'.chain = mem.chain /\ mem'.ref = mem.ref /\ mem'.alloc = mem.alloc /\ mem'.nr = n
  BY <1>2, <1>6, <1>7 DEF Mem
<1>10. /\ Only(t)
       /\ reg[t].op = "brk" => reg'[t] = Idle
       /\ reg[t].op # "brk" => reg'[t].pc = "brk.kfree" /\ Keeps(t)
  BY <1>2, <1>4, FinishReg, GotoReg DEF Labels
<1>11. /\ \A u \in Threads : u # t => reg'[u] = reg[u]
       /\ Idle.pc = "idle" /\ Idle.op = "idle"
  BY <1>10 DEF Only, Idle
<1>12. Types'
  BY <1>4, <1>9, <1>10 DEF Core, Types, Only, Release
<1>13. Sequenced'
  <2>1. Placed(reg'[t]) /\ Owned(t)'
    BY <1>1, <1>2, <1>9, <1>10 DEF Placed, Owned, Keeps, Linking, Touching, Flagging, Freeing,
       Unlinking, OnPages, Unlinkers, Idle
  <2> QED  BY <1>9, <1>11, <2>1 DEF Core, Sequenced, Owned
<1>14. Paired'
  BY <1>1, <1>2, <1>10, <1>11, SameCall DEF Core, Keeps
<1>15. Locked'
  <2>1. Holds(t) = {t} /\ Holds(t)' = {}
    BY <1>1, <1>2, <1>10, <1>11 DEF Holds
  <2>2. {t} \in SUBSET Locks /\ {t} \subseteq Holds(t) /\ Holds(t)' = Holds(t) \ {t}
    BY <1>2, <2>1
  <2> QED  BY <1>4, <1>10, <2>2, GivesLocks DEF Core
<1>16. \A p : Leaving(p)' <=> Leaving(p)
  BY <1>1, <1>10, <1>11 DEF Leaving
<1>17. Member'
  BY <1>9, <1>16 DEF Core, Member
<1>18. Walks'
  <2>1. InHand(t)' /\ Walked(t)'
    BY <1>2, <1>3, <1>9, <1>10, <1>11 DEF InHand, Walked, Freeing, Unlinkers, Keeps, Idle
  <2>2. ASSUME NEW u \in Threads, u # t PROVE InHand(u)' /\ Walked(u)'
    <3>1. Placed(reg[u]) /\ Owned(u) /\ InHand(u) /\ Walked(u) /\ reg'[u] = reg[u]
      BY <1>11, <2>2, Here
    <3>2. reg[u].pc # "link.count"
      BY <1>2, <2>2, <3>1 DEF Placed, Linking
    <3>3. reg[u].pc = "free.count" => reg[u].chain \in Chains /\ reg[u].chain # t
      BY <1>1, WalkHeld, FreeHere DEF Freeing
    <3> QED  BY <1>8, <1>9, <3>1, <3>2, <3>3 DEF InHand, Walked
  <2> QED  BY <2>1, <2>2 DEF Walks
<1>19. \A c \in Chains : Counted(c)' = Counted(c)
  BY <1>1, <1>9, <1>10, <1>11 DEF Counted
<1>20. Counted(t) = {}
  <2>1. ASSUME NEW p \in Pages, mem.chain[p] = t PROVE FALSE
    <3>1. t # NoChain
      BY <1>2, DisjointAssumption DEF Chains
    <3>2. PICK u \in Threads : reg[u].pc = "free.count" /\ reg[u].page = p
      BY <1>3, <2>1, <3>1 DEF Core, Member, Leaving
    <3>3. reg[u].chain = t
      BY <2>1, <3>2, Here DEF InHand
    <3> QED  BY <1>1, <3>2, <3>3, WalkHeld
  <2> QED  BY <2>1 DEF Counted
<1>21. Exact'
  <2>1. \A c \in Chains : c # t /\ Steady(c)' => Steady(c)
    BY <1>9, <1>11 DEF Steady, Chains, Threads
  <2>2. Steady(t)' => reg[t].op # "exit"
    BY <1>10 DEF Steady, Unlinking
  <2>3. Cardinality({}) = 0
    BY FS_EmptySet
  <2> QED  BY <1>8, <1>9, <1>19, <1>20, <2>1, <2>2, <2>3 DEF Core, Exact
<1>22. Bounded'
  <2>1. 0 \in 0 .. Cardinality(Pages)
    BY DisjointAssumption, FS_CardinalityType
  <2>2. reg[t].op = "exit" => n[t] = mem.nr[t]
    BY DEF n
  <2> QED  BY <1>8, <1>9, <2>1, <2>2 DEF Core, Bounded
<1> QED  BY <1>4, <1>12, <1>13, <1>14, <1>15, <1>17, <1>18, <1>21, <1>22 DEF Core

\* The chain is freed: no page and no thread is left with a pointer to it.
LEMMA KfreeCore ==
    ASSUME Core, Overlap \subseteq TwoOwners, NEW t \in Threads, Kfree(t)
    PROVE  Core' /\ fault' = fault
<1>1. reg[t].pc = "brk.kfree" /\ reg[t].pc \in Unlinking
  BY DEF Kfree, At, Unlinking
<1>2. /\ Placed(reg[t]) /\ Owned(t) /\ Walked(t) /\ reg[t].op \in Unlinkers \ {"brk"}
      /\ t \in Chains /\ t \in mem.alive /\ reg[t].chain = t /\ reg \in [Threads -> Reg]
      /\ mem \in Mem /\ mem.links[t] = {}
      /\ \A u \in Threads : u # t /\ reg[u].pc # "idle" => reg[u].op \notin {"link", "access"}
  BY <1>1, BreakHere DEF Walked, Placed
<1>3. \A u \in Threads : u # t => reg[u].pc \notin Freeing
  <2>1. reg[t].op # "link" /\ reg[t].pc # "idle"
    BY <1>1, <1>2 DEF Unlinkers
  <2>2. ASSUME NEW u \in Threads, u # t, reg[u].pc \in Freeing PROVE FALSE
    <3>1. reg[u].op = "free" /\ reg[u].pc # "idle"
      BY <2>2, FreeHere DEF Freeing
    <3> QED  BY <1>2, <2>1, <2>2, <3>1, Apart DEF Core, Unlinkers
  <2> QED  BY <2>2
<1>4. /\ lock' = lock /\ fault' = fault /\ Finish(t)
      /\ mem' = [mem EXCEPT !.alive = @ \ {t}]
  BY <1>2 DEF Kfree
<1>5. /\ mem' \in Mem /\ mem'.alive = mem.alive \ {t} /\ mem'.links = mem.links
      /\ mem'.chain = mem.chain /\ mem'.ref = mem.ref /\ mem'.alloc = mem.alloc
      /\ mem'.nr = mem.nr
  BY <1>2, <1>4 DEF Mem
<1>6. Only(t) /\ reg'[t] = Idle
  BY <1>2, <1>4, FinishReg
<1>7. /\ \A u \in Threads : u # t => reg'[u] = reg[u]
      /\ Idle.pc = "idle" /\ Idle.op = "idle"
  BY <1>6 DEF Only, Idle
<1>8. Types'
  BY <1>4, <1>5, <1>6 DEF Core, Types, Only
<1>9. Sequenced'
  <2>1. Placed(reg'[t]) /\ Owned(t)'
    BY <1>6, <1>7 DEF Placed, Owned, Linking, Touching, Flagging, Freeing, Unlinking, OnPages,
       Unlinkers, Idle
  <2> QED  BY <1>5, <1>7, <2>1 DEF Core, Sequenced, Owned
<1>10. Paired'
  BY <1>1, <1>6, <1>7, SameCall DEF Core
<1>11. Locked'
  <2>1. Holds(t)' = Holds(t)
    BY <1>1, <1>6, <1>7 DEF Holds
  <2> QED  BY <1>4, <1>6, <2>1, NoLock DEF Core
<1>12. \A p \in Pages : mem.chain[p] # t
  <2>1. \A p \in Pages : ~Leaving(p)
    BY <1>1, <1>3 DEF Leaving, Freeing
  <2> QED  BY <1>2, <2>1, DisjointAssumption DEF Core, Member, Chains
<1>13. Member'
  <2>1. \A p : Leaving(p)' <=> Leaving(p)
    BY <1>1, <1>6, <1>7 DEF Leaving
  <2> QED  BY <1>5, <1>12, <2>1 DEF Core, Member
<1>14. Walks'
  <2>1. InHand(t)' /\ Walked(t)'
    BY <1>6, <1>7 DEF InHand, Walked, Freeing, Idle
  <2>2. ASSUME NEW u \in Threads, u # t PROVE InHand(u)' /\ Walked(u)'
    <3>1. Placed(reg[u]) /\ InHand(u) /\ Walked(u) /\ reg'[u] = reg[u]
      BY <1>7, <2>2, Here
    <3>2. reg[u].pc \notin Freeing \cup Touching \cup {"link.count"}
      BY <1>2, <1>3, <2>2, <3>1 DEF Placed, Linking, Touching
    <3> QED  BY <1>5, <3>1, <3>2 DEF InHand, Walked, Touching, Freeing
  <2> QED  BY <2>1, <2>2 DEF Walks
<1>15. Exact' /\ Bounded'
  <2>1. \A c \in Chains : Counted(c)' = Counted(c)
    BY <1>1, <1>5, <1>6, <1>7 DEF Counted
  <2>2. \A c \in Chains : Steady(c)' => Steady(c)
    BY <1>5, <1>7 DEF Steady, Chains, Threads
  <2> QED  BY <1>5, <2>1, <2>2 DEF Core, Exact, Bounded
<1> QED  BY <1>4, <1>8, <1>9, <1>10, <1>11, <1>13, <1>14, <1>15 DEF Core

-----------------------------------------------------------------------------
(* Operations begin *)

\* The locals of a thread that begins an operation
LEMMA BeginReg ==
    ASSUME reg \in [Threads -> Reg], NEW t \in Threads, NEW op \in Operations,
           NEW p \in Pages \cup {NoPage}, NEW label \in Labels, NEW then \in Labels \cup {"idle"},
           Begin(t, op, p, label, then)
    PROVE  /\ Only(t) /\ reg[t] = Idle
           /\ reg'[t].op = op /\ reg'[t].pc = label /\ reg'[t].then = then /\ reg'[t].page = p
           /\ reg'[t].chain = IF t \in Tasks THEN t ELSE NoChain
<1> DEFINE r == [Idle EXCEPT !.op = op, !.pc = label, !.then = then, !.page = p,
                             !.chain = IF t \in Tasks THEN t ELSE NoChain]
<1>1. /\ r.op = op /\ r.pc = label /\ r.then = then /\ r.page = p
      /\ r.chain = IF t \in Tasks THEN t ELSE NoChain
  BY DEF Idle
<1>2. r \in Reg
  BY IdleReg DEF Reg, Chains
<1>3. reg' = [reg EXCEPT ![t] = r] /\ reg[t] = Idle
  BY DEF Begin
<1> HIDE DEF r
<1>4. Only(t) /\ reg'[t] = r
  BY <1>2, <1>3, OneReg
<1> QED  BY <1>1, <1>3, <1>4

\* An operation that may begin now keeps the invariant.
LEMMA BeginCore ==
    ASSUME Core, Overlap \subseteq TwoOwners, NEW t \in Threads, NEW op \in Operations,
           NEW p \in Pages \cup {NoPage}, NEW label \in Labels, NEW then \in Labels \cup {"idle"},
           Begin(t, op, p, label, then),
           \/ label = "link.lock" /\ op = "link" /\ then = "idle" /\ t \in Tasks
           \/ label = "brk.lock" /\ op \in Unlinkers /\ then = "idle" /\ t \in Tasks
           \/ label = "touch.test" /\ op = "access" /\ then = "idle"
           \/ label = "clear.bit" /\ op = "scan" /\ then \in {"idle", "set.bit"}
           \/ label = "free.read" /\ op = "free" /\ then = "idle",
           op \in Unlinkers \cup {"link"} => t \in mem.alive,
           op \in OnPages => p \in mem.alloc,
           op \in Holders => ~Held(p),
           mem' = IF op = "free" THEN [mem EXCEPT !.ref = @ \ {p}] ELSE mem
    PROVE  Core' /\ fault' = fault
<1>1. /\ reg \in [Threads -> Reg] /\ mem \in Mem
      /\ Idle.pc = "idle" /\ Idle.op = "idle"
  BY DEF Core, Types, Idle
<1>2. /\ Only(t) /\ reg[t] = Idle
      /\ reg'[t].op = op /\ reg'[t].pc = label /\ reg'[t].then = then /\ reg'[t].page = p
      /\ reg'[t].chain = IF t \in Tasks THEN t ELSE NoChain
  BY <1>1, BeginReg
<1>3. /\ mem' \in Mem /\ mem'.alive = mem.alive /\ mem'.links = mem.links
      /\ mem'.chain = mem.chain /\ mem'.alloc = mem.alloc /\ mem'.nr = mem.nr
      /\ mem'.ref = IF op = "free" THEN mem.ref \ {p} ELSE mem.ref
  BY <1>1 DEF Mem
<1>4. lock' = lock /\ fault' = fault /\ Compatible(t, op)
  BY DEF Begin
<1>5. \A u \in Threads : u # t => reg'[u] = reg[u]
  BY <1>2 DEF Only
<1>6. Types'
  BY <1>2, <1>3, <1>4 DEF Core, Types, Only
<1>7. Placed(reg'[t])
  BY <1>2 DEF Placed, Linking, Touching, Flagging, Freeing, Unlinking
<1>8. Owned(t)' /\ InHand(t)' /\ Walked(t)'
  BY <1>2, <1>3 DEF Owned, InHand, Walked, Linking, Touching, Flagging, Freeing, Unlinking, OnPages,
     Unlinkers
<1>9. Paired'
  <2>1. ASSUME NEW u \in Threads, u # t, reg[u].pc # "idle"
        PROVE  /\ {op, reg[u].op} \in Overlap
               /\ op \in Holders /\ reg[u].op \in Holders => p # reg[u].page
    BY <1>4, <2>1 DEF Compatible, Held, Holders
  <2>2. ASSUME NEW u \in Threads, NEW v \in Threads, u # v,
               reg'[u].pc # "idle", reg'[v].pc # "idle"
        PROVE  /\ {reg'[u].op, reg'[v].op} \in Overlap
               /\ reg'[u].op \in Holders /\ reg'[v].op \in Holders => reg'[u].page # reg'[v].page
    <3>1. CASE u = t
      BY <1>2, <1>5, <2>1, <2>2, <3>1
    <3>2. CASE v = t
      <4>1. {op, reg[u].op} = {reg[u].op, op}
        OBVIOUS
      <4> QED  BY <1>2, <1>5, <2>1, <2>2, <3>2, <4>1
    <3>3. CASE u # t /\ v # t
      BY <1>5, <2>2, <3>3 DEF Core, Paired
    <3> QED  BY <3>1, <3>2, <3>3
  <2> QED  BY <2>2 DEF Paired
<1>10. Locked'
  <2>1. Holds(t) = {}
    BY <1>1, <1>2 DEF Holds
  <2>2. Holds(t)' = {}
    BY <1>2 DEF Holds
  <2> QED  BY <1>2, <1>4, <2>1, <2>2, NoLock DEF Core
<1>11. Calm(t)
  BY <1>1, <1>2, <1>3 DEF Calm, Unlinking
<1> QED  BY <1>4, <1>6, <1>7, <1>8, <1>9, <1>10, <1>11, CalmCore

\* The operations on a page begin.
LEMMA BeginsCore ==
    ASSUME Core, Overlap \subseteq TwoOwners, NEW t \in Threads, NEW p \in Pages
    PROVE  /\ t \in Tasks /\ BeginLink(t, p) => Core' /\ fault' = fault
           /\ BeginAccess(t, p) => Core' /\ fault' = fault
           /\ \A again \in BOOLEAN : BeginScan(t, p, again) => Core' /\ fault' = fault
           /\ BeginFree(t, p) => Core' /\ fault' = fault
<1>1. ASSUME t \in Tasks, BeginLink(t, p) PROVE Core' /\ fault' = fault
  <2>1. /\ Begin(t, "link", p, "link.lock", "idle") /\ mem' = mem /\ t \in mem.alive
        /\ p \in mem.alloc
    BY <1>1 DEF BeginLink
  <2>2. "link" \in Operations /\ "link.lock" \in Labels /\ "link" \notin Holders
    BY DEF Operations, Labels, Holders
  <2> QED  BY <1>1, <2>1, <2>2, BeginCore
<1>2. ASSUME BeginAccess(t, p) PROVE Core' /\ fault' = fault
  <2>1. /\ Begin(t, "access", p, "touch.test", "idle") /\ mem' = mem /\ ~Held(p)
        /\ p \in mem.alloc
    BY <1>2 DEF BeginAccess
  <2>2. "access" \in Operations /\ "touch.test" \in Labels /\ "access" \notin Unlinkers
    BY DEF Operations, Labels, Unlinkers
  <2> QED  BY <2>1, <2>2, BeginCore
<1>3. ASSUME NEW again \in BOOLEAN, BeginScan(t, p, again) PROVE Core' /\ fault' = fault
  <2>1. PICK then \in {"idle", "set.bit"} : Begin(t, "scan", p, "clear.bit", then)
    BY <1>3 DEF BeginScan
  <2>2. mem' = mem /\ ~Held(p) /\ p \in mem.alloc
    BY <1>3 DEF BeginScan
  <2>3. /\ "scan" \in Operations /\ "clear.bit" \in Labels /\ "scan" \notin Unlinkers
        /\ then \in Labels \cup {"idle"}
    BY DEF Operations, Labels, Unlinkers
  <2> QED  BY <2>1, <2>2, <2>3, BeginCore
<1>4. ASSUME BeginFree(t, p) PROVE Core' /\ fault' = fault
  <2>1. /\ Begin(t, "free", p, "free.read", "idle") /\ mem' = [mem EXCEPT !.ref = @ \ {p}]
        /\ ~Held(p) /\ p \in mem.alloc
    BY <1>4 DEF BeginFree
  <2>2. "free" \in Operations /\ "free.read" \in Labels /\ "free" \notin Unlinkers
    BY DEF Operations, Labels, Unlinkers
  <2> QED  BY <2>1, <2>2, BeginCore
<1> QED  BY <1>1, <1>2, <1>3, <1>4

\* A break, a release or an exit begins.
LEMMA BeginUnlinkCore ==
    ASSUME Core, Overlap \subseteq TwoOwners, NEW t \in Tasks, NEW op \in Unlinkers,
           BeginUnlink(t, op)
    PROVE  Core' /\ fault' = fault
<1>1. Begin(t, op, NoPage, "brk.lock", "idle") /\ mem' = mem /\ t \in mem.alive
  BY DEF BeginUnlink
<1>2. /\ op \in Operations /\ "brk.lock" \in Labels /\ op \notin Holders \cup OnPages
      /\ t \in Threads /\ op # "free"
  BY DEF Operations, Labels, Holders, OnPages, Unlinkers, Threads
<1> QED  BY <1>1, <1>2, BeginCore

\* The chains and the pages whose locks are held
LEMMA HeldLocks ==
    ASSUME Core, Overlap \subseteq TwoOwners, NEW t \in Threads, NEW l \in Holds(t)
    PROVE  l \in mem.alive \/ l \in mem.alloc
<1>1. /\ Placed(reg[t]) /\ Owned(t) /\ Walked(t) /\ mem \in Mem
  BY Here
<1>2. CASE reg[t].pc \in {"link.add", "link.break", "link.count", "link.unlock"}
  BY <1>1, <1>2 DEF Holds, Placed, Owned, Linking, OnPages
<1>3. CASE reg[t].pc \in {"free.lock2", "free.unlink", "free.count", "free.unlock"}
  BY <1>3, FreeHere DEF Holds, Freeing
<1>4. CASE reg[t].pc \in {"brk.next", "brk.page", "brk.reset", "brk.del"}
  <2>1. /\ reg[t].pc \in Unlinking /\ reg[t].chain = t /\ t \in mem.alive
    BY <1>4, BreakHere DEF Unlinking
  <2>2. reg[t].pc = "brk.del" => reg[t].page \in mem.alloc
    BY <1>1, <2>1 DEF Walked, Core, Member
  <2> QED  BY <1>4, <2>1, <2>2 DEF Holds
<1> QED  BY <1>2, <1>3, <1>4 DEF Holds

\* The lock of a chain or a page that is not in use is free.
LEMMA FreshLock ==
    ASSUME Core, Overlap \subseteq TwoOwners, NEW l \in Locks, l \notin mem.alive \cup mem.alloc,
           lock' = [lock EXCEPT ![l] = Nobody]
    PROVE  lock' = lock
<1>1. lock[l] = Nobody
  BY HeldLocks DEF Core, Types, Locked
<1> QED  BY <1>1 DEF Core, Types

\* new_mem_chain makes a chain that nothing points to.
LEMMA NewMemChainCore ==
    ASSUME Core, Overlap \subseteq TwoOwners, NEW t \in Tasks, NewMemChain(t)
    PROVE  Core' /\ fault' = fault
<1>1. /\ t \notin mem.alive /\ t \in Chains /\ t \in Threads /\ t \in Locks
      /\ mem \in Mem /\ mem.alive \subseteq Chains /\ mem.alloc \subseteq Pages
  BY DEF NewMemChain, Chains, Threads, Locks, Core, Types, Mem
<1>2. /\ reg' = reg /\ fault' = fault /\ lock' = [lock EXCEPT ![t] = Nobody]
      /\ mem' = [mem EXCEPT !.alive = @ \cup {t}, !.links[t] = {}, !.nr[t] = 0, !.rc[t] = 0]
  BY DEF NewMemChain
<1>3. lock' = lock
  <2>1. t \notin mem.alloc
    BY <1>1, DisjointAssumption DEF Threads
  <2> QED  BY <1>1, <1>2, <2>1, FreshLock
<1> DEFINE l == [mem.links EXCEPT ![t] = {}]
           n == [mem.nr EXCEPT ![t] = 0]
           r == [mem.rc EXCEPT ![t] = 0]
<1>4. mem' = [mem EXCEPT !.alive = @ \cup {t}, !.links = l, !.nr = n, !.rc = r]
  BY <1>1, <1>2 DEF Mem
<1>5. l \in [Chains -> SUBSET Pages] /\ n \in [Chains -> Int] /\ r \in [Chains -> Int]
  BY <1>1 DEF Mem
<1>6. /\ \A c \in Chains : c # t => l[c] = mem.links[c] /\ n[c] = mem.nr[c]
      /\ l[t] = {} /\ n[t] = 0
  BY <1>1 DEF Mem
<1> HIDE DEF l, n, r
<1>7. /\ mem' \in Mem /\ mem'.alive = mem.alive \cup {t} /\ mem'.links = l /\ mem'.nr = n
      /\ mem'.chain = mem.chain /\ mem'.ref = mem.ref /\ mem'.alloc = mem.alloc
  BY <1>1, <1>4, <1>5 DEF Mem
<1>8. Types'
  BY <1>2, <1>3, <1>7 DEF Core, Types
<1>9. Sequenced' /\ Paired' /\ Locked'
  BY <1>2, <1>3, <1>7 DEF Core, Sequenced, Paired, Locked, Owned, Holds
<1>10. Member'
  <2>1. \A p : Leaving(p)' <=> Leaving(p)
    BY <1>2 DEF Leaving
  <2> QED  BY <1>1, <1>6, <1>7, <2>1 DEF Core, Member
<1>11. Walks'
  <2>1. ASSUME NEW u \in Threads PROVE InHand(u)' /\ Walked(u)'
    <3>1. Placed(reg[u]) /\ Owned(u) /\ InHand(u) /\ Walked(u) /\ reg' = reg
      BY <1>2, Here
    <3>2. reg[u].pc \in Unlinking \cup {"link.count"} => u \in Chains /\ u # t
      BY <1>1, <3>1 DEF Placed, Owned, Linking, Chains
    <3>3. reg[u].pc \in Freeing \ {"free.read"} => reg[u].chain \in Chains /\ reg[u].chain # t
      BY <1>1, FreeHere
    <3>4. InHand(u)'
      BY <1>6, <1>7, <3>1, <3>2, <3>3 DEF InHand, Freeing
    <3>5. Walked(u)'
      BY <1>6, <1>7, <3>1, <3>2 DEF Walked, Unlinking
    <3> QED  BY <3>4, <3>5
  <2> QED  BY <2>1 DEF Walks
<1>12. \A c \in Chains : Counted(c)' = Counted(c)
  BY <1>2, <1>7 DEF Counted
<1>13. Counted(t) = {}
  BY <1>1, DisjointAssumption DEF Counted, Core, Member, Chains
<1>14. Exact'
  <2>1. \A c \in Chains : c # t /\ Steady(c)' => Steady(c)
    BY <1>2, <1>7 DEF Steady
  <2>2. Cardinality({}) = 0
    BY FS_EmptySet
  <2> QED  BY <1>6, <1>7, <1>12, <1>13, <2>1, <2>2 DEF Core, Exact
<1>15. Bounded'
  <2>1. 0 \in 0 .. Cardinality(Pages)
    BY DisjointAssumption, FS_CardinalityType
  <2> QED  BY <1>6, <1>7, <2>1 DEF Core, Bounded
<1> QED  BY <1>2, <1>8, <1>9, <1>10, <1>11, <1>14, <1>15 DEF Core

\* prep_new_page finds a page that no list leads through and no chain is set in.
LEMMA PrepNewPageCore ==
    ASSUME Core, Overlap \subseteq TwoOwners, NEW p \in Pages, PrepNewPage(p)
    PROVE  Core' /\ fault' = fault
<1>1. /\ p \notin mem.alloc /\ p \in Locks /\ mem \in Mem /\ mem.alive \subseteq Chains
      /\ fault = "none"
  BY DEF PrepNewPage, Locks, Core, Types, Mem
<1>2. ~Leaving(p)
  BY <1>1, FreeHere DEF Leaving, Freeing
<1>3. mem.chain[p] = NoChain /\ \A c \in mem.alive : p \notin mem.links[c]
  BY <1>1, <1>2 DEF Core, Member
<1>4. /\ reg' = reg /\ fault' = fault /\ lock' = [lock EXCEPT ![p] = Nobody]
      /\ mem' = [mem EXCEPT !.alloc = @ \cup {p}, !.chain[p] = NoChain]
  BY <1>1, <1>3 DEF PrepNewPage
<1>5. lock' = lock
  <2>1. p \notin mem.alive
    BY <1>1, DisjointAssumption DEF Chains, Threads
  <2> QED  BY <1>1, <1>4, <2>1, FreshLock
<1>6. [mem.chain EXCEPT ![p] = NoChain] = mem.chain
  BY <1>1, <1>3 DEF Mem
<1>7. mem' = [mem EXCEPT !.alloc = @ \cup {p}]
  BY <1>1, <1>4, <1>6 DEF Mem
<1>8. /\ mem' \in Mem /\ mem'.alive = mem.alive /\ mem'.links = mem.links /\ mem'.nr = mem.nr
      /\ mem'.chain = mem.chain /\ mem'.ref = mem.ref /\ mem'.alloc = mem.alloc \cup {p}
  BY <1>1, <1>7 DEF Mem
<1>9. Types'
  BY <1>4, <1>5, <1>8 DEF Core, Types
<1>10. Sequenced' /\ Paired' /\ Locked'
  BY <1>4, <1>5, <1>8 DEF Core, Sequenced, Paired, Locked, Owned, Holds
<1>11. Member'
  BY <1>4, <1>8 DEF Core, Member, Leaving
<1>12. Walks'
  BY <1>4, <1>8 DEF Core, Walks, InHand, Walked
<1>13. Exact' /\ Bounded'
  BY <1>4, <1>8 DEF Core, Exact, Bounded, Steady, Counted
<1> QED  BY <1>4, <1>9, <1>10, <1>11, <1>12, <1>13 DEF Core

\* A link that would move the page from another chain fails with the page's
\* lock held, and nothing runs after that.
LEMMA LinkBreakCore ==
    ASSUME Core, Overlap \subseteq TwoOwners, NEW t \in Threads, LinkBreak(t)
    PROVE  Core' /\ fault' = "null" /\ reg'[t].pc = "link.break"
<1>1. /\ reg[t].pc = "link.break" /\ fault' = "null" /\ UNCHANGED <<mem, lock, reg>>
  BY DEF LinkBreak, At, Fail
<1>2. Types' /\ Sequenced' /\ Paired' /\ Locked'
  BY <1>1 DEF Core, Types, Sequenced, Paired, Locked, Owned, Holds
<1>3. Member' /\ Walks'
  BY <1>1 DEF Core, Member, Leaving, Walks, InHand, Walked
<1>4. Exact' /\ Bounded'
  BY <1>1 DEF Core, Exact, Bounded, Steady, Counted
<1> QED  BY <1>1, <1>2, <1>3, <1>4 DEF Core

-----------------------------------------------------------------------------
(* The invariant *)

\* The invariant holds at first.
LEMMA InitIInv == Init => IInv
<1> SUFFICES ASSUME Init PROVE IInv
  OBVIOUS
<1>1. /\ mem.alive = {} /\ mem.links = [c \in Chains |-> {}] /\ mem.nr = [c \in Chains |-> 0]
      /\ mem.rc = [c \in Chains |-> 0] /\ mem.chain = [p \in Pages |-> NoChain]
      /\ mem.ref = {} /\ mem.alloc = {}
      /\ lock = [l \in Locks |-> Nobody] /\ fault = "none"
      /\ \A t \in Threads : reg[t] = Idle
      /\ reg = [t \in Threads |-> Idle]
  BY DEF Init
<1>2. mem \in Mem
  BY DEF Init, Mem
<1>3. Types
  BY <1>1, <1>2, IdleReg DEF Types
<1>4. Idle.pc = "idle" /\ Idle.op = "idle" /\ Idle.then = "idle"
  BY DEF Idle
<1>5. \A t \in Threads : reg[t].pc = "idle" /\ reg[t].op = "idle" /\ reg[t].then = "idle"
  BY <1>1, <1>4
<1>6. Sequenced
  <2>1. ASSUME NEW t \in Threads PROVE Placed(reg[t]) /\ Owned(t)
    BY <1>1, <1>5, <2>1 DEF Placed, Owned, Linking, Touching, Flagging, Freeing, Unlinking,
       Unlinkers, OnPages
  <2> QED  BY <2>1 DEF Sequenced
<1>7. Paired
  BY <1>5 DEF Paired
<1>8. Locked
  <2>1. \A t \in Threads : Holds(t) = {}
    BY <1>5 DEF Holds
  <2> QED  BY <1>1, <2>1, DisjointAssumption DEF Locked
<1>9. Member
  BY <1>1 DEF Member
<1>10. Walks
  BY <1>5 DEF Walks, InHand, Walked, Freeing
<1>11. Exact /\ Bounded
  <2>1. 0 \in 0 .. Cardinality(Pages)
    BY DisjointAssumption, FS_CardinalityType
  <2> QED  BY <1>1, <2>1 DEF Exact, Bounded, Steady
<1> QED  BY <1>1, <1>3, <1>6, <1>7, <1>8, <1>9, <1>10, <1>11 DEF IInv, Core, FaultsOnlyByTransfer

\* Each step of an operation keeps it.
LEMMA StepIInv ==
    ASSUME IInv, Overlap \subseteq TwoOwners, NEW t \in Threads, Step(t)
    PROVE  IInv'
<1> USE DEF IInv
<1>1. fault = "none"
  BY DEF Step, LinkLock, LinkAdd, LinkBreak, LinkCount, LinkUnlock, TouchTest, TouchSet,
     TouchDelegate, TouchFlags, SetBit, SetCount, ClearBit, ClearCount, FreeRead, FreeLock1,
     FreeLock2, FreeUnlink, FreeCount, FreeUnlock, BrkLock, BrkNext, BrkPage, BrkDel, BrkReset,
     Kfree, At
<1>2. CASE LinkBreak(t)
  BY <1>2, LinkBreakCore DEF FaultsOnlyByTransfer
<1>3. ASSUME Core', fault' = fault PROVE IInv'
  BY <1>1, <1>3 DEF FaultsOnlyByTransfer
<1>4. CASE LinkLock(t) \/ LinkAdd(t) \/ LinkCount(t) \/ LinkUnlock(t)
  BY <1>3, <1>4, LinkLockCore, LinkAddCore, LinkCountCore, LinkUnlockCore
<1>5. CASE TouchTest(t) \/ TouchSet(t) \/ TouchDelegate(t)
  BY <1>3, <1>5, TouchTestCore, TouchSetCore, TouchDelegateCore
<1>6. CASE \E candidate \in BOOLEAN : TouchFlags(t, candidate)
  BY <1>3, <1>6, TouchFlagsCore
<1>7. CASE SetBit(t) \/ SetCount(t) \/ ClearBit(t) \/ ClearCount(t)
  BY <1>3, <1>7, SetBitCore, ClearBitCore, CountCore
<1>8. CASE FreeRead(t) \/ FreeLock1(t) \/ FreeLock2(t)
  BY <1>3, <1>8, FreeReadCore, FreeLock1Core, FreeLock2Core
<1>9. CASE FreeUnlink(t) \/ FreeCount(t) \/ FreeUnlock(t)
  BY <1>3, <1>9, FreeUnlinkCore, FreeCountCore, FreeUnlockCore
<1>10. CASE BrkLock(t) \/ BrkNext(t) \/ BrkPage(t)
  BY <1>3, <1>10, BrkLockCore, BrkNextCore, BrkPageCore
<1>11. CASE BrkDel(t) \/ BrkReset(t) \/ Kfree(t)
  BY <1>3, <1>11, BrkDelCore, BrkResetCore, KfreeCore
<1> QED  BY <1>2, <1>4, <1>5, <1>6, <1>7, <1>8, <1>9, <1>10, <1>11 DEF Step

\* Each beginning of an operation keeps it.
LEMMA BeginIInv ==
    ASSUME IInv, Overlap \subseteq TwoOwners, BeginNext
    PROVE  IInv'
<1> USE DEF IInv
<1>1. fault = "none"
  BY DEF BeginNext, NewMemChain, BeginLink, BeginAccess, BeginUnlink, BeginScan, BeginFree,
     PrepNewPage, Begin
<1>2. ASSUME Core', fault' = fault PROVE IInv'
  BY <1>1, <1>2 DEF FaultsOnlyByTransfer
<1>3. ASSUME NEW t \in Tasks, NewMemChain(t) PROVE IInv'
  BY <1>2, <1>3, NewMemChainCore
<1>4. ASSUME NEW t \in Tasks, NEW p \in Pages, BeginLink(t, p) \/ BeginAccess(t, p) PROVE IInv'
  BY <1>2, <1>4, BeginsCore DEF Threads
<1>5. ASSUME NEW t \in Tasks, NEW op \in Unlinkers, BeginUnlink(t, op) PROVE IInv'
  BY <1>2, <1>5, BeginUnlinkCore
<1>6. ASSUME NEW w \in Workers, NEW p \in Pages,
             \/ BeginAccess(w, p) \/ BeginFree(w, p)
             \/ \E again \in BOOLEAN : BeginScan(w, p, again)
      PROVE  IInv'
  BY <1>2, <1>6, BeginsCore DEF Threads
<1>7. ASSUME NEW p \in Pages, PrepNewPage(p) PROVE IInv'
  BY <1>2, <1>7, PrepNewPageCore
<1> QED  BY <1>3, <1>4, <1>5, <1>6, <1>7 DEF BeginNext

\* It speaks of the variables alone.
LEMMA StutterIInv ==
    ASSUME IInv, UNCHANGED vars
    PROVE  IInv'
<1>1. mem' = mem /\ lock' = lock /\ reg' = reg /\ fault' = fault
  BY DEF vars
<1>2. Types' /\ Sequenced' /\ Paired' /\ Locked'
  BY <1>1 DEF IInv, Core, Types, Sequenced, Paired, Locked, Owned, Holds
<1>3. Member' /\ Walks'
  BY <1>1 DEF IInv, Core, Member, Leaving, Walks, InHand, Walked
<1>4. Exact' /\ Bounded'
  BY <1>1 DEF IInv, Core, Exact, Bounded, Steady, Counted
<1> QED  BY <1>1, <1>2, <1>3, <1>4 DEF IInv, Core, FaultsOnlyByTransfer

\* An invariant: what each thread relies on between its steps holds whatever the
\* threads beside it do (mm_types.h:107-110).
THEOREM ChainsInvariant ==
    ASSUME Overlap \subseteq TwoOwners
    PROVE  Spec => []IInv
<1>1. IInv /\ [Next]_vars => IInv'
  BY StepIInv, BeginIInv, StutterIInv DEF Next
<1> QED  BY <1>1, InitIInv, PTL DEF Spec

\* An invariant, mm_types.h:107: whichever of the operations that the locks are
\* for interleave, no thread follows a chain pointer that is NULL or freed, and
\* no list operation meets a node that is not on the list, except that a link
\* that takes a page off another task's chain unlocks through the pointer it has
\* just cleared (mchain.c:165-167).
THEOREM NoWildPointer ==
    ASSUME Overlap \subseteq TwoOwners
    PROVE  Spec => []FaultsOnlyByTransfer
<1>1. IInv => FaultsOnlyByTransfer
  BY DEF IInv
<1> QED  BY <1>1, ChainsInvariant, PTL

\* A page's lock is waited for, and by whom it is held.
LEMMA PageHolder ==
    ASSUME Core, Overlap \subseteq TwoOwners, NEW p \in Pages, NEW u \in Threads, lock[p] = u
    PROVE  reg[u].pc = "link.break" \/ Wants(u) = {}
<1>1. p \in Holds(u)
  BY DEF Core, Locked, Locks
<1>2. CASE reg[u].pc \in {"free.lock2", "brk.next", "brk.page", "brk.reset"}
  <2>1. p = reg[u].chain
    BY <1>1, <1>2 DEF Holds
  <2>2. reg[u].chain \in Chains
    BY <1>2, FreeHere, BreakHere DEF Freeing, Unlinking
  <2> QED  BY <2>1, <2>2, DisjointAssumption DEF Chains, Threads
<1>3. CASE reg[u].pc \notin {"free.lock2", "brk.next", "brk.page", "brk.reset"}
  BY <1>1, <1>3 DEF Holds, Wants
<1> QED  BY <1>2, <1>3

\* A chain's lock is held by a free or by a walk over the whole chain.
LEMMA ChainHolder ==
    ASSUME Core, Overlap \subseteq TwoOwners, NEW c \in Chains, NEW u \in Threads, lock[c] = u
    PROVE  /\ reg[u].op \in Unlinkers \cup {"free"} /\ reg[u].pc # "idle"
           /\ reg[u].pc \in {"free.lock2", "brk.page"} \/ Wants(u) = {}
<1>1. c \in Holds(u) /\ c \notin Pages /\ Placed(reg[u]) /\ Owned(u)
  BY Here, DisjointAssumption DEF Core, Locked, Locks, Chains, Threads
<1>2. CASE reg[u].pc \in {"link.add", "link.break", "link.count", "link.unlock"}
  <2>1. reg[u].page \in Pages
    BY <1>1, <1>2, Here DEF Placed, Linking, OnPages
  <2> QED  BY <1>1, <1>2, <2>1 DEF Holds
<1>3. CASE reg[u].pc \in Freeing
  <2>1. reg[u].op = "free" /\ reg[u].pc # "idle" /\ reg[u].pc # "free.lock1"
    BY <1>1, <1>3 DEF Placed, Holds, Freeing
  <2> QED  BY <1>3, <2>1 DEF Wants, Freeing
<1>4. CASE reg[u].pc \in Unlinking
  <2>1. reg[u].op \in Unlinkers /\ reg[u].pc # "idle" /\ reg[u].pc # "brk.lock"
    BY <1>1, <1>4 DEF Placed, Holds, Unlinking
  <2> QED  BY <1>4, <2>1 DEF Wants, Unlinking
<1> QED  BY <1>1, <1>2, <1>3, <1>4 DEF Holds, Freeing, Unlinking

\* Free, break, release and exit all lock the chain before the page
\* (page_alloc.c:667, mchain.c:577 and 538, exit.c:911); a link alone holds a
\* page and then asks for a chain, and it excludes those four.
LEMMA NoCircle ==
    ASSUME Core, Overlap \subseteq TwoOwners
    PROVE  NoWaitCycle
<1> SUFFICES ASSUME NEW S \in (SUBSET Threads) \ {{}},
                    \A t \in S : \E l \in Wants(t) : lock[l] \in S
             PROVE  FALSE
  BY DEF NoWaitCycle
<1>1. \A t \in S : Wants(t) # {}
  OBVIOUS
<1>2. ASSUME NEW t \in S, reg[t].pc = "link.break" PROVE FALSE
  <2>1. PICK c \in Chains : lock[c] \in S
    BY <1>2 DEF Wants
  <2>2. /\ reg[t].op = "link" /\ reg[t].pc # "idle" /\ t \in Threads
    BY <1>2, Here DEF Placed, Linking
  <2>3. /\ lock[c] \in Threads /\ reg[lock[c]].op \in Unlinkers \cup {"free"}
        /\ reg[lock[c]].pc # "idle"
    BY <2>1, ChainHolder
  <2>4. lock[c] # t
    BY <2>2, <2>3 DEF Unlinkers
  <2> QED  BY <2>2, <2>3, <2>4, Apart DEF Core
<1>3. ASSUME NEW t \in S, NEW p \in Pages, p \in Wants(t), lock[p] \in S PROVE FALSE
  BY <1>1, <1>2, <1>3, PageHolder
<1>4. ASSUME NEW t \in S, reg[t].pc \in {"free.lock2", "brk.page"} PROVE FALSE
  <2>1. reg[t].page \in Pages /\ Wants(t) = {reg[t].page}
    <3>1. CASE reg[t].pc = "free.lock2"
      BY <3>1, FreeHere DEF Freeing, Wants, FreeOrder
    <3>2. CASE reg[t].pc = "brk.page"
      BY <3>2, Here, BreakHere DEF Unlinking, Wants, Walked, Mem
    <3> QED  BY <1>4, <3>1, <3>2
  <2> QED  BY <1>3, <2>1
<1>5. ASSUME NEW t \in S, NEW c \in Chains, c \in Wants(t), lock[c] \in S PROVE FALSE
  BY <1>1, <1>4, <1>5, ChainHolder
<1>6. ASSUME NEW t \in S, NEW l \in Wants(t) PROVE l \in Locks
  <2>1. Placed(reg[t]) /\ t \in Threads
    BY Here
  <2>2. CASE reg[t].pc \in {"link.lock", "set.count", "clear.count"}
    BY <1>6, <2>1, <2>2, Here DEF Wants, Placed, Linking, Flagging, OnPages
  <2>3. CASE reg[t].pc \in {"free.lock1", "free.lock2"}
    BY <1>6, <2>3, FreeHere DEF Wants, FreeOrder, Freeing, Locks
  <2>4. CASE reg[t].pc \in {"brk.lock", "brk.page"}
    BY <1>6, <2>4, BreakHere DEF Wants, Unlinking, Walked, Mem, Locks
  <2>5. CASE reg[t].pc = "link.break"
    BY <1>6, <2>5 DEF Wants, Locks
  <2> QED  BY <1>6, <2>2, <2>3, <2>4, <2>5 DEF Wants
<1>7. PICK t \in S : TRUE
  OBVIOUS
<1>8. PICK l \in Wants(t) : lock[l] \in S
  OBVIOUS
<1> QED  BY <1>3, <1>5, <1>6, <1>8 DEF Locks

\* An invariant: threads never wait for each other's locks in a circle, however
\* many of them there are. A free, a break, a release and an exit lock the chain
\* before the page (page_alloc.c:667, mchain.c:577 and 538, exit.c:911); a link
\* locks the page first (mchain.c:165), and none of those overlaps with it here.
THEOREM NoThreadsInACircle ==
    ASSUME Overlap \subseteq TwoOwners
    PROVE  Spec => []NoWaitCycle
<1>1. IInv => NoWaitCycle
  BY NoCircle DEF IInv
<1> QED  BY <1>1, ChainsInvariant, PTL

\* With no operation in progress it is what a reader expects of the chains.
LEMMA RestIsConsistent ==
    ASSUME IInv
    PROVE  ConsistentAtRest
<1>1. Core /\ mem \in Mem /\ mem.alive \subseteq Chains
  BY DEF IInv, Core, Types, Mem
<1>2. TypeOK
  <2>1. mem.nr \in [Chains -> 0 .. Cardinality(Pages)]
    BY <1>1 DEF Mem, Core, Bounded
  <2> QED  BY <1>1, <2>1 DEF TypeOK, Core, Types, Mem, Reg
<1>3. ASSUME AtRest, NEW c \in mem.alive
      PROVE  /\ mem.links[c] = {p \in Pages : mem.chain[p] = c}
             /\ mem.nr[c] = Cardinality(mem.links[c])
             /\ mem.links[c] \subseteq mem.alloc
  <2>1. c \in Chains /\ c \in Threads /\ reg[c].pc = "idle" /\ c # NoChain
    BY <1>1, <1>3, DisjointAssumption DEF AtRest, Chains, Threads
  <2>2. \A p : ~Leaving(p)
    BY <1>3 DEF AtRest, Leaving
  <2>3. mem.links[c] = {p \in Pages : mem.chain[p] = c}
    BY <1>1, <2>1, <2>2 DEF Core, Member, Mem
  <2>4. Counted(c) = mem.links[c]
    BY <1>3, <2>3 DEF AtRest, Counted
  <2>5. Steady(c)
    BY <2>1 DEF Steady, Unlinking
  <2> QED  BY <1>1, <2>1, <2>3, <2>4, <2>5 DEF Core, Exact, Member
<1>4. AtRest => \A p \in Pages : mem.chain[p] # NoChain => mem.chain[p] \in mem.alive
  BY <1>1 DEF Core, Member
<1>5. MembershipAtRest
  BY <1>3, <1>4 DEF MembershipAtRest, NrLinksAtRest
<1>6. FreedIsUnlinked
  BY <1>3 DEF FreedIsUnlinked
<1> QED  BY <1>2, <1>5, <1>6 DEF ConsistentAtRest, IInv

\* An invariant: whenever no operation is in progress the lists, nr_links and
\* the chain pointers agree, no pointer is left to a freed chain, and no free
\* page is on a chain (mchain.c:137 and 183; page_alloc.c:664).
THEOREM ConsistentWhenAtRest ==
    ASSUME Overlap \subseteq TwoOwners
    PROVE  Spec => []ConsistentAtRest
<1>1. IInv => ConsistentAtRest
  BY RestIsConsistent
<1> QED  BY <1>1, ChainsInvariant, PTL

-----------------------------------------------------------------------------
(* The reference counter, while only the safe pairs overlap *)

\* What is proved of the pairs with two owners is proved of the safe ones.
LEMMA SafeIsWeaker == Overlap \subseteq Safe => Overlap \subseteq TwoOwners
  BY DEF TwoOwners

\* A link runs alone, and a page's flag macros run one at a time.
LEMMA OneFlagger ==
    ASSUME Core, Overlap \subseteq Safe, NEW t \in Threads, NEW u \in Threads, t # u,
           reg[t].pc # "idle", reg[u].pc # "idle"
    PROVE  /\ reg[t].op # "link" /\ reg[u].op # "link"
           /\ reg[t].pc \in Flagging /\ reg[u].pc \in Flagging => reg[t].page # reg[u].page
<1>1. {reg[t].op, reg[u].op} \in Safe
  BY DEF Core, Paired
<1>2. reg[t].op # "link" /\ reg[u].op # "link"
  BY <1>1 DEF Safe
<1>3. Placed(reg[t]) /\ Placed(reg[u])
  BY Here
<1> QED  BY <1>2, <1>3 DEF Core, Paired, Placed, Holders

\* A counter owes no more than nr_links counts.
LEMMA OwedFinite ==
    ASSUME NEW c \in Chains
    PROVE  /\ Owed(c) \subseteq Counted(c) /\ IsFiniteSet(Owed(c)) /\ Cardinality(Owed(c)) \in Nat
           /\ IsFiniteSet(Counted(c)) /\ Cardinality(Counted(c)) \in Nat
           /\ Cardinality(Owed(c)) <= Cardinality(Counted(c))
<1>1. Owed(c) \subseteq Counted(c) /\ Counted(c) \subseteq Pages
  BY DEF Owed, Counted
<1> QED  BY <1>1, DisjointAssumption, FS_Subset, FS_CardinalityType

\* A step of t that adds nothing to what the counters owe
Quiet(t) ==
    /\ Only(t)
    /\ reg[t].pc \notin {"set.count", "clear.count", "link.count"}
    /\ reg'[t].pc \notin {"set.count", "clear.count"}
    /\ mem'.ref \subseteq mem.ref
    /\ \A p \in Pages : \/ mem'.chain[p] \in {mem.chain[p], NoChain}
                        \/ reg'[t].pc = "link.count" /\ reg'[t].page = p
    /\ \A c \in Chains : Steady(c)' => Steady(c) /\ mem'.rc[c] >= mem.rc[c]

\* After a step that adds nothing the counters still cover what they owe.
LEMMA QuietRefs ==
    ASSUME RInv, NEW t \in Threads, Quiet(t), mem \in Mem, mem' \in Mem
    PROVE  Covers' /\ Cleared'
<1>1. \A u \in Threads : u # t => reg'[u] = reg[u]
  BY DEF Quiet, Only
<1>2. \A p : (SetPending(p)' <=> SetPending(p)) /\ (ClearPending(p)' <=> ClearPending(p))
  BY <1>1 DEF Quiet, SetPending, ClearPending
<1>3. ASSUME NEW c \in Chains, NEW q \in Owed(c)' PROVE q \in Owed(c)
  <2>1. /\ q \in Pages /\ mem'.chain[q] = c /\ c # NoChain
        /\ ~\E u \in Threads : reg'[u].pc = "link.count" /\ reg'[u].page = q
        /\ (q \in mem'.ref /\ ~SetPending(q)') \/ ClearPending(q)'
    BY <1>3, DisjointAssumption DEF Owed, Counted, Chains
  <2>2. mem.chain[q] = c
    BY <2>1 DEF Quiet
  <2>3. q \in Counted(c)
    BY <1>1, <2>1, <2>2 DEF Counted, Quiet
  <2>4. (q \in mem.ref /\ ~SetPending(q)) \/ ClearPending(q)
    BY <1>2, <2>1 DEF Quiet
  <2> QED  BY <2>3, <2>4 DEF Owed
<1>4. ASSUME NEW c \in Chains, Steady(c)' PROVE mem'.rc[c] >= Cardinality(Owed(c)')
  <2>1. Steady(c) /\ mem'.rc[c] >= mem.rc[c] /\ mem.rc[c] >= Cardinality(Owed(c))
    BY <1>4 DEF Quiet, RInv, Covers
  <2>2. /\ Cardinality(Owed(c)') <= Cardinality(Owed(c)) /\ Cardinality(Owed(c)) \in Nat
        /\ Cardinality(Owed(c)') \in Nat
    <3>1. Owed(c)' \subseteq Owed(c)
      BY <1>3
    <3> QED  BY <3>1, OwedFinite, FS_Subset, FS_CardinalityType
  <2>3. mem.rc[c] \in Int /\ mem'.rc[c] \in Int
    BY DEF Mem
  <2> QED  BY <2>1, <2>2, <2>3
<1>5. Cleared'
  BY <1>1 DEF Cleared, RInv, Quiet
<1> QED  BY <1>4, <1>5 DEF Covers

\* A step that leaves the counters and the chain pointers alone
LEMMA StillRefs ==
    ASSUME RInv, NEW t \in Threads, Only(t), mem \in Mem, mem' \in Mem,
           mem'.chain = mem.chain, mem'.rc = mem.rc, mem'.ref \subseteq mem.ref,
           mem'.alive \subseteq mem.alive,
           reg[t].pc \notin {"set.count", "clear.count", "link.count"},
           reg'[t].pc \notin {"set.count", "clear.count"},
           \/ reg'[t].pc \in Unlinking \ {"brk.lock"}
           \/ reg[t].pc \notin Unlinking \ {"brk.lock"}
           \/ reg[t].pc = "brk.kfree" /\ reg[t].chain = t /\ t \notin mem'.alive
    PROVE  Covers' /\ Cleared'
<1>1. \A u \in Threads : u # t => reg'[u] = reg[u]
  BY DEF Only
<1>2. ASSUME NEW c \in Chains, Steady(c)' PROVE Steady(c) /\ mem'.rc[c] >= mem.rc[c]
  <2>1. Steady(c)
    BY <1>1, <1>2 DEF Steady, Chains, Threads
  <2>2. mem'.rc[c] = mem.rc[c] /\ mem.rc[c] \in Int
    BY DEF Mem
  <2> QED  BY <2>1, <2>2
<1>3. Quiet(t)
  BY <1>2 DEF Quiet
<1> QED  BY <1>3, QuietRefs

\* A jump adds nothing.
LEMMA GotoRefs ==
    ASSUME RInv, NEW t \in Threads, NEW pc \in Labels, Goto(t, pc), mem' = mem,
           reg[t].pc \notin {"set.count", "clear.count", "link.count"},
           pc \notin {"set.count", "clear.count"},
           pc \in Unlinking \ {"brk.lock"} \/ reg[t].pc \notin Unlinking \ {"brk.lock"}
    PROVE  Covers' /\ Cleared'
<1>1. reg \in [Threads -> Reg] /\ mem \in Mem
  BY DEF RInv, IInv, Core, Types
<1>2. Only(t) /\ reg'[t].pc = pc
  BY <1>1, GotoReg
<1> QED  BY <1>1, <1>2, StillRefs

\* A link adds nothing before it counts.
LEMMA WalkRefs ==
    ASSUME RInv, Overlap \subseteq Safe, NEW t \in Threads,
           \/ LinkLock(t) \/ LinkAdd(t) \/ LinkUnlock(t) \/ LinkBreak(t)
    PROVE  Covers' /\ Cleared'
<1>1. Core /\ mem \in Mem /\ reg \in [Threads -> Reg]
  BY DEF RInv, IInv, Core, Types
<1>2. CASE LinkLock(t)
  BY <1>2, GotoRefs DEF LinkLock, At, Labels, Unlinking
<1>3. CASE LinkUnlock(t)
  BY <1>3, GotoRefs DEF LinkUnlock, At, Labels, Unlinking
<1>4. CASE LinkBreak(t)
  <2>1. reg' = reg /\ mem' = mem
    BY <1>4 DEF LinkBreak, Fail
  <2> QED  BY <2>1 DEF RInv, Covers, Cleared, Steady, Owed, Counted, SetPending, ClearPending
<1>5. CASE LinkAdd(t)
  <2>1. /\ reg[t].pc = "link.add" /\ reg[t].chain = t /\ reg[t].page \in Pages /\ t \in Chains
    BY <1>1, <1>5, Here DEF LinkAdd, At, Placed, Owned, Linking, OnPages, Chains
  <2>2. CASE mem' = mem /\ (Goto(t, "link.unlock") \/ Goto(t, "link.break"))
    BY <2>1, <2>2, GotoRefs DEF Labels, Unlinking
  <2>3. CASE /\ mem' = [mem EXCEPT !.chain[reg[t].page] = t, !.links[t] = @ \cup {reg[t].page}]
             /\ reg' = [reg EXCEPT ![t].pc = "link.count", ![t].n = mem.nr[t]]
    <3>1. Only(t) /\ reg'[t].pc = "link.count" /\ reg'[t].page = reg[t].page
      <4>1. "link.count" \in Labels /\ mem.nr[t] \in Int /\ reg \in [Threads -> Reg]
        BY <1>1, <2>1 DEF Labels, Mem
      <4>2. reg' = [reg EXCEPT ![t].pc = "link.count", ![t].n = mem.nr[t]]
        BY <2>3
      <4> QED  BY <4>1, <4>2, CountReg
    <3>2. mem' \in Mem
      BY <1>1, <2>1, <2>3 DEF Mem
    <3>3. /\ mem'.alive = mem.alive /\ mem'.rc = mem.rc /\ mem'.ref = mem.ref
          /\ mem'.chain = [mem.chain EXCEPT ![reg[t].page] = t]
      BY <1>1, <2>3 DEF Mem
    <3>4. \A u \in Threads : u # t => reg'[u] = reg[u]
      BY <3>1 DEF Only
    <3>5. ASSUME NEW c \in Chains, Steady(c)' PROVE Steady(c) /\ mem'.rc[c] >= mem.rc[c]
      <4>1. Steady(c)
        BY <2>1, <3>3, <3>4, <3>5 DEF Steady, Unlinking, Chains, Threads
      <4>2. mem.rc[c] \in Int
        BY <1>1 DEF Mem
      <4> QED  BY <3>3, <4>1, <4>2
    <3>6. \A p \in Pages : p # reg[t].page => mem'.chain[p] = mem.chain[p]
      BY <1>1, <3>3 DEF Mem
    <3>7. Quiet(t)
      BY <2>1, <3>1, <3>3, <3>5, <3>6 DEF Quiet
    <3> QED  BY <1>1, <3>2, <3>7, QuietRefs
  <2> QED  BY <1>5, <2>1, <2>2, <2>3 DEF LinkAdd
<1> QED  BY <1>2, <1>3, <1>4, <1>5

\* A free adds nothing: BeginFree has cleared the flag.
LEMMA FreeRefs ==
    ASSUME RInv, Overlap \subseteq Safe, NEW t \in Threads,
           \/ FreeRead(t) \/ FreeLock1(t) \/ FreeLock2(t)
           \/ FreeUnlink(t) \/ FreeCount(t) \/ FreeUnlock(t)
    PROVE  Covers' /\ Cleared'
<1>1. Core /\ mem \in Mem /\ reg \in [Threads -> Reg] /\ Overlap \subseteq TwoOwners
  BY SafeIsWeaker DEF RInv, IInv, Core, Types
<1>2. /\ reg[t].pc \in Freeing /\ reg[t].page \in Pages /\ InHand(t) /\ reg[t].page \notin mem.ref
      /\ Idle.pc = "idle"
  <2>1. reg[t].pc \in Freeing
    BY DEF FreeRead, FreeLock1, FreeLock2, FreeUnlink, FreeCount, FreeUnlock, At, Freeing
  <2> QED  BY <1>1, <2>1, FreeHere DEF Idle
<1>3. /\ reg[t].pc \notin {"set.count", "clear.count", "link.count"} \cup Unlinking
      /\ {"free.lock1", "free.lock2", "free.unlink", "free.unlock", "free.count"} \subseteq
            Labels \ {"set.count", "clear.count"}
  BY <1>2 DEF Freeing, Unlinking, Labels
<1>4. CASE FreeRead(t)
  <2>1. CASE mem.chain[reg[t].page] = NoChain
    <3>1. mem' = [mem EXCEPT !.alloc = @ \ {reg[t].page}] /\ Finish(t)
      BY <1>4, <2>1 DEF FreeRead
    <3>2. Only(t) /\ reg'[t].pc = "idle"
      BY <1>1, <1>2, <3>1, FinishReg
    <3>3. /\ mem' \in Mem /\ mem'.chain = mem.chain /\ mem'.rc = mem.rc /\ mem'.ref = mem.ref
          /\ mem'.alive = mem.alive
      BY <1>1, <3>1 DEF Mem
    <3> QED  BY <1>1, <1>3, <3>2, <3>3, StillRefs
  <2>2. CASE mem.chain[reg[t].page] # NoChain
    <3>1. /\ mem' = mem
          /\ reg' = [reg EXCEPT ![t].pc = "free.lock1", ![t].chain = mem.chain[reg[t].page]]
      BY <1>1, <1>4, <2>2 DEF FreeRead
    <3>2. mem.chain[reg[t].page] \in Chains \cup {NoChain} /\ "free.lock1" \in Labels
      BY <1>1, <1>2 DEF Mem, Labels
    <3>3. Only(t) /\ reg'[t].pc = "free.lock1"
      BY <1>1, <3>1, <3>2, ChainReg
    <3> QED  BY <1>1, <1>3, <3>1, <3>3, StillRefs
  <2> QED  BY <2>1, <2>2
<1>5. CASE FreeLock1(t)
  <2>1. Goto(t, "free.lock2") /\ mem' = mem
    BY <1>1, <1>2, <1>5, FreeHere DEF FreeLock1, At
  <2> QED  BY <1>3, <2>1, GotoRefs
<1>6. CASE FreeLock2(t)
  BY <1>3, <1>6, GotoRefs DEF FreeLock2
<1>7. CASE FreeUnlock(t)
  <2>1. mem' = [mem EXCEPT !.alloc = @ \ {reg[t].page}] /\ Finish(t)
    BY <1>1, <1>2, <1>7, FreeHere DEF FreeUnlock, At
  <2>2. Only(t) /\ reg'[t].pc = "idle"
    BY <1>1, <1>2, <2>1, FinishReg
  <2>3. /\ mem' \in Mem /\ mem'.chain = mem.chain /\ mem'.rc = mem.rc /\ mem'.ref = mem.ref
        /\ mem'.alive = mem.alive
    BY <1>1, <2>1 DEF Mem
  <2> QED  BY <1>1, <1>3, <2>2, <2>3, StillRefs
<1>8. CASE FreeUnlink(t)
  <2>1. CASE mem.chain[reg[t].page] = NoChain
    BY <1>3, <1>8, <2>1, GotoRefs DEF FreeUnlink
  <2>2. CASE mem.chain[reg[t].page] # NoChain
    <3> PICK c \in Chains : c = mem.chain[reg[t].page]
      BY <1>1, <1>2, <2>2 DEF Mem
    <3>1. c \in mem.alive /\ (reg[t].page \in mem.links[c] \/ Leaving(reg[t].page))
      BY <1>1, <1>2, <2>2 DEF Core, Member
    <3>2. ~Leaving(reg[t].page)
      <4>1. ASSUME NEW u \in Threads, reg[u].pc = "free.count", reg[u].page = reg[t].page
            PROVE  FALSE
        <5>1. u # t
          BY <1>8, <4>1 DEF FreeUnlink, At
        <5>2. reg[u].op = "free" /\ reg[t].op = "free" /\ reg[t].pc # "idle"
          BY <1>1, <1>2, <4>1, FreeHere DEF Freeing
        <5> QED  BY <1>1, <4>1, <5>1, <5>2 DEF Core, Paired, Holders
      <4> QED  BY <4>1 DEF Leaving
    <3>3. /\ mem' = [mem EXCEPT !.links[c] = @ \ {reg[t].page}]
          /\ reg' = [reg EXCEPT ![t].pc = "free.count", ![t].n = mem.nr[c]]
      BY <1>8, <2>2, <3>1, <3>2 DEF FreeUnlink
    <3>4. mem.nr[c] \in Int /\ "free.count" \in Labels
      BY <1>1 DEF Mem, Labels
    <3>5. Only(t) /\ reg'[t].pc = "free.count"
      BY <1>1, <3>3, <3>4, CountReg
    <3>6. /\ mem' \in Mem /\ mem'.chain = mem.chain /\ mem'.rc = mem.rc /\ mem'.ref = mem.ref
          /\ mem'.alive = mem.alive
      BY <1>1, <3>3 DEF Mem
    <3> QED  BY <1>1, <1>3, <3>5, <3>6, StillRefs
  <2> QED  BY <2>1, <2>2
<1>9. CASE FreeCount(t)
  <2> PICK p \in Pages : p = reg[t].page
    BY <1>2
  <2>1. reg[t].pc = "free.count" /\ mem.chain[p] \in mem.alive
    BY <1>2, <1>9 DEF FreeCount, At, InHand, Freeing
  <2> PICK c \in Chains : c = mem.chain[p]
    BY <1>1, <2>1 DEF Mem
  <2>2. /\ mem' = [mem EXCEPT !.nr[c] = reg[t].n - 1, !.rc[c] = @, !.chain[p] = NoChain]
        /\ Goto(t, "free.unlock")
    BY <1>2, <1>9, <2>1 DEF FreeCount
  <2>3. Only(t) /\ reg'[t].pc = "free.unlock"
    BY <1>1, <2>2, GotoReg DEF Labels
  <2> DEFINE n == [mem.nr EXCEPT ![c] = reg[t].n - 1]
             h == [mem.chain EXCEPT ![p] = NoChain]
  <2>4. mem' = [mem EXCEPT !.nr = n, !.chain = h]
    BY <1>1, <2>2 DEF Mem
  <2>5. n \in [Chains -> Int] /\ h \in [Pages -> Chains \cup {NoChain}]
    BY <1>1 DEF Mem, Reg
  <2>6. \A q \in Pages : h[q] \in {mem.chain[q], NoChain}
    BY <1>1 DEF Mem
  <2> HIDE DEF n, h
  <2>7. /\ mem' \in Mem /\ mem'.chain = h /\ mem'.rc = mem.rc /\ mem'.ref = mem.ref
        /\ mem'.alive = mem.alive
    BY <1>1, <2>4, <2>5 DEF Mem
  <2>8. \A d \in Chains : Steady(d)' => Steady(d) /\ mem'.rc[d] >= mem.rc[d]
    <3>1. \A d \in Chains : Steady(d)' => Steady(d)
      BY <1>3, <2>3, <2>7 DEF Only, Steady, Chains, Threads
    <3> QED  BY <1>1, <2>7, <3>1 DEF Mem
  <2>9. Quiet(t)
    BY <1>3, <2>3, <2>6, <2>7, <2>8 DEF Quiet
  <2> QED  BY <1>1, <2>7, <2>9, QuietRefs
<1> QED  BY <1>4, <1>5, <1>6, <1>7, <1>8, <1>9

\* A walk that takes a chain apart adds nothing to the others.
LEMMA BreakRefs ==
    ASSUME RInv, Overlap \subseteq Safe, NEW t \in Threads,
           BrkLock(t) \/ BrkNext(t) \/ BrkPage(t) \/ BrkDel(t) \/ Kfree(t)
    PROVE  Covers' /\ Cleared'
<1>1. Core /\ mem \in Mem /\ reg \in [Threads -> Reg] /\ Overlap \subseteq TwoOwners
  BY SafeIsWeaker DEF RInv, IInv, Core, Types
<1>2. /\ reg[t].pc \in Unlinking /\ reg[t].chain = t /\ t \in Chains /\ Walked(t)
      /\ t \in mem.alive /\ Idle.pc = "idle"
  <2>1. reg[t].pc \in Unlinking
    BY DEF BrkLock, BrkNext, BrkPage, BrkDel, Kfree, At, Unlinking
  <2> QED  BY <1>1, <2>1, BreakHere DEF Idle
<1>3. /\ reg[t].pc \notin {"set.count", "clear.count", "link.count"}
      /\ {"brk.next", "brk.page", "brk.del", "brk.reset"} \subseteq
            (Labels \cap (Unlinking \ {"brk.lock"})) \ {"set.count", "clear.count"}
  BY <1>2 DEF Unlinking, Labels
<1>4. mem.links[t] \subseteq Pages /\ NoPage \notin mem.links[t]
  BY <1>1, <1>2, DisjointAssumption DEF Mem
<1>5. CASE BrkLock(t)
  <2>1. PICK x \in Elem(mem.links[t]) : reg' = [reg EXCEPT ![t].pc = "brk.next", ![t].page = x]
    BY <1>2, <1>5 DEF BrkLock
  <2>2. x \in Pages \cup {NoPage} /\ mem' = mem /\ "brk.next" \in Labels
    BY <1>3, <1>4, <1>5 DEF Elem, BrkLock
  <2>3. Only(t) /\ reg'[t].pc = "brk.next"
    BY <1>1, <2>1, <2>2, PageReg
  <2> QED  BY <1>1, <1>3, <2>2, <2>3, StillRefs
<1>6. CASE BrkNext(t)
  <2>1. IF reg[t].page = NoPage THEN mem.links[t] = {} ELSE reg[t].page \in mem.links[t]
    BY <1>2, <1>6 DEF BrkNext, At, Walked
  <2>2. CASE reg[t].page = NoPage
    BY <1>3, <1>6, <2>2, GotoRefs DEF BrkNext
  <2>3. CASE reg[t].page # NoPage
    <3>1. PICK x \in Elem(mem.links[t] \ {reg[t].page}) :
             reg' = [reg EXCEPT ![t].pc = "brk.page", ![t].next = x]
      BY <1>2, <1>6, <2>1, <2>3 DEF BrkNext
    <3>2. x \in Pages \cup {NoPage} /\ mem' = mem /\ "brk.page" \in Labels
      BY <1>2, <1>3, <1>4, <1>6, <2>1, <2>3 DEF Elem, BrkNext
    <3>3. Only(t) /\ reg'[t].pc = "brk.page"
      BY <1>1, <3>1, <3>2, NextReg
    <3> QED  BY <1>1, <1>3, <3>2, <3>3, StillRefs
  <2> QED  BY <2>2, <2>3
<1>7. CASE BrkPage(t)
  BY <1>3, <1>7, GotoRefs DEF BrkPage
<1>8. CASE Kfree(t)
  <2>1. /\ reg[t].pc = "brk.kfree" /\ Finish(t) /\ mem' = [mem EXCEPT !.alive = @ \ {t}]
    BY <1>2, <1>8 DEF Kfree, At
  <2>2. Only(t) /\ reg'[t].pc = "idle"
    BY <1>1, <1>2, <2>1, FinishReg
  <2>3. /\ mem' \in Mem /\ mem'.chain = mem.chain /\ mem'.rc = mem.rc /\ mem'.ref = mem.ref
        /\ mem'.alive = mem.alive \ {t}
    BY <1>1, <2>1 DEF Mem
  <2> QED  BY <1>1, <1>2, <1>3, <2>1, <2>2, <2>3, StillRefs
<1>9. CASE BrkDel(t)
  <2>1. /\ reg[t].pc = "brk.del" /\ reg[t].page \in mem.links[t]
        /\ mem.chain[reg[t].page] = t /\ t # NoChain
    <3>1. reg[t].pc = "brk.del" /\ reg[t].page \in mem.links[t]
      BY <1>2, <1>9 DEF BrkDel, At, Walked
    <3> QED  BY <1>1, <1>2, <3>1, DisjointAssumption DEF Core, Member, Chains
  <2>2. mem' = Detached(t) /\ reg' = [reg EXCEPT ![t].pc = "brk.next", ![t].page = reg[t].next]
    BY <1>2, <1>9, <2>1 DEF BrkDel
  <2>3. Only(t) /\ reg'[t].pc = "brk.next"
    <3>1. ASSUME NEW x \in Pages \cup {NoPage},
                 reg' = [reg EXCEPT ![t].pc = "brk.next", ![t].page = x]
          PROVE  Only(t) /\ reg'[t].pc = "brk.next"
      BY <1>1, <1>3, <3>1, PageReg
    <3>2. reg[t].next \in Pages \cup {NoPage}
      BY <1>1 DEF Reg
    <3> QED  BY <2>2, <3>1, <3>2
  <2> PICK p \in Pages : p = reg[t].page
    BY <1>4, <2>1
  <2> DEFINE clear == reg[t].op # "exit" /\ p \in mem.ref
             f == IF clear THEN mem.ref \ {p} ELSE mem.ref
             r == [d \in Chains |-> mem.rc[d] - IF clear /\ d = t THEN 1 ELSE 0]
             l == [mem.links EXCEPT ![t] = @ \ {p}]
             h == [mem.chain EXCEPT ![p] = NoChain]
  <2>4. mem' = [mem EXCEPT !.links = l, !.chain = h, !.ref = f, !.rc = r]
    BY <1>1, <1>2, <2>1, <2>2 DEF Detached, Mem
  <2>5. /\ l \in [Chains -> SUBSET Pages] /\ h \in [Pages -> Chains \cup {NoChain}]
        /\ r \in [Chains -> Int] /\ f \subseteq mem.ref /\ f \in SUBSET Pages
    <3>1. l \in [Chains -> SUBSET Pages] /\ h \in [Pages -> Chains \cup {NoChain}]
      BY <1>1 DEF Mem
    <3>2. r \in [Chains -> Int] /\ f \subseteq mem.ref /\ f \in SUBSET Pages
      BY <1>1 DEF Mem
    <3> QED  BY <3>1, <3>2
  <2>6. \A q \in Pages : h[q] \in {mem.chain[q], NoChain}
    BY <1>1 DEF Mem
  <2>10. ASSUME NEW d \in Chains, d # t PROVE r[d] = mem.rc[d]
    <3>1. mem.rc[d] \in Int
      BY <1>1 DEF Mem
    <3> QED  BY <2>10, <3>1
  <2> HIDE DEF clear, f, r, l, h
  <2>7. /\ mem' \in Mem /\ mem'.chain = h /\ mem'.rc = r /\ mem'.ref = f
        /\ mem'.alive = mem.alive
    BY <1>1, <2>4, <2>5 DEF Mem
  <2>8. \A d \in Chains : Steady(d)' => Steady(d) /\ mem'.rc[d] >= mem.rc[d]
    <3>1. \A d \in Chains : Steady(d)' => Steady(d) /\ d # t
      BY <1>3, <2>3, <2>7 DEF Only, Steady, Chains, Threads
    <3>2. \A d \in Chains : mem.rc[d] \in Int
      BY <1>1 DEF Mem
    <3> QED  BY <2>7, <2>10, <3>1, <3>2
  <2>9. Quiet(t)
    BY <1>3, <2>3, <2>5, <2>6, <2>7, <2>8 DEF Quiet
  <2> QED  BY <1>1, <2>7, <2>9, QuietRefs
<1> QED  BY <1>5, <1>6, <1>7, <1>8, <1>9

\* A chain that counts no page owes nothing.
LEMMA OwesNothing ==
    ASSUME NEW c \in Chains, Counted(c) = {}
    PROVE  Cardinality(Owed(c)) = 0
<1>1. Owed(c) = {}
  BY DEF Owed
<1> QED  BY <1>1, FS_EmptySet

\* The reset of a chain that counts no page
LEMMA BrkResetRefs ==
    ASSUME RInv, Overlap \subseteq Safe, NEW t \in Threads, BrkReset(t)
    PROVE  Covers' /\ Cleared'
<1>1. Core /\ mem \in Mem /\ reg \in [Threads -> Reg] /\ Overlap \subseteq TwoOwners
  BY SafeIsWeaker DEF RInv, IInv, Core, Types
<1>2. /\ reg[t].pc = "brk.reset" /\ reg[t].chain = t /\ t \in Chains /\ t \in mem.alive
      /\ mem.links[t] = {} /\ Idle.pc = "idle"
  <2>1. reg[t].pc = "brk.reset" /\ reg[t].pc \in Unlinking
    BY DEF BrkReset, At, Unlinking
  <2> QED  BY <1>1, <2>1, BreakHere DEF Idle, Walked
<1>3. /\ IF reg[t].op = "brk" THEN Finish(t) ELSE Goto(t, "brk.kfree")
      /\ mem' = IF reg[t].op = "exit" THEN mem
                ELSE [mem EXCEPT !.links[t] = {}, !.nr[t] = 0, !.rc[t] = 0]
  BY <1>2 DEF BrkReset
<1>4. /\ Only(t) /\ reg'[t].pc \in {"idle", "brk.kfree"}
      /\ reg[t].op = "exit" => reg'[t].pc = "brk.kfree"
  BY <1>1, <1>2, <1>3, FinishReg, GotoReg DEF Labels
<1>5. \A u \in Threads : u # t => reg'[u] = reg[u]
  BY <1>4 DEF Only
<1>6. CASE reg[t].op = "exit"
  <2>1. mem' = mem
    BY <1>3, <1>6
  <2> QED  BY <1>1, <1>2, <1>4, <1>6, <2>1, StillRefs DEF Unlinking
<1>7. CASE reg[t].op # "exit"
  <2> DEFINE l == [mem.links EXCEPT ![t] = {}]
             n == [mem.nr EXCEPT ![t] = 0]
             r == [mem.rc EXCEPT ![t] = 0]
  <2>1. mem' = [mem EXCEPT !.links = l, !.nr = n, !.rc = r]
    BY <1>1, <1>3, <1>7 DEF Mem
  <2>2. /\ l \in [Chains -> SUBSET Pages] /\ n \in [Chains -> Int] /\ r \in [Chains -> Int]
        /\ r[t] = 0 /\ \A d \in Chains : d # t => r[d] = mem.rc[d]
    BY <1>1, <1>2 DEF Mem
  <2> HIDE DEF l, n, r
  <2>3. /\ mem' \in Mem /\ mem'.chain = mem.chain /\ mem'.rc = r /\ mem'.ref = mem.ref
        /\ mem'.alive = mem.alive
    BY <1>1, <2>1, <2>2 DEF Mem
  <2>4. \A c \in Chains : Counted(c)' = Counted(c) /\ Owed(c)' = Owed(c)
    BY <1>2, <1>4, <1>5, <2>3 DEF Counted, Owed, SetPending, ClearPending
  <2>5. Counted(t) = {}
    <3>1. ASSUME NEW p \in Pages, mem.chain[p] = t PROVE FALSE
      <4>1. t # NoChain
        BY <1>2, DisjointAssumption DEF Chains
      <4>2. PICK u \in Threads : reg[u].pc = "free.count" /\ reg[u].page = p
        BY <1>1, <1>2, <3>1, <4>1 DEF Core, Member, Leaving
      <4>3. reg[u].chain = t
        BY <1>1, <3>1, <4>2, Here DEF InHand
      <4> QED  BY <1>1, <1>2, <4>2, <4>3, WalkHeld
    <3> QED  BY <3>1 DEF Counted
  <2>6. ASSUME NEW c \in Chains, Steady(c)' PROVE mem'.rc[c] >= Cardinality(Owed(c)')
    <3>1. CASE c = t
      BY <1>2, <2>2, <2>3, <2>4, <2>5, <3>1, OwesNothing
    <3>2. CASE c # t
      <4>1. Steady(c)
        BY <1>5, <2>3, <2>6, <3>2 DEF Steady, Chains, Threads
      <4> QED  BY <2>2, <2>3, <2>4, <3>2, <4>1 DEF RInv, Covers
    <3> QED  BY <3>1, <3>2
  <2>7. Cleared'
    BY <1>4, <1>5, <2>3 DEF RInv, Cleared
  <2> QED  BY <2>6, <2>7 DEF Covers
<1> QED  BY <1>6, <1>7

\* What the counter of a chain has to cover once a step has added page p at most
LEMMA OwesOneMore ==
    ASSUME NEW c \in Chains, NEW p, Owed(c)' \subseteq Owed(c) \cup {p}
    PROVE  /\ Cardinality(Owed(c)') <= Cardinality(Owed(c)) + 1
           /\ Owed(c)' \subseteq Owed(c) => Cardinality(Owed(c)') <= Cardinality(Owed(c))
           /\ p \in Owed(c) /\ p \notin Owed(c)' =>
                 Cardinality(Owed(c)') <= Cardinality(Owed(c)) - 1
           /\ Cardinality(Owed(c)) \in Nat /\ Cardinality(Owed(c)') \in Nat
<1> DEFINE S == Owed(c)
           T == Owed(c)'
<1>1. IsFiniteSet(S) /\ Cardinality(S) \in Nat
  BY OwedFinite
<1> HIDE DEF S, T
<1>2. T \subseteq S \cup {p}
  BY DEF S, T
<1>3. /\ IsFiniteSet(S \cup {p}) /\ Cardinality(S \cup {p}) \in Nat
      /\ Cardinality(S \cup {p}) <= Cardinality(S) + 1
  <2>1. /\ IsFiniteSet(S \cup {p})
        /\ Cardinality(S \cup {p}) = IF p \in S THEN Cardinality(S) ELSE Cardinality(S) + 1
    BY <1>1, FS_AddElement, Zenon
  <2> QED  BY ONLY <1>1, <2>1
<1>4. IsFiniteSet(T) /\ Cardinality(T) \in Nat /\ Cardinality(T) <= Cardinality(S \cup {p})
  BY <1>2, <1>3, FS_Subset, FS_CardinalityType
<1>5. T \subseteq S => Cardinality(T) <= Cardinality(S)
  BY <1>1, FS_Subset
<1>6. ASSUME p \in S, p \notin T PROVE Cardinality(T) <= Cardinality(S) - 1
  <2>1. T \subseteq S \ {p}
    BY <1>2, <1>6
  <2>2. IsFiniteSet(S \ {p}) /\ Cardinality(S \ {p}) = Cardinality(S) - 1
    BY <1>1, <1>6, FS_RemoveElement
  <2> QED  BY <2>1, <2>2, FS_Subset
<1> QED  BY <1>1, <1>3, <1>4, <1>5, <1>6 DEF S, T

\* The reads of mark_page_accessed add nothing.
LEMMA TouchRefs ==
    ASSUME RInv, Overlap \subseteq Safe, NEW t \in Threads,
           \/ TouchTest(t) \/ TouchDelegate(t)
           \/ \E candidate \in BOOLEAN : TouchFlags(t, candidate)
    PROVE  Covers' /\ Cleared'
<1>1. Core /\ mem \in Mem /\ reg \in [Threads -> Reg] /\ Overlap \subseteq TwoOwners
  BY SafeIsWeaker DEF RInv, IInv, Core, Types
<1>2. CASE TouchTest(t)
  <2>1. /\ reg[t].pc = "touch.test" /\ reg[t].page \in Pages /\ mem' = mem
        /\ mem.chain[reg[t].page] \in Chains \cup {NoChain}
    BY <1>1, <1>2, Here DEF TouchTest, At, Placed, Touching, OnPages, Mem
  <2>2. PICK l \in {"touch.flags", "touch.set"} :
           reg' = [reg EXCEPT ![t].pc = l, ![t].chain = mem.chain[reg[t].page]]
    BY <1>1, <1>2, <2>1 DEF TouchTest
  <2>3. l \in Labels
    BY <2>2 DEF Labels
  <2>4. Only(t) /\ reg'[t].pc = l
    BY <1>1, <2>1, <2>2, <2>3, ChainReg
  <2> QED  BY <1>1, <2>1, <2>2, <2>4, StillRefs DEF Unlinking
<1>3. CASE TouchDelegate(t)
  <2>1. /\ reg[t].pc = "touch.delegate" /\ mem.chain[reg[t].page] \in mem.alive
    BY <1>1, <1>3, Here DEF TouchDelegate, At, InHand
  <2>2. Goto(t, "touch.flags") /\ mem' = mem
    BY <1>3, <2>1 DEF TouchDelegate
  <2> QED  BY <2>1, <2>2, GotoRefs DEF Labels, Unlinking
<1>4. CASE \E candidate \in BOOLEAN : TouchFlags(t, candidate)
  <2>1. Only(t) /\ mem' = mem /\ reg'[t].pc \in {"clear.bit", "set.bit", "idle"}
    BY <1>1, <1>4, TouchFlagsCore
  <2>2. reg[t].pc = "touch.flags"
    BY <1>4 DEF TouchFlags, At
  <2> QED  BY <1>1, <2>1, <2>2, StillRefs DEF Unlinking
<1> QED  BY <1>2, <1>3, <1>4

\* mark_page_accessed sets ref_counter to nr_links, which is all it could owe.
LEMMA TouchSetRefs ==
    ASSUME RInv, Overlap \subseteq Safe, NEW t \in Threads, TouchSet(t)
    PROVE  Covers' /\ Cleared'
<1>1. Core /\ mem \in Mem /\ reg \in [Threads -> Reg] /\ Overlap \subseteq TwoOwners
  BY SafeIsWeaker DEF RInv, IInv, Core, Types
<1>2. reg[t].pc = "touch.set" /\ reg[t].chain \in mem.alive
  BY <1>1, Here DEF TouchSet, At, InHand
<1> PICK c \in Chains : c = reg[t].chain
  BY <1>1, <1>2 DEF Mem
<1>3. mem' = [mem EXCEPT !.rc[c] = mem.nr[c]] /\ Goto(t, "touch.delegate")
  BY <1>2 DEF TouchSet
<1>4. Only(t) /\ reg'[t].pc = "touch.delegate"
  BY <1>1, <1>3, GotoReg DEF Labels
<1>5. \A u \in Threads : u # t => reg'[u] = reg[u]
  BY <1>4 DEF Only
<1>6. /\ mem'.chain = mem.chain /\ mem'.ref = mem.ref /\ mem'.alive = mem.alive
      /\ mem'.rc = [mem.rc EXCEPT ![c] = mem.nr[c]]
  BY <1>1, <1>3 DEF Mem
<1>7. \A d \in Chains : Owed(d)' = Owed(d)
  BY <1>2, <1>4, <1>5, <1>6 DEF Counted, Owed, SetPending, ClearPending
<1>8. ASSUME NEW d \in Chains, Steady(d)' PROVE mem'.rc[d] >= Cardinality(Owed(d)')
  <2>1. Steady(d)
    BY <1>2, <1>5, <1>6, <1>8 DEF Steady, Unlinking, Chains, Threads
  <2>2. CASE d = c
    <3>1. mem'.rc[d] = Cardinality(Counted(d))
      BY <1>1, <1>6, <2>1, <2>2 DEF Mem, Core, Exact
    <3> QED  BY <1>7, <3>1, OwedFinite
  <2>3. CASE d # c
    BY <1>1, <1>6, <1>7, <2>1, <2>3 DEF Mem, RInv, Covers
  <2> QED  BY <2>2, <2>3
<1>9. Cleared'
  BY <1>4, <1>5, <1>6 DEF RInv, Cleared
<1> QED  BY <1>8, <1>9 DEF Covers

\* The increment that goes with a bit just set is still owed to the counter by
\* the thread that set it.
LEMMA SetBitRefs ==
    ASSUME RInv, Overlap \subseteq Safe, NEW t \in Threads, SetBit(t)
    PROVE  Covers' /\ Cleared'
<1>1. Core /\ mem \in Mem /\ reg \in [Threads -> Reg] /\ Overlap \subseteq TwoOwners
  BY SafeIsWeaker DEF RInv, IInv, Core, Types
<1>2. reg[t].pc = "set.bit" /\ reg[t].pc \in Flagging /\ reg[t].page \in Pages
  BY <1>1, Here DEF SetBit, At, Placed, Flagging, OnPages
<1> PICK p \in Pages : p = reg[t].page
  BY <1>2
<1>3. mem' = [mem EXCEPT !.ref = @ \cup {p}] /\ Goto(t, "set.count")
  BY DEF SetBit
<1>4. Only(t) /\ reg'[t].pc = "set.count" /\ reg'[t].page = p
  BY <1>1, <1>3, GotoReg DEF Labels, Keeps
<1>5. \A u \in Threads : u # t => reg'[u] = reg[u]
  BY <1>4 DEF Only
<1>6. /\ mem'.chain = mem.chain /\ mem'.ref = mem.ref \cup {p} /\ mem'.alive = mem.alive
      /\ mem'.rc = mem.rc
  BY <1>1, <1>3 DEF Mem
<1>7. \A q : /\ ClearPending(q)' <=> ClearPending(q)
             /\ SetPending(q) => SetPending(q)'
             /\ SetPending(p)'
  BY <1>2, <1>4, <1>5 DEF SetPending, ClearPending
<1>8. ASSUME NEW d \in Chains PROVE Owed(d)' \subseteq Owed(d)
  <2>1. Counted(d)' = Counted(d)
    BY <1>2, <1>4, <1>5, <1>6 DEF Counted
  <2> QED  BY <1>6, <1>7, <2>1 DEF Owed
<1>9. ASSUME NEW d \in Chains, Steady(d)' PROVE mem'.rc[d] >= Cardinality(Owed(d)')
  <2>1. Steady(d) /\ mem.rc[d] \in Int
    BY <1>1, <1>2, <1>5, <1>6, <1>9 DEF Steady, Unlinking, Chains, Threads, Mem
  <2> QED  BY <1>6, <1>8, <2>1, OwesOneMore DEF RInv, Covers
<1>10. ASSUME NEW u \in Threads, reg'[u].pc = "clear.count" PROVE reg'[u].page \notin mem'.ref
  <2>1. u # t /\ reg'[u] = reg[u]
    BY <1>4, <1>5, <1>10
  <2>2. reg[u].pc # "idle" /\ reg[t].pc # "idle" /\ reg[u].pc \in Flagging
    BY <1>2, <1>10, <2>1 DEF Flagging
  <2>3. reg[u].page # p
    BY <1>1, <1>2, <2>1, <2>2, OneFlagger
  <2> QED  BY <1>6, <1>10, <2>1, <2>3 DEF RInv, Cleared
<1> QED  BY <1>9, <1>10 DEF Covers, Cleared

\* The bit that was cleared is owed to the counter until it is subtracted.
LEMMA ClearBitRefs ==
    ASSUME RInv, Overlap \subseteq Safe, NEW t \in Threads, ClearBit(t)
    PROVE  Covers' /\ Cleared'
<1>1. Core /\ mem \in Mem /\ reg \in [Threads -> Reg] /\ Overlap \subseteq TwoOwners
  BY SafeIsWeaker DEF RInv, IInv, Core, Types
<1>2. reg[t].pc = "clear.bit" /\ reg[t].pc \in Flagging /\ reg[t].page \in Pages
  BY <1>1, Here DEF ClearBit, At, Placed, Flagging, OnPages
<1> DEFINE w == reg[t].page \in mem.ref
<1>3. w \in BOOLEAN /\ reg' = [reg EXCEPT ![t].pc = "clear.count", ![t].was = w]
  BY DEF ClearBit
<1>12. w = (reg[t].page \in mem.ref)
  OBVIOUS
<1> HIDE DEF w
<1>4. /\ Only(t) /\ reg'[t].pc = "clear.count" /\ reg'[t].page = reg[t].page
      /\ reg'[t].was = w
  <2>1. "clear.count" \in Labels
    BY DEF Labels
  <2> QED  BY <1>1, <1>3, <2>1, WasReg
<1>5. \A u \in Threads : u # t => reg'[u] = reg[u]
  BY <1>4 DEF Only
<1> PICK p \in Pages : p = reg[t].page
  BY <1>2
<1>6. /\ mem'.chain = mem.chain /\ mem'.ref = mem.ref \ {p} /\ mem'.alive = mem.alive
      /\ mem'.rc = mem.rc
  BY <1>1 DEF ClearBit, Mem
<1>7. ~SetPending(p)
  <2>1. ASSUME NEW u \in Threads, reg[u].pc = "set.count", reg[u].page = p PROVE FALSE
    <3>1. u # t /\ reg[u].pc # "idle" /\ reg[t].pc # "idle" /\ reg[u].pc \in Flagging
      BY <1>2, <2>1 DEF Flagging
    <3> QED  BY <1>1, <1>2, <2>1, <3>1, OneFlagger
  <2> QED  BY <2>1 DEF SetPending
<1>8. \A q : /\ SetPending(q)' <=> SetPending(q)
             /\ ClearPending(q)' => ClearPending(q) \/ (q = p /\ p \in mem.ref)
  BY <1>2, <1>4, <1>5, <1>12 DEF SetPending, ClearPending
<1>9. ASSUME NEW d \in Chains PROVE Owed(d)' \subseteq Owed(d)
  <2>1. Counted(d)' = Counted(d)
    BY <1>2, <1>4, <1>5, <1>6 DEF Counted
  <2> QED  BY <1>6, <1>7, <1>8, <2>1 DEF Owed
<1>10. ASSUME NEW d \in Chains, Steady(d)' PROVE mem'.rc[d] >= Cardinality(Owed(d)')
  <2>1. Steady(d) /\ mem.rc[d] \in Int
    BY <1>1, <1>2, <1>5, <1>6, <1>10 DEF Steady, Unlinking, Chains, Threads, Mem
  <2> QED  BY <1>6, <1>9, <2>1, OwesOneMore DEF RInv, Covers
<1>11. Cleared'
  BY <1>4, <1>5, <1>6 DEF RInv, Cleared
<1> QED  BY <1>10, <1>11 DEF Covers

\* The increment pays for the page whose bit was set.
LEMMA SetCountRefs ==
    ASSUME RInv, Overlap \subseteq Safe, NEW t \in Threads, SetCount(t)
    PROVE  Covers' /\ Cleared'
<1>1. Core /\ mem \in Mem /\ reg \in [Threads -> Reg] /\ Overlap \subseteq TwoOwners
  BY SafeIsWeaker DEF RInv, IInv, Core, Types
<1>2. /\ fault = "none" /\ reg[t].pc = "set.count" /\ UnderLinkLock(t, 1)
      /\ reg[t].page \in Pages
  BY <1>1, Here DEF SetCount, At, Placed, Flagging, OnPages
<1> PICK p \in Pages : p = reg[t].page
  BY <1>2
<1> PICK c \in Chains \cup {NoChain} : c = mem.chain[p]
  BY <1>1 DEF Mem
<1>3. /\ IF c = NoChain THEN mem' = mem ELSE mem' = [mem EXCEPT !.rc[c] = @ + 1]
      /\ Only(t) /\ reg'[t].pc \in {"idle", "set.bit", "clear.bit"}
  BY <1>1, <1>2, UnderLinkLockCore
<1>4. \A u \in Threads : u # t => reg'[u] = reg[u]
  BY <1>3 DEF Only
<1>5. /\ mem'.chain = mem.chain /\ mem'.ref = mem.ref /\ mem'.alive = mem.alive
      /\ mem'.rc = IF c = NoChain THEN mem.rc ELSE [mem.rc EXCEPT ![c] = @ + 1]
  BY <1>1, <1>3 DEF Mem
<1>6. \A d \in Chains : mem'.rc[d] = IF d = c THEN mem.rc[d] + 1 ELSE mem.rc[d]
  BY <1>1, <1>5, DisjointAssumption DEF Mem, Chains
<1>7. \A q : /\ ClearPending(q)' <=> ClearPending(q)
             /\ SetPending(q) => SetPending(q)' \/ q = p
  BY <1>2, <1>3, <1>4 DEF SetPending, ClearPending
<1>8. ASSUME NEW d \in Chains
      PROVE  Owed(d)' \subseteq Owed(d) \cup {p} /\ (d # c => Owed(d)' \subseteq Owed(d))
  <2>1. Counted(d)' = Counted(d)
    BY <1>2, <1>3, <1>4, <1>5 DEF Counted
  <2>2. d # c => p \notin Counted(d)
    BY DEF Counted
  <2> QED  BY <1>5, <1>7, <2>1, <2>2 DEF Owed
<1>9. ASSUME NEW d \in Chains, Steady(d)' PROVE mem'.rc[d] >= Cardinality(Owed(d)')
  <2>1. Steady(d) /\ mem.rc[d] \in Int
    BY <1>1, <1>2, <1>4, <1>5, <1>9 DEF Steady, Unlinking, Chains, Threads, Mem
  <2>2. mem.rc[d] >= Cardinality(Owed(d))
    BY <2>1 DEF RInv, Covers
  <2>3. CASE d = c
    BY <1>6, <1>8, <2>1, <2>2, <2>3, OwesOneMore
  <2>4. CASE d # c
    BY <1>6, <1>8, <2>1, <2>2, <2>4, OwesOneMore
  <2> QED  BY <2>3, <2>4
<1>10. Cleared'
  BY <1>3, <1>4, <1>5 DEF RInv, Cleared
<1> QED  BY <1>9, <1>10 DEF Covers

\* The decrement is for a bit that this thread has cleared, and that no other
\* thread can have set again in between.
LEMMA ClearCountRefs ==
    ASSUME RInv, Overlap \subseteq Safe, NEW t \in Threads, ClearCount(t)
    PROVE  Covers' /\ Cleared'
<1>1. Core /\ mem \in Mem /\ reg \in [Threads -> Reg] /\ Overlap \subseteq TwoOwners
  BY SafeIsWeaker DEF RInv, IInv, Core, Types
<1>2. /\ fault = "none" /\ reg[t].pc = "clear.count" /\ reg[t].pc \in Flagging
      /\ UnderLinkLock(t, IF reg[t].was THEN -1 ELSE 0) /\ reg[t].page \in Pages
  BY <1>1, Here DEF ClearCount, At, Placed, Flagging, OnPages
<1> PICK p \in Pages : p = reg[t].page
  BY <1>2
<1> PICK c \in Chains \cup {NoChain} : c = mem.chain[p]
  BY <1>1 DEF Mem
<1> PICK n \in {-1, 0} : n = IF reg[t].was THEN -1 ELSE 0
  OBVIOUS
<1>3. /\ IF c = NoChain THEN mem' = mem ELSE mem' = [mem EXCEPT !.rc[c] = @ + n]
      /\ Only(t) /\ reg'[t].pc \in {"idle", "set.bit", "clear.bit"}
  BY <1>1, <1>2, UnderLinkLockCore
<1>4. \A u \in Threads : u # t => reg'[u] = reg[u]
  BY <1>3 DEF Only
<1>5. /\ mem'.chain = mem.chain /\ mem'.ref = mem.ref /\ mem'.alive = mem.alive
      /\ mem'.rc = IF c = NoChain THEN mem.rc ELSE [mem.rc EXCEPT ![c] = @ + n]
  BY <1>1, <1>3 DEF Mem
<1>6. \A d \in Chains : mem'.rc[d] = IF d = c THEN mem.rc[d] + n ELSE mem.rc[d]
  BY <1>1, <1>5, DisjointAssumption DEF Mem, Chains
<1>7. ASSUME NEW u \in Threads, u # t, reg[u].pc # "idle"
      PROVE  reg[u].op # "link" /\ (reg[u].pc \in Flagging => reg[u].page # p)
  BY <1>1, <1>2, <1>7, OneFlagger DEF Flagging
<1>8. p \notin mem.ref /\ ~ClearPending(p)'
  <2>1. p \notin mem.ref
    BY <1>2 DEF RInv, Cleared
  <2>2. \A u \in Threads : reg'[u].pc = "clear.count" => reg'[u].page # p
    BY <1>3, <1>4, <1>7 DEF Flagging
  <2> QED  BY <2>1, <2>2 DEF ClearPending
<1>9. \A q : /\ ClearPending(q)' => ClearPending(q)
             /\ SetPending(q)' <=> SetPending(q)
  BY <1>2, <1>3, <1>4 DEF SetPending, ClearPending
<1>10. ASSUME NEW d \in Chains
       PROVE  /\ Owed(d)' \subseteq Owed(d) /\ p \notin Owed(d)'
              /\ d = c /\ reg[t].was => p \in Owed(d)
  <2>1. Counted(d)' = Counted(d)
    BY <1>2, <1>3, <1>4, <1>5 DEF Counted
  <2>2. Owed(d)' \subseteq Owed(d) /\ p \notin Owed(d)'
    BY <1>5, <1>8, <1>9, <2>1 DEF Owed
  <2>3. ASSUME d = c, reg[t].was PROVE p \in Owed(d)
    <3>1. \A u \in Threads : reg[u].pc = "link.count" => reg[u].page # p
      <4>1. ASSUME NEW u \in Threads, reg[u].pc = "link.count" PROVE FALSE
        <5>1. u # t /\ reg[u].pc # "idle" /\ reg[u].op = "link"
          BY <1>1, <1>2, <4>1, Here DEF Placed, Linking
        <5> QED  BY <1>7, <5>1
      <4> QED  BY <4>1
    <3>2. p \in Counted(d)
      BY <2>3, <3>1 DEF Counted
    <3>3. ClearPending(p)
      BY <1>2, <2>3 DEF ClearPending
    <3> QED  BY <3>2, <3>3 DEF Owed
  <2> QED  BY <2>2, <2>3
<1>11. ASSUME NEW d \in Chains, Steady(d)' PROVE mem'.rc[d] >= Cardinality(Owed(d)')
  <2>1. Steady(d) /\ mem.rc[d] \in Int
    BY <1>1, <1>2, <1>4, <1>5, <1>11 DEF Steady, Unlinking, Chains, Threads, Mem
  <2>2. mem.rc[d] >= Cardinality(Owed(d))
    BY <2>1 DEF RInv, Covers
  <2>3. CASE d = c /\ reg[t].was
    BY <1>6, <1>10, <2>1, <2>2, <2>3, OwesOneMore
  <2>4. CASE ~(d = c /\ reg[t].was)
    BY <1>6, <1>10, <2>1, <2>2, <2>4, OwesOneMore
  <2> QED  BY <2>3, <2>4
<1>12. Cleared'
  BY <1>3, <1>4, <1>5 DEF RInv, Cleared
<1> QED  BY <1>11, <1>12 DEF Covers

\* A link adds one for a referenced page, with no flag macro beside it.
LEMMA LinkCountRefs ==
    ASSUME RInv, Overlap \subseteq Safe, NEW t \in Threads, LinkCount(t)
    PROVE  Covers' /\ Cleared'
<1>1. Core /\ mem \in Mem /\ reg \in [Threads -> Reg] /\ Overlap \subseteq TwoOwners
  BY SafeIsWeaker DEF RInv, IInv, Core, Types
<1>2. /\ reg[t].pc = "link.count" /\ reg[t].page \in Pages /\ reg[t].op = "link"
      /\ reg[t].chain = t /\ t \in Chains /\ InHand(t) /\ mem.chain[reg[t].page] = t
  BY <1>1, Here DEF LinkCount, At, Placed, Owned, Linking, OnPages, InHand, Chains
<1> PICK p \in Pages : p = reg[t].page
  BY <1>2
<1>3. /\ Goto(t, "link.unlock")
      /\ mem' = [mem EXCEPT !.nr[t] = reg[t].n + 1,
                            !.rc[t] = IF p \in mem.ref THEN @ + 1 ELSE @]
  BY <1>2 DEF LinkCount
<1>4. Only(t) /\ reg'[t].pc = "link.unlock"
  BY <1>1, <1>3, GotoReg DEF Labels
<1>5. \A u \in Threads : u # t => reg'[u] = reg[u] /\ reg[u].pc = "idle"
  BY <1>1, <1>2, <1>4, OneFlagger DEF Only
<1>6. /\ mem'.chain = mem.chain /\ mem'.ref = mem.ref /\ mem'.alive = mem.alive
      /\ mem'.rc = [mem.rc EXCEPT ![t] = IF p \in mem.ref THEN @ + 1 ELSE @]
  BY <1>1, <1>3 DEF Mem
<1>7. \A d \in Chains : mem'.rc[d] = IF d = t /\ p \in mem.ref THEN mem.rc[d] + 1 ELSE mem.rc[d]
  BY <1>1, <1>6 DEF Mem
<1>8. \A q : ~ClearPending(q)' /\ ~SetPending(q)' /\ ~SetPending(q)
  BY <1>2, <1>4, <1>5 DEF SetPending, ClearPending
<1>9. ASSUME NEW d \in Chains
      PROVE  /\ Owed(d)' \subseteq Owed(d) \cup {p}
             /\ d # t \/ p \notin mem.ref => Owed(d)' \subseteq Owed(d)
  <2>1. ASSUME NEW q \in Owed(d)'
        PROVE  /\ q \in mem.ref /\ (q # p => q \in Owed(d)) /\ (q = p => d = t)
    <3>1. q \in Pages /\ mem.chain[q] = d /\ q \in mem.ref
      BY <1>6, <1>8, <2>1 DEF Owed, Counted
    <3>2. q # p => q \in Counted(d)
      BY <1>2, <1>5, <3>1 DEF Counted
    <3> QED  BY <1>2, <1>8, <3>1, <3>2 DEF Owed
  <2> QED  BY <2>1
<1>10. ASSUME NEW d \in Chains, Steady(d)' PROVE mem'.rc[d] >= Cardinality(Owed(d)')
  <2>1. Steady(d) /\ mem.rc[d] \in Int
    BY <1>1, <1>2, <1>5, <1>6, <1>10 DEF Steady, Unlinking, Chains, Threads, Mem
  <2>2. mem.rc[d] >= Cardinality(Owed(d))
    BY <2>1 DEF RInv, Covers
  <2>3. CASE d = t /\ p \in mem.ref
    BY <1>7, <1>9, <2>1, <2>2, <2>3, OwesOneMore
  <2>4. CASE ~(d = t /\ p \in mem.ref)
    BY <1>7, <1>9, <2>1, <2>2, <2>4, OwesOneMore
  <2> QED  BY <2>3, <2>4
<1>11. Cleared'
  BY <1>4, <1>5, <1>6 DEF RInv, Cleared
<1> QED  BY <1>10, <1>11 DEF Covers

\* An operation that begins owes nothing yet.
LEMMA BeginRefs ==
    ASSUME RInv, Overlap \subseteq Safe, NEW t \in Threads, NEW op \in Operations,
           NEW p \in Pages \cup {NoPage},
           NEW label \in {"link.lock", "brk.lock", "touch.test", "clear.bit", "free.read"},
           NEW then \in Labels \cup {"idle"}, Begin(t, op, p, label, then),
           mem' = IF op = "free" THEN [mem EXCEPT !.ref = @ \ {p}] ELSE mem
    PROVE  Covers' /\ Cleared'
<1>1. mem \in Mem /\ reg \in [Threads -> Reg] /\ label \in Labels
  BY DEF RInv, IInv, Core, Types, Labels
<1>2. Only(t) /\ reg[t].pc = "idle" /\ reg'[t].pc = label
  BY <1>1, BeginReg DEF Idle
<1>3. /\ mem' \in Mem /\ mem'.alive = mem.alive /\ mem'.chain = mem.chain /\ mem'.rc = mem.rc
      /\ mem'.ref \subseteq mem.ref
  BY <1>1 DEF Mem
<1> QED  BY <1>1, <1>2, <1>3, StillRefs DEF Unlinking

\* Each operation that begins
LEMMA BeginsRefs ==
    ASSUME RInv, Overlap \subseteq Safe, NEW t \in Threads,
           \/ \E p \in Pages : \/ BeginLink(t, p) \/ BeginAccess(t, p) \/ BeginFree(t, p)
                               \/ \E again \in BOOLEAN : BeginScan(t, p, again)
           \/ \E op \in Unlinkers : BeginUnlink(t, op)
    PROVE  Covers' /\ Cleared'
<1>1. {"link", "access", "scan", "free"} \cup Unlinkers \subseteq Operations
  BY DEF Operations
<1>2. {"idle", "set.bit"} \subseteq Labels \cup {"idle"}
  BY DEF Labels
<1>3. ASSUME NEW p \in Pages, BeginLink(t, p) PROVE Covers' /\ Cleared'
  BY <1>1, <1>3, BeginRefs DEF BeginLink
<1>4. ASSUME NEW p \in Pages, BeginAccess(t, p) PROVE Covers' /\ Cleared'
  BY <1>1, <1>4, BeginRefs DEF BeginAccess
<1>5. ASSUME NEW p \in Pages, BeginFree(t, p) PROVE Covers' /\ Cleared'
  BY <1>1, <1>5, BeginRefs DEF BeginFree
<1>6. ASSUME NEW p \in Pages, NEW again \in BOOLEAN, BeginScan(t, p, again)
      PROVE  Covers' /\ Cleared'
  <2>1. PICK then \in {"idle", "set.bit"} : Begin(t, "scan", p, "clear.bit", then)
    BY <1>6 DEF BeginScan
  <2>2. mem' = mem
    BY <1>6 DEF BeginScan
  <2> QED  BY <1>1, <1>2, <2>1, <2>2, BeginRefs
<1>7. ASSUME NEW op \in Unlinkers, BeginUnlink(t, op) PROVE Covers' /\ Cleared'
  <2>1. op # "free"
    BY DEF Unlinkers
  <2> QED  BY <1>1, <1>7, <2>1, BeginRefs DEF BeginUnlink
<1> QED  BY <1>3, <1>4, <1>5, <1>6, <1>7

\* A new chain's counter is zero and covers no page.
LEMMA NewMemChainRefs ==
    ASSUME RInv, NEW t \in Tasks, NewMemChain(t)
    PROVE  Covers' /\ Cleared'
<1>1. Core /\ mem \in Mem /\ reg' = reg /\ t \in Chains /\ t \notin mem.alive
  BY DEF RInv, IInv, Core, Types, NewMemChain, Chains
<1>2. mem' = [mem EXCEPT !.alive = @ \cup {t}, !.links[t] = {}, !.nr[t] = 0, !.rc[t] = 0]
  BY DEF NewMemChain
<1>3. /\ mem'.alive = mem.alive \cup {t} /\ mem'.chain = mem.chain /\ mem'.ref = mem.ref
      /\ mem'.rc = [mem.rc EXCEPT ![t] = 0]
  BY <1>1, <1>2 DEF Mem
<1>4. \A c \in Chains : Owed(c)' = Owed(c)
  BY <1>1, <1>3 DEF Owed, Counted, SetPending, ClearPending
<1>5. Counted(t) = {}
  BY <1>1, DisjointAssumption DEF Counted, Core, Member, Chains
<1>6. ASSUME NEW c \in Chains, Steady(c)' PROVE mem'.rc[c] >= Cardinality(Owed(c)')
  <2>1. CASE c = t
    <3>1. mem'.rc[c] = 0
      BY <1>1, <1>3, <2>1 DEF Mem
    <3>2. Cardinality(Owed(c)) = 0
      BY <1>5, <2>1, OwesNothing
    <3>3. 0 >= 0
      OBVIOUS
    <3> QED  BY <1>4, <3>1, <3>2, <3>3
  <2>2. CASE c # t
    <3>1. Steady(c)
      BY <1>1, <1>3, <1>6, <2>2 DEF Steady
    <3> QED  BY <1>1, <1>3, <1>4, <2>2, <3>1 DEF Mem, RInv, Covers
  <2> QED  BY <2>1, <2>2
<1>7. Cleared'
  BY <1>1, <1>3 DEF RInv, Cleared
<1> QED  BY <1>6, <1>7 DEF Covers

\* A page from the allocator is on no chain.
LEMMA PrepNewPageRefs ==
    ASSUME RInv, Overlap \subseteq Safe, NEW p \in Pages, PrepNewPage(p)
    PROVE  Covers' /\ Cleared'
<1>1. Core /\ mem \in Mem /\ reg' = reg /\ p \notin mem.alloc /\ Overlap \subseteq TwoOwners
  BY SafeIsWeaker DEF RInv, IInv, Core, Types, PrepNewPage
<1>2. ~Leaving(p)
  BY <1>1, FreeHere DEF Leaving, Freeing
<1>3. mem.chain[p] = NoChain
  BY <1>1, <1>2 DEF Core, Member
<1>4. [mem.chain EXCEPT ![p] = NoChain] = mem.chain
  BY <1>1, <1>3 DEF Mem
<1>5. mem' = [mem EXCEPT !.alloc = @ \cup {p}]
  BY <1>1, <1>4 DEF PrepNewPage, Mem
<1>6. /\ mem'.alive = mem.alive /\ mem'.chain = mem.chain /\ mem'.ref = mem.ref
      /\ mem'.rc = mem.rc
  BY <1>1, <1>5 DEF Mem
<1> QED  BY <1>1, <1>6 DEF RInv, Covers, Cleared, Steady, Owed, Counted, SetPending, ClearPending

\* Every step keeps the counters high enough.
LEMMA StepRInv ==
    ASSUME RInv, Overlap \subseteq Safe, [Next]_vars
    PROVE  RInv'
<1>1. IInv'
  BY StepIInv, BeginIInv, StutterIInv, SafeIsWeaker DEF Next, RInv
<1>2. CASE UNCHANGED vars
  BY <1>1, <1>2 DEF vars, RInv, Covers, Cleared, Steady, Owed, Counted, SetPending, ClearPending
<1>3. CASE BeginNext
  <2>1. \/ \E t \in Tasks : NewMemChain(t)
        \/ \E t \in Threads :
              \/ \E p \in Pages : \/ BeginLink(t, p) \/ BeginAccess(t, p) \/ BeginFree(t, p)
                                  \/ \E again \in BOOLEAN : BeginScan(t, p, again)
              \/ \E op \in Unlinkers : BeginUnlink(t, op)
        \/ \E p \in Pages : PrepNewPage(p)
    BY <1>3 DEF BeginNext, Threads
  <2> QED  BY <1>1, <2>1, BeginsRefs, NewMemChainRefs, PrepNewPageRefs DEF RInv
<1>4. ASSUME NEW t \in Threads, Step(t) PROVE Covers' /\ Cleared'
  <2>1. CASE LinkLock(t) \/ LinkAdd(t) \/ LinkUnlock(t) \/ LinkBreak(t)
    BY <2>1, WalkRefs
  <2>2. CASE LinkCount(t)
    BY <2>2, LinkCountRefs
  <2>3. CASE TouchTest(t) \/ TouchDelegate(t) \/ \E candidate \in BOOLEAN : TouchFlags(t, candidate)
    BY <2>3, TouchRefs
  <2>4. CASE TouchSet(t)
    BY <2>4, TouchSetRefs
  <2>5. CASE SetBit(t) \/ SetCount(t)
    BY <2>5, SetBitRefs, SetCountRefs
  <2>6. CASE ClearBit(t) \/ ClearCount(t)
    BY <2>6, ClearBitRefs, ClearCountRefs
  <2>7. CASE \/ FreeRead(t) \/ FreeLock1(t) \/ FreeLock2(t)
             \/ FreeUnlink(t) \/ FreeCount(t) \/ FreeUnlock(t)
    BY <2>7, FreeRefs
  <2>8. CASE BrkLock(t) \/ BrkNext(t) \/ BrkPage(t) \/ BrkDel(t) \/ Kfree(t)
    BY <2>8, BreakRefs
  <2>9. CASE BrkReset(t)
    BY <2>9, BrkResetRefs
  <2> QED  BY <1>4, <2>1, <2>2, <2>3, <2>4, <2>5, <2>6, <2>7, <2>8, <2>9 DEF Step
<1> QED  BY <1>1, <1>2, <1>3, <1>4 DEF Next, RInv

\* No chain exists at first.
LEMMA InitRInv == Init => RInv
<1> SUFFICES ASSUME Init PROVE RInv
  OBVIOUS
<1>1. IInv
  BY InitIInv
<1>2. Covers
  BY DEF Init, Covers, Steady
<1>3. Cleared
  BY DEF Init, Idle, Cleared
<1> QED  BY <1>1, <1>2, <1>3 DEF RInv

\* An invariant: although the referenced bit and the chain's counter are changed
\* apart (page-flags.h:506-532), a chain's ref_counter is never short of its
\* referenced pages once no operation is in progress.  For pairs that are safe:
\* a link that overlaps with a scan can lose a count.
THEOREM CounterCoversWhenAtRest ==
    ASSUME Overlap \subseteq Safe
    PROVE  Spec => []RefCounterAtRest
<1>1. ASSUME RInv PROVE RefCounterAtRest
  <2>1. ASSUME AtRest, NEW c \in mem.alive
        PROVE  mem.rc[c] >= Cardinality(mem.links[c] \cap mem.ref)
    <3>1. c \in Chains /\ c \in Threads /\ Steady(c)
      BY <1>1, <2>1 DEF RInv, IInv, Core, Types, Mem, AtRest, Steady, Unlinking, Chains, Threads
    <3>2. mem.links[c] = {p \in Pages : mem.chain[p] = c}
      BY <1>1, <2>1, RestIsConsistent DEF RInv, ConsistentAtRest, MembershipAtRest
    <3>3. Owed(c) = mem.links[c] \cap mem.ref
      BY <2>1, <3>2 DEF AtRest, Owed, Counted, SetPending, ClearPending
    <3> QED  BY <1>1, <3>1, <3>3 DEF RInv, Covers
  <2> QED  BY <2>1 DEF RefCounterAtRest
<1>2. RInv /\ [Next]_vars => RInv'
  BY StepRInv
<1> QED  BY <1>1, <1>2, InitRInv, PTL DEF Spec
=============================================================================
