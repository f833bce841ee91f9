--------------------------- MODULE ChainCollection ---------------------------
(***************************************************************************)
(* Collections of memory chains over the life of their tasks: created by a *)
(* task's first new_mem_chain, copied by fork with the rest of the         *)
(* task_struct, forgotten by the child when do_fork returns, freed by      *)
(* do_exit.                                                                *)
(*                                                                         *)
(* do_fork sets p->mcc to NULL after it has woken the child, so whether a  *)
(* child can act on its parent's collection depends on the build and on    *)
(* the kind of fork: see Preempt and Vfork.  A system call or an exit is   *)
(* one step.  The pages of the chains are left to MemoryChain.             *)
(***************************************************************************)
EXTENDS Integers, FiniteSets

CONSTANTS
    Tasks,      \* task structures; init is one of them
    init,       \* the task that exists at first and never exits
    Colls,      \* memory_chain_collection objects
    NoColl,     \* a NULL collection pointer
    NoTask,     \* no child
    Capacity,   \* slots of a collection (MAX_NUM_CHAINS, 255)
    Unroll,     \* loop bodies per iteration of the two slot loops (5)
    Preempt,    \* a woken child may run before its parent's do_fork goes on
    Vfork       \* CLONE_VFORK is used: do_fork waits for the child's exec or exit

ASSUME InitAssumption     == init \in Tasks /\ NoTask \notin Tasks
ASSUME CollsAssumption    == NoColl \notin Colls
ASSUME CapacityAssumption == Capacity \in Nat /\ Unroll \in Nat \ {0}
ASSUME BuildAssumption    == Preempt \in BOOLEAN /\ Vfork \in BOOLEAN

VARIABLES
    status,   \* per task: "dead", "new" (not scheduled yet) or "running"
    mcc,      \* per task, its collection pointer
    forking,  \* per task, the do_fork it is in: child and kind
    execed,   \* tasks whose parent's vfork may return
    live,     \* collections that are allocated
    used,     \* per collection, the occupied slots of its chain array
    count,    \* per collection, its count field
    fault     \* TRUE once a freed collection has been used

vars == <<status, mcc, forking, execed, live, used, count, fault>>

NotForking == [child |-> NoTask, vfork |-> FALSE]

Init ==
    /\ status = [t \in Tasks |-> IF t = init THEN "running" ELSE "dead"]
    /\ mcc = [t \in Tasks |-> NoColl]
    /\ forking = [t \in Tasks |-> NotForking]
    /\ execed = {}
    /\ live = {}
    /\ used = [c \in Colls |-> {}]
    /\ count = [c \in Colls |-> 0]
    /\ fault = FALSE

-----------------------------------------------------------------------------
(***************************************************************************)
(* The two unrolled loops.                                                 *)
(***************************************************************************)

\* Slots the loops look at: whole blocks of Unroll, each begun below Capacity.
Probed == {i \in 0 .. Capacity + Unroll - 1 : i - (i % Unroll) < Capacity}

LeastOf(S) == CHOOSE i \in S : \A j \in S : i <= j

\* Faulty variant: the scan starts over at the count.
FindFreeSlot_FromCount(S) ==
    LET free == {i \in Probed \ S : i >= Cardinality(S)}
    IN  IF free = {} THEN -1 ELSE LeastOf(free)

\* __find_free_slot over an array whose occupied slots are S.  A slot beyond
\* the array, which the scan would take for free, is looked at only when the
\* capacity is no multiple of Unroll.
FindFreeSlot(S) == IF Probed \subseteq S THEN -1 ELSE LeastOf(Probed \ S)

\* Faulty variant: the count is tested before the first slot of the block is
\* looked at, but with the decrement of the block before it still to come.
ExitFrees_Early(S, n) ==
    {i \in Probed \cap S :
        Cardinality({j \in S : j < i - (i % Unroll)}) < n - 1}

\* Slots whose chains do_exit frees: a block is entered while the remaining
\* count is positive, and left only at its end.
ExitFrees(S, n) ==
    {i \in Probed \cap S :
        Cardinality({j \in S : j < i - (i % Unroll)}) < n}

-----------------------------------------------------------------------------
\* The task runs user code and may enter the kernel.
InUser(t) == ~fault /\ status[t] = "running" /\ forking[t] = NotForking

\* Use of a freed collection stops the model.
Fault == fault' = TRUE /\ UNCHANGED <<status, mcc, forking, execed, live, used, count>>

Dangling(t) == mcc[t] # NoColl /\ mcc[t] \notin live

\* new_mem_chain with __init_mcc.  Nothing is allocated when the collection is
\* full.  Through a dangling pointer it, like any chain call, uses freed memory.
NewMemChain(t) ==
    /\ InUser(t)
    /\ IF Dangling(t) THEN Fault ELSE
       \E c \in Colls :
          /\ IF mcc[t] = NoColl THEN c \notin live ELSE c = mcc[t]
          /\ LET S == IF mcc[t] = NoColl THEN {} ELSE used[c]
                 n == IF mcc[t] = NoColl THEN 0 ELSE count[c]
             IN  /\ used'  = [used EXCEPT ![c] =
                                IF n < Capacity THEN S \cup {FindFreeSlot(S)} ELSE S]
                 /\ count' = [count EXCEPT ![c] = IF n < Capacity THEN n + 1 ELSE n]
          /\ live' = live \cup {c}
          /\ mcc' = [mcc EXCEPT ![t] = c]
          /\ UNCHANGED <<status, forking, execed, fault>>

RlsMemChain(t, s) ==
    /\ InUser(t)
    /\ mcc[t] \in live /\ s \in used[mcc[t]]
    /\ used' = [used EXCEPT ![mcc[t]] = @ \ {s}]
    /\ count' = [count EXCEPT ![mcc[t]] = @ - 1]
    /\ UNCHANGED <<status, mcc, forking, execed, live, fault>>

\* dup_task_struct copies the whole task_struct, mcc included, and the child
\* is woken.
Fork(t, u, vfork) ==
    /\ InUser(t)
    /\ status[u] = "dead" /\ \A v \in Tasks : forking[v].child # u
    /\ vfork => Vfork
    /\ mcc' = [mcc EXCEPT ![u] = mcc[t]]
    /\ status' = [status EXCEPT ![u] = IF Preempt \/ vfork THEN "running" ELSE "new"]
    /\ forking' = [forking EXCEPT ![t] = [child |-> u, vfork |-> vfork]]
    /\ execed' = execed \ {u}
    /\ UNCHANGED <<live, used, count, fault>>

\* Faulty variant: the child keeps the copied pointer.
EndFork_Keep(t) ==
    LET u == forking[t].child
    IN  /\ ~fault
        /\ u # NoTask
        /\ status' = [status EXCEPT ![u] = IF @ = "new" THEN "running" ELSE @]
        /\ forking' = [forking EXCEPT ![t] = NotForking]
        /\ UNCHANGED <<mcc, execed, live, used, count, fault>>

\* The last lines of do_fork: after a vfork has been waited for, p->mcc = NULL.
EndFork(t) ==
    LET u == forking[t].child
    IN  /\ ~fault
        /\ u # NoTask
        /\ forking[t].vfork => u \in execed \/ status[u] = "dead"
        /\ mcc' = [mcc EXCEPT ![u] = NoColl]
        /\ status' = [status EXCEPT ![u] = IF @ = "new" THEN "running" ELSE @]
        /\ forking' = [forking EXCEPT ![t] = NotForking]
        /\ UNCHANGED <<execed, live, used, count, fault>>

\* exec lets a vfork of the parent return; chains survive it.
Exec(t) ==
    /\ InUser(t)
    /\ t \notin execed
    /\ execed' = execed \cup {t}
    /\ UNCHANGED <<status, mcc, forking, live, used, count, fault>>

\* do_exit: the chains of a collection with a positive count are freed, then
\* the collection.  Its chain array is not freed.
Exit(t) ==
    /\ InUser(t) /\ t # init
    /\ IF Dangling(t) THEN Fault
       ELSE /\ used' = [c \in Colls |->
                          IF c = mcc[t] THEN used[c] \ ExitFrees(used[c], count[c])
                          ELSE used[c]]
            /\ count' = [c \in Colls |->
                          IF c = mcc[t]
                          THEN count[c] - Cardinality(ExitFrees(used[c], count[c]))
                          ELSE count[c]]
            /\ live' = live \ {mcc[t]}
            /\ mcc' = [mcc EXCEPT ![t] = NoColl]
            /\ status' = [status EXCEPT ![t] = "dead"]
            /\ UNCHANGED <<forking, execed, fault>>

Next ==
    \E t \in Tasks :
        \/ NewMemChain(t)
        \/ \E s \in 0 .. Capacity - 1 : RlsMemChain(t, s)
        \/ \E u \in Tasks, vfork \in BOOLEAN : Fork(t, u, vfork)
        \/ EndFork(t)
        \/ Exec(t)
        \/ Exit(t)

Spec == Init /\ [][Next]_vars
-----------------------------------------------------------------------------
(***************************************************************************)
(* Properties.                                                             *)
(***************************************************************************)

TypeOK ==
    /\ status \in [Tasks -> {"dead", "new", "running"}]
    /\ mcc \in [Tasks -> Colls \cup {NoColl}]
    /\ forking \in [Tasks -> [child : Tasks \cup {NoTask}, vfork : BOOLEAN]]
    /\ execed \in SUBSET Tasks
    /\ live \in SUBSET Colls
    /\ used \in [Colls -> SUBSET (0 .. Capacity - 1)]
    /\ count \in [Colls -> 0 .. Capacity]
    /\ fault \in BOOLEAN

\* A task never works on a freed collection, and exit frees none twice.
NoFault == ~fault

\* Two tasks that run never share a collection: a child starts without chains.
PrivateCollections ==
    \A t, u \in Tasks :
        (t # u /\ status[t] = "running" /\ status[u] = "running" /\ mcc[t] = mcc[u])
            => mcc[t] = NoColl

\* Each collection has one task from its creation to its end: no two running
\* tasks share one, none is used after it is freed and none is freed twice
\* (fork.c:1477, exit.c:1011-1049).
OwnedByOne == TypeOK /\ NoFault /\ PrivateCollections

\* Nothing is lost over forks and exits: an allocated collection is some
\* task's, and no chain object outlives its collection, although exit stops
\* its walk over the slots as soon as it finds the count at zero.
NothingLeaked ==
    \A c \in Colls :
        /\ c \in live => \E t \in Tasks : status[t] = "running" /\ mcc[t] = c
        /\ c \notin live => used[c] = {}

\* The unrolled scan finds the first free slot of the array whenever the count
\* says there is one, and a descriptor in use is never handed out again.
FirstFreeSlot ==
    \A c \in live :
        /\ count[c] = Cardinality(used[c])
        /\ count[c] < Capacity =>
              LET s == FindFreeSlot(used[c])
              IN  /\ s \in 0 .. Capacity - 1
                  /\ s \notin used[c] /\ 0 .. s - 1 \subseteq used[c]
=============================================================================
