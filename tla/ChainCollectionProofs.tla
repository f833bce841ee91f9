------------------------ MODULE ChainCollectionProofs ------------------------
(***************************************************************************)
(* Collections of chains over forks and exits, for any number of tasks,    *)
(* collections and slots: each collection has one owner, nothing is        *)
(* leaked, and the unrolled loops treat exactly the slots of the array.    *)
(*                                                                         *)
(* The theorems are about the builds the collection code works in, see     *)
(* SoundBuild: with preemption or vfork a child runs on its parent's       *)
(* collection before do_fork takes it away.                                *)
(***************************************************************************)
EXTENDS ChainCollection, FiniteSetTheorems, NaturalsInduction, TLAPS

\* No child runs before its parent's do_fork has ended, and the unrolled
\* loops end with the array, as 255 slots and 5 bodies do.
SoundBuild ==
    /\ ~Preempt /\ ~Vfork
    /\ \E blocks \in Nat : Capacity = Unroll * blocks

\* A task that is not running has no collection, but a child that was copied
\* from its parent still has the parent's, and the parent is in do_fork.
ForksOpen ==
    /\ \A t \in Tasks : ~forking[t].vfork
    /\ \A t \in Tasks : forking[t].child # NoTask =>
          /\ status[t] = "running" /\ status[forking[t].child] = "new"
          /\ mcc[forking[t].child] = mcc[t]
    /\ \A t, u \in Tasks : t # u /\ forking[t].child = forking[u].child
                              => forking[t].child = NoTask
    /\ \A u \in Tasks : status[u] = "new" => \E t \in Tasks : forking[t].child = u
    /\ \A u \in Tasks : status[u] = "dead" => mcc[u] = NoColl

\* Every pointer leads to a collection that is allocated.
PointersLive == \A t \in Tasks : mcc[t] # NoColl => mcc[t] \in live

\* The count of a collection is the number of its occupied slots.
Counted ==
    \A c \in Colls : /\ count[c] = Cardinality(used[c])
                     /\ c \notin live => used[c] = {}

Owned == \A c \in live : \E t \in Tasks : status[t] = "running" /\ mcc[t] = c

IInv == TypeOK /\ NoFault /\ PrivateCollections /\ ForksOpen /\ PointersLive
        /\ Counted /\ Owned

-----------------------------------------------------------------------------
(* The unrolled loops. *)

Slots == 0 .. Capacity - 1

\* Whole blocks end with the array: no slot beyond it is looked at.
LEMMA ProbedIsArray ==
    ASSUME SoundBuild
    PROVE  Probed = Slots
<1>1. Capacity \in Nat /\ Unroll \in Nat \ {0}
  BY CapacityAssumption
<1>2. PICK blocks \in Nat : Capacity = Unroll * blocks
  BY DEF SoundBuild
<1>3. ASSUME NEW i \in Nat
      PROVE  /\ i % Unroll \in 0 .. Unroll - 1
             /\ \E q \in Nat : i - (i % Unroll) = Unroll * q
  <2>1. i = Unroll * (i \div Unroll) + (i % Unroll) /\ i \div Unroll \in Nat
    BY <1>1
  <2>2. QED  BY <1>1, <2>1
<1>4. ASSUME NEW i \in Nat, i >= Capacity
      PROVE  i - (i % Unroll) >= Capacity
  <2>1. PICK q \in Nat : i - (i % Unroll) = Unroll * q
    BY <1>3
  <2>2. i % Unroll \in 0 .. Unroll - 1
    BY <1>3
  <2>3. CASE q >= blocks
    <3>1. Unroll * q >= Unroll * blocks
      BY <1>1, <2>3
    <3>2. QED  BY <1>2, <2>1, <3>1
  <2>4. CASE q + 1 <= blocks
    <3>1. Unroll * (q + 1) <= Unroll * blocks
      BY <1>1, <2>4
    <3>2. Unroll * (q + 1) = Unroll * q + Unroll
      BY <1>1
    <3>3. Unroll * q \in Nat
      BY <1>1
    <3>4. QED  BY <1>1, <1>2, <1>4, <2>1, <2>2, <3>1, <3>2, <3>3
  <2>5. QED  BY <2>3, <2>4
<1>5. ASSUME NEW i \in Slots
      PROVE  i \in Probed
  <2>1. i \in Nat /\ i < Capacity /\ i \in 0 .. Capacity + Unroll - 1
    BY <1>1 DEF Slots
  <2>2. i % Unroll \in 0 .. Unroll - 1
    BY <1>3, <2>1
  <2>3. QED  BY <1>1, <2>1, <2>2 DEF Probed
<1>6. ASSUME NEW i \in Probed
      PROVE  i \in Slots
  <2>1. i \in Nat /\ i - (i % Unroll) < Capacity
    BY <1>1 DEF Probed
  <2>2. i % Unroll \in Int
    BY <1>3, <2>1
  <2>3. ~(i >= Capacity)
    BY <1>1, <1>4, <2>1, <2>2
  <2>4. QED  BY <1>1, <2>1, <2>3 DEF Slots
<1>7. QED  BY <1>5, <1>6

\* A set of slots is finite, and full only when it is the whole array.
LEMMA SlotsFinite ==
    ASSUME NEW S \in SUBSET Slots
    PROVE  /\ IsFiniteSet(S) /\ Cardinality(S) \in 0 .. Capacity
           /\ Cardinality(S) < Capacity => Slots \ S # {}
<1>1. IsFiniteSet(Slots) /\ Cardinality(Slots) = Capacity
  <2>1. Capacity - 1 \in Int
    BY CapacityAssumption
  <2>2. /\ IsFiniteSet(0 .. Capacity - 1)
        /\ Cardinality(0 .. Capacity - 1) =
              IF 0 > Capacity - 1 THEN 0 ELSE Capacity - 1 - 0 + 1
    BY <2>1, FS_Interval
  <2>3. QED  BY <2>2, CapacityAssumption DEF Slots
<1>2. IsFiniteSet(S) /\ Cardinality(S) <= Capacity
  BY <1>1, FS_Subset
<1>3. Cardinality(S) \in Nat
  BY <1>2, FS_CardinalityType
<1>4. Slots \ S = {} => S = Slots
  OBVIOUS
<1>5. QED  BY <1>1, <1>2, <1>3, <1>4, CapacityAssumption

\* A non-empty set of slots has a least one.
LEMMA LeastSlot ==
    ASSUME NEW S \in SUBSET Nat, S # {}
    PROVE  LeastOf(S) \in S /\ \A j \in S : LeastOf(S) <= j
<1>1. \E i \in S : \A j \in S : i <= j
  <2>1. IsWellFoundedOn(OpToRel(<, Nat), Nat)
    BY NatLessThanWellFounded
  <2>2. PICK i \in S : \A j \in S : ~(<<j, i>> \in OpToRel(<, Nat))
    BY <2>1, WFMin
  <2>3. \A j \in S : ~(j < i)
    BY <2>2 DEF OpToRel
  <2>4. QED  BY <2>3
<1>2. QED  BY <1>1 DEF LeastOf

\* __find_free_slot returns the first free slot of an array that is not full.
LEMMA FindFreeSlotFirst ==
    ASSUME SoundBuild, NEW S \in SUBSET Slots, Cardinality(S) < Capacity
    PROVE  /\ FindFreeSlot(S) \in Slots \ S
           /\ 0 .. FindFreeSlot(S) - 1 \subseteq S
<1>1. Slots \ S # {} /\ Slots \ S \in SUBSET Nat
  BY SlotsFinite, CapacityAssumption DEF Slots
<1>2. FindFreeSlot(S) = LeastOf(Slots \ S)
  BY <1>1, ProbedIsArray DEF FindFreeSlot
<1>3. FindFreeSlot(S) \in Slots \ S /\ \A j \in Slots \ S : FindFreeSlot(S) <= j
  BY <1>1, <1>2, LeastSlot
<1>4. QED  BY <1>3, CapacityAssumption DEF Slots

\* do_exit frees every chain of a collection whose count is right: before the
\* block of an occupied slot there are fewer chains than the count.
LEMMA ExitFreesAll ==
    ASSUME SoundBuild, NEW S \in SUBSET Slots
    PROVE  ExitFrees(S, Cardinality(S)) = S
<1> SUFFICES ASSUME NEW i \in S
             PROVE  Cardinality({j \in S : j < i - (i % Unroll)}) < Cardinality(S)
  BY ProbedIsArray DEF ExitFrees
<1> DEFINE B == {j \in S : j < i - (i % Unroll)}
<1>1. i \in Nat /\ i % Unroll \in Nat
  BY CapacityAssumption DEF Slots
<1>2. B \in SUBSET S /\ i \notin B
  BY <1>1
<1>3. /\ Cardinality(B) <= Cardinality(S)
      /\ Cardinality(S) = Cardinality(B) => S = B
  BY <1>2, SlotsFinite, FS_Subset
<1>4. Cardinality(B) \in Int /\ Cardinality(S) \in Int
  BY <1>2, SlotsFinite, CapacityAssumption
<1>5. QED  BY <1>2, <1>3, <1>4
-----------------------------------------------------------------------------
(* Each action keeps the invariant. *)

LEMMA InitIInv ==
    ASSUME Init PROVE IInv
<1>1. mcc \in [Tasks -> Colls \cup {NoColl}] /\ count \in [Colls -> 0 .. Capacity]
  BY CapacityAssumption DEF Init
<1>2. forking \in [Tasks -> [child : Tasks \cup {NoTask}, vfork : BOOLEAN]]
  BY DEF Init, NotForking
<1>3. TypeOK
  BY <1>1, <1>2 DEF Init, TypeOK
<1>4. Counted
  BY FS_EmptySet DEF Init, Counted
<1>5. QED
  BY <1>3, <1>4, InitAssumption
     DEF Init, IInv, NoFault, PrivateCollections, ForksOpen, NotForking,
         PointersLive, Owned

\* A task that can run user code has a collection of its own: no other running
\* task and no half-made child has it.
LEMMA SoleOwner ==
    ASSUME IInv, NEW t \in Tasks, InUser(t), NEW u \in Tasks, u # t,
           mcc[t] # NoColl
    PROVE  mcc[u] # mcc[t] /\ ~Dangling(t)
<1>1. ~Dangling(t)
  BY DEF IInv, PointersLive, Dangling
<1>2. CASE status[u] = "running"
  BY <1>1, <1>2 DEF IInv, PrivateCollections, InUser
<1>3. CASE status[u] = "new"
  <2>1. PICK v \in Tasks : forking[v].child = u
    BY <1>3 DEF IInv, ForksOpen
  <2>2. v # t
    BY <2>1, InitAssumption DEF InUser, NotForking
  <2>3. status[v] = "running" /\ mcc[u] = mcc[v]
    BY <2>1, InitAssumption DEF IInv, ForksOpen
  <2>4. QED  BY <1>1, <2>2, <2>3 DEF IInv, PrivateCollections, InUser
<1>4. CASE status[u] = "dead"
  BY <1>1, <1>4 DEF IInv, ForksOpen
<1>5. QED  BY <1>2, <1>3, <1>4 DEF IInv, TypeOK

LEMMA NewMemChainKeeps ==
    ASSUME SoundBuild, IInv, NEW t \in Tasks, NewMemChain(t)
    PROVE  IInv'
<1> USE DEF IInv
<1>1. ~Dangling(t)
  BY DEF PointersLive, Dangling
<1>2. PICK c \in Colls :
        /\ IF mcc[t] = NoColl THEN c \notin live ELSE c = mcc[t]
        /\ LET S == IF mcc[t] = NoColl THEN {} ELSE used[c]
               n == IF mcc[t] = NoColl THEN 0 ELSE count[c]
           IN  /\ used'  = [used EXCEPT ![c] =
                              IF n < Capacity THEN S \cup {FindFreeSlot(S)} ELSE S]
               /\ count' = [count EXCEPT ![c] = IF n < Capacity THEN n + 1 ELSE n]
        /\ live' = live \cup {c}
        /\ mcc' = [mcc EXCEPT ![t] = c]
        /\ UNCHANGED <<status, forking, execed, fault>>
  BY <1>1 DEF NewMemChain
<1>3. used[c] \in SUBSET Slots /\ count[c] = Cardinality(used[c])
  BY DEF TypeOK, Counted, Slots
<1>4. c \in live <=> mcc[t] # NoColl
  BY <1>2 DEF PointersLive
<1>5. mcc[t] = NoColl => used[c] = {} /\ count[c] = 0
  BY <1>3, <1>4, FS_EmptySet DEF Counted
<1>6. /\ used'  = [used EXCEPT ![c] = IF count[c] < Capacity
                      THEN used[c] \cup {FindFreeSlot(used[c])} ELSE used[c]]
      /\ count' = [count EXCEPT ![c] = IF count[c] < Capacity
                      THEN count[c] + 1 ELSE count[c]]
  BY <1>2, <1>5
<1>7. used'[c] \in SUBSET Slots /\ count'[c] = Cardinality(used'[c])
      /\ count'[c] \in 0 .. Capacity
  <2>1. CASE count[c] < Capacity
    <3>1. FindFreeSlot(used[c]) \in Slots \ used[c]
      BY <1>3, <2>1, FindFreeSlotFirst
    <3>2. Cardinality(used[c] \cup {FindFreeSlot(used[c])}) = Cardinality(used[c]) + 1
      BY <1>3, <3>1, SlotsFinite, FS_AddElement
    <3>3. QED  BY <1>3, <1>6, <2>1, <3>1, <3>2, CapacityAssumption DEF TypeOK
  <2>2. CASE ~(count[c] < Capacity)
    BY <1>3, <1>6, <2>2 DEF TypeOK
  <2>3. QED  BY <2>1, <2>2
<1>8. \A d \in Colls : d # c => used'[d] = used[d] /\ count'[d] = count[d]
  BY <1>6 DEF TypeOK
<1>9. TypeOK'
  BY <1>2, <1>6, <1>7, <1>8 DEF TypeOK, Slots
<1>10. Counted'
  <2> SUFFICES ASSUME NEW d \in Colls
               PROVE  /\ count'[d] = Cardinality(used'[d])
                      /\ d \notin live' => used'[d] = {}
    BY DEF Counted
  <2>1. CASE d = c  BY <1>2, <1>7, <2>1
  <2>2. CASE d # c  BY <1>2, <1>8, <2>2 DEF Counted
  <2>3. QED  BY <2>1, <2>2
<1>11. status[t] = "running" /\ forking[t] = NotForking
  BY <1>1 DEF NewMemChain, InUser
<1>12. \A u \in Tasks : u # t => mcc'[u] = mcc[u] /\ mcc[u] # c
  <2> SUFFICES ASSUME NEW u \in Tasks, u # t PROVE mcc'[u] = mcc[u] /\ mcc[u] # c
    OBVIOUS
  <2>1. CASE mcc[t] = NoColl
    BY <1>2, <2>1, CollsAssumption DEF PointersLive, TypeOK
  <2>2. CASE mcc[t] # NoColl
    BY <1>2, <2>2, SoleOwner DEF NewMemChain, TypeOK
  <2>3. QED  BY <2>1, <2>2
<1>13. mcc'[t] = c
  BY <1>2 DEF TypeOK
<1>14. PrivateCollections' /\ PointersLive'
  BY <1>2, <1>12, <1>13 DEF PrivateCollections, PointersLive
<1>15. ForksOpen'
  <2>1. forking[t].child = NoTask
    BY <1>11 DEF NotForking
  <2>2. \A v \in Tasks : forking[v].child # NoTask =>
           forking[v].child # t /\ forking[v].child \in Tasks /\ v # t
    BY <1>11, <2>1 DEF ForksOpen, TypeOK
  <2>3. QED  BY <1>2, <1>11, <1>12, <2>1, <2>2 DEF ForksOpen
<1>16. Owned'
  <2> SUFFICES ASSUME NEW d \in live'
               PROVE  \E u \in Tasks : status'[u] = "running" /\ mcc'[u] = d
    BY DEF Owned
  <2>1. CASE d = c  BY <1>2, <1>11, <1>13, <2>1
  <2>2. CASE d # c
    <3>1. PICK u \in Tasks : status[u] = "running" /\ mcc[u] = d
      BY <1>2, <2>2 DEF Owned
    <3>2. u # t
      BY <1>2, <1>4, <2>2, <3>1, CollsAssumption DEF TypeOK
    <3>3. QED  BY <1>2, <1>12, <3>1, <3>2
  <2>3. QED  BY <2>1, <2>2
<1>17. QED  BY <1>2, <1>9, <1>10, <1>14, <1>15, <1>16 DEF NoFault

LEMMA RlsMemChainKeeps ==
    ASSUME IInv, NEW t \in Tasks, NEW s \in 0 .. Capacity - 1, RlsMemChain(t, s)
    PROVE  IInv'
<1> USE DEF IInv
<1> DEFINE c == mcc[t]
<1>1. /\ c \in live /\ c \in Colls /\ s \in used[c]
      /\ used' = [used EXCEPT ![c] = used[c] \ {s}]
      /\ count' = [count EXCEPT ![c] = count[c] - 1]
      /\ UNCHANGED <<status, mcc, forking, execed, live, fault>>
  BY DEF RlsMemChain, TypeOK
<1> HIDE DEF c
<1>2. used[c] \in SUBSET Slots /\ count[c] = Cardinality(used[c])
  BY <1>1 DEF TypeOK, Counted, Slots
<1>3. used'[c] \in SUBSET Slots /\ count'[c] = Cardinality(used'[c])
      /\ count'[c] \in 0 .. Capacity
  <2>1. Cardinality(used[c] \ {s}) = Cardinality(used[c]) - 1
    BY <1>1, <1>2, SlotsFinite, FS_RemoveElement
  <2>2. used'[c] = used[c] \ {s} /\ count'[c] = count[c] - 1
    BY <1>1 DEF TypeOK
  <2>3. Cardinality(used[c] \ {s}) \in 0 .. Capacity
    BY <1>2, SlotsFinite
  <2>4. QED  BY <1>2, <2>1, <2>2, <2>3
<1>4. \A d \in Colls : d # c => used'[d] = used[d] /\ count'[d] = count[d]
  BY <1>1 DEF TypeOK
<1>5. TypeOK'
  BY <1>1, <1>3, <1>4 DEF TypeOK, Slots
<1>6. Counted'
  <2> SUFFICES ASSUME NEW d \in Colls
               PROVE  /\ count'[d] = Cardinality(used'[d])
                      /\ d \notin live' => used'[d] = {}
    BY DEF Counted
  <2>1. CASE d = c  BY <1>1, <1>3, <2>1
  <2>2. CASE d # c  BY <1>1, <1>4, <2>2 DEF Counted
  <2>3. QED  BY <2>1, <2>2
<1>7. QED
  BY <1>1, <1>5, <1>6
     DEF NoFault, PrivateCollections, ForksOpen, PointersLive, Owned

\* A child gets a copy of its parent's pointer, and is not scheduled.
LEMMA ForkKeeps ==
    ASSUME SoundBuild, IInv, NEW t \in Tasks, NEW u \in Tasks,
           NEW vfork \in BOOLEAN, Fork(t, u, vfork)
    PROVE  IInv'
<1> USE DEF IInv
<1>1. /\ status[t] = "running" /\ forking[t] = NotForking /\ ~vfork
      /\ status[u] = "dead" /\ u # t
      /\ \A v \in Tasks : forking[v].child # u
      /\ mcc' = [mcc EXCEPT ![u] = mcc[t]]
      /\ status' = [status EXCEPT ![u] = "new"]
      /\ forking' = [forking EXCEPT ![t] = [child |-> u, vfork |-> FALSE]]
      /\ execed' = execed \ {u}
      /\ UNCHANGED <<live, used, count, fault>>
  BY DEF Fork, InUser, SoundBuild
<1>2. TypeOK'
  BY <1>1 DEF TypeOK
<1>3. \A v \in Tasks : /\ v # u => status'[v] = status[v] /\ mcc'[v] = mcc[v]
                       /\ v # t => forking'[v] = forking[v]
  BY <1>1 DEF TypeOK
<1>4. /\ status'[u] = "new" /\ mcc'[u] = mcc[t]
      /\ forking'[t] = [child |-> u, vfork |-> FALSE]
  BY <1>1 DEF TypeOK
<1>5. PrivateCollections' /\ PointersLive'
  BY <1>1, <1>3, <1>4 DEF PrivateCollections, PointersLive
<1>6. ForksOpen'
  <2>1. \A v \in Tasks : v # t /\ forking[v].child # NoTask =>
           v # u /\ forking[v].child # u /\ forking[v].child \in Tasks
    BY <1>1 DEF ForksOpen, TypeOK
  <2>2. \A v \in Tasks : ~forking'[v].vfork
    BY <1>1, <1>3, <1>4 DEF ForksOpen
  <2>3. \A v \in Tasks : forking'[v].child # NoTask =>
           /\ status'[v] = "running" /\ status'[forking'[v].child] = "new"
           /\ mcc'[forking'[v].child] = mcc'[v]
    <3> SUFFICES ASSUME NEW v \in Tasks, forking'[v].child # NoTask
                 PROVE  /\ status'[v] = "running"
                        /\ status'[forking'[v].child] = "new"
                        /\ mcc'[forking'[v].child] = mcc'[v]
      OBVIOUS
    <3>1. CASE v = t  BY <1>1, <1>3, <1>4, <3>1
    <3>2. CASE v # t  BY <1>1, <1>3, <2>1, <3>2 DEF ForksOpen
    <3>3. QED  BY <3>1, <3>2
  <2>4. \A v, w \in Tasks : v # w /\ forking'[v].child = forking'[w].child
                               => forking'[v].child = NoTask
    BY <1>1, <1>3, <1>4, <2>1 DEF ForksOpen
  <2>5. \A v \in Tasks : status'[v] = "new" => \E w \in Tasks : forking'[w].child = v
    <3> SUFFICES ASSUME NEW v \in Tasks, status'[v] = "new"
                 PROVE  \E w \in Tasks : forking'[w].child = v
      OBVIOUS
    <3>1. CASE v = u  BY <1>4, <3>1
    <3>2. CASE v # u
      <4>1. PICK w \in Tasks : forking[w].child = v
        BY <1>3, <3>2 DEF ForksOpen
      <4>2. w # t  BY <1>1, <4>1, InitAssumption DEF NotForking
      <4>3. QED  BY <1>3, <4>1, <4>2
    <3>3. QED  BY <3>1, <3>2
  <2>6. \A v \in Tasks : status'[v] = "dead" => mcc'[v] = NoColl
    BY <1>3, <1>4 DEF ForksOpen
  <2>7. QED  BY <2>2, <2>3, <2>4, <2>5, <2>6 DEF ForksOpen
<1>7. Owned'
  BY <1>1, <1>3 DEF Owned
<1>8. QED
  BY <1>1, <1>2, <1>5, <1>6, <1>7 DEF NoFault, Counted

\* do_fork takes the copied pointer away before the child is scheduled.
LEMMA EndForkKeeps ==
    ASSUME IInv, NEW t \in Tasks, EndFork(t)
    PROVE  IInv'
<1> USE DEF IInv
<1> DEFINE u == forking[t].child
<1>1. /\ u # NoTask /\ u \in Tasks
      /\ mcc' = [mcc EXCEPT ![u] = NoColl]
      /\ status' = [status EXCEPT ![u] = IF @ = "new" THEN "running" ELSE @]
      /\ forking' = [forking EXCEPT ![t] = NotForking]
      /\ UNCHANGED <<execed, live, used, count, fault>>
  BY DEF EndFork, TypeOK
<1>2. status[t] = "running" /\ status[u] = "new" /\ u # t
      /\ \A v \in Tasks : v # t => forking[v].child # u
  BY <1>1 DEF ForksOpen
<1> HIDE DEF u
<1>3. \A v \in Tasks : /\ v # u => status'[v] = status[v] /\ mcc'[v] = mcc[v]
                       /\ v # t => forking'[v] = forking[v]
  BY <1>1 DEF TypeOK
<1>4. status'[u] = "running" /\ mcc'[u] = NoColl /\ forking'[t] = NotForking
  BY <1>1, <1>2 DEF TypeOK
<1>5. TypeOK'
  <2>1. NotForking \in [child : Tasks \cup {NoTask}, vfork : BOOLEAN]
    BY DEF NotForking
  <2>2. QED  BY <1>1, <2>1 DEF TypeOK
<1>6. PrivateCollections' /\ PointersLive'
  BY <1>1, <1>3, <1>4 DEF PrivateCollections, PointersLive
<1>7. ForksOpen'
  <2>1. forking'[t].child = NoTask /\ ~forking'[t].vfork
    BY <1>4 DEF NotForking
  <2>2. \A v \in Tasks : v # t /\ forking[v].child # NoTask =>
           v # u /\ forking[v].child # u /\ forking[v].child \in Tasks
    BY <1>2 DEF ForksOpen, TypeOK
  <2>3. \A v \in Tasks : status'[v] = "new" => \E w \in Tasks : forking'[w].child = v
    <3> SUFFICES ASSUME NEW v \in Tasks, status'[v] = "new"
                 PROVE  \E w \in Tasks : forking'[w].child = v
      OBVIOUS
    <3>1. v # u  BY <1>4
    <3>2. PICK w \in Tasks : forking[w].child = v
      BY <1>3, <3>1 DEF ForksOpen
    <3>3. w # t  BY <3>1, <3>2 DEF u
    <3>4. QED  BY <1>3, <3>2, <3>3
  <2>4. \A v \in Tasks : status'[v] = "dead" => mcc'[v] = NoColl
    BY <1>3, <1>4 DEF ForksOpen
  <2>5. \A v \in Tasks : ~forking'[v].vfork
    BY <1>3, <2>1 DEF ForksOpen
  <2>6. \A v \in Tasks : forking'[v].child # NoTask =>
           /\ status'[v] = "running" /\ status'[forking'[v].child] = "new"
           /\ mcc'[forking'[v].child] = mcc'[v]
    BY <1>3, <2>1, <2>2 DEF ForksOpen
  <2>7. \A v, w \in Tasks : v # w /\ forking'[v].child = forking'[w].child
                               => forking'[v].child = NoTask
    BY <1>3, <2>1 DEF ForksOpen
  <2>8. QED  BY <2>3, <2>4, <2>5, <2>6, <2>7 DEF ForksOpen
<1>8. Owned'
  BY <1>1, <1>2, <1>3 DEF Owned
<1>9. QED
  BY <1>1, <1>5, <1>6, <1>7, <1>8 DEF NoFault, Counted

LEMMA ExecKeeps ==
    ASSUME IInv, NEW t \in Tasks, Exec(t)
    PROVE  IInv'
BY DEF Exec, IInv, TypeOK, NoFault, PrivateCollections, ForksOpen, PointersLive,
       Counted, Owned

\* An exit frees the whole collection of the task, which nobody else has.
LEMMA ExitKeeps ==
    ASSUME SoundBuild, IInv, NEW t \in Tasks, Exit(t)
    PROVE  IInv'
<1> USE DEF IInv
<1>1. ~Dangling(t)
  BY DEF PointersLive, Dangling
<1>2. /\ InUser(t) /\ status[t] = "running" /\ forking[t] = NotForking
      /\ used' = [c \in Colls |->
                    IF c = mcc[t] THEN used[c] \ ExitFrees(used[c], count[c])
                    ELSE used[c]]
      /\ count' = [c \in Colls |->
                    IF c = mcc[t]
                    THEN count[c] - Cardinality(ExitFrees(used[c], count[c]))
                    ELSE count[c]]
      /\ live' = live \ {mcc[t]}
      /\ mcc' = [mcc EXCEPT ![t] = NoColl]
      /\ status' = [status EXCEPT ![t] = "dead"]
      /\ UNCHANGED <<forking, execed, fault>>
  BY <1>1 DEF Exit, InUser
<1>3. ASSUME NEW c \in Colls, c = mcc[t]
      PROVE  used'[c] = {} /\ count'[c] = 0
  <2>1. used[c] \in SUBSET Slots /\ count[c] = Cardinality(used[c])
    BY DEF TypeOK, Counted, Slots
  <2>2. ExitFrees(used[c], count[c]) = used[c]
    BY <2>1, ExitFreesAll
  <2>3. Cardinality(used[c]) \in Int
    BY <2>1, SlotsFinite, CapacityAssumption
  <2>4. QED  BY <1>2, <1>3, <2>1, <2>2, <2>3
<1>4. \A c \in Colls : c # mcc[t] => used'[c] = used[c] /\ count'[c] = count[c]
  BY <1>2
<1>5. \A u \in Tasks : u # t => mcc'[u] = mcc[u] /\ status'[u] = status[u]
  BY <1>2 DEF TypeOK
<1>6. mcc'[t] = NoColl /\ status'[t] = "dead"
  BY <1>2 DEF TypeOK
<1>7. TypeOK'
  <2>1. \A c \in Colls : used'[c] \in SUBSET (0 .. Capacity - 1)
                         /\ count'[c] \in 0 .. Capacity
    BY <1>3, <1>4, CapacityAssumption DEF TypeOK
  <2>2. used' = [c \in Colls |-> used'[c]] /\ count' = [c \in Colls |-> count'[c]]
    BY <1>2
  <2>3. used' \in [Colls -> SUBSET (0 .. Capacity - 1)]
        /\ count' \in [Colls -> 0 .. Capacity]
    BY <2>1, <2>2
  <2>4. mcc' \in [Tasks -> Colls \cup {NoColl}] /\ live' \in SUBSET Colls
        /\ status' \in [Tasks -> {"dead", "new", "running"}]
    BY <1>2 DEF TypeOK
  <2>5. QED  BY <1>2, <2>3, <2>4 DEF TypeOK
<1>8. Counted'
  <2> SUFFICES ASSUME NEW c \in Colls
               PROVE  /\ count'[c] = Cardinality(used'[c])
                      /\ c \notin live' => used'[c] = {}
    BY DEF Counted
  <2>1. CASE c = mcc[t]  BY <1>3, <2>1, FS_EmptySet
  <2>2. CASE c # mcc[t]  BY <1>2, <1>4, <2>2 DEF Counted
  <2>3. QED  BY <2>1, <2>2
<1>9. PrivateCollections'
  BY <1>5, <1>6 DEF PrivateCollections
<1>10. PointersLive'
  <2> SUFFICES ASSUME NEW u \in Tasks, mcc'[u] # NoColl PROVE mcc'[u] \in live'
    BY DEF PointersLive
  <2>1. u # t /\ mcc'[u] = mcc[u] /\ mcc[u] \in live
    BY <1>5, <1>6 DEF PointersLive
  <2>2. mcc[u] # mcc[t]
    <3>1. CASE mcc[t] = NoColl  BY <2>1, <3>1
    <3>2. CASE mcc[t] # NoColl  BY <1>2, <2>1, <3>2, SoleOwner
    <3>3. QED  BY <3>1, <3>2
  <2>3. QED  BY <1>2, <2>1, <2>2
<1>11. ForksOpen'
  <2>1. forking[t].child = NoTask
    BY <1>2 DEF NotForking
  <2>2. \A v \in Tasks : forking[v].child # NoTask =>
           v # t /\ forking[v].child # t /\ forking[v].child \in Tasks
    BY <1>2, <2>1 DEF ForksOpen, TypeOK
  <2>3. \A v \in Tasks : forking[v].child # NoTask =>
           /\ status'[v] = "running" /\ status'[forking[v].child] = "new"
           /\ mcc'[forking[v].child] = mcc'[v]
    BY <1>5, <2>2 DEF ForksOpen
  <2>4. \A v \in Tasks : status'[v] = "new" => \E w \in Tasks : forking[w].child = v
    BY <1>5, <1>6 DEF ForksOpen
  <2>5. \A v \in Tasks : status'[v] = "dead" => mcc'[v] = NoColl
    BY <1>5, <1>6 DEF ForksOpen
  <2>6. QED  BY <1>2, <2>3, <2>4, <2>5 DEF ForksOpen
<1>12. Owned'
  <2> SUFFICES ASSUME NEW c \in live'
               PROVE  \E u \in Tasks : status'[u] = "running" /\ mcc'[u] = c
    BY DEF Owned
  <2>1. c \in live /\ c # mcc[t]  BY <1>2
  <2>2. PICK u \in Tasks : status[u] = "running" /\ mcc[u] = c
    BY <2>1 DEF Owned
  <2>3. QED  BY <1>5, <2>1, <2>2
<1>13. QED
  BY <1>2, <1>7, <1>8, <1>9, <1>10, <1>11, <1>12 DEF NoFault

LEMMA IInvInductive ==
    ASSUME SoundBuild, IInv, [Next]_vars PROVE IInv'
<1>1. CASE UNCHANGED vars
  BY <1>1 DEF vars, IInv, TypeOK, NoFault, PrivateCollections, ForksOpen,
              PointersLive, Counted, Owned
<1>2. ASSUME NEW t \in Tasks, NewMemChain(t) PROVE IInv'
  BY <1>2, NewMemChainKeeps
<1>3. ASSUME NEW t \in Tasks, NEW s \in 0 .. Capacity - 1, RlsMemChain(t, s) PROVE IInv'
  BY <1>3, RlsMemChainKeeps
<1>4. ASSUME NEW t \in Tasks, NEW u \in Tasks, NEW vfork \in BOOLEAN, Fork(t, u, vfork)
      PROVE IInv'
  BY <1>4, ForkKeeps
<1>5. ASSUME NEW t \in Tasks, EndFork(t) PROVE IInv'
  BY <1>5, EndForkKeeps
<1>6. ASSUME NEW t \in Tasks, Exec(t) PROVE IInv'
  BY <1>6, ExecKeeps
<1>7. ASSUME NEW t \in Tasks, Exit(t) PROVE IInv'
  BY <1>7, ExitKeeps
<1>8. QED  BY <1>1, <1>2, <1>3, <1>4, <1>5, <1>6, <1>7 DEF Next

LEMMA Invariance ==
    SoundBuild /\ Spec => []IInv
<1>1. Init => IInv
  BY InitIInv
<1>2. SoundBuild /\ IInv /\ [Next]_vars => IInv'
  BY IInvInductive
<1>3. QED
  <2>1. CASE SoundBuild
    <3>1. IInv /\ [Next]_vars => IInv'
      BY <1>2, <2>1
    <3>2. QED  BY <1>1, <3>1, PTL DEF Spec
  <2>2. CASE ~SoundBuild
    BY <2>2
  <2>3. QED  BY <2>1, <2>2

-----------------------------------------------------------------------------
(* The theorems. *)

\* No two running tasks share a collection and none is used once it is freed:
\* do_fork clears the child's copy in time and do_exit frees only its own
\* (fork.c:1477, exit.c:1011-1049).
THEOREM CollectionOwned == SoundBuild /\ Spec => []OwnedByOne
<1>1. IInv => OwnedByOne
  BY DEF IInv, OwnedByOne
<1>2. QED  BY <1>1, Invariance, PTL

\* No collection and no chain object is lost, whatever tasks fork, exit, open
\* and release (exit.c:1011-1049).
THEOREM NothingIsLeaked == SoundBuild /\ Spec => []NothingLeaked
<1>1. IInv => NothingLeaked
  BY DEF IInv, Owned, Counted, NothingLeaked
<1>2. QED  BY <1>1, Invariance, PTL

\* The unrolled scan for a free slot returns the first one, in every state and
\* for every capacity that Unroll divides (mchain.c, __find_free_slot).
THEOREM ScanFindsFirst == SoundBuild /\ Spec => []FirstFreeSlot
<1>1. ASSUME SoundBuild, IInv PROVE FirstFreeSlot
  <2> SUFFICES ASSUME NEW c \in live
               PROVE  /\ count[c] = Cardinality(used[c])
                      /\ count[c] < Capacity =>
                            /\ FindFreeSlot(used[c]) \in 0 .. Capacity - 1
                            /\ FindFreeSlot(used[c]) \notin used[c]
                            /\ 0 .. FindFreeSlot(used[c]) - 1 \subseteq used[c]
    BY DEF FirstFreeSlot
  <2>1. /\ c \in Colls /\ count[c] = Cardinality(used[c])
        /\ used[c] \in SUBSET Slots
    BY <1>1 DEF IInv, TypeOK, Counted, Slots
  <2>2. QED  BY <1>1, <2>1, FindFreeSlotFirst DEF Slots
<1>2. QED
  <2>1. CASE SoundBuild
    <3>1. IInv => FirstFreeSlot  BY <1>1, <2>1
    <3>2. QED  BY <3>1, Invariance, PTL
  <2>2. CASE ~SoundBuild  BY <2>2
  <2>3. QED  BY <2>1, <2>2
=============================================================================
