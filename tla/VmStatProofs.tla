---------------------------- MODULE VmStatProofs ----------------------------
(***************************************************************************)
(* Proofs about VmStat, for any number of CPUs, zones and tasks: no update *)
(* is lost or counted twice, differences fit their width, a CPU that is    *)
(* gone holds nothing, and the drift of an unmarked zone is tolerable.     *)
(***************************************************************************)
EXTENDS VmStat, FiniteSetTheorems, TLAPS

------------------------------------------------------------------------------
(* Sums over finite sets of processors: SumFunction is a fold. *)

\* Induction over finite sets without an operator parameter: a non-empty set
\* of subsets of D has a member none of whose predecessors belongs to it.
LEMMA MinimalSubset ==
    ASSUME NEW D, IsFiniteSet(D), NEW T \in SUBSET SUBSET D, T # {}
    PROVE  \E s \in T : \A x \in s : s \ {x} \notin T
<1>1. T \subseteq FiniteSubsetsOf(D)
  BY FS_Subset DEF FiniteSubsetsOf
<1>2. IsWellFoundedOn(StrictSubsetOrdering(D), FiniteSubsetsOf(D))
  BY FS_StrictSubsetOrderingWellFounded
<1>3. PICK s \in T : \A u \in T : ~(<<u, s>> \in StrictSubsetOrdering(D))
  BY <1>1, <1>2, WFMin
<1>4. \A x \in s : s \ {x} \notin T
  BY <1>3 DEF StrictSubsetOrdering
<1>5. QED  BY <1>4

\* The element a fold takes next.
First(s) == CHOOSE x \in s : TRUE

\* The equation of the fold that sums f over the subsets of its domain.
SumsUp(g, f, D) ==
    g = [s \in SUBSET D |-> IF s = {} THEN 0 ELSE f[First(s)] + g[s \ {First(s)}]]

LEMMA SumIsFold ==
    ASSUME NEW f, NEW D, D = DOMAIN f
    PROVE  SumFunction(f) = (CHOOSE g : SumsUp(g, f, D))[D]
BY DEF SumFunction, SumFunctionOnSet, FoldFunctionOnSet, MapThenFoldSet, SumsUp, First

LEMMA FirstIn == ASSUME NEW s, s # {} PROVE First(s) \in s
BY DEF First

\* Such a fold exists: it is defined for the subsets of ever larger size.
LEMMA FoldExists ==
    ASSUME NEW D, IsFiniteSet(D), NEW f \in [D -> Int]
    PROVE  \E g \in [SUBSET D -> Int] : SumsUp(g, f, D)
<1> DEFINE Eq(g, s) == g[s] = IF s = {} THEN 0 ELSE f[First(s)] + g[s \ {First(s)}]
           Upto(n) == \E g \in [SUBSET D -> Int] :
                         \A s \in SUBSET D : Cardinality(s) <= n => Eq(g, s)
           T == {n \in Nat : ~Upto(n)}
<1>1. \A s \in SUBSET D : IsFiniteSet(s) /\ Cardinality(s) \in Nat
                          /\ Cardinality(s) <= Cardinality(D)
  BY FS_Subset, FS_CardinalityType
<1>2. Upto(0)
  <2> DEFINE g == [s \in SUBSET D |-> 0]
  <2>1. \A s \in SUBSET D : Cardinality(s) <= 0 => s = {}
    BY <1>1, FS_EmptySet
  <2>2. g \in [SUBSET D -> Int] /\ \A s \in SUBSET D : Cardinality(s) <= 0 => Eq(g, s)
    BY <2>1
  <2>3. QED  BY <2>2
<1>3. ASSUME NEW n \in Nat, Upto(n) PROVE Upto(n + 1)
  <2>1. PICK g \in [SUBSET D -> Int] :
           \A s \in SUBSET D : Cardinality(s) <= n => Eq(g, s)
    BY <1>3
  <2> DEFINE h == [s \in SUBSET D |->
                     IF Cardinality(s) = n + 1 THEN f[First(s)] + g[s \ {First(s)}]
                     ELSE g[s]]
  <2>2. \A s \in SUBSET D : s # {} =>
           /\ First(s) \in s /\ First(s) \in D /\ s \ {First(s)} \in SUBSET D
           /\ Cardinality(s \ {First(s)}) = Cardinality(s) - 1
    BY <1>1, FirstIn, FS_RemoveElement
  <2>3. \A s \in SUBSET D : Cardinality(s) = n + 1 => s # {}
    <3>1. Cardinality({}) = 0  BY FS_EmptySet
    <3>2. 0 # n + 1  OBVIOUS
    <3>3. QED  BY <3>1, <3>2
  <2>4. h \in [SUBSET D -> Int]
    <3> SUFFICES ASSUME NEW s \in SUBSET D
                 PROVE  (IF Cardinality(s) = n + 1 THEN f[First(s)] + g[s \ {First(s)}]
                         ELSE g[s]) \in Int
      OBVIOUS
    <3>1. CASE Cardinality(s) = n + 1
      <4>1. First(s) \in D /\ s \ {First(s)} \in SUBSET D
        BY <2>2, <2>3, <3>1
      <4>2. f[First(s)] \in Int /\ g[s \ {First(s)}] \in Int
        BY <4>1
      <4>3. QED  BY <3>1, <4>2
    <3>2. CASE Cardinality(s) # n + 1  BY <3>2
    <3>3. QED  BY <3>1, <3>2
  <2>5. ASSUME NEW s \in SUBSET D, Cardinality(s) <= n + 1
        PROVE  Eq(h, s)
    <3>1. CASE s = {}
      <4>1. Cardinality(s) = 0  BY <3>1, FS_EmptySet
      <4>2. Eq(g, s)  BY <2>1, <4>1
      <4>3. QED  BY <3>1, <4>1, <4>2
    <3>2. CASE s # {} /\ Cardinality(s) <= n
      <4>1. Cardinality(s \ {First(s)}) # n + 1 /\ s \ {First(s)} \in SUBSET D
            /\ Cardinality(s) # n + 1
        BY <1>1, <2>2, <3>2
      <4>2. Eq(g, s)  BY <2>1, <3>2
      <4>3. h[s] = g[s] /\ h[s \ {First(s)}] = g[s \ {First(s)}]
        BY <4>1
      <4>4. QED  BY <3>2, <4>2, <4>3
    <3>3. CASE s # {} /\ Cardinality(s) = n + 1
      <4>1. Cardinality(s \ {First(s)}) # n + 1 /\ s \ {First(s)} \in SUBSET D
        BY <2>2, <3>3
      <4>2. h[s] = f[First(s)] + g[s \ {First(s)}]
            /\ h[s \ {First(s)}] = g[s \ {First(s)}]
        BY <3>3, <4>1
      <4>3. QED  BY <3>3, <4>2
    <3>4. Cardinality(s) <= n \/ Cardinality(s) = n + 1
      BY <1>1, <2>5
    <3> HIDE DEF h, Eq
    <3>5. QED  BY <3>1, <3>2, <3>3, <3>4
  <2> HIDE DEF h, Eq
  <2>6. QED  BY <2>4, <2>5
<1>4. T = {}
  <2> SUFFICES ASSUME T # {} PROVE FALSE
    OBVIOUS
  <2> HIDE DEF Upto
  <2>1. PICK m \in T : \A k \in T : ~(<<k, m>> \in OpToRel(<, Nat))
    BY NatLessThanWellFounded, WFMin
  <2>2. \A k \in T : ~(k < m)
    BY <2>1 DEF OpToRel
  <2>3. m # 0
    BY <1>2
  <2>4. m - 1 \in Nat /\ m - 1 < m /\ ~Upto((m - 1) + 1)
    BY <2>3
  <2>5. Upto(m - 1)
    BY <2>2, <2>4
  <2>6. QED  BY <1>3, <2>4, <2>5
<1>5. Upto(Cardinality(D))
  <2>1. Cardinality(D) \in Nat  BY FS_CardinalityType
  <2> HIDE DEF Upto
  <2>2. QED  BY <1>4, <2>1
<1>6. PICK g \in [SUBSET D -> Int] : \A s \in SUBSET D : Eq(g, s)
  BY <1>1, <1>5
<1>7. SumsUp(g, f, D)
  BY <1>6 DEF SumsUp
<1>8. QED  BY <1>7

LEMMA SumEquation ==
    ASSUME NEW D, IsFiniteSet(D), NEW f \in [D -> Int]
    PROVE  \E g \in [SUBSET D -> Int] : /\ SumsUp(g, f, D)
                                        /\ SumFunction(f) = g[D]
<1>1. \E g : SumsUp(g, f, D)
  BY FoldExists
<1> DEFINE g == CHOOSE h : SumsUp(h, f, D)
<1>2. SumsUp(g, f, D)
  BY <1>1
<1>3. SumFunction(f) = g[D]
  BY SumIsFold
<1> HIDE DEF g
<1>4. DOMAIN g = SUBSET D
  BY <1>2 DEF SumsUp
<1> DEFINE T == {s \in SUBSET D : g[s] \notin Int}
<1>5. T = {}
  <2> SUFFICES ASSUME T # {} PROVE FALSE
    OBVIOUS
  <2>1. PICK s \in T : \A x \in s : s \ {x} \notin T
    BY MinimalSubset
  <2>2. s # {}
    BY <1>2, <2>1 DEF SumsUp
  <2>3. First(s) \in s /\ First(s) \in D /\ s \ {First(s)} \in SUBSET D
    BY <2>1, <2>2, FirstIn
  <2>4. g[s \ {First(s)}] \in Int
    BY <2>1, <2>3
  <2>5. g[s] = f[First(s)] + g[s \ {First(s)}]
    BY <1>2, <2>1, <2>2 DEF SumsUp
  <2>6. QED  BY <2>1, <2>3, <2>4, <2>5
<1>6. g \in [SUBSET D -> Int]
  BY <1>2, <1>4, <1>5 DEF SumsUp
<1>7. QED  BY <1>2, <1>3, <1>6

\* All that is known of the sums g of the parts of f
SumsOf(g, f, D) ==
    IsFiniteSet(D) /\ f \in [D -> Int] /\ g \in [SUBSET D -> Int] /\ SumsUp(g, f, D)

AnyOrder(g, f, D) == \A s \in SUBSET D : \A x \in s : g[s] = f[x] + g[s \ {x}]

\* The order in which a fold takes the elements does not matter.
LEMMA SumAnyOrder ==
    ASSUME NEW D, NEW f, NEW g, SumsOf(g, f, D)
    PROVE  AnyOrder(g, f, D)
<1> USE DEF SumsOf, AnyOrder
<1> DEFINE Any(u) == \A y \in u : g[u] = f[y] + g[u \ {y}]
           T == {u \in SUBSET D : ~Any(u)}
<1>1. \A u \in SUBSET D : u # {} =>
         First(u) \in u /\ g[u] = f[First(u)] + g[u \ {First(u)}]
  BY FirstIn DEF SumsUp
<1> SUFFICES ASSUME T # {} PROVE FALSE
  OBVIOUS
<1>2. PICK u \in T : \A y \in u : u \ {y} \notin T
  BY MinimalSubset
<1>3. PICK y \in u : g[u] # f[y] + g[u \ {y}]
  BY <1>2
<1> DEFINE z == First(u)
<1>4. z \in u /\ z # y /\ g[u] = f[z] + g[u \ {z}]
  BY <1>1, <1>2, <1>3
<1> HIDE DEF z
<1>5. u \ {z} \in SUBSET D /\ u \ {y} \in SUBSET D /\ (u \ {z}) \ {y} \in SUBSET D
      /\ (u \ {z}) \ {y} = (u \ {y}) \ {z}
  BY <1>2
<1>6. g[u \ {z}] = f[y] + g[(u \ {z}) \ {y}]
  BY <1>2, <1>3, <1>4, <1>5
<1>7. g[u \ {y}] = f[z] + g[(u \ {y}) \ {z}]
  BY <1>2, <1>3, <1>4, <1>5
<1>8. f[y] \in Int /\ f[z] \in Int /\ g[(u \ {z}) \ {y}] \in Int
  BY <1>2, <1>3, <1>4, <1>5
<1> DEFINE G == g[(u \ {z}) \ {y}]
<1>9. g[u] = f[z] + (f[y] + G) /\ g[u \ {y}] = f[z] + G
  BY <1>4, <1>5, <1>6, <1>7
<1> HIDE DEF G
<1>10. f[z] + (f[y] + G) = f[y] + (f[z] + G)
  BY <1>8 DEF G
<1>11. g[u] = f[y] + g[u \ {y}]
  BY <1>9, <1>10
<1>12. QED  BY <1>3, <1>11

\* A sum of integers is an integer.
LEMMA SumType ==
    ASSUME NEW D, IsFiniteSet(D), NEW f \in [D -> Int]
    PROVE  SumFunction(f) \in Int
<1>1. PICK g \in [SUBSET D -> Int] : SumFunction(f) = g[D]
  BY SumEquation
<1>2. QED  BY <1>1

\* h and f differ at x only
OneTerm(h, f, x, D) ==
    /\ IsFiniteSet(D) /\ f \in [D -> Int] /\ h \in [D -> Int]
    /\ x \in D /\ \A y \in D \ {x} : h[y] = f[y]

\* A sum changes by what one of its terms changes.
LEMMA SumDelta ==
    ASSUME NEW D, NEW f, NEW h, NEW x, OneTerm(h, f, x, D)
    PROVE  SumFunction(h) = SumFunction(f) + (h[x] - f[x])
<1> USE DEF OneTerm
<1>1. PICK g \in [SUBSET D -> Int] : SumsUp(g, f, D) /\ SumFunction(f) = g[D]
  BY SumEquation
<1>2. PICK k \in [SUBSET D -> Int] : SumsUp(k, h, D) /\ SumFunction(h) = k[D]
  BY SumEquation
<1> DEFINE T == {s \in SUBSET D : x \notin s /\ k[s] # g[s]}
<1>3. T = {}
  <2> SUFFICES ASSUME T # {} PROVE FALSE
    OBVIOUS
  <2>1. PICK s \in T : \A y \in s : s \ {y} \notin T
    BY MinimalSubset
  <2>2. s # {}
    BY <1>1, <1>2, <2>1 DEF SumsUp
  <2>3. First(s) \in s /\ First(s) \in D \ {x} /\ s \ {First(s)} \in SUBSET D
    BY <2>1, <2>2, FirstIn
  <2>4. k[s] = h[First(s)] + k[s \ {First(s)}] /\ g[s] = f[First(s)] + g[s \ {First(s)}]
    BY <1>1, <1>2, <2>1, <2>2 DEF SumsUp
  <2>5. k[s \ {First(s)}] = g[s \ {First(s)}]
    BY <2>1, <2>3
  <2>6. QED  BY <2>1, <2>3, <2>4, <2>5
<1>4. k[D] = h[x] + k[D \ {x}] /\ g[D] = f[x] + g[D \ {x}]
  <2>1. D \in SUBSET D  OBVIOUS
  <2>2. SumsOf(k, h, D) /\ SumsOf(g, f, D)
    BY <1>1, <1>2 DEF SumsOf
  <2>3. AnyOrder(k, h, D) /\ AnyOrder(g, f, D)
    BY <2>2, SumAnyOrder
  <2>4. QED  BY <2>1, <2>3 DEF AnyOrder
<1>5. k[D \ {x}] = g[D \ {x}]
  BY <1>3
<1>6. h[x] \in Int /\ f[x] \in Int /\ g[D \ {x}] \in Int
  OBVIOUS
<1>7. QED  BY <1>1, <1>2, <1>4, <1>5, <1>6

\* A sum depends on the terms only.
LEMMA SumSame ==
    ASSUME NEW D, NEW f \in [D -> Int], NEW h \in [D -> Int],
           \A x \in D : h[x] = f[x]
    PROVE  SumFunction(h) = SumFunction(f)
<1>1. h = f  OBVIOUS
<1>2. QED  BY <1>1

\* A sum of zeros is zero.
LEMMA SumZero ==
    ASSUME NEW D, IsFiniteSet(D), NEW f \in [D -> Int], \A x \in D : f[x] = 0
    PROVE  SumFunction(f) = 0
<1>1. PICK g \in [SUBSET D -> Int] : SumsUp(g, f, D) /\ SumFunction(f) = g[D]
  BY SumEquation
<1> DEFINE T == {s \in SUBSET D : g[s] # 0}
<1>2. T = {}
  <2> SUFFICES ASSUME T # {} PROVE FALSE
    OBVIOUS
  <2>1. PICK s \in T : \A y \in s : s \ {y} \notin T
    BY MinimalSubset
  <2>2. s # {}
    BY <1>1, <2>1 DEF SumsUp
  <2>3. First(s) \in s /\ First(s) \in D /\ s \ {First(s)} \in SUBSET D
    BY <2>1, <2>2, FirstIn
  <2>4. g[s] = f[First(s)] + g[s \ {First(s)}]
    BY <1>1, <2>1, <2>2 DEF SumsUp
  <2>5. QED  BY <2>1, <2>3, <2>4
<1>3. QED  BY <1>1, <1>2

\* A sum is bounded by the number of its terms other than zero times their bound.
LEMMA SumBound ==
    ASSUME NEW D, IsFiniteSet(D), NEW A \in SUBSET D, NEW f \in [D -> Int], NEW b \in Nat,
           \A x \in D : -b <= f[x] /\ f[x] <= b, \A x \in D \ A : f[x] = 0
    PROVE  /\ SumFunction(f) <= Cardinality(A) * b
           /\ -(Cardinality(A) * b) <= SumFunction(f)
<1>1. PICK g \in [SUBSET D -> Int] : SumsUp(g, f, D) /\ SumFunction(f) = g[D]
  BY SumEquation
<1> DEFINE n(s) == Cardinality(s \cap A)
           T == {s \in SUBSET D : ~(g[s] <= n(s) * b /\ -(n(s) * b) <= g[s])}
<1>2. T = {}
  <2> SUFFICES ASSUME T # {} PROVE FALSE
    OBVIOUS
  <2>1. PICK s \in T : \A y \in s : s \ {y} \notin T
    BY MinimalSubset
  <2>2. n({}) = 0 /\ g[{}] = 0
    <3>1. {} \cap A = {}  OBVIOUS
    <3>2. QED  BY <1>1, <3>1, FS_EmptySet DEF SumsUp
  <2>3. s # {}
    <3>1. \A i \in Nat : 0 * i = 0 /\ -(0 * i) = 0
      <4> HIDE DEF T
      <4>1. QED  OBVIOUS
    <3>2. {} \notin T  BY <2>2, <3>1
    <3>3. QED  BY <2>1, <3>2
  <2> DEFINE x == First(s)
             r == s \ {x}
  <2>4. x \in s /\ x \in D /\ r \in SUBSET D
    BY <2>1, <2>3, FirstIn
  <2>5. g[s] = f[x] + g[r]
    BY <1>1, <2>1, <2>3 DEF SumsUp
  <2>6. g[r] <= n(r) * b /\ -(n(r) * b) <= g[r]
    BY <2>1, <2>4
  <2>7. ~(g[s] <= n(s) * b /\ -(n(s) * b) <= g[s])
    BY <2>1
  <2>8. IsFiniteSet(s \cap A) /\ n(s) \in Nat /\ n(r) \in Nat
    <3>1. IsFiniteSet(s \cap A) /\ IsFiniteSet(r \cap A)
      BY <2>1, FS_Subset
    <3>2. QED  BY <3>1, FS_CardinalityType
  <2> DEFINE v == g[r]
             w == f[x]
  <2>9. v \in Int /\ w \in Int /\ -b <= w /\ w <= b
    BY <2>4
  <2>10. CASE x \in A
    <3>1. r \cap A = (s \cap A) \ {x} /\ x \in s \cap A
      BY <2>4, <2>10
    <3>2. n(r) = n(s) - 1
      <4> DEFINE U == s \cap A
      <4>1. IsFiniteSet(U) /\ x \in U /\ r \cap A = U \ {x}
        BY <2>8, <3>1
      <4> HIDE DEF U, x, r
      <4>2. Cardinality(U \ {x}) = Cardinality(U) - 1
        BY <4>1, FS_RemoveElement
      <4>3. QED  BY <4>1, <4>2 DEF U
    <3> DEFINE m == n(r)
    <3>3. n(s) = m + 1 /\ m \in Nat
      BY <2>8, <3>2
    <3>4. (m + 1) * b = m * b + b /\ m * b \in Int
      <4> HIDE DEF m
      <4>1. QED  BY <3>3
    <3>5. g[s] = w + v /\ v <= m * b /\ -(m * b) <= v
      BY <2>5, <2>6
    <3> HIDE DEF m, v, w
    <3>6. g[s] <= (m + 1) * b /\ -((m + 1) * b) <= g[s]
      BY <2>9, <3>4, <3>5
    <3>7. QED  BY <2>7, <3>3, <3>6
  <2>11. CASE x \notin A
    <3>1. r \cap A = s \cap A /\ w = 0
      BY <2>4, <2>11
    <3>2. n(r) = n(s)
      BY <3>1
    <3>3. g[s] = v
      <4>1. g[s] = 0 + v  BY <2>5, <3>1
      <4> HIDE DEF v
      <4>2. QED  BY <2>9, <4>1
    <3>4. QED  BY <2>6, <2>7, <3>2, <3>3
  <2>12. QED  BY <2>10, <2>11
<1>3. g[D] <= n(D) * b /\ -(n(D) * b) <= g[D]
  BY <1>2
<1>4. D \cap A = A
  OBVIOUS
<1>5. QED  BY <1>1, <1>3, <1>4

------------------------------------------------------------------------------
(* The inductive invariant *)

\* mod_state: the item a task counts is known from the call on, and what is to be
\* stored and to be added make up what was read and the delta.
OpSound ==
    /\ op \in [Tasks -> [pc : {"idle", "read", "cmpxchg", "zone", "global"},
                         zone : SUBSET Zones, delta : Int, mode : {-1, 0, 1},
                         o : Int, n : Int, z : Int]]
    /\ \A t \in Tasks : op[t].pc # "idle" => \E z \in Zones : op[t].zone = {z}
    /\ \A t \in Tasks : op[t].pc = "cmpxchg" =>
          /\ op[t].n \in -MaxThreshold..MaxThreshold
          /\ op[t].n + op[t].z = op[t].o + op[t].delta

\* refresh_cpu_vm_stats: one zone at a time, and nothing in hand between zones.
FoldSound ==
    /\ fold \in [Workers -> [left : SUBSET Zones, zone : SUBSET Zones, v : Int,
                             global : Int, busy : BOOLEAN]]
    /\ \A w \in Workers : fold[w].zone = {} \/ \E z \in Zones : fold[w].zone = {z}
    /\ \A w \in Workers : fold[w].zone = {} => fold[w].v = 0
    /\ \A w \in Workers : ~fold[w].busy => fold[w] = NoFold

\* Hotplug: one CPU at a time, which is online until it dies and has no work while
\* it goes down.
HpSound ==
    /\ hp \in [pc : {"idle", "down", "refresh", "folding", "dead", "up"}, cpu : SUBSET Cpus]
    /\ hp.pc = "idle" => hp.cpu = {}
    /\ hp.pc # "idle" => \E c \in Cpus : hp.cpu = {c}
    /\ hp.pc = "down" => hp.cpu \subseteq online \cap Removable /\ hp.cpu \cap timer = {}
    /\ hp.pc = "up" => hp.cpu \subseteq online
    /\ fold["hotplug"].busy <=> hp.pc = "folding"

\* What is left on a dead CPU is what refresh_cpu_vm_stats has still to take.
DeadClean ==
    \A c \in Cpus \ online, z \in Zones :
        \/ diff[c][z] = 0
        \/ c \in hp.cpu /\ (\/ hp.pc = "refresh"
                            \/ hp.pc = "folding" /\ z \in fold["hotplug"].left)

IInv == TypeOK /\ OpSound /\ FoldSound /\ HpSound /\ DeadClean /\ Conserved

\* calculate_normal_threshold with k CPUs online
NormalThreshold(z, k) == Min2(MaxThreshold, 2 * fls(k) * (1 + SizeClass[z]))

\* The thresholds, the differences and what tasks are about to store stay within
\* the threshold for k online CPUs.
Within(z, k) ==
    /\ \A c \in Cpus : thr[c][z] <= NormalThreshold(z, k)
    /\ \A c \in Cpus : Abs(diff[c][z]) <= NormalThreshold(z, k)
    /\ \A t \in Tasks : op[t].pc = "cmpxchg" /\ op[t].zone = {z} =>
           Abs(op[t].n) <= NormalThreshold(z, k)

\* As long as a zone has no mark, the most CPUs that were ever online together (k)
\* could not take its counter too far off; old thresholds and differences are
\* those of at most k CPUs.
DriftBounded ==
    \A z \in Zones : ~mark[z] =>
        \E k \in 0..Cardinality(Cpus) :
            /\ hp.pc # "up" => Cardinality(online) <= k
            /\ k * NormalThreshold(z, k) <= Distance[z]
            /\ Within(z, k)

------------------------------------------------------------------------------
(* Arithmetic of the thresholds *)

\* A value of the counter's width is stored as it is (vm_stat_diff).
LEMMA WrapFits ==
    ASSUME NEW n \in -MaxThreshold - 1..MaxThreshold + 1
    PROVE  Wrap(n) = n
<1> DEFINE a == n + Half
           b == 2 * Half
<1>1. a \in Nat /\ b \in Nat /\ a < b
  BY VmStatAssumption
<1> HIDE DEF a, b
<1>2. a % b = a
  BY <1>1
<1>3. QED  BY <1>2, VmStatAssumption DEF Wrap, a, b

LEMMA FlsMonotone ==
    ASSUME NEW m \in Nat, NEW n \in Nat, m <= n
    PROVE  fls(m) \in Nat /\ fls(n) \in Nat /\ fls(m) <= fls(n)
<1> DEFINE P(j) == {p \in 1..j : \E k \in 0..j : p = 2 ^ k}
<1>1. \A j \in Nat : IsFiniteSet(1..j)
  BY FS_Interval
<1>2. IsFiniteSet(P(m)) /\ IsFiniteSet(P(n))
  <2>1. P(m) \in SUBSET (1..m) /\ P(n) \in SUBSET (1..n)
    OBVIOUS
  <2>2. QED  BY <1>1, <2>1, FS_Subset
<1>3. P(m) \in SUBSET P(n)
  <2>1. 1..m \subseteq 1..n /\ 0..m \subseteq 0..n
    OBVIOUS
  <2>2. QED  BY <2>1
<1> HIDE DEF P
<1>4. Cardinality(P(m)) \in Nat /\ Cardinality(P(n)) \in Nat
      /\ Cardinality(P(m)) <= Cardinality(P(n))
  BY <1>2, <1>3, FS_CardinalityType, FS_Subset
<1>5. QED  BY <1>4 DEF fls, P

\* The threshold for k CPUs is within its cap and grows with k.
LEMMA ThresholdMonotone ==
    ASSUME NEW z \in Zones, NEW j \in Nat, NEW k \in Nat, j <= k
    PROVE  /\ NormalThreshold(z, j) \in 0..MaxThreshold
           /\ NormalThreshold(z, k) \in 0..MaxThreshold
           /\ NormalThreshold(z, j) <= NormalThreshold(z, k)
<1> DEFINE f == fls(j)
           g == fls(k)
           s == 1 + SizeClass[z]
<1>1. f \in Nat /\ g \in Nat /\ f <= g /\ s \in Nat /\ MaxThreshold \in Nat
  BY FlsMonotone, VmStatAssumption
<1> HIDE DEF f, g, s
<1>2. 2 * f * s \in Nat /\ 2 * g * s \in Nat /\ 2 * f * s <= 2 * g * s
  <2>1. PICK d \in Nat : g = f + d
    <3>1. g - f \in Nat /\ g = f + (g - f)  BY <1>1
    <3>2. QED  BY <3>1
  <2>2. f * s \in Nat /\ d * s \in Nat /\ g * s = f * s + d * s
    BY <1>1, <2>1
  <2>3. 2 * f * s = 2 * (f * s) /\ 2 * g * s = 2 * (g * s)
    BY <1>1
  <2>4. QED  BY <2>2, <2>3
<1>3. QED  BY <1>1, <1>2 DEF NormalThreshold, Min2, f, g, s

\* Some CPU is always online.
LEMMA OnlineSize ==
    ASSUME TypeOK
    PROVE  Cardinality(online) \in 1..Cardinality(Cpus) /\ IsFiniteSet(online)
<1>1. IsFiniteSet(online) /\ Cardinality(online) <= Cardinality(Cpus)
      /\ Cardinality(online) \in Nat /\ Cardinality(Cpus) \in Nat
  BY VmStatAssumption, FS_Subset, FS_CardinalityType DEF TypeOK
<1>2. online # {}
  BY VmStatAssumption DEF TypeOK
<1>3. Cardinality(online) # 0
  BY <1>1, <1>2, FS_EmptySet
<1>4. QED  BY <1>1, <1>3

LEMMA NormalIs ==
    ASSUME NEW z, NEW on
    PROVE  calculate_normal_threshold(z, on) = NormalThreshold(z, Cardinality(on))
BY DEF calculate_normal_threshold, NormalThreshold

LEMMA PressureType ==
    ASSUME TypeOK, NEW z \in Zones
    PROVE  calculate_pressure_threshold(z, online) \in 0..MaxThreshold
<1> DEFINE d == Distance[z] \div Cardinality(online)
<1>1. d \in Int
  BY OnlineSize, VmStatAssumption
<1> HIDE DEF d
<1>2. QED  BY <1>1, VmStatAssumption DEF calculate_pressure_threshold, Min2, Max2, d

------------------------------------------------------------------------------
(* How the sums move *)

TotalDiffs == SumFunction([z \in Zones |-> InDiffs(z)])

\* One difference moves: so do the zone's sum and the sum over the zones.
LEMMA DiffSums ==
    ASSUME diff \in [Cpus -> [Zones -> Int]], NEW c \in Cpus, NEW z \in Zones, NEW n \in Int,
           diff' = [diff EXCEPT ![c][z] = n]
    PROVE  /\ InDiffs(z)' = InDiffs(z) + (n - diff[c][z])
           /\ \A y \in Zones \ {z} : InDiffs(y)' = InDiffs(y)
           /\ TotalDiffs' = TotalDiffs + (n - diff[c][z])
<1> DEFINE F(y) == [b \in Cpus |-> diff[b][y]]
           G(y) == [b \in Cpus |-> diff'[b][y]]
           P    == [y \in Zones |-> InDiffs(y)]
           Q    == [y \in Zones |-> InDiffs(y)']
<1>1. \A y \in Zones : F(y) \in [Cpus -> Int] /\ G(y) \in [Cpus -> Int]
  OBVIOUS
<1>2. \A y \in Zones : InDiffs(y) = SumFunction(F(y)) /\ InDiffs(y)' = SumFunction(G(y))
  BY DEF InDiffs
<1>3. \A b \in Cpus \ {c} : G(z)[b] = F(z)[b]
  OBVIOUS
<1>4. G(z)[c] = n /\ F(z)[c] = diff[c][z] /\ diff[c][z] \in Int
  OBVIOUS
<1>5. \A y \in Zones \ {z} : G(y) = F(y)
  OBVIOUS
<1> HIDE DEF F, G
<1>6. SumFunction(G(z)) = SumFunction(F(z)) + (G(z)[c] - F(z)[c])
  <2>1. OneTerm(G(z), F(z), c, Cpus)
    BY <1>1, <1>3, VmStatAssumption DEF OneTerm
  <2>2. QED  BY <2>1, SumDelta
<1>7. \A y \in Zones : SumFunction(F(y)) \in Int /\ SumFunction(G(y)) \in Int
  BY <1>1, SumType, VmStatAssumption
<1>8. InDiffs(z)' = InDiffs(z) + (n - diff[c][z])
  BY <1>2, <1>4, <1>6, <1>7
<1>9. \A y \in Zones \ {z} : InDiffs(y)' = InDiffs(y)
  BY <1>2, <1>5
<1>10. P \in [Zones -> Int] /\ Q \in [Zones -> Int]
       /\ \A y \in Zones \ {z} : Q[y] = P[y]
  BY <1>2, <1>7, <1>9
<1>11. Q[z] = P[z] + (n - diff[c][z]) /\ P[z] \in Int /\ Q[z] \in Int
  BY <1>8, <1>10
<1>12. TotalDiffs = SumFunction(P) /\ TotalDiffs' = SumFunction(Q)
  BY DEF TotalDiffs
<1> HIDE DEF P, Q
<1>13. SumFunction(Q) = SumFunction(P) + (Q[z] - P[z])
  <2>1. OneTerm(Q, P, z, Zones)
    BY <1>10, VmStatAssumption DEF OneTerm
  <2>2. QED  BY <2>1, SumDelta
<1>14. SumFunction(P) \in Int
  BY <1>10, SumType, VmStatAssumption
<1>15. TotalDiffs' = TotalDiffs + (n - diff[c][z])
  BY <1>4, <1>11, <1>12, <1>13, <1>14
<1>16. QED  BY <1>8, <1>9, <1>15

\* Every sum of the counters is an integer.
LEMMA SumTypes ==
    ASSUME TypeOK, OpSound, FoldSound
    PROVE  /\ \A y \in Zones : InDiffs(y) \in Int /\ ForZone(y) \in Int
           /\ \A y \in Zones : SumFunction(OpZone(y)) \in Int /\ SumFunction(FoldZone(y)) \in Int
           /\ SumFunction(OpGlobal) \in Int /\ SumFunction(FoldGlobal) \in Int
           /\ TotalDiffs \in Int /\ ForGlobal \in Int /\ SumFunction(truth) \in Int
<1>1. IsFiniteSet(Cpus) /\ IsFiniteSet(Zones) /\ IsFiniteSet(Tasks) /\ IsFiniteSet(Workers)
  BY VmStatAssumption, FS_AddElement DEF Workers
<1>2. \A y \in Zones : InDiffs(y) \in Int
  <2>1. ASSUME NEW y \in Zones PROVE [c \in Cpus |-> diff[c][y]] \in [Cpus -> Int]
    BY VmStatAssumption DEF TypeOK
  <2>2. QED  BY <1>1, <2>1, SumType DEF InDiffs
<1>3. TotalDiffs \in Int
  <2> DEFINE P == [y \in Zones |-> InDiffs(y)]
  <2>1. P \in [Zones -> Int]  BY <1>2
  <2> HIDE DEF P
  <2>2. SumFunction(P) \in Int  BY <1>1, <2>1, SumType
  <2>3. QED  BY <2>2 DEF TotalDiffs, P
<1>4. SumFunction(truth) \in Int
  <2>1. truth \in [Zones -> Int]  BY VmStatAssumption DEF TypeOK
  <2>2. QED  BY <1>1, <2>1, SumType
<1>5. \A y \in Zones : SumFunction(OpZone(y)) \in Int
  <2>1. ASSUME NEW y \in Zones PROVE OpZone(y) \in [Tasks -> Int]
    BY DEF OpZone, OpSound
  <2>2. QED  BY <1>1, <2>1, SumType
<1>6. \A y \in Zones : SumFunction(FoldZone(y)) \in Int
  <2>1. ASSUME NEW y \in Zones PROVE FoldZone(y) \in [Workers -> Int]
    BY DEF FoldZone, FoldSound
  <2>2. QED  BY <1>1, <2>1, SumType
<1>7. SumFunction(OpGlobal) \in Int
  <2>1. OpGlobal \in [Tasks -> Int]  BY DEF OpGlobal, OpSound
  <2>2. QED  BY <1>1, <2>1, SumType
<1>8. SumFunction(FoldGlobal) \in Int
  <2>1. FoldGlobal \in [Workers -> Int]  BY DEF FoldGlobal, FoldSound
  <2>2. QED  BY <1>1, <2>1, SumType
<1>9. QED  BY <1>2, <1>3, <1>4, <1>5, <1>6, <1>7, <1>8 DEF ForZone, ForGlobal

\* One task's update moves on.
LEMMA OpSums ==
    ASSUME OpSound, OpSound', NEW t \in Tasks, \A u \in Tasks \ {t} : op'[u] = op[u]
    PROVE  /\ \A y \in Zones : SumFunction(OpZone(y))'
                 = SumFunction(OpZone(y)) + (OpZone(y)'[t] - OpZone(y)[t])
           /\ SumFunction(OpGlobal)' = SumFunction(OpGlobal) + (OpGlobal'[t] - OpGlobal[t])
<1>1. ASSUME NEW y \in Zones
      PROVE  SumFunction(OpZone(y))'
                 = SumFunction(OpZone(y)) + (OpZone(y)'[t] - OpZone(y)[t])
  <2>1. OneTerm(OpZone(y)', OpZone(y), t, Tasks)
    BY VmStatAssumption DEF OneTerm, OpZone, OpSound
  <2>2. QED  BY <2>1, SumDelta
<1>2. SumFunction(OpGlobal)' = SumFunction(OpGlobal) + (OpGlobal'[t] - OpGlobal[t])
  <2>1. OneTerm(OpGlobal', OpGlobal, t, Tasks)
    BY VmStatAssumption DEF OneTerm, OpGlobal, OpSound
  <2>2. QED  BY <2>1, SumDelta
<1>3. QED  BY <1>1, <1>2

\* One worker's folding moves on.
LEMMA FoldSums ==
    ASSUME FoldSound, FoldSound', NEW w \in Workers,
           \A u \in Workers \ {w} : fold'[u] = fold[u]
    PROVE  /\ \A y \in Zones : SumFunction(FoldZone(y))'
                 = SumFunction(FoldZone(y)) + (FoldZone(y)'[w] - FoldZone(y)[w])
           /\ SumFunction(FoldGlobal)'
                 = SumFunction(FoldGlobal) + (FoldGlobal'[w] - FoldGlobal[w])
<1> IsFiniteSet(Workers)
  BY VmStatAssumption, FS_AddElement DEF Workers
<1>1. ASSUME NEW y \in Zones
      PROVE  SumFunction(FoldZone(y))'
                 = SumFunction(FoldZone(y)) + (FoldZone(y)'[w] - FoldZone(y)[w])
  <2>1. OneTerm(FoldZone(y)', FoldZone(y), w, Workers)
    BY DEF OneTerm, FoldZone, FoldSound
  <2>2. QED  BY <2>1, SumDelta
<1>2. SumFunction(FoldGlobal)' = SumFunction(FoldGlobal) + (FoldGlobal'[w] - FoldGlobal[w])
  <2>1. OneTerm(FoldGlobal', FoldGlobal, w, Workers)
    BY DEF OneTerm, FoldGlobal, FoldSound
  <2>2. QED  BY <2>1, SumDelta
<1>3. QED  BY <1>1, <1>2

\* The truth moves by d at zone z.
LEMMA TruthSum ==
    ASSUME TypeOK, NEW z \in Zones, NEW d \in Int, truth' = [truth EXCEPT ![z] = @ + d]
    PROVE  SumFunction(truth)' = SumFunction(truth) + d
<1> DEFINE h == truth'
<1>1. OneTerm(h, truth, z, Zones) /\ h[z] - truth[z] = d
  BY VmStatAssumption DEF OneTerm, TypeOK
<1> HIDE DEF h
<1>2. SumFunction(h) = SumFunction(truth) + (h[z] - truth[z])
  BY <1>1, SumDelta
<1>3. QED  BY <1>1, <1>2 DEF h

LEMMA ThreeTerms ==
    ASSUME NEW p \in Int, NEW q \in Int, NEW r \in Int, NEW a \in Int, NEW b \in Int,
           NEW e \in Int
    PROVE  (p + a) + (q + b) + (r + e) = (p + q + r) + (a + b + e)
OBVIOUS

\* A step that moves a to the zone's counter, b to its differences and e to what is
\* on its way (f to the global counter, g to what is on its way to it); the truth
\* moves by d.
Moves(z, a, b, d, e, f, g) ==
    /\ z \in Zones /\ a \in Int /\ b \in Int /\ d \in Int /\ e \in Int /\ f \in Int /\ g \in Int
    /\ a + b + e = d /\ f + b + g = d
    /\ zstat' = [zstat EXCEPT ![z] = @ + a] /\ global' = global + f
    /\ truth' = [truth EXCEPT ![z] = @ + d]
    /\ InDiffs(z)' = InDiffs(z) + b /\ \A y \in Zones \ {z} : InDiffs(y)' = InDiffs(y)
    /\ TotalDiffs' = TotalDiffs + b
    /\ ForZone(z)' = ForZone(z) + e /\ \A y \in Zones \ {z} : ForZone(y)' = ForZone(y)
    /\ ForGlobal' = ForGlobal + g

\* Such a step conserves the counters.
LEMMA Balance ==
    ASSUME TypeOK, OpSound, FoldSound, Conserved,
           NEW z, NEW a, NEW b, NEW d, NEW e, NEW f, NEW g, Moves(z, a, b, d, e, f, g)
    PROVE  Conserved'
<1> USE DEF Moves
<1>1. ASSUME NEW y \in Zones
      PROVE  zstat'[y] + InDiffs(y)' + ForZone(y)' = truth'[y]
  <2>1. zstat[y] + InDiffs(y) + ForZone(y) = truth[y]
    BY DEF Conserved
  <2>2. zstat[y] \in Int /\ InDiffs(y) \in Int /\ ForZone(y) \in Int /\ truth[y] \in Int
    BY SumTypes, VmStatAssumption DEF TypeOK
  <2>3. CASE y # z
    <3>1. zstat'[y] = zstat[y] /\ truth'[y] = truth[y]
      BY <2>3 DEF TypeOK
    <3>2. QED  BY <2>1, <2>3, <3>1
  <2>4. CASE y = z
    <3>1. zstat'[y] = zstat[y] + a /\ truth'[y] = truth[y] + d
      BY <2>4 DEF TypeOK
    <3>2. InDiffs(y)' = InDiffs(y) + b /\ ForZone(y)' = ForZone(y) + e
      BY <2>4
    <3>3. (zstat[y] + a) + (InDiffs(y) + b) + (ForZone(y) + e) = truth[y] + d
      BY <2>1, <2>2, ThreeTerms
    <3>4. QED  BY <3>1, <3>2, <3>3
  <2>5. QED  BY <2>3, <2>4
<1>2. global' + TotalDiffs' + ForGlobal' = SumFunction(truth)'
  <2>1. global + TotalDiffs + ForGlobal = SumFunction(truth)
    BY DEF Conserved, TotalDiffs
  <2>2. SumFunction(truth)' = SumFunction(truth) + d
    BY TruthSum
  <2>3. global \in Int /\ TotalDiffs \in Int /\ ForGlobal \in Int /\ SumFunction(truth) \in Int
    BY SumTypes DEF TypeOK
  <2>4. (global + f) + (TotalDiffs + b) + (ForGlobal + g) = SumFunction(truth) + d
    BY <2>1, <2>3, ThreeTerms
  <2>5. QED  BY <2>2, <2>4
<1>3. QED  BY <1>1, <1>2 DEF Conserved, TotalDiffs

------------------------------------------------------------------------------
(* The invariant is inductive *)

LEMMA InitSound == ASSUME Init PROVE IInv
<1>1. TypeOK
  <2>1. IsFiniteSet(online) /\ Cardinality(online) \in Nat
    BY VmStatAssumption, FS_Subset, FS_CardinalityType DEF Init
  <2>2. \A z \in Zones : calculate_normal_threshold(z, online) \in 0..MaxThreshold
    BY <2>1, NormalIs, ThresholdMonotone
  <2>3. \A z \in Zones : MayDrift(z, online) \in BOOLEAN
    BY DEF MayDrift
  <2>4. /\ thr \in [Cpus -> [Zones -> 0..MaxThreshold]]
        /\ mark \in [Zones -> BOOLEAN]
    BY <2>2, <2>3, VmStatAssumption DEF Init
  <2>5. /\ diff \in [Cpus -> [Zones -> -MaxThreshold..MaxThreshold]]
        /\ truth \in [Zones -> Lo..Hi]
    BY VmStatAssumption DEF Init
  <2>6. \A w \in Workers : fold[w].left \subseteq Zones /\ fold[w].busy \in BOOLEAN
    BY DEF Init, NoFold
  <2>7. /\ zstat \in [Zones -> Int] /\ global \in Int /\ hp.pc = "idle"
        /\ Cpus \ Removable \subseteq online /\ online \subseteq Cpus /\ timer \subseteq online
    BY DEF Init
  <2>8. QED  BY <2>4, <2>5, <2>6, <2>7 DEF TypeOK
<1>2. OpSound /\ FoldSound /\ HpSound /\ DeadClean
  BY DEF Init, OpSound, FoldSound, HpSound, DeadClean, NoOp, NoFold, Workers
<1>3. Conserved
  <2>1. IsFiniteSet(Cpus) /\ IsFiniteSet(Zones) /\ IsFiniteSet(Tasks) /\ IsFiniteSet(Workers)
    BY VmStatAssumption, FS_AddElement DEF Workers
  <2>2. ASSUME NEW z \in Zones PROVE InDiffs(z) = 0
    <3> DEFINE f == [c \in Cpus |-> diff[c][z]]
    <3>1. f \in [Cpus -> Int] /\ \A c \in Cpus : f[c] = 0
      BY DEF Init
    <3> HIDE DEF f
    <3>2. SumFunction(f) = 0  BY <2>1, <3>1, SumZero
    <3>3. QED  BY <3>2 DEF InDiffs, f
  <2>3. SumFunction([z \in Zones |-> InDiffs(z)]) = 0
    <3> DEFINE f == [z \in Zones |-> InDiffs(z)]
    <3>1. f \in [Zones -> Int] /\ \A z \in Zones : f[z] = 0
      BY <2>2
    <3> HIDE DEF f
    <3>2. SumFunction(f) = 0  BY <2>1, <3>1, SumZero
    <3>3. QED  BY <3>2 DEF f
  <2>4. ASSUME NEW z \in Zones PROVE SumFunction(OpZone(z)) = 0 /\ SumFunction(FoldZone(z)) = 0
    <3>1. OpZone(z) \in [Tasks -> Int] /\ \A t \in Tasks : OpZone(z)[t] = 0
      BY DEF Init, OpZone, NoOp
    <3>2. FoldZone(z) \in [Workers -> Int] /\ \A w \in Workers : FoldZone(z)[w] = 0
      BY DEF Init, FoldZone, NoFold
    <3>3. QED  BY <2>1, <3>1, <3>2, SumZero
  <2>5. SumFunction(OpGlobal) = 0 /\ SumFunction(FoldGlobal) = 0
    <3>1. OpGlobal \in [Tasks -> Int] /\ \A t \in Tasks : OpGlobal[t] = 0
      BY DEF Init, OpGlobal, NoOp
    <3>2. FoldGlobal \in [Workers -> Int] /\ \A w \in Workers : FoldGlobal[w] = 0
      BY DEF Init, FoldGlobal, NoFold
    <3>3. QED  BY <2>1, <3>1, <3>2, SumZero
  <2>6. SumFunction(truth) = 0
    <3>1. truth \in [Zones -> Int] /\ \A z \in Zones : truth[z] = 0
      BY DEF Init
    <3>2. QED  BY <2>1, <3>1, SumZero
  <2>7. \A z \in Zones : zstat[z] = 0 /\ truth[z] = 0
    BY DEF Init
  <2>8. global = 0  BY DEF Init
  <2>9. QED  BY <2>2, <2>3, <2>4, <2>5, <2>6, <2>7, <2>8 DEF Conserved, ForZone, ForGlobal
<1>4. QED  BY <1>1, <1>2, <1>3 DEF IInv

\* Nothing that Conserved speaks of moves.
LEMMA SameConserved ==
    ASSUME Conserved, UNCHANGED <<diff, zstat, global, truth>>,
           \A z \in Zones : ForZone(z)' = ForZone(z), ForGlobal' = ForGlobal
    PROVE  Conserved'
BY DEF Conserved, InDiffs

\* An update with interrupts disabled.
LEMMA ApplyStep ==
    ASSUME IInv, NEW c \in online, NEW z \in Zones, NEW d \in Int,
           NEW n \in -MaxThreshold..MaxThreshold, NEW x \in Int,
           n + x = diff[c][z] + d, InBounds(z, d), Apply(c, z, d, n, x)
    PROVE  IInv'
<1>1. n \in Int /\ diff \in [Cpus -> [Zones -> Int]] /\ c \in Cpus /\ diff[c][z] \in Int
  BY VmStatAssumption DEF IInv, TypeOK
<1>2. diff' = [diff EXCEPT ![c][z] = n]
  <2>1. n \in -MaxThreshold - 1..MaxThreshold + 1
    BY VmStatAssumption
  <2>2. QED  BY <2>1, WrapFits DEF Apply
<1>3. TypeOK'
  BY <1>1, <1>2, VmStatAssumption DEF IInv, TypeOK, Apply, InBounds, cpus
<1>4. OpSound' /\ FoldSound' /\ HpSound'
  BY DEF IInv, Apply, OpSound, FoldSound, HpSound, cpus
<1>5. DeadClean'
  BY <1>1, <1>2 DEF IInv, Apply, DeadClean, cpus
<1>6. Conserved'
  <2>1. /\ InDiffs(z)' = InDiffs(z) + (n - diff[c][z])
        /\ \A y \in Zones \ {z} : InDiffs(y)' = InDiffs(y)
        /\ TotalDiffs' = TotalDiffs + (n - diff[c][z])
    BY <1>1, <1>2, DiffSums
  <2>2. (\A y \in Zones : ForZone(y)' = ForZone(y)) /\ ForGlobal' = ForGlobal
    BY DEF Apply, ForZone, ForGlobal, OpZone, FoldZone, OpGlobal, FoldGlobal
  <2>3. ForZone(z) \in Int /\ ForGlobal \in Int
    BY SumTypes DEF IInv
  <2>4. /\ zstat' = [zstat EXCEPT ![z] = @ + x] /\ global' = global + x
        /\ truth' = [truth EXCEPT ![z] = @ + d]
    BY DEF Apply
  <2>5. /\ n - diff[c][z] \in Int /\ x + (n - diff[c][z]) + 0 = d
        /\ ForZone(z)' = ForZone(z) + 0 /\ ForGlobal' = ForGlobal + 0
    BY <1>1, <2>2, <2>3
  <2>6. TypeOK /\ OpSound /\ FoldSound /\ Conserved
    BY DEF IInv
  <2>7. Moves(z, x, n - diff[c][z], d, 0, x, 0)
    BY <2>1, <2>2, <2>4, <2>5 DEF Moves
  <2>8. QED  BY <2>6, <2>7, Balance
<1>7. QED  BY <1>3, <1>4, <1>5, <1>6 DEF IInv

LEMMA ModZoneStep ==
    ASSUME IInv, NEW c \in Cpus, NEW z \in Zones, NEW d \in Deltas, ModZone(c, z, d)
    PROVE  IInv'
<1> DEFINE x == d + diff[c][z]
<1>1. /\ c \in online /\ d \in Int /\ diff[c][z] \in -MaxThreshold..MaxThreshold
      /\ thr[c][z] \in 0..MaxThreshold /\ InBounds(z, d) /\ MaxThreshold \in Nat
  BY VmStatAssumption DEF IInv, TypeOK, ModZone
<1>2. x \in Int /\ 0 \in -MaxThreshold..MaxThreshold
  BY <1>1
<1>3. CASE Abs(x) > thr[c][z]
  <2>1. Apply(c, z, d, 0, x)
    BY <1>3 DEF ModZone
  <2>2. 0 + x = diff[c][z] + d
    BY <1>1
  <2> HIDE DEF x
  <2>3. QED  BY <1>1, <1>2, <2>1, <2>2, ApplyStep
<1>4. CASE ~(Abs(x) > thr[c][z])
  <2>1. Apply(c, z, d, x, 0)
    BY <1>4 DEF ModZone
  <2>2. x + 0 = diff[c][z] + d /\ x \in -MaxThreshold..MaxThreshold
    BY <1>1, <1>4 DEF Abs, Max2
  <2> HIDE DEF x
  <2>3. QED  BY <1>1, <2>1, <2>2, ApplyStep
<1>5. QED  BY <1>3, <1>4

LEMMA IncZoneStep ==
    ASSUME IInv, NEW c \in Cpus, NEW z \in Zones, IncZone(c, z)
    PROVE  IInv'
<1> DEFINE v == diff[c][z] + 1
           t == thr[c][z]
           h == t \div 2
<1>1. /\ c \in online /\ diff[c][z] \in -MaxThreshold..MaxThreshold
      /\ t \in 0..MaxThreshold /\ InBounds(z, 1) /\ MaxThreshold \in Nat
  BY VmStatAssumption DEF IInv, TypeOK, IncZone
<1>2. v \in -MaxThreshold - 1..MaxThreshold + 1 /\ v \in Int /\ h \in Int /\ 0 <= h /\ h <= t
  BY <1>1
<1>3. Wrap(v) = v
  BY <1>2, WrapFits
<1>4. IF v > t THEN Apply(c, z, 1, -h, v + h) ELSE Apply(c, z, 1, v, 0)
  BY <1>3 DEF IncZone, Over
<1>5. CASE v > t
  <2>1. Apply(c, z, 1, -h, v + h)
    BY <1>4, <1>5
  <2>2. -h + (v + h) = diff[c][z] + 1 /\ -h \in -MaxThreshold..MaxThreshold /\ v + h \in Int
    BY <1>1, <1>2
  <2> HIDE DEF v, h
  <2>3. QED  BY <1>1, <2>1, <2>2, ApplyStep
<1>6. CASE ~(v > t)
  <2>1. Apply(c, z, 1, v, 0)
    BY <1>4, <1>6
  <2>2. v + 0 = diff[c][z] + 1 /\ v \in -MaxThreshold..MaxThreshold
    BY <1>1, <1>2, <1>6
  <2> HIDE DEF v, h
  <2>3. QED  BY <1>1, <2>1, <2>2, ApplyStep
<1>7. QED  BY <1>5, <1>6

LEMMA DecZoneStep ==
    ASSUME IInv, NEW c \in Cpus, NEW z \in Zones, DecZone(c, z)
    PROVE  IInv'
<1> DEFINE v == diff[c][z] - 1
           t == thr[c][z]
           h == t \div 2
<1>1. /\ c \in online /\ diff[c][z] \in -MaxThreshold..MaxThreshold
      /\ t \in 0..MaxThreshold /\ InBounds(z, -1) /\ MaxThreshold \in Nat
  BY VmStatAssumption DEF IInv, TypeOK, DecZone
<1>2. v \in -MaxThreshold - 1..MaxThreshold + 1 /\ v \in Int /\ h \in Int /\ 0 <= h /\ h <= t
  BY <1>1
<1>3. Wrap(v) = v
  BY <1>2, WrapFits
<1>4. IF v < -t THEN Apply(c, z, -1, h, -(-v + h)) ELSE Apply(c, z, -1, v, 0)
  BY <1>3 DEF DecZone, Over
<1>5. CASE v < -t
  <2>1. Apply(c, z, -1, h, -(-v + h))
    BY <1>4, <1>5
  <2>2. h + -(-v + h) = diff[c][z] + -1 /\ h \in -MaxThreshold..MaxThreshold
        /\ -(-v + h) \in Int /\ -1 \in Int
    BY <1>1, <1>2
  <2> HIDE DEF v, h
  <2>3. QED  BY <1>1, <2>1, <2>2, ApplyStep
<1>6. CASE ~(v < -t)
  <2>1. Apply(c, z, -1, v, 0)
    BY <1>4, <1>6
  <2>2. v + 0 = diff[c][z] + -1 /\ v \in -MaxThreshold..MaxThreshold /\ -1 \in Int
    BY <1>1, <1>2, <1>6
  <2> HIDE DEF v, h
  <2>3. QED  BY <1>1, <2>1, <2>2, ApplyStep
<1>7. QED  BY <1>5, <1>6

------------------------------------------------------------------------------
(* mod_state *)

OpRecord == [pc : {"idle", "read", "cmpxchg", "zone", "global"}, zone : SUBSET Zones,
             delta : Int, mode : {-1, 0, 1}, o : Int, n : Int, z : Int]

Upd(p, pc, o, n, x) == [p EXCEPT !.pc = pc, !.o = o, !.n = n, !.z = x]
Call(p, zone, d, mode) ==
    [p EXCEPT !.pc = "read", !.zone = zone, !.delta = d, !.mode = mode]

LEMMA OpUpdate ==
    ASSUME NEW p \in OpRecord, NEW pc \in {"idle", "read", "cmpxchg", "zone", "global"},
           NEW o \in Int, NEW n \in Int, NEW x \in Int
    PROVE  /\ Upd(p, pc, o, n, x) \in OpRecord
           /\ Upd(p, pc, o, n, x).pc = pc
           /\ Upd(p, pc, o, n, x).zone = p.zone
           /\ Upd(p, pc, o, n, x).delta = p.delta
           /\ Upd(p, pc, o, n, x).o = o
           /\ Upd(p, pc, o, n, x).n = n
           /\ Upd(p, pc, o, n, x).z = x
BY DEF OpRecord, Upd

LEMMA OpCall ==
    ASSUME NEW p \in OpRecord, NEW zone \in SUBSET Zones, NEW d \in Int, NEW mode \in {-1, 0, 1}
    PROVE  /\ Call(p, zone, d, mode) \in OpRecord
           /\ Call(p, zone, d, mode).pc = "read"
           /\ Call(p, zone, d, mode).zone = zone
BY DEF OpRecord, Call

LEMMA NoOpType == NoOp \in OpRecord
BY DEF NoOp, OpRecord

\* What a task's step makes of its locals is sound.
LEMMA OpStep ==
    ASSUME OpSound, NEW t \in Tasks, NEW r \in OpRecord, op' = [op EXCEPT ![t] = r],
           r.pc # "idle" => \E z \in Zones : r.zone = {z},
           r.pc = "cmpxchg" => r.n \in -MaxThreshold..MaxThreshold /\ r.n + r.z = r.o + r.delta
    PROVE  OpSound'
<1>1. op \in [Tasks -> OpRecord]
  BY DEF OpSound, OpRecord
<1>2. op' \in [Tasks -> OpRecord] /\ op'[t] = r /\ \A u \in Tasks \ {t} : op'[u] = op[u]
  BY <1>1
<1>3. op' \in [Tasks -> [pc : {"idle", "read", "cmpxchg", "zone", "global"},
                        zone : SUBSET Zones, delta : Int, mode : {-1, 0, 1},
                        o : Int, n : Int, z : Int]]
  BY <1>2 DEF OpRecord
<1>4. \A u \in Tasks : op'[u].pc # "idle" => \E z \in Zones : op'[u].zone = {z}
  BY <1>2 DEF OpSound
<1>5. \A u \in Tasks : op'[u].pc = "cmpxchg" =>
          /\ op'[u].n \in -MaxThreshold..MaxThreshold
          /\ op'[u].n + op'[u].z = op'[u].o + op'[u].delta
  BY <1>2 DEF OpSound
<1>6. QED  BY <1>3, <1>4, <1>5 DEF OpSound

\* A task goes on without touching a counter; it has nothing on its way.
LEMMA OpQuiet ==
    ASSUME IInv, OpSound', NEW t \in Tasks, \A u \in Tasks \ {t} : op'[u] = op[u],
           op[t].pc \notin {"zone", "global"}, op'[t].pc \notin {"zone", "global"},
           UNCHANGED <<counters, cpus, fold, hp>>
    PROVE  IInv'
<1>1. TypeOK' /\ FoldSound' /\ HpSound' /\ DeadClean'
  BY DEF IInv, TypeOK, FoldSound, HpSound, DeadClean, counters, cpus
<1>2. \A y \in Zones : OpZone(y)' = OpZone(y)
  BY DEF OpZone
<1>3. OpGlobal' = OpGlobal
  BY DEF OpGlobal
<1>4. \A y \in Zones : FoldZone(y)' = FoldZone(y)
  BY DEF FoldZone
<1>5. FoldGlobal' = FoldGlobal
  BY DEF FoldGlobal
<1>6. Conserved'
  <2>1. (\A y \in Zones : ForZone(y)' = ForZone(y)) /\ ForGlobal' = ForGlobal
    BY <1>2, <1>3, <1>4, <1>5 DEF ForZone, ForGlobal
  <2>2. QED  BY <2>1, SameConserved DEF IInv, counters
<1>7. QED  BY <1>1, <1>6 DEF IInv

LEMMA ModStateStep ==
    ASSUME IInv, NEW t \in Tasks, NEW z \in Zones, NEW d \in Calls, ModState(t, z, d[1], d[2])
    PROVE  IInv'
<1>1. d[1] \in Int /\ d[2] \in {-1, 0, 1}
  BY VmStatAssumption
<1> DEFINE r == Call(NoOp, {z}, d[1], d[2])
<1>2. OpSound'
  <2>1. r \in OpRecord /\ r.pc = "read" /\ r.zone = {z}
    BY <1>1, NoOpType, OpCall
  <2>2. op' = [op EXCEPT ![t] = r] /\ OpSound
    BY DEF ModState, IInv, Call
  <2> HIDE DEF r
  <2>3. QED  BY <2>1, <2>2, OpStep
<1>3. /\ \A u \in Tasks \ {t} : op'[u] = op[u]
      /\ op[t].pc \notin {"zone", "global"} /\ op'[t].pc \notin {"zone", "global"}
      /\ UNCHANGED <<counters, cpus, fold, hp>>
  BY DEF IInv, OpSound, ModState, NoOp
<1>4. QED  BY <1>2, <1>3, OpQuiet

LEMMA ReadBothStep ==
    ASSUME IInv, NEW t \in Tasks, ReadBoth(t)
    PROVE  IInv'
<1>1. PICK z \in Zones : op[t].zone = {z}
  BY DEF IInv, OpSound, ReadBoth
<1>2. TheZone(t) = z
  BY <1>1 DEF TheZone
<1>3. PICK c \in online, d \in online :
        LET th == thr[c][z]
            o  == diff[d][z]
            n  == op[t].delta + o
            os == op[t].mode * (th \div 2)
        IN op' = [op EXCEPT ![t] = [@ EXCEPT !.pc = "cmpxchg", !.o = o,
                               !.n = IF Abs(n) > th THEN -os ELSE n,
                               !.z = IF Abs(n) > th THEN n + os ELSE 0]]
  BY <1>2 DEF ReadBoth
<1> DEFINE th == thr[c][z]
           o  == diff[d][z]
           n  == op[t].delta + o
           os == op[t].mode * (th \div 2)
           N  == IF Abs(n) > th THEN -os ELSE n
           Z  == IF Abs(n) > th THEN n + os ELSE 0
<1>4. op' = [op EXCEPT ![t] = [@ EXCEPT !.pc = "cmpxchg", !.o = o, !.n = N, !.z = Z]]
  BY <1>3
<1>5. /\ th \in 0..MaxThreshold /\ o \in -MaxThreshold..MaxThreshold
      /\ op[t].delta \in Int /\ op[t].mode \in {-1, 0, 1} /\ MaxThreshold \in Nat
  BY VmStatAssumption DEF IInv, TypeOK, OpSound
<1>6. os \in -MaxThreshold..MaxThreshold /\ n \in Int /\ o \in Int
  <2> HIDE DEF th, o
  <2>1. th \div 2 \in 0..MaxThreshold
    BY <1>5
  <2>2. op[t].mode * (th \div 2) \in {-(th \div 2), 0, th \div 2}
    BY <1>5, <2>1
  <2>3. QED  BY <1>5, <2>1, <2>2
<1>7. N \in -MaxThreshold..MaxThreshold /\ Z \in Int /\ N + Z = o + op[t].delta
  <2> HIDE DEF os, th, o
  <2>1. QED  BY <1>5, <1>6 DEF Abs, Max2
<1> HIDE DEF N, Z, o
<1> DEFINE r == Upd(op[t], "cmpxchg", o, N, Z)
<1>8. OpSound'
  <2>1. op[t] \in OpRecord /\ OpSound
    BY DEF IInv, OpSound, OpRecord
  <2>2. N \in Int
    BY <1>5, <1>7
  <2>3. /\ r \in OpRecord /\ r.zone = {z} /\ r.pc = "cmpxchg"
        /\ r.n = N /\ r.z = Z /\ r.o = o /\ r.delta = op[t].delta
    BY <1>1, <1>6, <1>7, <2>1, <2>2, OpUpdate
  <2>4. op' = [op EXCEPT ![t] = r]
    BY <1>4 DEF Upd
  <2> HIDE DEF r
  <2>5. QED  BY <1>7, <2>1, <2>3, <2>4, OpStep
<1>9. /\ \A u \in Tasks \ {t} : op'[u] = op[u]
      /\ op[t].pc \notin {"zone", "global"} /\ op'[t].pc \notin {"zone", "global"}
      /\ UNCHANGED <<counters, cpus, fold, hp>>
  BY <1>4 DEF IInv, OpSound, ReadBoth
<1>10. QED  BY <1>8, <1>9, OpQuiet

LEMMA CmpXchgStep ==
    ASSUME IInv, NEW t \in Tasks, CmpXchg(t)
    PROVE  IInv'
<1>1. PICK z \in Zones : op[t].zone = {z}
  BY DEF IInv, OpSound, CmpXchg
<1>2. TheZone(t) = z
  BY <1>1 DEF TheZone
<1>3. /\ op[t].pc = "cmpxchg" /\ InBounds(z, op[t].delta) /\ UNCHANGED <<cpus, fold, hp>>
      /\ op[t] \in OpRecord /\ op[t].n \in -MaxThreshold..MaxThreshold
      /\ op[t].n + op[t].z = op[t].o + op[t].delta
  BY <1>2 DEF IInv, OpSound, OpRecord, CmpXchg
<1>4. PICK c \in online :
        IF ~Exchanged(op[t].o, diff[c][z])
        THEN /\ op' = [op EXCEPT ![t] = [@ EXCEPT !.pc = "read", !.o = 0, !.n = 0, !.z = 0]]
             /\ UNCHANGED counters
        ELSE /\ diff' = [diff EXCEPT ![c][z] = Wrap(op[t].n)]
             /\ truth' = [truth EXCEPT ![z] = @ + op[t].delta]
             /\ op' = [op EXCEPT ![t] = IF op[t].z = 0 THEN NoOp
                          ELSE [NoOp EXCEPT !.pc = "zone", !.zone = {z}, !.z = op[t].z]]
             /\ UNCHANGED <<zstat, global>>
  BY <1>2 DEF CmpXchg
<1>5. CASE ~Exchanged(op[t].o, diff[c][z])
  <2> DEFINE r == Upd(op[t], "read", 0, 0, 0)
  <2>1. op' = [op EXCEPT ![t] = r] /\ UNCHANGED counters
    BY <1>4, <1>5 DEF Upd
  <2>2. r \in OpRecord /\ r.pc = "read" /\ r.zone = {z}
    BY <1>1, <1>3, OpUpdate
  <2> HIDE DEF r
  <2>3. OpSound'
    BY <2>1, <2>2, OpStep DEF IInv
  <2>4. /\ \A u \in Tasks \ {t} : op'[u] = op[u]
        /\ op[t].pc \notin {"zone", "global"} /\ op'[t].pc \notin {"zone", "global"}
        /\ UNCHANGED <<counters, cpus, fold, hp>>
    BY <1>3, <2>1, <2>2 DEF IInv, OpSound
  <2>5. QED  BY <2>3, <2>4, OpQuiet
<1>6. CASE Exchanged(op[t].o, diff[c][z])
  <2> DEFINE r == IF op[t].z = 0 THEN NoOp
                  ELSE [NoOp EXCEPT !.pc = "zone", !.zone = {z}, !.z = op[t].z]
  <2>1. /\ op[t].o = diff[c][z] /\ diff[c][z] \in Int /\ c \in Cpus
        /\ diff \in [Cpus -> [Zones -> Int]] /\ MaxThreshold \in Nat
    BY <1>6, VmStatAssumption DEF Exchanged, IInv, TypeOK
  <2>2. op[t].n \in Int /\ op[t].z \in Int /\ op[t].delta \in Int
    BY <1>3, <2>1 DEF OpRecord
  <2>3. diff' = [diff EXCEPT ![c][z] = op[t].n]
    <3>1. op[t].n \in -MaxThreshold - 1..MaxThreshold + 1
      BY <1>3, <2>1
    <3>2. QED  BY <1>4, <1>6, <3>1, WrapFits
  <2>4. /\ truth' = [truth EXCEPT ![z] = @ + op[t].delta] /\ op' = [op EXCEPT ![t] = r]
        /\ UNCHANGED <<zstat, global>>
    BY <1>4, <1>6
  <2>5. /\ r \in OpRecord /\ r.z = op[t].z
        /\ \/ r.pc = "idle" /\ r.z = 0
           \/ r.pc = "zone" /\ r.zone = {z}
    <3>1. CASE op[t].z = 0
      <4>1. r = [pc |-> "idle", zone |-> {}, delta |-> 0, mode |-> 0, o |-> 0, n |-> 0, z |-> 0]
        BY <3>1 DEF NoOp
      <4> HIDE DEF r
      <4>2. QED  BY <3>1, <4>1 DEF OpRecord
    <3>2. CASE op[t].z # 0
      <4>1. r = [pc |-> "zone", zone |-> {z}, delta |-> 0, mode |-> 0, o |-> 0, n |-> 0,
                 z |-> op[t].z]
        BY <3>2 DEF NoOp
      <4> HIDE DEF r
      <4>2. QED  BY <2>2, <4>1 DEF OpRecord
    <3>3. QED  BY <3>1, <3>2
  <2> HIDE DEF r
  <2>6. OpSound'
    <3>1. r.pc # "cmpxchg" /\ (r.pc # "idle" => r.zone = {z})
      BY <2>5
    <3>2. QED  BY <2>4, <2>5, <3>1, OpStep DEF IInv
  <2>7. TypeOK'
    BY <1>3, <2>1, <2>3, <2>4 DEF IInv, TypeOK, InBounds, cpus
  <2>8. FoldSound' /\ HpSound' /\ DeadClean'
    BY <1>3, <2>1, <2>3 DEF IInv, FoldSound, HpSound, DeadClean, cpus
  <2>9. op'[t] = r /\ \A u \in Tasks \ {t} : op'[u] = op[u]
    BY <2>4 DEF IInv, OpSound
  <2>10. /\ \A y \in Zones : SumFunction(OpZone(y))'
                 = SumFunction(OpZone(y)) + (OpZone(y)'[t] - OpZone(y)[t])
         /\ SumFunction(OpGlobal)' = SumFunction(OpGlobal) + (OpGlobal'[t] - OpGlobal[t])
    BY <2>6, <2>9, OpSums DEF IInv
  <2>11. /\ OpZone(z)'[t] = op[t].z /\ OpZone(z)[t] = 0
         /\ \A y \in Zones \ {z} : OpZone(y)'[t] = 0 /\ OpZone(y)[t] = 0
         /\ OpGlobal'[t] = op[t].z /\ OpGlobal[t] = 0
    BY <1>3, <2>5, <2>9 DEF OpZone, OpGlobal
  <2>12. (\A y \in Zones : FoldZone(y)' = FoldZone(y)) /\ FoldGlobal' = FoldGlobal
    BY <1>3 DEF FoldZone, FoldGlobal
  <2>13. /\ \A y \in Zones : SumFunction(OpZone(y)) \in Int /\ SumFunction(FoldZone(y)) \in Int
         /\ SumFunction(OpGlobal) \in Int /\ SumFunction(FoldGlobal) \in Int
    BY SumTypes DEF IInv
  <2>14. /\ ForZone(z)' = ForZone(z) + op[t].z
         /\ \A y \in Zones \ {z} : ForZone(y)' = ForZone(y)
         /\ ForGlobal' = ForGlobal + op[t].z
    BY <2>2, <2>10, <2>11, <2>12, <2>13 DEF ForZone, ForGlobal
  <2>15. /\ InDiffs(z)' = InDiffs(z) + (op[t].n - diff[c][z])
         /\ \A y \in Zones \ {z} : InDiffs(y)' = InDiffs(y)
         /\ TotalDiffs' = TotalDiffs + (op[t].n - diff[c][z])
    BY <2>1, <2>2, <2>3, DiffSums
  <2>16. zstat' = [zstat EXCEPT ![z] = @ + 0] /\ global' = global + 0
    <3>1. zstat \in [Zones -> Int] /\ global \in Int
      BY DEF IInv, TypeOK
    <3>2. zstat[z] + 0 = zstat[z] /\ global + 0 = global
      BY <3>1
    <3>3. [zstat EXCEPT ![z] = zstat[z]] = zstat
      BY <3>1
    <3>4. QED  BY <2>4, <3>2, <3>3
  <2>17. 0 + (op[t].n - diff[c][z]) + op[t].z = op[t].delta
    <3> DEFINE n == op[t].n
               o == diff[c][z]
               x == op[t].z
               d == op[t].delta
    <3>1. n + x = o + d /\ n \in Int /\ o \in Int /\ x \in Int /\ d \in Int
      BY <1>3, <2>1, <2>2
    <3> HIDE DEF n, o, x, d
    <3>2. 0 + (n - o) + x = d
      BY <3>1
    <3>3. QED  BY <3>2 DEF n, o, x, d
  <2>18. Moves(z, 0, op[t].n - diff[c][z], op[t].delta, op[t].z, 0, op[t].z)
    <3> DEFINE b == op[t].n - diff[c][z]
               x == op[t].z
               d == op[t].delta
    <3>1. b \in Int /\ x \in Int /\ d \in Int /\ 0 \in Int /\ 0 + b + x = d
      BY <2>1, <2>2, <2>17
    <3>2. ForZone(z)' = ForZone(z) + x /\ ForGlobal' = ForGlobal + x
      BY <2>14
    <3>3. InDiffs(z)' = InDiffs(z) + b /\ TotalDiffs' = TotalDiffs + b
      BY <2>15
    <3>4. truth' = [truth EXCEPT ![z] = @ + d]
      BY <2>4
    <3> HIDE DEF b, x, d
    <3>5. Moves(z, 0, b, d, x, 0, x)
      BY <2>14, <2>15, <2>16, <3>1, <3>2, <3>3, <3>4 DEF Moves
    <3>6. QED  BY <3>5 DEF b, x, d
  <2>19. Conserved'
    BY <2>18, Balance DEF IInv
  <2>20. QED  BY <2>6, <2>7, <2>8, <2>19 DEF IInv
<1>7. QED  BY <1>5, <1>6

LEMMA AddZoneStep ==
    ASSUME IInv, NEW t \in Tasks, AddZone(t)
    PROVE  IInv'
<1>1. PICK z \in Zones : op[t].zone = {z}
  BY DEF IInv, OpSound, AddZone
<1>2. TheZone(t) = z
  BY <1>1 DEF TheZone
<1> DEFINE x == op[t].z
           r == [op[t] EXCEPT !.pc = "global"]
<1>3. /\ op[t].pc = "zone" /\ op[t] \in OpRecord /\ x \in Int /\ op' = [op EXCEPT ![t] = r]
      /\ zstat' = [zstat EXCEPT ![z] = @ + x]
      /\ UNCHANGED <<diff, global, truth, cpus, fold, hp>>
  BY <1>2 DEF IInv, OpSound, OpRecord, AddZone
<1>4. r \in OpRecord /\ r.pc = "global" /\ r.zone = {z} /\ r.z = x
  BY <1>1, <1>3 DEF OpRecord
<1> HIDE DEF r
<1>5. OpSound'
  BY <1>3, <1>4, OpStep DEF IInv
<1>6. TypeOK'
  BY <1>3 DEF IInv, TypeOK, cpus
<1>7. FoldSound' /\ HpSound' /\ DeadClean'
  BY <1>3 DEF IInv, FoldSound, HpSound, DeadClean, cpus
<1>8. op'[t] = r /\ \A u \in Tasks \ {t} : op'[u] = op[u]
  BY <1>3 DEF IInv, OpSound
<1>9. /\ \A y \in Zones : SumFunction(OpZone(y))'
               = SumFunction(OpZone(y)) + (OpZone(y)'[t] - OpZone(y)[t])
      /\ SumFunction(OpGlobal)' = SumFunction(OpGlobal) + (OpGlobal'[t] - OpGlobal[t])
  BY <1>5, <1>8, OpSums DEF IInv
<1>10. /\ OpZone(z)'[t] = 0 /\ OpZone(z)[t] = x
       /\ \A y \in Zones \ {z} : OpZone(y)'[t] = 0 /\ OpZone(y)[t] = 0
       /\ OpGlobal'[t] = x /\ OpGlobal[t] = x
  BY <1>1, <1>3, <1>4, <1>8 DEF OpZone, OpGlobal
<1>11. (\A y \in Zones : FoldZone(y)' = FoldZone(y)) /\ FoldGlobal' = FoldGlobal
  BY <1>3 DEF FoldZone, FoldGlobal
<1>12. /\ \A y \in Zones : SumFunction(OpZone(y)) \in Int /\ SumFunction(FoldZone(y)) \in Int
       /\ SumFunction(OpGlobal) \in Int /\ SumFunction(FoldGlobal) \in Int
       /\ \A y \in Zones : InDiffs(y) \in Int /\ truth[y] \in Int
       /\ TotalDiffs \in Int /\ global \in Int
  BY SumTypes, VmStatAssumption DEF IInv, TypeOK
<1> HIDE DEF x
<1>13. /\ ForZone(z)' = ForZone(z) + -x
       /\ \A y \in Zones \ {z} : ForZone(y)' = ForZone(y)
       /\ ForGlobal' = ForGlobal + 0
  BY <1>3, <1>9, <1>10, <1>11, <1>12 DEF ForZone, ForGlobal
<1>14. /\ \A y \in Zones : InDiffs(y)' = InDiffs(y)
       /\ TotalDiffs' = TotalDiffs /\ truth' = truth /\ global' = global
  BY <1>3 DEF InDiffs, TotalDiffs
<1>15. /\ InDiffs(z)' = InDiffs(z) + 0 /\ TotalDiffs' = TotalDiffs + 0
       /\ global' = global + 0 /\ truth' = [truth EXCEPT ![z] = @ + 0]
  <2>1. truth \in [Zones -> Int]
    BY VmStatAssumption DEF IInv, TypeOK
  <2>2. truth[z] + 0 = truth[z]  BY <1>12
  <2>3. truth' = [truth EXCEPT ![z] = truth[z]]
    BY <1>14, <2>1
  <2>4. truth' = [truth EXCEPT ![z] = truth[z] + 0]
    BY <2>2, <2>3
  <2>5. InDiffs(z) + 0 = InDiffs(z) /\ TotalDiffs + 0 = TotalDiffs /\ global + 0 = global
    BY <1>12
  <2>6. QED  BY <1>14, <2>4, <2>5
<1>16. Moves(z, x, 0, 0, -x, 0, 0)
  <2> DEFINE y == -x
  <2>1. x \in Int /\ y \in Int /\ x + 0 + y = 0 /\ 0 + 0 + 0 = 0
    BY <1>3
  <2>2. ForZone(z)' = ForZone(z) + y
    BY <1>13
  <2> DEFINE o == 0
  <2>3. o \in Int /\ x + o + y = o /\ o + o + o = o
    BY <2>1
  <2>4. InDiffs(z)' = InDiffs(z) + o /\ TotalDiffs' = TotalDiffs + o /\ global' = global + o
        /\ ForGlobal' = ForGlobal + o
    BY <1>13, <1>15
  <2>5. truth' = [truth EXCEPT ![z] = truth[z] + o]
    BY <1>15
  <2> HIDE DEF o, y
  <2>6. Moves(z, x, o, o, y, o, o)
    BY <1>3, <1>13, <1>14, <2>1, <2>2, <2>3, <2>4, <2>5 DEF Moves
  <2>7. QED  BY <2>6 DEF o, y
<1>17. Conserved'
  BY <1>16, Balance DEF IInv
<1>18. QED  BY <1>5, <1>6, <1>7, <1>17 DEF IInv

LEMMA AddGlobalStep ==
    ASSUME IInv, NEW t \in Tasks, AddGlobal(t)
    PROVE  IInv'
<1>1. PICK z \in Zones : op[t].zone = {z}
  BY DEF IInv, OpSound, AddGlobal
<1> DEFINE x == op[t].z
<1>2. /\ op[t].pc = "global" /\ op[t] \in OpRecord /\ x \in Int /\ op' = [op EXCEPT ![t] = NoOp]
      /\ global' = global + x
      /\ UNCHANGED <<diff, zstat, truth, cpus, fold, hp>>
  BY DEF IInv, OpSound, OpRecord, AddGlobal
<1>3. NoOp \in OpRecord /\ NoOp.pc = "idle" /\ NoOp.z = 0
  BY NoOpType DEF NoOp
<1>4. OpSound'
  BY <1>2, <1>3, OpStep DEF IInv
<1>5. TypeOK'
  BY <1>2 DEF IInv, TypeOK, cpus
<1>6. FoldSound' /\ HpSound' /\ DeadClean'
  BY <1>2 DEF IInv, FoldSound, HpSound, DeadClean, cpus
<1>7. op'[t] = NoOp /\ \A u \in Tasks \ {t} : op'[u] = op[u]
  BY <1>2 DEF IInv, OpSound
<1>8. /\ \A y \in Zones : SumFunction(OpZone(y))'
               = SumFunction(OpZone(y)) + (OpZone(y)'[t] - OpZone(y)[t])
      /\ SumFunction(OpGlobal)' = SumFunction(OpGlobal) + (OpGlobal'[t] - OpGlobal[t])
  BY <1>4, <1>7, OpSums DEF IInv
<1>9. /\ \A y \in Zones : OpZone(y)'[t] = 0 /\ OpZone(y)[t] = 0
      /\ OpGlobal'[t] = 0 /\ OpGlobal[t] = x
  BY <1>2, <1>3, <1>7 DEF OpZone, OpGlobal
<1>10. (\A y \in Zones : FoldZone(y)' = FoldZone(y)) /\ FoldGlobal' = FoldGlobal
  BY <1>2 DEF FoldZone, FoldGlobal
<1>11. /\ \A y \in Zones : SumFunction(OpZone(y)) \in Int /\ SumFunction(FoldZone(y)) \in Int
       /\ SumFunction(OpGlobal) \in Int /\ SumFunction(FoldGlobal) \in Int
       /\ \A y \in Zones : InDiffs(y) \in Int /\ truth[y] \in Int /\ zstat[y] \in Int
       /\ \A y \in Zones : ForZone(y) \in Int
       /\ TotalDiffs \in Int /\ global \in Int
  BY SumTypes, VmStatAssumption DEF IInv, TypeOK
<1> HIDE DEF x
<1>12. /\ \A y \in Zones : ForZone(y)' = ForZone(y)
       /\ ForGlobal' = ForGlobal + -x
  BY <1>2, <1>8, <1>9, <1>10, <1>11 DEF ForZone, ForGlobal
<1>13. /\ \A y \in Zones : InDiffs(y)' = InDiffs(y)
       /\ TotalDiffs' = TotalDiffs /\ truth' = truth /\ zstat' = zstat
  BY <1>2 DEF InDiffs, TotalDiffs
<1>14. /\ InDiffs(z)' = InDiffs(z) + 0 /\ TotalDiffs' = TotalDiffs + 0
       /\ ForZone(z)' = ForZone(z) + 0
       /\ truth' = [truth EXCEPT ![z] = @ + 0] /\ zstat' = [zstat EXCEPT ![z] = @ + 0]
  <2>1. truth \in [Zones -> Int] /\ zstat \in [Zones -> Int]
    BY VmStatAssumption DEF IInv, TypeOK
  <2>2. truth[z] + 0 = truth[z] /\ zstat[z] + 0 = zstat[z]  BY <1>11
  <2>3. truth' = [truth EXCEPT ![z] = truth[z]] /\ zstat' = [zstat EXCEPT ![z] = zstat[z]]
    BY <1>13, <2>1
  <2>4. truth' = [truth EXCEPT ![z] = truth[z] + 0] /\ zstat' = [zstat EXCEPT ![z] = zstat[z] + 0]
    BY <2>2, <2>3
  <2>5. InDiffs(z) + 0 = InDiffs(z) /\ TotalDiffs + 0 = TotalDiffs /\ ForZone(z) + 0 = ForZone(z)
    BY <1>11
  <2>6. QED  BY <1>12, <1>13, <2>4, <2>5
<1>15. Moves(z, 0, 0, 0, 0, x, -x)
  <2> DEFINE y == -x
  <2>1. x \in Int /\ y \in Int /\ 0 + 0 + 0 = 0 /\ x + 0 + y = 0
    BY <1>2
  <2>2. ForGlobal' = ForGlobal + y
    BY <1>12
  <2> DEFINE o == 0
  <2>3. o \in Int /\ o + o + o = o /\ x + o + y = o
    BY <2>1
  <2>4. InDiffs(z)' = InDiffs(z) + o /\ TotalDiffs' = TotalDiffs + o /\ ForZone(z)' = ForZone(z) + o
    BY <1>14
  <2>5. truth' = [truth EXCEPT ![z] = truth[z] + o] /\ zstat' = [zstat EXCEPT ![z] = zstat[z] + o]
    BY <1>14
  <2> HIDE DEF o, y
  <2>6. Moves(z, o, o, o, o, x, y)
    BY <1>2, <1>12, <1>13, <2>1, <2>2, <2>3, <2>4, <2>5 DEF Moves
  <2>7. QED  BY <2>6 DEF o, y
<1>16. Conserved'
  BY <1>15, Balance DEF IInv
<1>17. QED  BY <1>4, <1>5, <1>6, <1>16 DEF IInv

------------------------------------------------------------------------------
(* refresh_cpu_vm_stats *)

FoldRecord == [left : SUBSET Zones, zone : SUBSET Zones, v : Int, global : Int, busy : BOOLEAN]

LEMMA FoldStep ==
    ASSUME FoldSound, NEW w \in Workers, NEW r \in FoldRecord, fold' = [fold EXCEPT ![w] = r],
           r.zone = {} \/ \E z \in Zones : r.zone = {z}, r.zone = {} => r.v = 0,
           ~r.busy => r = NoFold
    PROVE  FoldSound' /\ fold'[w] = r /\ \A u \in Workers \ {w} : fold'[u] = fold[u]
<1>1. fold \in [Workers -> FoldRecord]
  BY DEF FoldSound, FoldRecord
<1>2. fold' \in [Workers -> FoldRecord] /\ fold'[w] = r
      /\ \A u \in Workers \ {w} : fold'[u] = fold[u]
  BY <1>1
<1>3. fold' \in [Workers -> [left : SUBSET Zones, zone : SUBSET Zones, v : Int,
                             global : Int, busy : BOOLEAN]]
  BY <1>2 DEF FoldRecord
<1>4. \A u \in Workers : fold'[u].zone = {} \/ \E z \in Zones : fold'[u].zone = {z}
  BY <1>2 DEF FoldSound
<1>5. \A u \in Workers : fold'[u].zone = {} => fold'[u].v = 0
  BY <1>2 DEF FoldSound
<1>6. \A u \in Workers : ~fold'[u].busy => fold'[u] = NoFold
  BY <1>2 DEF FoldSound
<1>7. QED  BY <1>2, <1>3, <1>4, <1>5, <1>6 DEF FoldSound

\* A worker that folds has a CPU.
LEMMA CpuOfType ==
    ASSUME IInv, NEW w \in Workers, fold[w].busy
    PROVE  CpuOf(w) \in Cpus /\ (w = "hotplug" => hp.pc = "folding" /\ hp.cpu = {CpuOf(w)})
<1>1. CASE w = "hotplug"
  <2>1. hp.pc = "folding"
    BY <1>1 DEF IInv, HpSound
  <2>2. PICK c \in Cpus : hp.cpu = {c}
    BY <2>1 DEF IInv, HpSound
  <2>3. CpuOf(w) = c
    BY <1>1, <2>2 DEF CpuOf
  <2>4. QED  BY <2>1, <2>2, <2>3
<1>2. CASE w # "hotplug"
  BY <1>2 DEF CpuOf, Workers
<1>3. QED  BY <1>1, <1>2

\* The record of a folding that starts.
Started == [NoFold EXCEPT !.left = Zones, !.busy = TRUE]

LEMMA StartedType ==
    /\ Started \in FoldRecord /\ Started.zone = {} /\ Started.v = 0 /\ Started.global = 0
    /\ Started.busy /\ Started.left = Zones
<1>1. NoFold \in FoldRecord
  BY DEF NoFold, FoldRecord
<1>2. Started \in FoldRecord
  BY <1>1 DEF Started, FoldRecord
<1>3. /\ Started.zone = {} /\ Started.v = 0 /\ Started.global = 0
      /\ Started.busy /\ Started.left = Zones
  BY DEF Started, NoFold
<1>4. QED  BY <1>2, <1>3

\* Starting to fold moves no sum.
LEMMA StartStep ==
    ASSUME IInv, NEW w \in Workers, ~fold[w].busy, StartFold(w),
           UNCHANGED <<diff, zstat, global, truth, op>>
    PROVE  /\ FoldSound' /\ Conserved' /\ OpSound'
           /\ fold'[w] = Started /\ \A u \in Workers \ {w} : fold'[u] = fold[u]
<1>1. fold' = [fold EXCEPT ![w] = Started]
  BY DEF StartFold, Started
<1>2. FoldSound' /\ fold'[w] = Started /\ \A u \in Workers \ {w} : fold'[u] = fold[u]
  BY <1>1, StartedType, FoldStep DEF IInv
<1>3. fold[w].zone = {} /\ fold[w].v = 0 /\ fold[w].global = 0
  BY DEF IInv, FoldSound, NoFold
<1>4. \A y \in Zones : FoldZone(y)' = FoldZone(y)
  BY <1>2, <1>3, StartedType DEF FoldZone
<1>5. FoldGlobal' = FoldGlobal
  <2>1. \A u \in Workers : fold'[u].v + fold'[u].global = fold[u].v + fold[u].global
    BY <1>2, <1>3, StartedType
  <2>2. QED  BY <2>1 DEF FoldGlobal
<1>6. (\A y \in Zones : OpZone(y)' = OpZone(y)) /\ OpGlobal' = OpGlobal
  BY DEF OpZone, OpGlobal
<1>7. Conserved'
  <2>1. (\A y \in Zones : ForZone(y)' = ForZone(y)) /\ ForGlobal' = ForGlobal
    BY <1>4, <1>5, <1>6 DEF ForZone, ForGlobal
  <2>2. QED  BY <2>1, SameConserved DEF IInv
<1>8. OpSound'
  BY DEF IInv, OpSound
<1>9. QED  BY <1>2, <1>7, <1>8

LEMMA VmstatUpdateStep ==
    ASSUME IInv, NEW c \in Cpus, VmstatUpdate(c)
    PROVE  IInv'
<1>1. c \in Workers /\ c # "hotplug" /\ "hotplug" \in Workers
  BY VmStatAssumption DEF Workers
<1>2. /\ FoldSound' /\ Conserved' /\ OpSound'
      /\ fold'[c] = Started /\ \A u \in Workers \ {c} : fold'[u] = fold[u]
  BY <1>1, StartStep DEF VmstatUpdate, counters
<1>3. TypeOK'
  BY <1>2, StartedType DEF IInv, TypeOK, VmstatUpdate, counters, cpus
<1>4. HpSound' /\ DeadClean'
  BY <1>1, <1>2 DEF IInv, HpSound, DeadClean, VmstatUpdate, counters, cpus
<1>5. QED  BY <1>2, <1>3, <1>4 DEF IInv

\* What a worker's step changes on its way to the zones and the global counter.
LEMMA FoldMoves ==
    ASSUME IInv, FoldSound', NEW w \in Workers, \A u \in Workers \ {w} : fold'[u] = fold[u],
           op' = op, NEW z \in Zones, NEW e \in Int, NEW g \in Int,
           FoldZone(z)'[w] = FoldZone(z)[w] + e,
           \A y \in Zones \ {z} : FoldZone(y)'[w] = FoldZone(y)[w],
           FoldGlobal'[w] = FoldGlobal[w] + g
    PROVE  /\ ForZone(z)' = ForZone(z) + e
           /\ \A y \in Zones \ {z} : ForZone(y)' = ForZone(y)
           /\ ForGlobal' = ForGlobal + g
<1>1. /\ \A y \in Zones : SumFunction(FoldZone(y))'
               = SumFunction(FoldZone(y)) + (FoldZone(y)'[w] - FoldZone(y)[w])
      /\ SumFunction(FoldGlobal)' = SumFunction(FoldGlobal) + (FoldGlobal'[w] - FoldGlobal[w])
  BY FoldSums DEF IInv
<1>2. (\A y \in Zones : OpZone(y)' = OpZone(y)) /\ OpGlobal' = OpGlobal
  BY DEF OpZone, OpGlobal
<1>3. /\ \A y \in Zones : SumFunction(OpZone(y)) \in Int /\ SumFunction(FoldZone(y)) \in Int
      /\ SumFunction(OpGlobal) \in Int /\ SumFunction(FoldGlobal) \in Int
  BY SumTypes DEF IInv
<1>4. (\A y \in Zones : FoldZone(y)[w] \in Int) /\ FoldGlobal[w] \in Int
  BY DEF IInv, FoldSound, FoldZone, FoldGlobal
<1>5. SumFunction(FoldZone(z))' = SumFunction(FoldZone(z)) + e
  BY <1>1, <1>3, <1>4
<1>6. \A y \in Zones \ {z} : SumFunction(FoldZone(y))' = SumFunction(FoldZone(y))
  BY <1>1, <1>3, <1>4
<1>7. SumFunction(FoldGlobal)' = SumFunction(FoldGlobal) + g
  BY <1>1, <1>3, <1>4
<1>8. QED  BY <1>2, <1>3, <1>5, <1>6, <1>7 DEF ForZone, ForGlobal

\* A value that moves by nothing.
LEMMA NoMove ==
    ASSUME IInv, NEW z \in Zones
    PROVE  /\ truth = [truth EXCEPT ![z] = @ + 0] /\ zstat = [zstat EXCEPT ![z] = @ + 0]
           /\ InDiffs(z) = InDiffs(z) + 0 /\ TotalDiffs = TotalDiffs + 0
           /\ ForZone(z) = ForZone(z) + 0 /\ ForGlobal = ForGlobal + 0 /\ global = global + 0
<1>1. truth \in [Zones -> Int] /\ zstat \in [Zones -> Int]
  BY VmStatAssumption DEF IInv, TypeOK
<1>2. truth[z] + 0 = truth[z] /\ zstat[z] + 0 = zstat[z]
  BY <1>1
<1>3. truth = [truth EXCEPT ![z] = truth[z]] /\ zstat = [zstat EXCEPT ![z] = zstat[z]]
  BY <1>1
<1>4. truth = [truth EXCEPT ![z] = truth[z] + 0] /\ zstat = [zstat EXCEPT ![z] = zstat[z] + 0]
  BY <1>2, <1>3
<1>5. InDiffs(z) + 0 = InDiffs(z) /\ TotalDiffs + 0 = TotalDiffs /\ ForZone(z) + 0 = ForZone(z)
      /\ ForGlobal + 0 = ForGlobal /\ global + 0 = global
  BY SumTypes DEF IInv, TypeOK
<1>6. QED  BY <1>4, <1>5

LEMMA TakeDiffStep ==
    ASSUME IInv, NEW w \in Workers, TakeDiff(w)
    PROVE  IInv'
<1> DEFINE c == CpuOf(w)
<1>1. c \in Cpus /\ (w = "hotplug" => hp.pc = "folding" /\ hp.cpu = {c})
  BY CpuOfType DEF TakeDiff
<1>2. PICK z \in fold[w].left :
        LET v == diff[c][z]
        IN /\ fold' = [fold EXCEPT ![w] = [fold[w] EXCEPT !.left = @ \ {z}, !.v = v,
                                                          !.zone = IF v = 0 THEN {} ELSE {z}]]
           /\ diff' = [diff EXCEPT ![c][z] = 0]
  BY DEF TakeDiff
<1> DEFINE v == diff[c][z]
           x == IF v = 0 THEN {} ELSE {z}
           p == fold[w]
           r == [p EXCEPT !.left = @ \ {z}, !.v = v, !.zone = x]
<1>3. /\ fold' = [fold EXCEPT ![w] = r] /\ diff' = [diff EXCEPT ![c][z] = 0]
      /\ p.busy /\ p.zone = {} /\ p \in FoldRecord /\ p.v = 0 /\ z \in Zones
      /\ UNCHANGED <<zstat, global, truth, cpus, op, hp>>
  <2>1. fold' = [fold EXCEPT ![w] = r] /\ diff' = [diff EXCEPT ![c][z] = 0]
    BY <1>2
  <2>2. p.busy /\ p.zone = {} /\ UNCHANGED <<zstat, global, truth, cpus, op, hp>>
    BY DEF TakeDiff
  <2>3. p \in FoldRecord /\ p.v = 0
    BY <2>2 DEF IInv, FoldSound, FoldRecord
  <2>4. z \in Zones
    BY <2>3 DEF FoldRecord
  <2>5. QED  BY <2>1, <2>2, <2>3, <2>4
<1>4. v \in Int /\ diff \in [Cpus -> [Zones -> Int]]
  BY <1>1, <1>3, VmStatAssumption DEF IInv, TypeOK
<1>5. x \in SUBSET Zones /\ (x = {} \/ x = {z}) /\ (x = {} => v = 0) /\ (v = 0 => x = {})
  BY <1>3
<1> HIDE DEF x, v
<1>6. /\ r \in FoldRecord /\ r.zone = x /\ r.v = v /\ r.busy = p.busy
      /\ r.global = p.global /\ r.left = p.left \ {z}
  <2> HIDE DEF p
  <2>1. QED  BY <1>3, <1>4, <1>5 DEF FoldRecord
<1> HIDE DEF r, p
<1>7. FoldSound' /\ fold'[w] = r /\ \A u \in Workers \ {w} : fold'[u] = fold[u]
  BY <1>3, <1>5, <1>6, FoldStep DEF IInv
<1>8. OpSound'
  BY <1>3 DEF IInv, OpSound
<1>9. TypeOK'
  <2>1. diff' \in [Cpus -> [Zones -> -MaxThreshold..MaxThreshold]]
    BY <1>1, <1>3, VmStatAssumption DEF IInv, TypeOK
  <2>2. \A u \in Workers : fold'[u].left \subseteq Zones /\ fold'[u].busy \in BOOLEAN
    BY <1>7 DEF FoldSound
  <2>3. QED  BY <1>3, <2>1, <2>2 DEF IInv, TypeOK, cpus
<1>10. HpSound'
  <2>1. fold'["hotplug"].busy = fold["hotplug"].busy
    BY <1>6, <1>7 DEF Workers, p
  <2>2. QED  BY <1>3, <2>1 DEF IInv, HpSound, cpus
<1>11. DeadClean'
  <2> SUFFICES ASSUME NEW b \in Cpus \ online, NEW y \in Zones, diff'[b][y] # 0
               PROVE  b \in hp.cpu /\ (\/ hp.pc = "refresh"
                                       \/ hp.pc = "folding" /\ y \in fold'["hotplug"].left)
    BY <1>3 DEF DeadClean, cpus
  <2>1. diff[b][y] # 0 /\ ~(b = c /\ y = z)
    BY <1>1, <1>3, <1>4
  <2>2. b \in hp.cpu /\ (\/ hp.pc = "refresh"
                         \/ hp.pc = "folding" /\ y \in fold["hotplug"].left)
    BY <2>1 DEF IInv, DeadClean
  <2>3. CASE w # "hotplug"
    BY <1>7, <2>2, <2>3 DEF Workers
  <2>4. CASE w = "hotplug"
    BY <1>1, <1>6, <1>7, <2>1, <2>2, <2>4 DEF p
  <2>5. QED  BY <2>3, <2>4
<1>12. Conserved'
  <2>1. /\ FoldZone(z)'[w] = v /\ FoldZone(z)[w] = 0
        /\ \A y \in Zones \ {z} : FoldZone(y)'[w] = 0 /\ FoldZone(y)[w] = 0
        /\ FoldGlobal'[w] = v + p.global /\ FoldGlobal[w] = 0 + p.global
        /\ p.global \in Int
    <3>1. p.global \in Int /\ p = fold[w]
      BY <1>3 DEF FoldRecord, p
    <3>2. FoldGlobal'[w] = v + p.global /\ FoldGlobal[w] = 0 + p.global
      BY <1>3, <1>6, <1>7, <3>1 DEF FoldGlobal
    <3>3. \A y \in Zones : FoldZone(y)[w] = 0
      BY <1>3, <3>1 DEF FoldZone
    <3>4. \A y \in Zones \ {z} : FoldZone(y)'[w] = 0
      BY <1>5, <1>6, <1>7 DEF FoldZone
    <3>5. FoldZone(z)'[w] = v
      BY <1>3, <1>5, <1>6, <1>7 DEF FoldZone
    <3>6. QED  BY <1>3, <3>1, <3>2, <3>3, <3>4, <3>5
  <2>2. FoldZone(z)'[w] = FoldZone(z)[w] + v /\ FoldGlobal'[w] = FoldGlobal[w] + v
    BY <1>4, <2>1
  <2>3. \A y \in Zones \ {z} : FoldZone(y)'[w] = FoldZone(y)[w]
    BY <2>1
  <2>4. /\ ForZone(z)' = ForZone(z) + v
        /\ \A y \in Zones \ {z} : ForZone(y)' = ForZone(y)
        /\ ForGlobal' = ForGlobal + v
    BY <1>3, <1>4, <1>7, <2>2, <2>3, FoldMoves
  <2> DEFINE n == 0
             b == n - v
             o == 0
  <2>5. b \in Int /\ o \in Int /\ o + b + v = o
    BY <1>4
  <2>6. /\ InDiffs(z)' = InDiffs(z) + b /\ \A y \in Zones \ {z} : InDiffs(y)' = InDiffs(y)
        /\ TotalDiffs' = TotalDiffs + b
    <3>1. n \in Int /\ diff' = [diff EXCEPT ![c][z] = n]
      BY <1>3
    <3>2. z \in Zones /\ c \in Cpus /\ diff \in [Cpus -> [Zones -> Int]] /\ b = n - diff[c][z]
      BY <1>1, <1>3, <1>4 DEF v
    <3> HIDE DEF n, b, c
    <3>3. /\ InDiffs(z)' = InDiffs(z) + (n - diff[c][z])
          /\ \A y \in Zones \ {z} : InDiffs(y)' = InDiffs(y)
          /\ TotalDiffs' = TotalDiffs + (n - diff[c][z])
      BY <3>1, <3>2, DiffSums
    <3>4. QED  BY <3>2, <3>3
  <2>7. /\ truth' = [truth EXCEPT ![z] = @ + o] /\ zstat' = [zstat EXCEPT ![z] = @ + o]
        /\ global' = global + o
    BY <1>3, NoMove
  <2> HIDE DEF b, o
  <2>8. Moves(z, o, b, o, v, o, v)
    BY <1>3, <1>4, <2>4, <2>5, <2>6, <2>7 DEF Moves
  <2>9. QED  BY <2>8, Balance DEF IInv
<1>13. QED  BY <1>7, <1>8, <1>9, <1>10, <1>11, <1>12 DEF IInv

Added(p, zone, v, g) == [p EXCEPT !.zone = zone, !.v = v, !.global = g]

LEMMA AddedType ==
    ASSUME NEW p \in FoldRecord, NEW zone \in SUBSET Zones, NEW v \in Int, NEW g \in Int
    PROVE  /\ Added(p, zone, v, g) \in FoldRecord
           /\ Added(p, zone, v, g).zone = zone
           /\ Added(p, zone, v, g).v = v
           /\ Added(p, zone, v, g).global = g
           /\ Added(p, zone, v, g).busy = p.busy
           /\ Added(p, zone, v, g).left = p.left
BY DEF Added, FoldRecord

LEMMA AddDiffStep ==
    ASSUME IInv, NEW w \in Workers, AddDiff(w)
    PROVE  IInv'
<1> DEFINE p == fold[w]
           v == fold[w].v
           r == [p EXCEPT !.zone = {}, !.v = 0, !.global = @ + v]
<1>1. PICK z \in p.zone : zstat' = [zstat EXCEPT ![z] = @ + v]
  BY DEF AddDiff
<1>2. /\ fold' = [fold EXCEPT ![w] = r] /\ UNCHANGED <<diff, global, truth, cpus, op, hp>>
      /\ p \in FoldRecord /\ p.zone = {z} /\ z \in Zones /\ p.busy /\ v \in Int
  <2>1. fold' = [fold EXCEPT ![w] = r] /\ UNCHANGED <<diff, global, truth, cpus, op, hp>>
    BY DEF AddDiff
  <2>2. p \in FoldRecord /\ v \in Int
    BY DEF IInv, FoldSound, FoldRecord
  <2>3. p.zone = {z} /\ z \in Zones
    BY <1>1 DEF IInv, FoldSound
  <2>4. p.busy
    BY <2>2, <2>3 DEF IInv, FoldSound, NoFold, FoldRecord
  <2>5. QED  BY <2>1, <2>2, <2>3, <2>4
<1> HIDE DEF v
<1>3. /\ r \in FoldRecord /\ r.zone = {} /\ r.v = 0 /\ r.busy = p.busy
      /\ r.global = p.global + v /\ r.left = p.left
  <2> HIDE DEF p
  <2>1. r = Added(p, {}, 0, p.global + v)
    BY DEF Added
  <2>2. p.global + v \in Int /\ 0 \in Int /\ {} \in SUBSET Zones
    BY <1>2 DEF FoldRecord
  <2> DEFINE x == p.global + v
             q == Added(p, {}, 0, x)
  <2>3. p \in FoldRecord /\ x \in Int /\ r = q
    BY <1>2, <2>1, <2>2
  <2> HIDE DEF r, x
  <2>4. /\ q \in FoldRecord /\ q.zone = {} /\ q.v = 0 /\ q.global = x
        /\ q.busy = p.busy /\ q.left = p.left
    BY <2>2, <2>3, AddedType
  <2> HIDE DEF q
  <2>5. QED  BY <2>3, <2>4 DEF x
<1>4. p = fold[w] /\ p.v = v
  BY DEF v
<1> HIDE DEF r, p
<1>5. FoldSound' /\ fold'[w] = r /\ \A u \in Workers \ {w} : fold'[u] = fold[u]
  BY <1>2, <1>3, FoldStep DEF IInv
<1>6. OpSound'
  BY <1>2 DEF IInv, OpSound
<1>7. TypeOK'
  <2>1. \A u \in Workers : fold'[u].left \subseteq Zones /\ fold'[u].busy \in BOOLEAN
    BY <1>5 DEF FoldSound
  <2>2. zstat' \in [Zones -> Int]
    BY <1>1, <1>2 DEF IInv, TypeOK
  <2>3. QED  BY <1>2, <2>1, <2>2 DEF IInv, TypeOK, cpus
<1>8. \A u \in Workers : fold'[u].busy = fold[u].busy /\ fold'[u].left = fold[u].left
  BY <1>3, <1>4, <1>5
<1>9. HpSound' /\ DeadClean'
  BY <1>2, <1>8 DEF IInv, HpSound, DeadClean, Workers, cpus
<1>10. Conserved'
  <2> DEFINE e == -v
             o == 0
  <2>1. e \in Int /\ o \in Int /\ v + o + e = o /\ o + o + o = o
    BY <1>2
  <2>2. FoldZone(z)'[w] = FoldZone(z)[w] + e
    <3>1. FoldZone(z)'[w] = 0  BY <1>3, <1>5 DEF FoldZone
    <3>2. FoldZone(z)[w] = v   BY <1>2, <1>4 DEF FoldZone
    <3>3. 0 = v + e  BY <1>2
    <3>4. QED  BY <3>1, <3>2, <3>3
  <2>3. \A y \in Zones \ {z} : FoldZone(y)'[w] = FoldZone(y)[w]
    BY <1>2, <1>3, <1>4, <1>5 DEF FoldZone
  <2>4. FoldGlobal'[w] = FoldGlobal[w] + o
    <3>1. FoldGlobal'[w] = 0 + (p.global + v) /\ FoldGlobal[w] = v + p.global
      BY <1>3, <1>4, <1>5 DEF FoldGlobal
    <3>2. p.global \in Int  BY <1>2 DEF FoldRecord
    <3>3. 0 + (p.global + v) = (v + p.global) + o  BY <1>2, <3>2
    <3>4. QED  BY <3>1, <3>3
  <2>5. \A y \in Zones : InDiffs(y)' = InDiffs(y)
    BY <1>2 DEF InDiffs
  <2>6. /\ InDiffs(z)' = InDiffs(z) + o /\ TotalDiffs' = TotalDiffs + o
        /\ truth' = [truth EXCEPT ![z] = @ + o] /\ global' = global + o
    <3>1. TotalDiffs' = TotalDiffs  BY <1>2 DEF TotalDiffs, InDiffs
    <3>2. QED  BY <1>2, <2>5, <3>1, NoMove
  <2> HIDE DEF e, o
  <2>7. /\ ForZone(z)' = ForZone(z) + e
        /\ \A y \in Zones \ {z} : ForZone(y)' = ForZone(y)
        /\ ForGlobal' = ForGlobal + o
    BY <1>2, <1>5, <2>1, <2>2, <2>3, <2>4, FoldMoves
  <2>8. Moves(z, v, o, o, e, o, o)
    BY <1>1, <1>2, <2>1, <2>5, <2>6, <2>7 DEF Moves
  <2>9. QED  BY <2>8, Balance DEF IInv
<1>11. QED  BY <1>5, <1>6, <1>7, <1>9, <1>10 DEF IInv

LEMMA AddGlobalDiffStep ==
    ASSUME IInv, NEW w \in Workers, AddGlobalDiff(w)
    PROVE  IInv'
<1> DEFINE x == fold[w].global
<1>1. PICK z \in Zones : TRUE
  BY VmStatAssumption
<1>2. /\ fold' = [fold EXCEPT ![w] = NoFold] /\ global' = global + x
      /\ UNCHANGED <<diff, zstat, truth, cpus, op>>
      /\ fold[w].zone = {} /\ fold[w].left = {} /\ fold[w].busy /\ fold[w].v = 0 /\ x \in Int
      /\ IF w = "hotplug" THEN hp' = [hp EXCEPT !.pc = "dead"] ELSE UNCHANGED hp
  BY DEF AddGlobalDiff, IInv, FoldSound
<1> HIDE DEF x
<1>3. /\ NoFold \in FoldRecord /\ NoFold.zone = {} /\ NoFold.v = 0 /\ NoFold.global = 0
      /\ NoFold.busy = FALSE
  BY DEF NoFold, FoldRecord
<1>4. FoldSound' /\ fold'[w] = NoFold /\ \A u \in Workers \ {w} : fold'[u] = fold[u]
  BY <1>2, <1>3, FoldStep DEF IInv
<1>5. OpSound'
  BY <1>2 DEF IInv, OpSound
<1>6. \/ w = "hotplug" /\ hp.pc = "folding" /\ hp'.pc = "dead" /\ hp'.cpu = hp.cpu
         /\ hp' \in [pc : {"idle", "down", "refresh", "folding", "dead", "up"}, cpu : SUBSET Cpus]
      \/ w # "hotplug" /\ hp' = hp
  BY <1>2 DEF IInv, HpSound
<1>7. TypeOK'
  <2>1. \A u \in Workers : fold'[u].left \subseteq Zones /\ fold'[u].busy \in BOOLEAN
    BY <1>4 DEF FoldSound
  <2>2. global' \in Int
    BY <1>2 DEF IInv, TypeOK
  <2>3. QED  BY <1>2, <1>6, <2>1, <2>2 DEF IInv, TypeOK, cpus
<1>8. HpSound'
  <2>1. CASE w = "hotplug"
    BY <1>2, <1>3, <1>4, <1>6, <2>1 DEF IInv, HpSound, cpus
  <2>2. CASE w # "hotplug"
    BY <1>2, <1>4, <1>6, <2>2 DEF IInv, HpSound, Workers, cpus
  <2>3. QED  BY <2>1, <2>2
<1>9. DeadClean'
  <2>1. CASE w = "hotplug"
    BY <1>2, <1>6, <2>1 DEF IInv, DeadClean, cpus
  <2>2. CASE w # "hotplug"
    BY <1>2, <1>4, <1>6, <2>2 DEF IInv, DeadClean, Workers, cpus
  <2>3. QED  BY <2>1, <2>2
<1>10. Conserved'
  <2> DEFINE g == -x
             o == 0
  <2>1. g \in Int /\ o \in Int /\ x + o + g = o /\ o + o + o = o
    BY <1>2
  <2>2. \A y \in Zones : FoldZone(y)'[w] = 0 /\ FoldZone(y)[w] = 0
    BY <1>2, <1>3, <1>4 DEF FoldZone
  <2>3. FoldZone(z)'[w] = FoldZone(z)[w] + o
    <3>1. 0 + o = 0  OBVIOUS
    <3>2. QED  BY <2>2, <3>1
  <2>4. FoldGlobal'[w] = FoldGlobal[w] + g
    <3>1. FoldGlobal'[w] = 0 + 0 /\ FoldGlobal[w] = 0 + x
      BY <1>2, <1>3, <1>4 DEF FoldGlobal, x
    <3>2. 0 + 0 = (0 + x) + g  BY <1>2
    <3>3. QED  BY <3>1, <3>2
  <2>5. \A y \in Zones : InDiffs(y)' = InDiffs(y)
    BY <1>2 DEF InDiffs
  <2>6. /\ InDiffs(z)' = InDiffs(z) + o /\ TotalDiffs' = TotalDiffs + o
        /\ truth' = [truth EXCEPT ![z] = @ + o] /\ zstat' = [zstat EXCEPT ![z] = @ + o]
    <3>1. TotalDiffs' = TotalDiffs  BY <1>2 DEF TotalDiffs, InDiffs
    <3>2. QED  BY <1>2, <2>5, <3>1, NoMove
  <2> HIDE DEF g, o
  <2>7. /\ ForZone(z)' = ForZone(z) + o
        /\ \A y \in Zones \ {z} : ForZone(y)' = ForZone(y)
        /\ ForGlobal' = ForGlobal + g
    <3>1. \A y \in Zones \ {z} : FoldZone(y)'[w] = FoldZone(y)[w]
      BY <2>2
    <3>2. op' = op  BY <1>2
    <3>3. g \in Int /\ o \in Int  BY <2>1
    <3>4. QED  BY <1>4, <2>3, <2>4, <3>1, <3>2, <3>3, FoldMoves
  <2>8. Moves(z, o, o, o, o, x, g)
    BY <1>2, <2>1, <2>5, <2>6, <2>7 DEF Moves
  <2>9. QED  BY <2>8, Balance DEF IInv
<1>11. QED  BY <1>4, <1>5, <1>7, <1>8, <1>9, <1>10 DEF IInv

------------------------------------------------------------------------------
(* Hotplug and thresholds *)

\* A step that leaves the counters, the updates and the foldings alone.
LEMMA Aside ==
    ASSUME IInv, UNCHANGED <<counters, op, fold>>
    PROVE  OpSound' /\ FoldSound' /\ Conserved'
<1>1. OpSound' /\ FoldSound'
  BY DEF IInv, OpSound, FoldSound
<1>2. (\A y \in Zones : ForZone(y)' = ForZone(y)) /\ ForGlobal' = ForGlobal
  BY DEF ForZone, ForGlobal, OpZone, FoldZone, OpGlobal, FoldGlobal
<1>3. QED  BY <1>1, <1>2, SameConserved DEF IInv, counters

LEMMA RefreshType ==
    ASSUME IInv, refresh_thresholds
    PROVE  /\ thr' \in [Cpus -> [Zones -> 0..MaxThreshold]] /\ mark' \in [Zones -> BOOLEAN]
<1>1. \A z \in Zones : calculate_normal_threshold(z, online) \in 0..MaxThreshold
  BY OnlineSize, NormalIs, ThresholdMonotone DEF IInv
<1>2. \A z \in Zones : MayDrift(z, online) \in BOOLEAN
  BY DEF MayDrift
<1>3. QED  BY <1>1, <1>2 DEF IInv, TypeOK, refresh_thresholds

LEMMA HotplugStep ==
    ASSUME IInv,
           \/ \E c \in Cpus : DownPrepare(c) \/ Up(c)
           \/ DownFailed \/ Die \/ DeadStats \/ Dead \/ Online
    PROVE  IInv'
<1>1. ASSUME NEW c \in Cpus, DownPrepare(c) PROVE IInv'
  <2>1. OpSound' /\ FoldSound' /\ Conserved'
    BY <1>1, Aside DEF DownPrepare
  <2>2. TypeOK' /\ HpSound'
    BY <1>1 DEF DownPrepare, IInv, TypeOK, HpSound, counters
  <2>3. DeadClean'
    BY <1>1 DEF DownPrepare, IInv, HpSound, DeadClean, counters
  <2>4. QED  BY <2>1, <2>2, <2>3 DEF IInv
<1>2. ASSUME NEW c \in Cpus, Up(c) PROVE IInv'
  <2>1. OpSound' /\ FoldSound' /\ Conserved'
    BY <1>2, Aside DEF Up
  <2>2. TypeOK' /\ HpSound'
    BY <1>2 DEF Up, IInv, TypeOK, HpSound, counters
  <2>3. DeadClean'
    BY <1>2 DEF Up, IInv, HpSound, DeadClean, counters
  <2>4. QED  BY <2>1, <2>2, <2>3 DEF IInv
<1>3. ASSUME DownFailed PROVE IInv'
  <2>1. OpSound' /\ FoldSound' /\ Conserved'
    BY <1>3, Aside DEF DownFailed
  <2>2. TypeOK' /\ HpSound'
    BY <1>3 DEF DownFailed, IInv, TypeOK, HpSound, counters
  <2>3. DeadClean'
    BY <1>3 DEF DownFailed, IInv, HpSound, DeadClean, counters
  <2>4. QED  BY <2>1, <2>2, <2>3 DEF IInv
<1>4. ASSUME Die PROVE IInv'
  <2>1. OpSound' /\ FoldSound' /\ Conserved'
    BY <1>4, Aside DEF Die
  <2>2. TypeOK' /\ HpSound'
    BY <1>4 DEF Die, IInv, TypeOK, HpSound, counters
  <2>3. DeadClean'
    BY <1>4 DEF Die, IInv, HpSound, DeadClean, counters
  <2>4. QED  BY <2>1, <2>2, <2>3 DEF IInv
<1>5. ASSUME DeadStats PROVE IInv'
  <2>1. /\ "hotplug" \in Workers /\ ~fold["hotplug"].busy
        /\ hp.pc = "refresh" /\ hp'.pc = "folding" /\ hp'.cpu = hp.cpu
        /\ hp' \in [pc : {"idle", "down", "refresh", "folding", "dead", "up"}, cpu : SUBSET Cpus]
        /\ StartFold("hotplug") /\ UNCHANGED <<counters, cpus, op>>
    BY <1>5 DEF DeadStats, RefreshDead, IInv, HpSound, FoldSound, Workers
  <2>2. /\ FoldSound' /\ Conserved' /\ OpSound'
        /\ fold'["hotplug"] = Started /\ \A u \in Workers \ {"hotplug"} : fold'[u] = fold[u]
    BY <2>1, StartStep DEF counters
  <2>3. TypeOK'
    BY <2>1, <2>2, StartedType DEF IInv, TypeOK, counters, cpus
  <2>4. HpSound' /\ DeadClean'
    BY <2>1, <2>2, StartedType DEF IInv, HpSound, DeadClean, counters, cpus
  <2>5. QED  BY <2>2, <2>3, <2>4 DEF IInv
<1>6. ASSUME Dead PROVE IInv'
  <2>1. OpSound' /\ FoldSound' /\ Conserved'
    BY <1>6, Aside DEF Dead
  <2>2. thr' \in [Cpus -> [Zones -> 0..MaxThreshold]] /\ mark' \in [Zones -> BOOLEAN]
    BY <1>6, RefreshType DEF Dead
  <2>3. TypeOK' /\ HpSound'
    BY <1>6, <2>2 DEF Dead, IInv, TypeOK, HpSound, counters
  <2>4. DeadClean'
    BY <1>6 DEF Dead, IInv, HpSound, DeadClean, counters
  <2>5. QED  BY <2>1, <2>3, <2>4 DEF IInv
<1>7. ASSUME Online PROVE IInv'
  <2>1. OpSound' /\ FoldSound' /\ Conserved'
    BY <1>7, Aside DEF Online
  <2>2. thr' \in [Cpus -> [Zones -> 0..MaxThreshold]] /\ mark' \in [Zones -> BOOLEAN]
    BY <1>7, RefreshType DEF Online
  <2>3. TypeOK' /\ HpSound'
    BY <1>7, <2>2 DEF Online, IInv, TypeOK, HpSound, counters
  <2>4. DeadClean'
    BY <1>7 DEF Online, IInv, HpSound, DeadClean, counters
  <2>5. QED  BY <2>1, <2>3, <2>4 DEF IInv
<1>8. QED  BY <1>1, <1>2, <1>3, <1>4, <1>5, <1>6, <1>7

LEMMA ThresholdsStep ==
    ASSUME IInv, Pressure \/ Relax
    PROVE  IInv'
<1>1. PICK f \in [Zones -> 0..MaxThreshold] : SetThresholds(f)
  <2>1. CASE Pressure
    <3> DEFINE f == [z \in Zones |-> calculate_pressure_threshold(z, online)]
    <3>1. f \in [Zones -> 0..MaxThreshold]
      BY PressureType DEF IInv
    <3>2. SetThresholds(f)  BY <2>1 DEF Pressure
    <3> HIDE DEF f
    <3>3. QED  BY <3>1, <3>2
  <2>2. CASE Relax
    <3> DEFINE f == [z \in Zones |-> calculate_normal_threshold(z, online)]
    <3>1. f \in [Zones -> 0..MaxThreshold]
      BY OnlineSize, NormalIs, ThresholdMonotone DEF IInv
    <3>2. SetThresholds(f)  BY <2>2 DEF Relax
    <3> HIDE DEF f
    <3>3. QED  BY <3>1, <3>2
  <2>3. QED  BY <2>1, <2>2
<1>2. OpSound' /\ FoldSound' /\ Conserved'
  BY <1>1, Aside DEF SetThresholds
<1>3. thr' \in [Cpus -> [Zones -> 0..MaxThreshold]]
  BY <1>1 DEF SetThresholds, IInv, TypeOK
<1>4. TypeOK' /\ HpSound' /\ DeadClean'
  BY <1>1, <1>3 DEF SetThresholds, IInv, TypeOK, HpSound, DeadClean, counters
<1>5. QED  BY <1>2, <1>4 DEF IInv

\* IInv is inductive.
LEMMA StepSound == ASSUME IInv, [Next]_vars PROVE IInv'
<1>1. ASSUME NEW c \in Cpus, NEW z \in Zones, NEW d \in Deltas, ModZone(c, z, d) PROVE IInv'
  BY <1>1, ModZoneStep
<1>2. ASSUME NEW c \in Cpus, NEW z \in Zones, IncZone(c, z) \/ DecZone(c, z) PROVE IInv'
  BY <1>2, IncZoneStep, DecZoneStep
<1>3. ASSUME NEW t \in Tasks, NEW z \in Zones, NEW d \in Calls, ModState(t, z, d[1], d[2])
      PROVE IInv'
  BY <1>3, ModStateStep
<1>4. ASSUME NEW t \in Tasks, ReadBoth(t) \/ CmpXchg(t) \/ AddZone(t) \/ AddGlobal(t) PROVE IInv'
  BY <1>4, ReadBothStep, CmpXchgStep, AddZoneStep, AddGlobalStep
<1>5. ASSUME NEW c \in Cpus, VmstatUpdate(c) PROVE IInv'
  BY <1>5, VmstatUpdateStep
<1>6. ASSUME NEW w \in Workers, TakeDiff(w) \/ AddDiff(w) \/ AddGlobalDiff(w) PROVE IInv'
  BY <1>6, TakeDiffStep, AddDiffStep, AddGlobalDiffStep
<1>7. ASSUME \/ \E c \in Cpus : DownPrepare(c) \/ Up(c)
             \/ DownFailed \/ Die \/ DeadStats \/ Dead \/ Online
      PROVE IInv'
  BY <1>7, HotplugStep
<1>8. ASSUME Pressure \/ Relax PROVE IInv'
  BY <1>8, ThresholdsStep
<1>9. ASSUME UNCHANGED vars PROVE IInv'
  <2>1. OpSound' /\ FoldSound' /\ Conserved'
    BY <1>9, Aside DEF vars, counters
  <2>2. TypeOK' /\ HpSound' /\ DeadClean'
    BY <1>9 DEF vars, IInv, TypeOK, HpSound, DeadClean
  <2>3. QED  BY <2>1, <2>2 DEF IInv
<1>10. QED  BY <1>1, <1>2, <1>3, <1>4, <1>5, <1>6, <1>7, <1>8, <1>9 DEF Next

\* Every update is accounted for, for any number of CPUs, zones and tasks and whatever
\* the order of updates, foldings and hotplug (mod_state, refresh_cpu_vm_stats,
\* page_alloc_cpu_notify): differences fit their s8, the sums are exact, and a CPU that
\* is gone holds nothing.
THEOREM EveryUpdateAccounted == Spec => []Accounted
<1>1. Init => IInv  BY InitSound
<1>2. IInv /\ [Next]_vars => IInv'  BY StepSound
<1>3. IInv => Accounted
  BY DEF IInv, Accounted, OfflineClean, DeadClean, HpSound
<1>4. QED  BY <1>1, <1>2, <1>3, PTL DEF Spec

------------------------------------------------------------------------------
(* The drift of a zone without a mark *)

LEMMA WithinGrows ==
    ASSUME IInv, NEW z \in Zones, NEW j \in Nat, NEW k \in Nat, j <= k, Within(z, j)
    PROVE  Within(z, k)
<1> DEFINE a == NormalThreshold(z, j)
           b == NormalThreshold(z, k)
<1>1. a \in Int /\ b \in Int /\ a <= b
  BY ThresholdMonotone, VmStatAssumption
<1>2. \A c \in Cpus : thr[c][z] \in Int /\ Abs(diff[c][z]) \in Int
  BY VmStatAssumption DEF IInv, TypeOK, Abs, Max2
<1>3. \A t \in Tasks : Abs(op[t].n) \in Int
  BY DEF IInv, OpSound, Abs, Max2
<1>4. /\ \A c \in Cpus : thr[c][z] <= a
      /\ \A c \in Cpus : Abs(diff[c][z]) <= a
      /\ \A t \in Tasks : op[t].pc = "cmpxchg" /\ op[t].zone = {z} => Abs(op[t].n) <= a
  BY DEF Within
<1> HIDE DEF a, b
<1>5. /\ \A c \in Cpus : thr[c][z] <= b
      /\ \A c \in Cpus : Abs(diff[c][z]) <= b
      /\ \A t \in Tasks : op[t].pc = "cmpxchg" /\ op[t].zone = {z} => Abs(op[t].n) <= b
  BY <1>1, <1>2, <1>3, <1>4
<1>6. QED  BY <1>5 DEF Within, b

\* Whatever changes no threshold and no set of CPUs keeps the bound, if it keeps
\* differences and pending values within the threshold.
LEMMA KeepDrift ==
    ASSUME IInv, DriftBounded, mark' = mark, hp'.pc # "up" => hp.pc # "up",
           online' = online, \A z \in Zones, k \in Nat : Within(z, k) => Within(z, k)'
    PROVE  DriftBounded'
<1> SUFFICES ASSUME NEW z \in Zones, ~mark[z]
             PROVE  \E k \in 0..Cardinality(Cpus) :
                       /\ hp'.pc # "up" => Cardinality(online) <= k
                       /\ k * NormalThreshold(z, k) <= Distance[z]
                       /\ Within(z, k)'
  BY DEF DriftBounded
<1>1. PICK k \in 0..Cardinality(Cpus) :
            /\ hp.pc # "up" => Cardinality(online) <= k
            /\ k * NormalThreshold(z, k) <= Distance[z]
            /\ Within(z, k)
  BY DEF DriftBounded
<1>2. k \in Nat
  BY <1>1
<1>3. Within(z, k)'
  BY <1>1, <1>2
<1>4. QED  BY <1>1, <1>3

\* One difference becomes n, which is within the CPU's threshold or nearer to zero.
LEMMA WithinDiff ==
    ASSUME IInv, NEW z \in Zones, NEW k \in Nat, Within(z, k),
           NEW c \in Cpus, NEW y \in Zones, NEW n \in Int, diff' = [diff EXCEPT ![c][y] = n],
           thr' = thr, op' = op,
           Abs(n) <= thr[c][y] \/ Abs(n) <= Abs(diff[c][y])
    PROVE  Within(z, k)'
<1>1. diff \in [Cpus -> [Zones -> Int]] /\ thr[c][y] \in Int
  BY VmStatAssumption DEF IInv, TypeOK
<1>2. NormalThreshold(z, k) \in Int
  BY ThresholdMonotone, VmStatAssumption
<1>3. Abs(n) \in Int /\ Abs(diff[c][y]) \in Int
  BY <1>1 DEF Abs, Max2
<1>4. \A b \in Cpus : Abs(diff'[b][z]) <= NormalThreshold(z, k)
  <2> SUFFICES ASSUME NEW b \in Cpus PROVE Abs(diff'[b][z]) <= NormalThreshold(z, k)
    OBVIOUS
  <2>1. CASE b = c /\ y = z
    <3>1. diff'[b][z] = n
      BY <1>1, <2>1
    <3>2. thr[c][y] <= NormalThreshold(z, k) /\ Abs(diff[c][y]) <= NormalThreshold(z, k)
      BY <2>1 DEF Within
    <3>3. Abs(n) <= NormalThreshold(z, k)
      BY <1>1, <1>2, <1>3, <3>2
    <3>4. QED  BY <3>1, <3>3
  <2>2. CASE ~(b = c /\ y = z)
    <3>1. diff'[b][z] = diff[b][z]
      BY <1>1, <2>2
    <3>2. QED  BY <3>1 DEF Within
  <2>3. QED  BY <2>1, <2>2
<1>5. QED  BY <1>4 DEF Within

LEMMA CountDrift ==
    ASSUME IInv, DriftBounded, NEW c \in Cpus, NEW z \in Zones,
           (\E d \in Deltas : ModZone(c, z, d)) \/ IncZone(c, z) \/ DecZone(c, z)
    PROVE  DriftBounded'
<1> DEFINE o == diff[c][z]
           t == thr[c][z]
<1>1. /\ o \in -MaxThreshold..MaxThreshold /\ o \in Int /\ t \in 0..MaxThreshold
      /\ MaxThreshold \in Nat /\ diff \in [Cpus -> [Zones -> Int]]
  BY VmStatAssumption DEF IInv, TypeOK
<1>2. \A n \in -MaxThreshold - 1..MaxThreshold + 1 : Wrap(n) = n
  BY WrapFits
<1>3. PICK n \in Int : /\ diff' = [diff EXCEPT ![c][z] = n]
                       /\ Abs(n) <= t \/ Abs(n) <= Abs(o)
                       /\ UNCHANGED <<cpus, op, fold, hp>>
  <2>1. CASE \E d \in Deltas : ModZone(c, z, d)
    <3>1. PICK d \in Deltas : ModZone(c, z, d)
      BY <2>1
    <3> DEFINE x == d + o
    <3>2. d \in Int /\ x \in Int
      BY <1>1, VmStatAssumption
    <3>3. CASE Abs(x) > t
      <4>1. diff' = [diff EXCEPT ![c][z] = Wrap(0)] /\ UNCHANGED <<cpus, op, fold, hp>>
        BY <3>1, <3>3 DEF ModZone, Apply
      <4>2. Wrap(0) = 0 /\ Abs(0) <= t
        BY <1>1, <1>2 DEF Abs, Max2
      <4> DEFINE n == Wrap(0)
      <4>3. n \in Int /\ Abs(n) <= t
        BY <4>2
      <4> HIDE DEF n
      <4>4. QED  BY <4>1, <4>3 DEF n
    <3>4. CASE ~(Abs(x) > t)
      <4>1. diff' = [diff EXCEPT ![c][z] = Wrap(x)] /\ UNCHANGED <<cpus, op, fold, hp>>
        BY <3>1, <3>4 DEF ModZone, Apply
      <4>2. Abs(x) <= t /\ x \in -MaxThreshold - 1..MaxThreshold + 1
        BY <1>1, <3>2, <3>4 DEF Abs, Max2
      <4>3. Wrap(x) = x
        BY <1>2, <4>2
      <4> HIDE DEF x
      <4>4. QED  BY <3>2, <4>1, <4>2, <4>3
    <3>5. QED  BY <3>3, <3>4
  <2>2. CASE IncZone(c, z)
    <3> DEFINE v == o + 1
               h == -(t \div 2)
    <3>1. /\ v \in -MaxThreshold - 1..MaxThreshold + 1 /\ h \in -MaxThreshold - 1..MaxThreshold + 1
          /\ v \in Int /\ h \in Int /\ Abs(h) <= t
      BY <1>1 DEF Abs, Max2
    <3>2. Wrap(v) = v /\ Wrap(h) = h
      BY <1>2, <3>1
    <3>3. CASE v > t
      <4>1. diff' = [diff EXCEPT ![c][z] = Wrap(h)] /\ UNCHANGED <<cpus, op, fold, hp>>
        BY <2>2, <3>2, <3>3 DEF IncZone, Apply
      <4> HIDE DEF h
      <4>2. QED  BY <3>1, <3>2, <4>1
    <3>4. CASE ~(v > t)
      <4>1. diff' = [diff EXCEPT ![c][z] = Wrap(v)] /\ UNCHANGED <<cpus, op, fold, hp>>
        BY <2>2, <3>2, <3>4 DEF IncZone, Apply
      <4>2. Abs(v) <= t \/ Abs(v) <= Abs(o)
        BY <1>1, <3>1, <3>4 DEF Abs, Max2
      <4> HIDE DEF v
      <4>3. QED  BY <3>1, <3>2, <4>1, <4>2
    <3>5. QED  BY <3>3, <3>4
  <2>3. CASE DecZone(c, z)
    <3> DEFINE v == o - 1
               h == t \div 2
    <3>1. /\ v \in -MaxThreshold - 1..MaxThreshold + 1 /\ h \in -MaxThreshold - 1..MaxThreshold + 1
          /\ v \in Int /\ h \in Int /\ Abs(h) <= t
      BY <1>1 DEF Abs, Max2
    <3>2. Wrap(v) = v /\ Wrap(h) = h
      BY <1>2, <3>1
    <3>3. CASE v < -t
      <4>1. diff' = [diff EXCEPT ![c][z] = Wrap(h)] /\ UNCHANGED <<cpus, op, fold, hp>>
        BY <2>3, <3>2, <3>3 DEF DecZone, Apply
      <4> HIDE DEF h
      <4>2. QED  BY <3>1, <3>2, <4>1
    <3>4. CASE ~(v < -t)
      <4>1. diff' = [diff EXCEPT ![c][z] = Wrap(v)] /\ UNCHANGED <<cpus, op, fold, hp>>
        BY <2>3, <3>2, <3>4 DEF DecZone, Apply
      <4>2. Abs(v) <= t \/ Abs(v) <= Abs(o)
        BY <1>1, <3>1, <3>4 DEF Abs, Max2
      <4> HIDE DEF v
      <4>3. QED  BY <3>1, <3>2, <4>1, <4>2
    <3>5. QED  BY <3>3, <3>4
  <2>4. QED  BY <2>1, <2>2, <2>3
<1>4. \A y \in Zones, k \in Nat : Within(y, k) => Within(y, k)'
  <2>1. thr' = thr /\ op' = op
    BY <1>3 DEF cpus
  <2>2. QED  BY <1>3, <2>1, WithinDiff
<1>5. QED  BY <1>3, <1>4, KeepDrift DEF cpus

\* What a task is about to store is within the threshold it read.
LEMMA UpdateDrift ==
    ASSUME IInv, DriftBounded, NEW t \in Tasks,
           \/ \E z \in Zones : \E d \in Calls : ModState(t, z, d[1], d[2])
           \/ ReadBoth(t) \/ CmpXchg(t) \/ AddZone(t) \/ AddGlobal(t)
    PROVE  DriftBounded'
<1>1. UNCHANGED <<cpus, fold, hp>>
  BY DEF ModState, ReadBoth, CmpXchg, AddZone, AddGlobal
<1>2. \A u \in Tasks \ {t} : op'[u] = op[u]
  BY DEF IInv, OpSound, ModState, ReadBoth, CmpXchg, AddZone, AddGlobal
<1>3. op \in [Tasks -> OpRecord]
  BY DEF IInv, OpSound, OpRecord
<1>4. ASSUME NEW z \in Zones, NEW k \in Nat, Within(z, k) PROVE Within(z, k)'
  <2>1. CASE op'[t].pc # "cmpxchg" /\ diff' = diff
    BY <1>1, <1>2, <2>1, <1>4 DEF Within, cpus
  <2>2. CASE ReadBoth(t)
    <3>1. PICK y \in Zones : op[t].zone = {y}
      BY <2>2 DEF IInv, OpSound, ReadBoth
    <3>2. TheZone(t) = y
      BY <3>1 DEF TheZone
    <3>3. PICK c \in online, d \in online :
            LET th == thr[c][y]
                o  == diff[d][y]
                n  == op[t].delta + o
                os == op[t].mode * (th \div 2)
            IN op' = [op EXCEPT ![t] = [@ EXCEPT !.pc = "cmpxchg", !.o = o,
                                   !.n = IF Abs(n) > th THEN -os ELSE n,
                                   !.z = IF Abs(n) > th THEN n + os ELSE 0]]
      BY <2>2, <3>2 DEF ReadBoth
    <3> DEFINE th == thr[c][y]
               o  == diff[d][y]
               n  == op[t].delta + o
               h  == th \div 2
               os == op[t].mode * h
               N  == IF Abs(n) > th THEN -os ELSE n
               Z  == IF Abs(n) > th THEN n + os ELSE 0
    <3>4. op' = [op EXCEPT ![t] = Upd(op[t], "cmpxchg", o, N, Z)]
      BY <3>3 DEF Upd
    <3>5. /\ th \in 0..MaxThreshold /\ o \in Int /\ MaxThreshold \in Nat /\ c \in Cpus
          /\ op[t].delta \in Int /\ op[t].mode \in {-1, 0, 1}
      BY VmStatAssumption DEF IInv, TypeOK, OpSound
    <3>6. th \in Int /\ n \in Int /\ h \in Int /\ 0 <= h /\ h <= th
      BY <3>5
    <3>7. os \in {-h, 0, h} /\ os \in Int
      <4> HIDE DEF h
      <4>1. QED  BY <3>5, <3>6
    <3>8. N \in Int /\ Z \in Int /\ Abs(N) <= th
      <4> HIDE DEF os, n, h, th
      <4>1. QED  BY <3>6, <3>7 DEF Abs, Max2
    <3> HIDE DEF N, Z, o
    <3>9. op'[t].zone = {y} /\ op'[t].n = N
      <4>1. op[t] \in OpRecord  BY <1>3
      <4>2. Upd(op[t], "cmpxchg", o, N, Z).zone = op[t].zone
            /\ Upd(op[t], "cmpxchg", o, N, Z).n = N
        BY <3>5, <3>8, <4>1, OpUpdate
      <4>3. QED  BY <1>3, <3>1, <3>4, <4>2
    <3>10. z = y => Abs(N) <= NormalThreshold(z, k)
      <4>1. NormalThreshold(z, k) \in Int /\ Abs(N) \in Int
        BY <3>8, ThresholdMonotone, VmStatAssumption DEF Abs, Max2
      <4>2. z = y => th <= NormalThreshold(z, k)
        BY <1>4, <3>5 DEF Within
      <4> HIDE DEF th
      <4>3. QED  BY <3>6, <3>8, <4>1, <4>2
    <3>11. diff' = diff
      BY <2>2 DEF ReadBoth, counters
    <3>12. QED  BY <1>1, <1>2, <1>4, <3>9, <3>10, <3>11 DEF Within, cpus
  <2>3. CASE CmpXchg(t) /\ diff' # diff
    <3>1. PICK y \in Zones : op[t].zone = {y}
      BY <2>3 DEF IInv, OpSound, CmpXchg
    <3>2. TheZone(t) = y
      BY <3>1 DEF TheZone
    <3>3. PICK c \in online :
            /\ diff' = [diff EXCEPT ![c][y] = Wrap(op[t].n)]
            /\ op' = [op EXCEPT ![t] = IF op[t].z = 0 THEN NoOp
                         ELSE [NoOp EXCEPT !.pc = "zone", !.zone = {y}, !.z = op[t].z]]
      BY <2>3, <3>2 DEF CmpXchg, counters
    <3>4. op[t].n \in -MaxThreshold..MaxThreshold /\ op[t].pc = "cmpxchg" /\ MaxThreshold \in Nat
      BY <2>3, VmStatAssumption DEF CmpXchg, IInv, OpSound
    <3>5. Wrap(op[t].n) = op[t].n
      <4>1. op[t].n \in -MaxThreshold - 1..MaxThreshold + 1
        BY <3>4
      <4>2. QED  BY <4>1, WrapFits
    <3>6. op'[t].pc # "cmpxchg"
      BY <1>3, <3>3 DEF NoOp
    <3>7. z = y => Abs(op[t].n) <= NormalThreshold(z, k)
      BY <1>4, <3>1, <3>4 DEF Within
    <3>8. diff \in [Cpus -> [Zones -> Int]] /\ c \in Cpus
      BY VmStatAssumption DEF IInv, TypeOK
    <3>9. \A b \in Cpus : Abs(diff'[b][z]) <= NormalThreshold(z, k)
      <4> SUFFICES ASSUME NEW b \in Cpus PROVE Abs(diff'[b][z]) <= NormalThreshold(z, k)
        OBVIOUS
      <4>1. diff'[b][z] = IF b = c /\ y = z THEN op[t].n ELSE diff[b][z]
        BY <3>3, <3>5, <3>8
      <4>2. Abs(diff[b][z]) <= NormalThreshold(z, k)
        BY <1>4 DEF Within
      <4>3. QED  BY <3>7, <4>1, <4>2
    <3>10. QED  BY <1>1, <1>2, <1>4, <3>6, <3>9 DEF Within, cpus
  <2>4. CASE CmpXchg(t) /\ diff' = diff /\ op'[t].pc = "cmpxchg"
    <3> DEFINE r1 == [op[t] EXCEPT !.pc = "read", !.o = 0, !.n = 0, !.z = 0]
               r2(y) == IF op[t].z = 0 THEN NoOp
                        ELSE [NoOp EXCEPT !.pc = "zone", !.zone = {y}, !.z = op[t].z]
    <3>1. op' = [op EXCEPT ![t] = r1] \/ \E y : op' = [op EXCEPT ![t] = r2(y)]
      BY <2>4 DEF CmpXchg
    <3>2. op[t] \in OpRecord
      BY <1>3
    <3>3. r1.pc = "read"
      BY <3>2 DEF OpRecord
    <3>4. \A y : r2(y).pc \in {"idle", "zone"}
      BY DEF NoOp
    <3> HIDE DEF r1, r2
    <3>5. op'[t].pc # "cmpxchg"
      BY <1>3, <3>1, <3>3, <3>4
    <3>6. QED  BY <2>4, <3>5
  <2>5. CASE \E y \in Zones : \E d \in Calls : ModState(t, y, d[1], d[2])
    <3>1. op'[t].pc # "cmpxchg" /\ diff' = diff
      BY <1>3, <2>5 DEF ModState, NoOp, counters
    <3>2. QED  BY <2>1, <3>1
  <2>6. CASE AddZone(t) \/ AddGlobal(t)
    <3>1. op'[t].pc # "cmpxchg" /\ diff' = diff
      BY <1>3, <2>6 DEF AddZone, AddGlobal, NoOp, OpRecord
    <3>2. QED  BY <2>1, <3>1
  <2>7. QED  BY <2>1, <2>2, <2>3, <2>4, <2>5, <2>6
<1>5. QED  BY <1>1, <1>4, KeepDrift DEF cpus

LEMMA WorkDrift ==
    ASSUME IInv, DriftBounded,
           \/ \E c \in Cpus : VmstatUpdate(c)
           \/ \E w \in Workers : TakeDiff(w) \/ AddDiff(w) \/ AddGlobalDiff(w)
    PROVE  DriftBounded'
<1>1. op' = op /\ UNCHANGED cpus /\ (hp'.pc # "up" => hp.pc # "up")
  BY DEF VmstatUpdate, TakeDiff, AddDiff, AddGlobalDiff, IInv, HpSound
<1>2. ASSUME NEW z \in Zones, NEW k \in Nat, Within(z, k) PROVE Within(z, k)'
  <2>1. CASE diff' = diff
    BY <1>1, <1>2, <2>1 DEF Within, cpus
  <2>2. CASE \E w \in Workers : TakeDiff(w)
    <3>1. PICK w \in Workers : TakeDiff(w)
      BY <2>2
    <3>2. CpuOf(w) \in Cpus
      BY <3>1, CpuOfType DEF TakeDiff
    <3> DEFINE n == 0
    <3>3. PICK y \in Zones : diff' = [diff EXCEPT ![CpuOf(w)][y] = n]
      BY <3>1 DEF TakeDiff, IInv, TypeOK
    <3>4. n \in Int /\ Abs(n) <= thr[CpuOf(w)][y]
      BY <3>2, VmStatAssumption DEF IInv, TypeOK, Abs, Max2
    <3>5. thr' = thr
      BY <1>1 DEF cpus
    <3> HIDE DEF n
    <3>6. QED  BY <1>1, <1>2, <3>2, <3>3, <3>4, <3>5, WithinDiff
  <2>3. QED  BY <2>1, <2>2 DEF VmstatUpdate, AddDiff, AddGlobalDiff, counters
<1>3. QED  BY <1>1, <1>2, KeepDrift DEF cpus

LEMMA InitDrift == ASSUME Init PROVE DriftBounded
<1> DEFINE k == Cardinality(online)
<1>1. k \in 0..Cardinality(Cpus) /\ k \in Nat
  BY InitSound, OnlineSize DEF IInv
<1> SUFFICES ASSUME NEW z \in Zones, ~mark[z]
             PROVE  k * NormalThreshold(z, k) <= Distance[z] /\ Within(z, k)
  BY <1>1 DEF DriftBounded
<1>2. NormalThreshold(z, k) \in 0..MaxThreshold /\ MaxThreshold \in Nat
  BY <1>1, ThresholdMonotone, VmStatAssumption
<1>3. k * NormalThreshold(z, k) <= Distance[z]
  <2>1. ~(k * NormalThreshold(z, k) > Distance[z])
    BY NormalIs DEF Init, MayDrift
  <2>2. k * NormalThreshold(z, k) \in Int /\ Distance[z] \in Int
    BY <1>1, <1>2, VmStatAssumption
  <2>3. QED  BY <2>1, <2>2
<1>4. \A c \in Cpus : thr[c][z] <= NormalThreshold(z, k)
  BY <1>2, NormalIs DEF Init
<1>5. \A c \in Cpus : Abs(diff[c][z]) <= NormalThreshold(z, k)
  BY <1>2 DEF Init, Abs, Max2
<1>6. \A t \in Tasks : op[t].pc # "cmpxchg"
  BY DEF Init, NoOp
<1>7. QED  BY <1>3, <1>4, <1>5, <1>6 DEF Within

\* After a refresh the bound is that of the most CPUs so far: those before, or those
\* that are online now.
LEMMA RefreshDrift ==
    ASSUME IInv, DriftBounded, refresh_thresholds, UNCHANGED <<counters, online, op, fold>>
    PROVE  DriftBounded'
<1> DEFINE m == Cardinality(online)
<1>1. m \in 0..Cardinality(Cpus) /\ m \in Nat /\ Cardinality(Cpus) \in Nat
  BY OnlineSize, VmStatAssumption, FS_CardinalityType DEF IInv
<1> SUFFICES ASSUME NEW z \in Zones, ~mark'[z]
             PROVE  \E k \in 0..Cardinality(Cpus) :
                       m <= k /\ k * NormalThreshold(z, k) <= Distance[z] /\ Within(z, k)'
  BY DEF DriftBounded
<1>2. ~mark[z] /\ ~MayDrift(z, online)
  BY DEF refresh_thresholds
<1>3. NormalThreshold(z, m) \in 0..MaxThreshold /\ MaxThreshold \in Nat
  BY <1>1, ThresholdMonotone, VmStatAssumption
<1>4. m * NormalThreshold(z, m) <= Distance[z]
  <2>1. ~(m * NormalThreshold(z, m) > Distance[z])
    BY <1>2, NormalIs DEF MayDrift
  <2>2. m * NormalThreshold(z, m) \in Int /\ Distance[z] \in Int
    BY <1>1, <1>3, VmStatAssumption
  <2>3. QED  BY <2>1, <2>2
<1>5. PICK j \in 0..Cardinality(Cpus) :
            j * NormalThreshold(z, j) <= Distance[z] /\ Within(z, j)
  BY <1>2 DEF DriftBounded
<1>6. j \in Nat
  BY <1>1, <1>5
<1>7. PICK k \in 0..Cardinality(Cpus) :
            k \in Nat /\ j <= k /\ m <= k /\ k * NormalThreshold(z, k) <= Distance[z]
  <2>1. CASE j <= m
    BY <1>1, <1>4, <2>1
  <2>2. CASE ~(j <= m)
    BY <1>1, <1>5, <1>6, <2>2
  <2>3. QED  BY <2>1, <2>2
<1>8. Within(z, k)
  BY <1>5, <1>6, <1>7, WithinGrows
<1>9. NormalThreshold(z, m) <= NormalThreshold(z, k)
  BY <1>1, <1>7, ThresholdMonotone
<1>10. \A c \in Cpus : thr'[c][z] = NormalThreshold(z, m) \/ thr'[c][z] = thr[c][z]
  BY NormalIs DEF refresh_thresholds
<1> HIDE DEF m
<1>11. \A c \in Cpus : thr'[c][z] <= NormalThreshold(z, k)
  BY <1>8, <1>9, <1>10 DEF Within
<1>12. Within(z, k)'
  BY <1>8, <1>11 DEF Within, counters
<1>13. QED  BY <1>7, <1>12

LEMMA HotplugDrift ==
    ASSUME IInv, DriftBounded,
           \/ \E c \in Cpus : DownPrepare(c) \/ Up(c)
           \/ DownFailed \/ Die \/ DeadStats \/ Dead \/ Online
    PROVE  DriftBounded'
<1>1. CASE Dead \/ Online
  BY <1>1, RefreshDrift DEF Dead, Online
<1>2. CASE \/ \E c \in Cpus : DownPrepare(c) \/ Up(c)
           \/ DownFailed \/ Die \/ DeadStats
  <2>1. UNCHANGED <<diff, thr, mark, op>>
    BY <1>2 DEF DownPrepare, Up, DownFailed, Die, DeadStats, counters, cpus
  <2>2. \A z \in Zones, k \in Nat : Within(z, k) => Within(z, k)'
    BY <2>1 DEF Within
  <2>3. hp'.pc # "up" => hp.pc # "up" /\ Cardinality(online') <= Cardinality(online)
    <3>1. CASE Die
      <4>1. IsFiniteSet(online) /\ Cardinality(online) \in Nat
        BY OnlineSize DEF IInv
      <4>2. online' \in SUBSET online
        BY <3>1 DEF Die
      <4>3. Cardinality(online') <= Cardinality(online)
        BY <4>1, <4>2, FS_Subset
      <4>4. QED  BY <3>1, <4>3 DEF Die
    <3>2. CASE \E c \in Cpus : Up(c)
      BY <3>2 DEF Up, IInv, HpSound
    <3>3. CASE (\E c \in Cpus : DownPrepare(c)) \/ DownFailed \/ DeadStats
      <4>1. online' = online /\ hp.pc # "up"
        BY <3>3 DEF DownPrepare, DownFailed, DeadStats, counters, cpus
      <4>2. Cardinality(online) \in Int
        BY OnlineSize DEF IInv
      <4>3. QED  BY <4>1, <4>2
    <3>4. QED  BY <1>2, <3>1, <3>2, <3>3
  <2>4. \A k \in 0..Cardinality(Cpus) : k \in Nat
    OBVIOUS
  <2>5. Cardinality(online) \in Int /\ Cardinality(online') \in Int
    <3>1. online' \in SUBSET Cpus /\ online \in SUBSET Cpus
      BY HotplugStep DEF IInv, TypeOK
    <3>2. IsFiniteSet(online') /\ IsFiniteSet(online)
      BY <3>1, FS_Subset, VmStatAssumption
    <3>3. QED  BY <3>2, FS_CardinalityType
  <2> SUFFICES ASSUME NEW z \in Zones, ~mark[z]
               PROVE  \E k \in 0..Cardinality(Cpus) :
                         /\ hp'.pc # "up" => Cardinality(online') <= k
                         /\ k * NormalThreshold(z, k) <= Distance[z]
                         /\ Within(z, k)'
    BY <2>1 DEF DriftBounded
  <2>6. PICK k \in 0..Cardinality(Cpus) :
              /\ hp.pc # "up" => Cardinality(online) <= k
              /\ k * NormalThreshold(z, k) <= Distance[z]
              /\ Within(z, k)
    BY DEF DriftBounded
  <2>7. Within(z, k)'
    BY <2>2, <2>4, <2>6
  <2>8. hp'.pc # "up" => Cardinality(online') <= k
    BY <2>3, <2>4, <2>5, <2>6
  <2>9. QED  BY <2>6, <2>7, <2>8
<1>3. QED  BY <1>1, <1>2

LEMMA ThresholdsDrift ==
    ASSUME IInv, DriftBounded, NEW f, SetThresholds(f)
    PROVE  DriftBounded'
<1> SUFFICES ASSUME NEW z \in Zones, ~mark[z]
             PROVE  \E k \in 0..Cardinality(Cpus) :
                       /\ hp.pc # "up" => Cardinality(online) <= k
                       /\ k * NormalThreshold(z, k) <= Distance[z]
                       /\ Within(z, k)'
  BY DEF DriftBounded, SetThresholds
<1>1. PICK k \in 0..Cardinality(Cpus) :
            /\ hp.pc # "up" => Cardinality(online) <= k
            /\ k * NormalThreshold(z, k) <= Distance[z]
            /\ Within(z, k)
  BY DEF DriftBounded
<1>2. \A c \in Cpus : thr'[c][z] = thr[c][z]
  BY DEF SetThresholds
<1>3. Within(z, k)'
  BY <1>1, <1>2 DEF Within, SetThresholds, counters
<1>4. QED  BY <1>1, <1>3

LEMMA StepDrift == ASSUME IInv, DriftBounded, [Next]_vars PROVE DriftBounded'
<1>1. CASE \E c \in Cpus, z \in Zones : \/ \E d \in Deltas : ModZone(c, z, d)
                                        \/ IncZone(c, z) \/ DecZone(c, z)
  BY <1>1, CountDrift
<1>2. CASE \E t \in Tasks : \/ \E z \in Zones : \E d \in Calls : ModState(t, z, d[1], d[2])
                            \/ ReadBoth(t) \/ CmpXchg(t) \/ AddZone(t) \/ AddGlobal(t)
  BY <1>2, UpdateDrift
<1>3. CASE \/ \E c \in Cpus : VmstatUpdate(c)
           \/ \E w \in Workers : TakeDiff(w) \/ AddDiff(w) \/ AddGlobalDiff(w)
  BY <1>3, WorkDrift
<1>4. CASE \/ \E c \in Cpus : DownPrepare(c) \/ Up(c)
           \/ DownFailed \/ Die \/ DeadStats \/ Dead \/ Online
  BY <1>4, HotplugDrift
<1>5. CASE Pressure \/ Relax
  BY <1>5, ThresholdsDrift DEF Pressure, Relax
<1>6. CASE UNCHANGED vars
  BY <1>6 DEF vars, DriftBounded, Within
<1>7. QED  BY <1>1, <1>2, <1>3, <1>4, <1>5, <1>6 DEF Next

\* The bound holds the drift within the distance of the watermarks.
LEMMA BoundedTolerated ==
    ASSUME IInv, DriftBounded
    PROVE  DriftTolerated
<1> SUFFICES ASSUME NEW z \in Zones, hp.pc = "idle", ~mark[z], ForZone(z) = 0
             PROVE  Abs(truth[z] - zstat[z]) <= Distance[z]
  BY DEF DriftTolerated
<1>1. PICK k \in 0..Cardinality(Cpus) :
            /\ Cardinality(online) <= k
            /\ k * NormalThreshold(z, k) <= Distance[z]
            /\ Within(z, k)
  BY DEF DriftBounded
<1> DEFINE b == NormalThreshold(z, k)
           m == Cardinality(online)
           f == [c \in Cpus |-> diff[c][z]]
<1>2. k \in Nat /\ b \in Nat /\ m \in Nat /\ m <= k /\ IsFiniteSet(Cpus) /\ online \in SUBSET Cpus
  <2>1. k \in Nat  BY <1>1
  <2>2. QED  BY <1>1, <2>1, OnlineSize, ThresholdMonotone, VmStatAssumption DEF IInv, TypeOK
<1>3. f \in [Cpus -> Int]
  BY VmStatAssumption DEF IInv, TypeOK
<1>4. \A c \in Cpus : -b <= f[c] /\ f[c] <= b
  BY <1>1, <1>2, <1>3 DEF Within, Abs, Max2
<1>5. \A c \in Cpus \ online : f[c] = 0
  BY DEF IInv, DeadClean, HpSound
<1> DEFINE d == SumFunction(f)
<1>6. d = InDiffs(z)
  BY DEF InDiffs
<1> HIDE DEF b, f
<1>7. d <= m * b /\ -(m * b) <= d /\ d \in Int
  BY <1>2, <1>3, <1>4, <1>5, SumBound, SumType
<1>8. m * b <= k * b /\ m * b \in Nat /\ k * b \in Nat
  <2>1. PICK e \in Nat : k = m + e
    <3>1. k - m \in Nat /\ k = m + (k - m)  BY <1>2
    <3>2. QED  BY <3>1
  <2>2. k * b = m * b + e * b /\ e * b \in Nat /\ m * b \in Nat
    BY <1>2, <2>1
  <2>3. QED  BY <2>2
<1>9. k * b <= Distance[z] /\ Distance[z] \in Int
  BY <1>1, VmStatAssumption DEF b
<1>10. zstat[z] + d = truth[z] /\ zstat[z] \in Int /\ truth[z] \in Int
  <2>1. zstat[z] + InDiffs(z) + ForZone(z) = truth[z]
    BY DEF IInv, Conserved
  <2>2. zstat[z] \in Int /\ truth[z] \in Int /\ InDiffs(z) \in Int
    BY SumTypes, VmStatAssumption DEF IInv, TypeOK
  <2>3. QED  BY <1>6, <2>1, <2>2
<1> HIDE DEF d, m
<1>11. truth[z] - zstat[z] = d
  BY <1>7, <1>10
<1>12. Abs(d) <= Distance[z]
  <2> DEFINE p == m * b
             q == k * b
  <2>1. d <= p /\ -p <= d /\ p <= q /\ q <= Distance[z] /\ p \in Int /\ q \in Int
        /\ d \in Int /\ Distance[z] \in Int
    BY <1>7, <1>8, <1>9
  <2> HIDE DEF p, q
  <2>2. QED  BY <2>1 DEF Abs, Max2
<1>13. QED  BY <1>11, <1>12

\* The vm_stat of a zone that has no percpu_drift_mark is off by no more than lies
\* between its low and min watermarks, for any number of CPUs that come and go
\* (refresh_zone_stat_thresholds), unless an update or a folding is under way.
THEOREM UnmarkedDriftTolerable == Spec => []DriftTolerated
<1>1. Init => IInv /\ DriftBounded
  BY InitSound, InitDrift
<1>2. IInv /\ DriftBounded /\ [Next]_vars => IInv' /\ DriftBounded'
  BY StepSound, StepDrift
<1>3. IInv /\ DriftBounded => DriftTolerated
  BY BoundedTolerated
<1>4. QED  BY <1>1, <1>2, <1>3, PTL DEF Spec

=============================================================================
