---------------------------- MODULE KswapdProofs ----------------------------
(***************************************************************************)
(* Proofs about Kswapd, for any number of tasks, zones and orders: the     *)
(* counts of a zone add up, the OOM lock of a zone has one owner, and      *)
(* kswapd loses no wakeup.                                                 *)
(***************************************************************************)
EXTENDS Kswapd, FiniteSetTheorems, TLAPS

-----------------------------------------------------------------------------
(* The inductive invariant *)

ZoneRecord == [nr : [Orders -> Nat], lru : Nat, scanned : Nat, saved : Nat, dead : BOOLEAN]

\* A zone whose numbers are in range and not more than its pages together
ZoneSound(zn, z) ==
    /\ zn \in ZoneRecord
    /\ zn.lru <= MaxLru[z]
    /\ zn.scanned <= MaxLru[z] * ScanFactor
    /\ zn.saved <= SwapCluster - 1
    /\ Present[z] - Free(zn) - zn.lru >= 0

ZonesSound == zone \in [Zones -> ZoneRecord] /\ \A z \in Zones : ZoneSound(zone[z], z)

Asked == [order : Orders, cz : Zones]

KPlaces == {"read", "clear", "request", "clear2", "prepare", "prepare2", "check", "check2",
            "nap", "asleep", "find", "shrink", "mark", "confirm"}

KRecord == [pc : KPlaces, order : Orders, cz : Zones, new : Asked, prio : Int,
            i : Zones, end : Zones, ok : BOOLEAN, bal : Int, got : 0..SwapCluster,
            kill : BOOLEAN, early : BOOLEAN]

\* kswapd: the priority is negative only when a round is over.
KSound(x) ==
    /\ x \in KRecord
    /\ x.prio \in -1..DefPriority
    /\ x.pc \in {"find", "shrink", "mark"} => x.prio >= 0

TaskRecord == [pc : {"scan", "take", "wake", "reclaim", "result", "oom", "blamo"},
               stage : {"first", "slow", "desperate", "reclaimed", "oom"},
               kind : Kinds, zone : Int, nowm : BOOLEAN, prio : Int, got : 0..SwapCluster]

\* A task between its first walk and its answer
Busy(r) ==
    /\ r \in TaskRecord
    /\ r.zone <= r.kind.top
    /\ r.pc \in {"take", "reclaim"} => 0 <= r.zone
    /\ r.prio \in 0..DefPriority
    /\ r.pc = "blamo" => r.stage = "oom"

TasksSound == /\ DOMAIN task = Tasks
              /\ \A t \in Tasks : task[t] = Idle \/ Busy(task[t])

RestSound == want \in Asked /\ queued \in BOOLEAN /\ oom \subseteq Zones /\ unmet \subseteq Zones

\* A task that holds the OOM lock of zone z
Inside(r, z) == /\ r.pc \in {"scan", "take", "blamo"}
                /\ r.stage = "oom"
                /\ r.kind.top >= z

\* The lock of each zone is held by one task, and only if it is taken.
OneHolder ==
    /\ \A z \in oom : \E t \in Tasks : Inside(task[t], z)
    /\ \A t \in Tasks, z \in Zones : Inside(task[t], z) => z \in oom
    /\ \A t, u \in Tasks, z \in Zones : Inside(task[t], z) /\ Inside(task[u], z) => t = u

\* What is unmet is below its low watermark and not given up.
UnmetBelow == \A z \in unmet : ~AtLow(zone[z], z, 0) /\ ~zone[z].dead

IInv == ZonesSound /\ KSound(k) /\ TasksSound /\ RestSound /\ OneHolder /\ UnmetBelow
        /\ NoLostWakeup

-----------------------------------------------------------------------------
(* Sizes of blocks *)

Doubling(f) == [n \in Nat |-> IF n = 0 THEN 1 ELSE 2 * f[n - 1]]

\* The recursive function Size exists: it is defined up to every n.
LEMMA SizeExists == \E f \in [Nat -> Nat] : f = Doubling(f)
<1> DEFINE Eq(f, i) == f[i] = IF i = 0 THEN 1 ELSE 2 * f[i - 1]
           Upto(n) == \E f \in [Nat -> Nat] : \A i \in 0..n : Eq(f, i)
           T == {n \in Nat : ~Upto(n)}
<1>1. Upto(0)
  <2> DEFINE f == [i \in Nat |-> 1]
  <2>1. f \in [Nat -> Nat] /\ \A i \in 0..0 : Eq(f, i)
    OBVIOUS
  <2>2. QED  BY <2>1
<1>2. ASSUME NEW n \in Nat, Upto(n) PROVE Upto(n + 1)
  <2>1. PICK f \in [Nat -> Nat] : \A i \in 0..n : Eq(f, i)
    BY <1>2
  <2> DEFINE h == [i \in Nat |-> IF i = n + 1 THEN 2 * f[n] ELSE f[i]]
  <2>2. h \in [Nat -> Nat]
    OBVIOUS
  <2>3. ASSUME NEW i \in 0..n + 1 PROVE Eq(h, i)
    <3>1. CASE i = n + 1  BY <3>1
    <3>2. CASE i # n + 1
      <4>1. i \in 0..n /\ Eq(f, i)  BY <2>1, <3>2
      <4>2. QED  BY <4>1
    <3>3. QED  BY <3>1, <3>2
  <2> HIDE DEF h
  <2>4. QED  BY <2>2, <2>3
<1>3. T = {}
  <2> SUFFICES ASSUME T # {} PROVE FALSE
    OBVIOUS
  <2> HIDE DEF Upto
  <2>1. PICK m \in T : \A j \in T : ~(<<j, m>> \in OpToRel(<, Nat))
    BY NatLessThanWellFounded, WFMin
  <2>2. \A j \in T : ~(j < m)
    BY <2>1 DEF OpToRel
  <2>3. m # 0
    BY <1>1
  <2>4. m - 1 \in Nat /\ m - 1 < m /\ ~Upto((m - 1) + 1)
    BY <2>3
  <2>5. QED  BY <1>2, <2>2, <2>4
<1>4. \A n \in Nat : Upto(n)
  <2> HIDE DEF Upto
  <2>1. QED  BY <1>3
<1> DEFINE F(n) == CHOOSE f \in [Nat -> Nat] : \A i \in 0..n : Eq(f, i)
           g == [n \in Nat |-> F(n)[n]]
<1>5. \A n \in Nat : F(n) \in [Nat -> Nat] /\ \A i \in 0..n : Eq(F(n), i)
  BY <1>4
<1> HIDE DEF F
<1>6. g \in [Nat -> Nat]
  BY <1>5
<1>7. ASSUME NEW n \in Nat PROVE F(n)[n] = F(n + 1)[n]
  <2> DEFINE U == {i \in 0..n : F(n)[i] # F(n + 1)[i]}
  <2>1. U = {}
    <3> SUFFICES ASSUME U # {} PROVE FALSE
      OBVIOUS
    <3>0. U \subseteq Nat  OBVIOUS
    <3> HIDE DEF U
    <3>1. PICK m \in U : \A j \in U : ~(<<j, m>> \in OpToRel(<, Nat))
      BY <3>0, NatLessThanWellFounded, WFMin
    <3>2. \A j \in U : ~(j < m)
      BY <3>0, <3>1 DEF OpToRel
    <3> USE DEF U
    <3>3. Eq(F(n), m) /\ Eq(F(n + 1), m)
      BY <1>5
    <3>4. m # 0
      BY <3>1, <3>3
    <3>5. m - 1 \in 0..n /\ m - 1 \notin U
      BY <3>2, <3>4
    <3>6. F(n)[m - 1] = F(n + 1)[m - 1]
      BY <3>5
    <3>7. QED  BY <3>3, <3>4, <3>6
  <2>2. QED  BY <2>1
<1>8. ASSUME NEW n \in Nat PROVE Eq(g, n)
  <2>1. CASE n = 0
    <3>0. 0 \in Nat /\ 0 \in 0..0  OBVIOUS
    <3>1. Eq(F(0), 0)  BY <1>5, <3>0
    <3>2. QED  BY <2>1, <3>1
  <2>2. CASE n # 0
    <3>1. Eq(F(n), n)  BY <1>5
    <3>2. n - 1 \in Nat /\ (n - 1) + 1 = n  BY <2>2
    <3>3. F(n - 1)[n - 1] = F(n)[n - 1]  BY <1>7, <3>2
    <3>4. QED  BY <2>2, <3>1, <3>2, <3>3
  <2>3. QED  BY <2>1, <2>2
<1> HIDE DEF g
<1>9. g = Doubling(g)
  BY <1>6, <1>8 DEF Doubling
<1>10. QED  BY <1>6, <1>9

\* Blocks double from order to order.
LEMMA SizeDoubles ==
    /\ Size \in [Nat -> Nat \ {0}]
    /\ Size[0] = 1
    /\ \A n \in Nat : Size[n + 1] = 2 * Size[n]
<1>1. Size = Doubling(Size)
  <2>1. Size = CHOOSE f : f = Doubling(f)
    BY DEF Size, Doubling
  <2>2. QED  BY <2>1, SizeExists
<1>2. /\ DOMAIN Size = Nat
      /\ Size[0] = 1
      /\ \A n \in Nat : Size[n + 1] = 2 * Size[n]
  <2>1. \A n \in Nat : Size[n] = IF n = 0 THEN 1 ELSE 2 * Size[n - 1]
    BY <1>1 DEF Doubling
  <2>2. DOMAIN Size = Nat
    BY <1>1 DEF Doubling
  <2>3. \A n \in Nat : n + 1 \in Nat /\ n + 1 # 0 /\ (n + 1) - 1 = n
    OBVIOUS
  <2>4. QED  BY <2>1, <2>2, <2>3
<1> DEFINE T == {n \in Nat : Size[n] \notin Nat \ {0}}
<1>3. T = {}
  <2> SUFFICES ASSUME T # {} PROVE FALSE
    OBVIOUS
  <2>1. PICK m \in T : \A j \in T : ~(<<j, m>> \in OpToRel(<, Nat))
    BY NatLessThanWellFounded, WFMin
  <2>2. \A j \in T : ~(j < m)
    BY <2>1 DEF OpToRel
  <2>3. m # 0
    BY <1>2
  <2>4. m - 1 \in Nat /\ m - 1 < m /\ (m - 1) + 1 = m
    BY <2>3
  <2>5. Size[m - 1] \in Nat \ {0}
    BY <2>2, <2>4
  <2>6. Size[m] = 2 * Size[m - 1]
    BY <1>2, <2>4
  <2>7. QED  BY <2>5, <2>6
<1>4. \A n \in Nat : Size[n] \in Nat \ {0}
  BY <1>3
<1>5. Size \in [Nat -> Nat \ {0}]
  BY <1>1, <1>4 DEF Doubling
<1>6. QED  BY <1>2, <1>5

-----------------------------------------------------------------------------
(* The pages of the free blocks *)

LEMMA OrdersFinite == IsFiniteSet(Orders) /\ Orders \subseteq Nat /\ MaxOrder \in Nat \ {0}
BY NodeAssumption, FS_Interval DEF Orders

\* What each order adds to the blocks below it.
AddsUp(nr, f) ==
    f = [o \in 0..MaxOrder |-> IF o = 0 THEN 0 ELSE f[o - 1] + nr[o - 1] * Size[o - 1]]

\* The product of a count and a size is an integer.
LEMMA TermType ==
    ASSUME NEW nr \in [Orders -> Int], NEW o \in 1..MaxOrder
    PROVE  o - 1 \in Orders /\ o - 1 \in 0..MaxOrder /\ nr[o - 1] * Size[o - 1] \in Int
<1>1. o - 1 \in Orders /\ o - 1 \in 0..MaxOrder /\ o - 1 \in Nat
  BY OrdersFinite DEF Orders
<1>2. nr[o - 1] \in Int /\ Size[o - 1] \in Int
  BY <1>1, SizeDoubles
<1>3. \A a, b \in Int : a * b \in Int
  OBVIOUS
<1> QED  BY <1>1, <1>2, <1>3

\* The sums exist: they are defined up to every order.
LEMMA PagesExist ==
    ASSUME NEW nr \in [Orders -> Int]
    PROVE  \E f \in [0..MaxOrder -> Int] : AddsUp(nr, f)
<1> DEFINE Eq(f, o) == f[o] = IF o = 0 THEN 0 ELSE f[o - 1] + nr[o - 1] * Size[o - 1]
           Upto(n) == \E f \in [0..MaxOrder -> Int] :
                         \A o \in 0..MaxOrder : o <= n => Eq(f, o)
           T == {n \in Nat : ~Upto(n)}
<1>1. Upto(0)
  <2> DEFINE f == [o \in 0..MaxOrder |-> 0]
  <2>1. f \in [0..MaxOrder -> Int] /\ \A o \in 0..MaxOrder : o <= 0 => Eq(f, o)
    OBVIOUS
  <2> QED  BY <2>1
<1>2. ASSUME NEW n \in Nat, Upto(n) PROVE Upto(n + 1)
  <2>1. PICK f \in [0..MaxOrder -> Int] : \A o \in 0..MaxOrder : o <= n => Eq(f, o)
    BY <1>2
  <2>2. CASE n + 1 \notin 0..MaxOrder
    <3>1. \A o \in 0..MaxOrder : o <= n + 1 => o <= n
      BY <2>2, OrdersFinite
    <3> HIDE DEF Eq
    <3> QED  BY <2>1, <3>1
  <2>3. CASE n + 1 \in 0..MaxOrder
    <3> DEFINE v == f[n] + nr[n] * Size[n]
               h == [o \in 0..MaxOrder |-> IF o = n + 1 THEN v ELSE f[o]]
    <3>1. n \in 0..MaxOrder /\ n \in Orders /\ (n + 1) - 1 = n /\ n + 1 # 0
          /\ n + 1 \in 1..MaxOrder
      BY <2>3, OrdersFinite DEF Orders
    <3>2. v \in Int
      BY <3>1, TermType
    <3>3. h \in [0..MaxOrder -> Int]
      BY <3>2
    <3>4. ASSUME NEW o \in 0..MaxOrder, o <= n + 1 PROVE Eq(h, o)
      <4>1. CASE o = n + 1
        <5>1. h[o] = v /\ h[n] = f[n] /\ o # 0 /\ o - 1 = n
          BY <3>1, <4>1
        <5> QED  BY <5>1
      <4>2. CASE o # n + 1
        <5>1. o <= n /\ Eq(f, o) /\ h[o] = f[o]
          BY <2>1, <3>4, <4>2
        <5>2. o # 0 => o - 1 \in 0..MaxOrder /\ o - 1 # n + 1
          <6>1. o \in Int /\ o >= 0 /\ o <= n /\ o <= MaxOrder /\ MaxOrder \in Int
            BY <5>1, OrdersFinite
          <6> QED  BY <1>2, <6>1
        <5>3. o # 0 => h[o - 1] = f[o - 1]
          BY <5>2
        <5> QED  BY <5>1, <5>3
      <4> QED  BY <4>1, <4>2
    <3> HIDE DEF h, Eq
    <3> QED  BY <3>3, <3>4
  <2> QED  BY <2>2, <2>3
<1>3. T = {}
  <2> SUFFICES ASSUME T # {} PROVE FALSE
    OBVIOUS
  <2> HIDE DEF Upto
  <2>1. PICK m \in T : \A j \in T : ~(<<j, m>> \in OpToRel(<, Nat))
    BY NatLessThanWellFounded, WFMin
  <2>2. \A j \in T : ~(j < m)
    BY <2>1 DEF OpToRel
  <2>3. m # 0
    BY <1>1
  <2>4. m - 1 \in Nat /\ m - 1 < m /\ ~Upto((m - 1) + 1)
    BY <2>3
  <2> QED  BY <1>2, <2>2, <2>4
<1>4. Upto(MaxOrder)
  <2> HIDE DEF Upto
  <2> QED  BY <1>3, OrdersFinite
<1>5. PICK f \in [0..MaxOrder -> Int] : \A o \in 0..MaxOrder : Eq(f, o)
  <2>1. PICK f \in [0..MaxOrder -> Int] : \A o \in 0..MaxOrder : o <= MaxOrder => Eq(f, o)
    BY <1>4
  <2>2. \A o \in 0..MaxOrder : o <= MaxOrder
    BY OrdersFinite
  <2> HIDE DEF Eq
  <2> QED  BY <2>1, <2>2
<1>6. AddsUp(nr, f)
  BY <1>5 DEF AddsUp
<1> QED  BY <1>6

\* A zone's sums are integers and satisfy their equation.
LEMMA PagesAddUp ==
    ASSUME NEW nr \in [Orders -> Int]
    PROVE  /\ PagesBelow(nr) \in [0..MaxOrder -> Int]
           /\ PagesBelow(nr)[0] = 0
           /\ \A o \in 1..MaxOrder :
                 PagesBelow(nr)[o] = PagesBelow(nr)[o - 1] + nr[o - 1] * Size[o - 1]
<1> DEFINE g == PagesBelow(nr)
<1>1. g = CHOOSE f : AddsUp(nr, f)
  BY DEF PagesBelow, AddsUp
<1>2. AddsUp(nr, g)
  BY <1>1, PagesExist
<1> HIDE DEF g
<1>3. g[0] = 0 /\ \A o \in 1..MaxOrder : g[o] = g[o - 1] + nr[o - 1] * Size[o - 1]
  BY <1>2, OrdersFinite DEF AddsUp
<1> DEFINE T == {o \in 0..MaxOrder : g[o] \notin Int}
<1>4. T = {}
  <2> SUFFICES ASSUME T # {} PROVE FALSE
    OBVIOUS
  <2>0. T \subseteq Nat
    OBVIOUS
  <2>1. PICK m \in T : \A j \in T : ~(<<j, m>> \in OpToRel(<, Nat))
    BY <2>0, NatLessThanWellFounded, WFMin
  <2>2. \A j \in T : ~(j < m)
    BY <2>0, <2>1 DEF OpToRel
  <2>3. m # 0 /\ m \in 1..MaxOrder
    BY <1>3
  <2>4. m - 1 \in 0..MaxOrder /\ m - 1 < m /\ nr[m - 1] * Size[m - 1] \in Int
    BY <2>3, TermType
  <2>5. g[m - 1] \in Int
    BY <2>2, <2>4
  <2>6. \A a, b \in Int : a + b \in Int
    OBVIOUS
  <2> QED  BY <1>3, <2>3, <2>4, <2>5, <2>6
<1>5. g \in [0..MaxOrder -> Int]
  BY <1>2, <1>4 DEF AddsUp
<1> QED  BY <1>3, <1>5 DEF g

LEMMA PagesType ==
    ASSUME NEW nr \in [Orders -> Int]
    PROVE  PagesIn(nr) \in Int
BY PagesAddUp, OrdersFinite DEF PagesIn

\* n blocks of order o more or less are n times their size.
LEMMA PagesDelta ==
    ASSUME NEW nr \in [Orders -> Int], NEW o \in Orders, NEW n \in Int
    PROVE  PagesIn([nr EXCEPT ![o] = @ + n]) = PagesIn(nr) + n * Size[o]
<1>4. o \in Nat /\ o < MaxOrder /\ Size[o] \in Int /\ nr[o] \in Int /\ MaxOrder \in Nat
  <2>1. o \in 0..MaxOrder - 1 /\ MaxOrder \in Nat
    BY OrdersFinite DEF Orders
  <2> QED  BY <2>1, SizeDoubles
<1> DEFINE mr == [nr EXCEPT ![o] = @ + n]
           f == PagesBelow(nr)
           g == PagesBelow(mr)
           d == n * Size[o]
<1>1. mr \in [Orders -> Int] /\ mr[o] = nr[o] + n /\ \A p \in Orders \ {o} : mr[p] = nr[p]
  OBVIOUS
<1> HIDE DEF mr
<1>2. /\ f \in [0..MaxOrder -> Int] /\ f[0] = 0
      /\ \A q \in 1..MaxOrder : f[q] = f[q - 1] + nr[q - 1] * Size[q - 1]
  BY PagesAddUp
<1>3. /\ g \in [0..MaxOrder -> Int] /\ g[0] = 0
      /\ \A q \in 1..MaxOrder : g[q] = g[q - 1] + mr[q - 1] * Size[q - 1]
  BY <1>1, PagesAddUp
<1>5. mr[o] * Size[o] = nr[o] * Size[o] + d /\ d \in Int
  <2>1. \A a, b, c \in Int : (a + b) * c = a * c + b * c /\ b * c \in Int
    OBVIOUS
  <2> QED  BY <1>1, <1>4, <2>1
<1> HIDE DEF f, g, d
<1> DEFINE T == {q \in 0..MaxOrder : g[q] # f[q] + IF q > o THEN d ELSE 0}
<1>6. T = {}
  <2> SUFFICES ASSUME T # {} PROVE FALSE
    OBVIOUS
  <2>0. T \subseteq Nat
    OBVIOUS
  <2>1. PICK m \in T : \A j \in T : ~(<<j, m>> \in OpToRel(<, Nat))
    BY <2>0, NatLessThanWellFounded, WFMin
  <2>2. \A j \in T : ~(j < m)
    BY <2>0, <2>1 DEF OpToRel
  <2>3. m # 0 /\ m \in 1..MaxOrder
    <3>1. m \in 0..MaxOrder /\ g[m] # f[m] + IF m > o THEN d ELSE 0
      OBVIOUS
    <3>2. f[0] = 0 /\ g[0] = 0 /\ ~(0 > o)
      BY <1>2, <1>3, <1>4
    <3>3. m # 0
      BY ONLY <3>1, <3>2
    <3> QED  BY <1>4, <3>1, <3>3
  <2>4. m - 1 \in 0..MaxOrder /\ m - 1 < m /\ m - 1 \in Orders
        /\ nr[m - 1] * Size[m - 1] \in Int
    BY <2>3, TermType
  <2>5. g[m - 1] = f[m - 1] + IF m - 1 > o THEN d ELSE 0
    BY <2>2, <2>4
  <2>6. f[m] = f[m - 1] + nr[m - 1] * Size[m - 1] /\ g[m] = g[m - 1] + mr[m - 1] * Size[m - 1]
    BY <1>2, <1>3, <2>3
  <2>7. f[m - 1] \in Int
    BY <1>2, <2>4
  <2>8. CASE m - 1 = o
    <3>1. g[m] = f[m - 1] + (nr[o] * Size[o] + d) /\ f[m] = f[m - 1] + nr[o] * Size[o] /\ m > o
      BY <1>4, <1>5, <2>5, <2>6, <2>7, <2>8
    <3> DEFINE a == f[m - 1]
               b == nr[o] * Size[o]
    <3>2. a \in Int /\ b \in Int
      BY <2>4, <2>7, <2>8
    <3> HIDE DEF a, b
    <3>3. a + (b + d) = (a + b) + d
      BY <1>5, <3>2
    <3> QED  BY <2>1, <3>1, <3>3 DEF a, b
  <2>9. CASE m - 1 # o
    <3>1. mr[m - 1] = nr[m - 1] /\ (m > o <=> m - 1 > o)
      BY <1>1, <1>4, <2>3, <2>4, <2>9
    <3> DEFINE a == f[m - 1]
               b == nr[m - 1] * Size[m - 1]
               e == IF m > o THEN d ELSE 0
    <3>2. a \in Int /\ b \in Int /\ e \in Int
      BY <1>5, <2>4, <2>7
    <3>3. g[m] = (a + e) + b /\ f[m] = a + b
      BY <2>5, <2>6, <3>1
    <3>4. g[m] # f[m] + e
      BY <2>1
    <3> HIDE DEF a, b, e
    <3> QED  BY <3>2, <3>3, <3>4
  <2> QED  BY <2>8, <2>9
<1>7. MaxOrder \in 0..MaxOrder /\ MaxOrder > o
  BY <1>4
<1>8. g[MaxOrder] = f[MaxOrder] + d
  BY <1>6, <1>7
<1> QED  BY <1>8 DEF PagesIn, f, g, d, mr

-----------------------------------------------------------------------------
(* Least and greatest members *)

LEMMA LeastIn ==
    ASSUME NEW S \in SUBSET Nat, S # {}
    PROVE  Min(S) \in S /\ \A j \in S : Min(S) <= j
<1>1. PICK m \in S : \A j \in S : ~(<<j, m>> \in OpToRel(<, Nat))
  BY NatLessThanWellFounded, WFMin
<1>2. \A j \in S : m <= j
  <2> SUFFICES ASSUME NEW j \in S PROVE m <= j
    OBVIOUS
  <2>1. j \in Nat /\ m \in Nat /\ ~(<<j, m>> \in OpToRel(<, Nat))
    BY <1>1
  <2>2. QED  BY <2>1 DEF OpToRel
<1>3. QED  BY <1>2 DEF Min

LEMMA GreatestIn ==
    ASSUME NEW n \in Nat, NEW S \in SUBSET (0..n), S # {}
    PROVE  Max(S) \in S
<1> DEFINE T == {n - j : j \in S}
<1>1. T \in SUBSET Nat /\ T # {}
  <2>1. \A j \in S : n - j \in Nat
    OBVIOUS
  <2>2. QED  BY <2>1
<1> HIDE DEF T
<1>2. Min(T) \in T /\ \A j \in T : Min(T) <= j
  BY <1>1, LeastIn
<1>3. PICK m \in S : Min(T) = n - m
  BY <1>2 DEF T
<1>4. ASSUME NEW j \in S PROVE m >= j
  <2>1. n - j \in T
    BY DEF T
  <2>2. n - m <= n - j
    BY <1>2, <1>3, <2>1
  <2>3. n \in Int /\ m \in Int /\ j \in Int
    OBVIOUS
  <2>4. QED  BY <2>2, <2>3
<1>5. QED  BY <1>4 DEF Max

LEMMA MinOfTwo ==
    ASSUME NEW a \in Nat, NEW b \in Nat
    PROVE  Min({a, b}) \in Nat /\ Min({a, b}) <= a /\ Min({a, b}) <= b
<1>1. {a, b} \in SUBSET Nat /\ {a, b} # {}
  OBVIOUS
<1>2. Min({a, b}) \in {a, b} /\ \A j \in {a, b} : Min({a, b}) <= j
  BY <1>1, LeastIn
<1>3. QED  BY <1>2

-----------------------------------------------------------------------------
(* What happens to a zone *)

\* The free lists while a block of order p is split down to order o, before the
\* block itself is taken off its list
Split(nr, o, p) == [q \in Orders |-> IF q \in o..p - 1 THEN nr[q] + 1 ELSE nr[q]]

\* The halves of a split add up to the block less its last part.
LEMMA SplitPages ==
    ASSUME NEW nr \in [Orders -> Nat], NEW o \in Orders, NEW p \in o..MaxOrder - 1
    PROVE  PagesIn(Split(nr, o, p)) = PagesIn(nr) + Size[p] - Size[o]
<1> DEFINE Ok(q) == PagesIn(Split(nr, o, q)) = PagesIn(nr) + Size[q] - Size[o]
           T == {q \in o..MaxOrder - 1 : ~Ok(q)}
<1>1. MaxOrder \in Nat /\ o \in Nat /\ Orders = 0..MaxOrder - 1
  BY OrdersFinite DEF Orders
<1>2. PagesIn(nr) \in Int
  BY PagesType
<1>3. ASSUME NEW q \in o..MaxOrder - 1
      PROVE  q \in Nat /\ q \in Orders /\ Size[q] \in Nat
  <2>1. q \in Nat /\ q \in Orders
    BY <1>1
  <2>2. QED  BY <2>1, SizeDoubles
<1>4. Ok(o)
  <2>1. Split(nr, o, o) = nr
    BY <1>1 DEF Split
  <2>2. Size[o] \in Nat
    BY <1>1, SizeDoubles
  <2>3. QED  BY <1>2, <2>1, <2>2
<1>5. ASSUME NEW q \in o..MaxOrder - 1, q # o, Ok(q - 1) PROVE Ok(q)
  <2>1. q - 1 \in Orders /\ q - 1 \in Nat /\ q - 1 \in o..MaxOrder - 1
    BY <1>1, <1>5
  <2> DEFINE l  == q - 1
             mr == Split(nr, o, l)
  <2>2. mr \in [Orders -> Int]
    BY <1>1 DEF Split
  <2>3. Split(nr, o, q) = [mr EXCEPT ![l] = @ + 1]
    <3>1. \A y \in Orders : y \in o..q - 1 <=> (y \in o..l - 1 \/ y = l)
      BY <1>1, <2>1
    <3>2. ~(l \in o..l - 1)
      BY <1>1, <2>1
    <3> HIDE DEF l
    <3>3. QED  BY <2>1, <3>1, <3>2 DEF Split
  <2>4. PagesIn(mr) \in Int /\ Size[l] \in Nat /\ Size[q] \in Nat /\ Size[o] \in Nat
    BY <1>1, <1>3, <2>1, <2>2, PagesType, SizeDoubles
  <2>5. Size[q] = 2 * Size[l]
    <3>1. q = l + 1 /\ l \in Nat  BY <1>1, <2>1
    <3> HIDE DEF l
    <3>2. QED  BY <3>1, SizeDoubles
  <2>6. l \in Orders  BY <2>1
  <2> HIDE DEF mr, l
  <2> DEFINE n == 1
  <2>7. PagesIn([mr EXCEPT ![l] = @ + n]) = PagesIn(mr) + n * Size[l]
    <3>1. n \in Int  OBVIOUS
    <3> HIDE DEF n
    <3>2. QED  BY <2>2, <2>6, <3>1, PagesDelta
  <2>8. PagesIn(mr) = PagesIn(nr) + Size[l] - Size[o]
    BY <1>5 DEF mr, l
  <2>9. QED  BY <1>2, <2>3, <2>4, <2>5, <2>7, <2>8
<1>6. T = {}
  <2> SUFFICES ASSUME T # {} PROVE FALSE
    OBVIOUS
  <2> HIDE DEF Ok
  <2>0. T \subseteq Nat
    BY <1>3
  <2>1. PICK m \in T : \A j \in T : ~(<<j, m>> \in OpToRel(<, Nat))
    <3> HIDE DEF T
    <3>1. QED  BY <2>0, NatLessThanWellFounded, WFMin
  <2>2. \A j \in T : ~(j < m)
    BY <2>0, <2>1 DEF OpToRel
  <2>3. m # o
    BY <1>4, <2>1
  <2>4. m - 1 \in o..MaxOrder - 1 /\ m - 1 < m
    <3>1. m \in o..MaxOrder - 1  BY <2>1
    <3>2. QED  BY <1>1, <2>3, <3>1
  <2>5. Ok(m - 1)
    BY <2>2, <2>4
  <2>6. QED  BY <1>5, <2>1, <2>3, <2>5
<1>7. QED  BY <1>6

\* A block taken at order o, split off the smallest one that is large enough,
\* costs the zone its pages.
LEMMA TakeBlockPages ==
    ASSUME NEW zn \in ZoneRecord, NEW o \in Orders, Blocks(zn, o) # {}
    PROVE  /\ TakeBlock(zn, o) \in ZoneRecord
           /\ Free(TakeBlock(zn, o)) = Free(zn) - Size[o]
           /\ TakeBlock(zn, o).lru = zn.lru /\ TakeBlock(zn, o).scanned = zn.scanned
           /\ TakeBlock(zn, o).saved = zn.saved /\ TakeBlock(zn, o).dead = zn.dead
<1> DEFINE p  == Min(Blocks(zn, o))
           nr == zn.nr
           f  == [q \in Orders |-> IF q = p THEN nr[q] - 1
                                    ELSE IF q \in o..p - 1 THEN nr[q] + 1 ELSE nr[q]]
<1>1. nr \in [Orders -> Nat] /\ MaxOrder \in Nat /\ o \in Nat /\ Orders = 0..MaxOrder - 1
  BY OrdersFinite DEF ZoneRecord, Orders
<1>2. p \in o..MaxOrder - 1 /\ nr[p] > 0
  <2>1. Blocks(zn, o) \in SUBSET Nat
    BY <1>1 DEF Blocks
  <2>2. p \in Blocks(zn, o)
    BY <2>1, LeastIn
  <2>3. QED  BY <2>2 DEF Blocks
<1>3. TakeBlock(zn, o) = [zn EXCEPT !.nr = f]
  BY DEF TakeBlock, ZoneRecord
<1> HIDE DEF p
<1>4. f \in [Orders -> Nat]
  <2>1. \A q \in Orders : nr[q] \in Nat /\ nr[q] + 1 \in Nat /\ (q = p => nr[q] - 1 \in Nat)
    BY <1>1, <1>2
  <2>2. QED  BY <2>1
<1>5. PagesIn(f) = PagesIn(nr) - Size[o]
  <2> DEFINE mr == Split(nr, o, p)
  <2>1. mr \in [Orders -> Int]
    BY <1>1 DEF Split
  <2>2. f = [mr EXCEPT ![p] = @ + (-1)]
    <3>1. ~(p \in o..p - 1) /\ p \in Orders
      BY <1>1, <1>2
    <3>2. mr[p] = nr[p] /\ nr[p] \in Int
      BY <1>1, <3>1 DEF Split
    <3>3. nr[p] - 1 = nr[p] + (-1)
      BY <3>2
    <3>4. QED  BY <3>1, <3>2, <3>3 DEF Split
  <2>3. PagesIn(mr) = PagesIn(nr) + Size[p] - Size[o]
    BY <1>1, <1>2, SplitPages
  <2>4. p \in Orders /\ Size[p] \in Nat /\ Size[o] \in Nat /\ PagesIn(nr) \in Int
    <3>1. p \in Nat /\ p \in Orders
      BY <1>1, <1>2
    <3>2. nr \in [Orders -> Int]
      BY <1>1
    <3>3. QED  BY <1>1, <3>1, <3>2, PagesType, SizeDoubles
  <2> DEFINE n == -1
  <2> HIDE DEF mr, f
  <2>5. PagesIn([mr EXCEPT ![p] = @ + n]) = PagesIn(mr) + n * Size[p]
    <3>1. n \in Int  OBVIOUS
    <3> HIDE DEF n
    <3>2. QED  BY <2>1, <2>4, <3>1, PagesDelta
  <2>6. QED  BY <2>2, <2>3, <2>4, <2>5
<1> HIDE DEF f
<1>6. QED  BY <1>3, <1>4, <1>5 DEF ZoneRecord, Free

LEMMA FreeType == ASSUME NEW zn \in ZoneRecord PROVE Free(zn) \in Int
<1>1. zn.nr \in [Orders -> Int]
  BY DEF ZoneRecord
<1>2. QED  BY <1>1, PagesType DEF Free

\* Pages are freed without a page more or less.
LEMMA FreedPages ==
    ASSUME NEW zn \in ZoneRecord, NEW n \in Nat, NEW y \in Freed(zn, n)
    PROVE  /\ y \in ZoneRecord
           /\ Free(y) = Free(zn) + n
           /\ y.lru = zn.lru /\ y.saved = zn.saved /\ y.scanned \in {0, zn.scanned}
<1>1. CASE n = 0
  BY <1>1, FreeType DEF Freed
<1>2. CASE n # 0
  <2>1. PICK f \in [Orders -> 0..Free(zn) + n] :
           /\ PagesIn(f) = Free(zn) + n
           /\ y = [zn EXCEPT !.nr = f, !.scanned = 0, !.dead = FALSE]
    BY <1>2 DEF Freed
  <2>2. f \in [Orders -> Nat]
    BY <2>1, FreeType
  <2>3. /\ y.nr = f /\ y.scanned = 0 /\ y.lru = zn.lru /\ y.saved = zn.saved
        /\ y \in ZoneRecord
    BY <2>1, <2>2 DEF ZoneRecord
  <2>4. QED  BY <2>1, <2>3 DEF Free
<1>3. QED  BY <1>1, <1>2

LEMMA ScaledBound ==
    ASSUME NEW a \in Nat, NEW b \in Nat, NEW c \in Nat, a <= b
    PROVE  c * a <= b * c
OBVIOUS

\* The zone as it is scanned, before any page is freed
Scan1(zn, n, r, s) == [Scanned(zn, n) EXCEPT !.lru = @ - r, !.saved = s]

LEMMA ScannedZone ==
    ASSUME NEW z \in Zones, NEW zn, ZoneSound(zn, z), NEW n \in Nat,
           NEW r \in 0..zn.lru, NEW s \in 0..SwapCluster - 1
    PROVE  /\ Scan1(zn, n, r, s) \in ZoneRecord
           /\ Free(Scan1(zn, n, r, s)) = Free(zn)
           /\ Scan1(zn, n, r, s).lru = zn.lru - r
           /\ Scan1(zn, n, r, s).saved = s
           /\ Scan1(zn, n, r, s).scanned <= MaxLru[z] * ScanFactor
<1> DEFINE m == Min({zn.scanned + n, ScanFactor * zn.lru})
           a == zn.lru - r
<1>1. /\ zn \in ZoneRecord /\ zn.scanned \in Nat /\ zn.lru \in Nat /\ ScanFactor \in Nat
      /\ MaxLru[z] \in Nat /\ zn.lru <= MaxLru[z] /\ SwapCluster \in Nat
  BY NodeAssumption DEF ZoneSound, ZoneRecord
<1>2. zn.scanned + n \in Nat /\ ScanFactor * zn.lru \in Nat
  BY <1>1
<1>3. m \in Nat /\ m <= ScanFactor * zn.lru
  <2>1. \A i, j \in Nat : Min({i, j}) \in Nat /\ Min({i, j}) <= i /\ Min({i, j}) <= j
    BY MinOfTwo
  <2>2. QED  BY <1>2, <2>1
<1>4. ScanFactor * zn.lru <= MaxLru[z] * ScanFactor
  BY <1>1, ScaledBound
<1>5. MaxLru[z] * ScanFactor \in Nat
  BY <1>1
<1>6. m <= MaxLru[z] * ScanFactor
  BY <1>2, <1>3, <1>4, <1>5
<1>7. a \in Nat /\ s \in Nat
  BY <1>1
<1>8. Scan1(zn, n, r, s) = [zn EXCEPT !.scanned = m, !.lru = a, !.saved = s]
  BY <1>1 DEF Scan1, Scanned, ZoneRecord
<1> HIDE DEF m, a
<1>9. /\ Scan1(zn, n, r, s) \in ZoneRecord
      /\ Scan1(zn, n, r, s).nr = zn.nr /\ Scan1(zn, n, r, s).lru = a
      /\ Scan1(zn, n, r, s).saved = s /\ Scan1(zn, n, r, s).scanned = m
  BY <1>1, <1>3, <1>7, <1>8 DEF ZoneRecord
<1>10. QED  BY <1>6, <1>9 DEF Free, a

\* Whatever reclaim makes of a zone, its pages add up.
LEMMA ShrunkSound ==
    ASSUME NEW z \in Zones, NEW zn, ZoneSound(zn, z), NEW prio,
           NEW x \in Shrunk(zn, Present[z] - Free(zn) - zn.lru, prio)
    PROVE  ZoneSound(x.zn, z) /\ x.got \in Nat /\ x.slab \in Nat
<1> DEFINE pinned == Present[z] - Free(zn) - zn.lru
<1>1. /\ zn \in ZoneRecord /\ zn.lru \in Nat /\ zn.saved \in Nat /\ zn.lru <= MaxLru[z]
      /\ Present[z] \in Nat /\ Free(zn) \in Int /\ SwapCluster \in Nat \ {0}
      /\ MaxLru[z] \in Nat /\ ScanFactor \in Nat
  BY NodeAssumption, FreeType DEF ZoneSound, ZoneRecord
<1>2. PICK o \in [scan : ScanCounts(zn, prio), got : 0..zn.lru, slab : {0, 1}] :
         /\ o.got <= o.scan.nr /\ o.slab <= pinned
         /\ x \in {[zn |-> y, got |-> o.got, slab |-> o.slab] :
                     y \in Freed([Scanned(zn, o.scan.nr) EXCEPT !.lru = @ - o.got,
                                                               !.saved = o.scan.saved],
                                 o.got + o.slab)}
  BY DEF Shrunk
<1> DEFINE c == o.scan
           r == o.got
           b == o.slab
<1>3. c \in ScanCounts(zn, prio) /\ r \in 0..zn.lru /\ b \in {0, 1} /\ r <= c.nr /\ b <= pinned
  BY <1>2
<1>4. PICK y \in Freed(Scan1(zn, c.nr, r, c.saved), r + b) :
         x = [zn |-> y, got |-> r, slab |-> b]
  BY <1>2, <1>3 DEF Scan1
<1> HIDE DEF c, r, b
<1>5. c.nr \in Nat /\ c.saved \in 0..SwapCluster - 1
  <2>1. PICK n \in 0..zn.lru :
           c = IF zn.saved + n >= SwapCluster
               THEN [nr |-> Min({zn.saved + n, zn.lru}), saved |-> 0]
               ELSE [nr |-> 0, saved |-> zn.saved + n]
    <3> DEFINE N == IF prio = 0 THEN {zn.lru} ELSE 0..zn.lru
               C(n) == IF zn.saved + n >= SwapCluster
                       THEN [nr |-> Min({zn.saved + n, zn.lru}), saved |-> 0]
                       ELSE [nr |-> 0, saved |-> zn.saved + n]
    <3>1. c \in {C(n) : n \in N}
      BY <1>3 DEF ScanCounts
    <3>2. N \subseteq 0..zn.lru
      BY <1>1
    <3> HIDE DEF C, N
    <3>3. PICK n \in 0..zn.lru : c = C(n)
      BY <3>1, <3>2
    <3>4. QED  BY <3>3 DEF C
  <2>2. CASE zn.saved + n >= SwapCluster
    <3>1. zn.saved + n \in Nat  BY <1>1
    <3>2. Min({zn.saved + n, zn.lru}) \in Nat  BY <1>1, <3>1, MinOfTwo
    <3>3. QED  BY <1>1, <2>1, <2>2, <3>2
  <2>3. CASE ~(zn.saved + n >= SwapCluster)
    BY <1>1, <2>1, <2>3
  <2>4. QED  BY <2>2, <2>3
<1> DEFINE w == Scan1(zn, c.nr, r, c.saved)
<1>6. /\ w \in ZoneRecord /\ Free(w) = Free(zn) /\ w.lru = zn.lru - r /\ w.saved = c.saved
      /\ w.scanned <= MaxLru[z] * ScanFactor
  BY <1>3, <1>5, ScannedZone
<1>7. r \in Nat /\ b \in Nat /\ r + b \in Nat
  BY <1>1, <1>3
<1> HIDE DEF w, pinned
<1>8. /\ y \in ZoneRecord /\ Free(y) = Free(w) + (r + b)
      /\ y.lru = w.lru /\ y.saved = w.saved /\ y.scanned \in {0, w.scanned}
  BY <1>4, <1>6, <1>7, FreedPages DEF w
<1>9. MaxLru[z] * ScanFactor \in Nat
  BY <1>1
<1>10. ZoneSound(y, z)
  BY <1>1, <1>3, <1>5, <1>6, <1>7, <1>8, <1>9 DEF ZoneSound, pinned
<1>11. QED  BY <1>4, <1>7, <1>10

\* What is above the high watermark for an order of 0 is above the low one.
LEMMA HighIsAboveLow ==
    ASSUME NEW z \in Zones, NEW cz \in Zones, NEW zn \in ZoneRecord, AtHigh(zn, z, 0, cz)
    PROVE  AtLow(zn, z, 0)
<1> DEFINE L(f, order) == [o \in 0..order |->
                IF o = 0 THEN Free(zn) - Size[order] - 1
                         ELSE f[o - 1] - zn.nr[o - 1] * Size[o - 1]]
           left == CHOOSE f : f = L(f, 0)
<1>1. left = L(left, 0)
  <2> DEFINE g == [o \in 0..0 |-> Free(zn) - Size[0] - 1]
  <2>1. g = L(g, 0)
    OBVIOUS
  <2>2. QED  BY <2>1
<1>2. Wmark[z].low <= Wmark[z].high /\ Wmark[z].low \in Nat /\ Wmark[z].high \in Nat
      /\ LowmemReserve[z][cz] \in Nat /\ LowmemReserve[z][0] = 0
  <2>1. z \in Nat /\ 0 \in 0..z
    BY NodeAssumption DEF Zones
  <2>2. QED  BY <2>1, NodeAssumption
<1>3. left[0] \in Int
  <2>1. left[0] = Free(zn) - Size[0] - 1
    BY <1>1
  <2>2. QED  BY <2>1, FreeType, SizeDoubles
<1>4. left[0] > Wmark[z].high + LowmemReserve[z][cz]
  BY DEF AtHigh, WatermarkOk, Plain
<1>5. left[0] > Wmark[z].low + LowmemReserve[z][0]
  BY <1>2, <1>3, <1>4
<1>6. QED  BY <1>5 DEF AtLow, WatermarkOk, Plain

\* One zone becomes another: what is unmet is looked at again.
LEMMA BecomeSound ==
    ASSUME ZonesSound, RestSound, NEW z \in Zones, NEW y, ZoneSound(y, z),
           Become([zone EXCEPT ![z] = y], {})
    PROVE  ZonesSound' /\ UnmetBelow' /\ unmet' \subseteq unmet
<1>1. zone' = [zone EXCEPT ![z] = y]
      /\ unmet' = {x \in unmet : ~AtLow(zone'[x], x, 0) /\ ~zone'[x].dead}
  BY DEF Become
<1>2. y \in ZoneRecord
  BY DEF ZoneSound
<1>3. zone' \in [Zones -> ZoneRecord] /\ zone'[z] = y
      /\ \A x \in Zones \ {z} : zone'[x] = zone[x]
  BY <1>1, <1>2 DEF ZonesSound
<1>4. \A x \in Zones : ZoneSound(zone'[x], x)
  BY <1>3 DEF ZonesSound
<1>5. QED  BY <1>1, <1>3, <1>4 DEF ZonesSound, UnmetBelow

-----------------------------------------------------------------------------
(* kswapd's locals *)

\* A round is under way, or over: kswapd is awake.
Awake(x) == KSound(x) /\ x.pc # "asleep"

LEMMA AgainSound ==
    ASSUME NEW x \in KRecord
    PROVE  Awake(Again(x))
<1>1. "find" \in KPlaces /\ DefPriority \in Int /\ DefPriority \in -1..DefPriority
      /\ DefPriority >= 0 /\ 0 \in 0..SwapCluster
  BY NodeAssumption DEF KPlaces
<1>2. Again(x) \in KRecord /\ Again(x).pc = "find" /\ Again(x).prio = DefPriority
  BY <1>1 DEF Again, KRecord
<1>3. QED  BY <1>1, <1>2 DEF Awake, KSound

LEMMA DoneSound ==
    ASSUME NEW x \in KRecord
    PROVE  Awake(Done(x))
<1>1. "read" \in KPlaces /\ 0 \in -1..DefPriority /\ 0 \in 0..SwapCluster /\ 0 \in Zones
  BY NodeAssumption DEF KPlaces, Zones
<1> DEFINE pc == "read"
           o  == 0
           ok == TRUE
           e  == x.end
<1>2. pc \in KPlaces /\ o \in Zones /\ o \in 0..SwapCluster /\ o \in Int /\ e \in Zones
      /\ ok \in BOOLEAN /\ Done(x) = [x EXCEPT !.pc = pc, !.cz = e, !.prio = o, !.got = o,
                                                 !.ok = ok, !.bal = o, !.end = o]
  BY <1>1 DEF Done, KRecord
<1> HIDE DEF pc, o, ok, e
<1>3. Done(x) \in KRecord /\ Done(x).pc = pc /\ Done(x).prio = o
  <2>1. x \in KRecord
    OBVIOUS
  <2>2. Done(x) = [pc |-> pc, order |-> x.order, cz |-> e, new |-> x.new, prio |-> o,
                   i |-> x.i, end |-> o, ok |-> ok, bal |-> o, got |-> o,
                   kill |-> x.kill, early |-> x.early]
    BY ONLY <1>2, <2>1 DEF KRecord
  <2>3. /\ x.order \in Orders /\ x.new \in Asked /\ x.i \in Zones
        /\ x.kill \in BOOLEAN /\ x.early \in BOOLEAN
    BY ONLY <2>1 DEF KRecord
  <2> QED  BY ONLY <1>2, <2>2, <2>3 DEF KRecord
<1> USE DEF pc, o
<1>4. QED  BY <1>1, <1>3 DEF Awake, KSound

LEMMA OutSound ==
    ASSUME NEW x \in KRecord, x.prio \in -1..DefPriority
    PROVE  Awake(Out(x))
<1>1. CASE ~AllDone(x)
  <2>1. [x EXCEPT !.order = IF x.got < SwapCluster THEN 0 ELSE @] \in KRecord
    BY OrdersFinite DEF KRecord, Orders
  <2>2. QED  BY <1>1, <2>1, AgainSound DEF Out
<1>2. CASE AllDone(x) /\ x.order > 0
  <2>1. "confirm" \in KPlaces
    BY DEF KPlaces
  <2>2. Out(x) = [x EXCEPT !.pc = "confirm"]
    BY <1>2 DEF Out
  <2>3. QED  BY <2>1, <2>2 DEF KRecord, Awake, KSound
<1>3. CASE AllDone(x) /\ ~(x.order > 0)
  BY <1>3, DoneSound DEF Out
<1>4. QED  BY <1>1, <1>2, <1>3

LEMMA NextZoneSound ==
    ASSUME NEW x \in KRecord, x.prio \in 0..DefPriority
    PROVE  Awake(NextZone(x))
<1>1. NZones \in Nat \ {0} /\ DefPriority \in Nat /\ x.i \in Zones /\ x.end \in Zones
  BY NodeAssumption DEF KRecord
<1>2. CASE x.i < x.end
  <2> DEFINE i  == x.i + 1
             pc == "shrink"
  <2>1. i \in Zones /\ pc \in KPlaces
    BY <1>1, <1>2 DEF Zones, KPlaces
  <2>2. NextZone(x) = [x EXCEPT !.i = i, !.pc = pc]
    BY <1>2 DEF NextZone
  <2> HIDE DEF i, pc
  <2>3. NextZone(x) \in KRecord /\ NextZone(x).pc = pc /\ NextZone(x).prio = x.prio
    BY <2>1, <2>2 DEF KRecord
  <2>4. QED  BY <1>1, <2>3 DEF Awake, KSound, pc
<1>3. CASE ~(x.i < x.end)
  <2> DEFINE y == [x EXCEPT !.i = 0]
  <2>1. y \in KRecord /\ y.prio = x.prio
    BY <1>1 DEF KRecord, Zones
  <2> HIDE DEF y
  <2>2. CASE AllDone(y) \/ y.got = SwapCluster
    <3>1. NextZone(x) = Out(y)
      BY <1>3, <2>2 DEF NextZone, y
    <3>2. QED  BY <1>1, <2>1, <3>1, OutSound
  <2>3. CASE ~(AllDone(y) \/ y.got = SwapCluster) /\ y.prio = 0
    <3>1. NextZone(x) = Out([y EXCEPT !.prio = -1])
      BY <1>3, <2>3 DEF NextZone, y
    <3>2. [y EXCEPT !.prio = -1] \in KRecord /\ [y EXCEPT !.prio = -1].prio = -1
      BY <2>1 DEF KRecord
    <3>3. -1 \in -1..DefPriority
      BY <1>1
    <3>4. QED  BY <3>1, <3>2, <3>3, OutSound
  <2>4. CASE ~(AllDone(y) \/ y.got = SwapCluster) /\ y.prio # 0
    <3> DEFINE prio == y.prio - 1
               pc   == "find"
    <3>1. NextZone(x) = [y EXCEPT !.pc = pc, !.prio = prio]
      BY <1>3, <2>4 DEF NextZone, y
    <3>2. pc \in KPlaces /\ prio \in 0..DefPriority /\ prio \in Int
      BY <1>1, <2>1, <2>4 DEF KPlaces
    <3> HIDE DEF prio, pc
    <3>3. NextZone(x) \in KRecord /\ NextZone(x).pc = pc /\ NextZone(x).prio = prio
      BY <2>1, <3>1, <3>2 DEF KRecord
    <3>4. QED  BY <1>1, <3>2, <3>3 DEF Awake, KSound, pc
  <2>5. QED  BY <2>2, <2>3, <2>4
<1>4. QED  BY <1>2, <1>3

\* While kswapd goes on and changes no zone, all else stays as it is.
LEMMA KswapdAlone ==
    ASSUME IInv, NoZoneChange, NoTaskChange, KSound(k'), want' \in Asked, queued' \in BOOLEAN,
           k'.pc = "asleep" /\ queued' /\ k'.order = 0 => unmet = {}
    PROVE  IInv'
<1>1. UNCHANGED <<zone, unmet, task, oom>>
  BY DEF NoZoneChange, NoTaskChange
<1>2. ZonesSound' /\ TasksSound' /\ OneHolder'
  BY <1>1 DEF IInv, ZonesSound, TasksSound, OneHolder
<1>3. RestSound' /\ UnmetBelow' /\ NoLostWakeup'
  BY <1>1 DEF IInv, RestSound, UnmetBelow, NoLostWakeup
<1>4. KSound(k)'
  OBVIOUS
<1>5. QED  BY <1>2, <1>3, <1>4 DEF IInv

LEMMA WantAndK == ASSUME IInv PROVE /\ want \in Asked /\ queued \in BOOLEAN
                                    /\ k \in KRecord /\ k.prio \in -1..DefPriority
BY DEF IInv, RestSound, KSound

LEMMA ClearType == Clear \in Asked
<1>1. 0 \in Orders /\ NZones - 1 \in Zones
  BY NodeAssumption DEF Orders, Zones
<1>2. QED  BY <1>1 DEF Clear, Asked

LEMMA KReadStep == ASSUME IInv, KRead PROVE IInv'
<1>1. k' = [k EXCEPT !.pc = IF @ = "read" THEN "clear" ELSE "clear2", !.new = want]
  BY DEF KRead
<1>2. KSound(k') /\ k'.pc # "asleep"
  BY <1>1, WantAndK DEF KRecord, KSound, KPlaces
<1>3. QED  BY <1>2, WantAndK, KswapdAlone DEF KRead

LEMMA KClearStep == ASSUME IInv, KClear PROVE IInv'
<1>1. want' = Clear /\ NoZoneChange /\ NoTaskChange /\ UNCHANGED queued
  BY DEF KClear
<1>2. k.new.order \in Orders /\ k.new.cz \in Zones
  BY WantAndK DEF KRecord, Asked
<1>3. Awake(k')
  <2> DEFINE x == [k EXCEPT !.order = k.new.order, !.cz = k.new.cz, !.new = Clear]
             y == [k EXCEPT !.pc = "prepare", !.new = Clear]
  <2>1. x \in KRecord
    BY <1>2, WantAndK, ClearType DEF KRecord
  <2>2. y \in KRecord /\ y.pc = "prepare" /\ y.prio = k.prio
    BY WantAndK, ClearType DEF KRecord, KPlaces
  <2>3. k' = Again(x) \/ k' = y
    BY DEF KClear
  <2> HIDE DEF x, y
  <2>4. CASE k' = Again(x)  BY <2>1, <2>4, AgainSound
  <2>5. CASE k' = y  BY <2>2, <2>5, WantAndK DEF Awake, KSound
  <2>6. QED  BY <2>3, <2>4, <2>5
<1>4. QED  BY <1>1, <1>3, WantAndK, ClearType, KswapdAlone DEF Awake

LEMMA KPrepareStep == ASSUME IInv, KPrepare PROVE IInv'
<1>1. k' = [k EXCEPT !.pc = IF @ = "prepare" THEN "check" ELSE "check2"]
      /\ queued' = TRUE /\ NoZoneChange /\ NoTaskChange /\ UNCHANGED want
  BY DEF KPrepare
<1>2. KSound(k') /\ k'.pc # "asleep"
  BY <1>1, WantAndK DEF KRecord, KSound, KPlaces
<1>3. QED  BY <1>1, <1>2, WantAndK, KswapdAlone

LEMMA KCheckStep == ASSUME IInv, KCheck PROVE IInv'
<1>1. \E pc \in {"check2", "nap"} : k' = [k EXCEPT !.pc = pc]
  BY DEF KCheck
<1>2. KSound(k') /\ k'.pc # "asleep"
  BY <1>1, WantAndK DEF KRecord, KSound, KPlaces
<1>3. QED  BY <1>2, WantAndK, KswapdAlone DEF KCheck

LEMMA KNapStep == ASSUME IInv, KNap PROVE IInv'
<1>1. k' = [k EXCEPT !.pc = "prepare2", !.early = ~queued]
      /\ queued' = FALSE /\ NoZoneChange /\ NoTaskChange /\ UNCHANGED want
  BY DEF KNap
<1>2. (~queued) \in BOOLEAN
  BY WantAndK
<1>3. KSound(k') /\ k'.pc # "asleep"
  BY <1>1, <1>2, WantAndK DEF KRecord, KSound, KPlaces
<1>4. QED  BY <1>1, <1>3, WantAndK, KswapdAlone

\* The step that must not miss a wakeup: it tests the zones after it is on the queue.
LEMMA KCheck2Step == ASSUME IInv, KCheck2 PROVE IInv'
<1>1. NoZoneChange /\ NoTaskChange /\ UNCHANGED want
  BY DEF KCheck2
<1>2. CASE k.early \/ sleeping_prematurely(k.order, k.cz)
  <2>1. k' = [k EXCEPT !.pc = "request", !.early = FALSE] /\ queued' = FALSE
    BY <1>2 DEF KCheck2
  <2>2. KSound(k') /\ k'.pc # "asleep"
    BY <2>1, WantAndK DEF KRecord, KSound, KPlaces
  <2>3. QED  BY <1>1, <2>1, <2>2, WantAndK, KswapdAlone
<1>3. CASE ~(k.early \/ sleeping_prematurely(k.order, k.cz))
  <2>1. k' = [k EXCEPT !.pc = "asleep"] /\ UNCHANGED queued
    BY <1>3 DEF KCheck2
  <2>2. KSound(k') /\ k'.order = k.order
    BY <2>1, WantAndK DEF KRecord, KSound, KPlaces
  <2>3. ASSUME k.order = 0, NEW z \in unmet PROVE FALSE
    <3>1. z \in Zones /\ ~zone[z].dead /\ ~AtLow(zone[z], z, 0)
      BY DEF IInv, RestSound, UnmetBelow
    <3>2. zone[z].dead \/ AtHigh(zone[z], z, 0, k.cz)
      BY <1>3, <2>3, <3>1 DEF sleeping_prematurely
    <3>3. k.cz \in Zones /\ zone[z] \in ZoneRecord
      BY <3>1, WantAndK DEF KRecord, IInv, ZonesSound
    <3>4. QED  BY <3>1, <3>2, <3>3, HighIsAboveLow
  <2>4. QED  BY <1>1, <2>1, <2>2, <2>3, WantAndK, KswapdAlone
<1>4. QED  BY <1>2, <1>3

LEMMA KWokenStep == ASSUME IInv, KWoken PROVE IInv'
<1>1. k' = [k EXCEPT !.pc = "request"]
  BY DEF KWoken
<1>2. KSound(k') /\ k'.pc # "asleep"
  BY <1>1, WantAndK DEF KRecord, KSound, KPlaces
<1>3. QED  BY <1>2, WantAndK, KswapdAlone DEF KWoken

\* kswapd stays awake while it works on a zone.
LEMMA KswapdWorks ==
    ASSUME IInv, NoTaskChange, UNCHANGED <<want, queued>>, Awake(k'),
           ZonesSound', UnmetBelow', unmet' \subseteq unmet
    PROVE  IInv'
<1>1. UNCHANGED <<task, oom>>
  BY DEF NoTaskChange
<1>2. TasksSound' /\ OneHolder'
  BY <1>1 DEF IInv, TasksSound, OneHolder
<1>3. RestSound' /\ NoLostWakeup' /\ KSound(k)'
  BY <1>1 DEF IInv, RestSound, NoLostWakeup, Awake
<1>4. QED  BY <1>2, <1>3 DEF IInv

LEMMA KswapdIdles ==
    ASSUME IInv, NoZoneChange, NoTaskChange, UNCHANGED <<want, queued>>, Awake(k')
    PROVE  IInv'
<1>1. ZonesSound' /\ UnmetBelow' /\ unmet' \subseteq unmet
  BY DEF IInv, NoZoneChange, ZonesSound, UnmetBelow
<1>2. QED  BY <1>1, KswapdWorks

LEMMA KFindStep == ASSUME IInv, KFind PROVE IInv'
<1> DEFINE low == {z \in Zones : ~Skipped(z) /\ ~AtHigh(zone[z], z, k.order, 0)}
<1>1. NoZoneChange /\ NoTaskChange /\ UNCHANGED <<want, queued>> /\ k.pc = "find"
  BY DEF KFind
<1>2. CASE low = {}
  <2> DEFINE o  == 0
             ok == TRUE
             x  == [k EXCEPT !.ok = ok, !.bal = o]
  <2>1. k' = Out(x) /\ o \in Int /\ ok \in BOOLEAN
    BY <1>2 DEF KFind
  <2> HIDE DEF o, ok
  <2>2. x \in KRecord /\ x.prio = k.prio
    BY <2>1, WantAndK DEF KRecord
  <2> HIDE DEF x
  <2>3. Awake(k')
    BY <2>1, <2>2, WantAndK, OutSound
  <2>4. QED  BY <1>1, <2>3, KswapdIdles
<1>3. CASE low # {}
  <2> DEFINE e  == Max(low)
             o  == 0
             ok == TRUE
             pc == "shrink"
  <2>1. e \in Zones
    <3>1. low \in SUBSET (0..NZones - 1) /\ NZones - 1 \in Nat
      BY NodeAssumption DEF Zones
    <3> HIDE DEF low
    <3>2. e \in low
      BY <1>3, <3>1, GreatestIn
    <3>3. QED  BY <3>1, <3>2 DEF Zones
  <2>2. k' = [k EXCEPT !.pc = pc, !.ok = ok, !.bal = o, !.i = o, !.end = e, !.cz = e]
    BY <1>3 DEF KFind
  <2>3. o \in Zones /\ o \in Int /\ pc \in KPlaces /\ ok \in BOOLEAN
    BY NodeAssumption DEF Zones, KPlaces
  <2> HIDE DEF e, o, ok, pc
  <2>4. k' \in KRecord /\ k'.pc = pc /\ k'.prio = k.prio
    BY <2>1, <2>2, <2>3, WantAndK DEF KRecord
  <2>5. k.prio >= 0
    BY <1>1 DEF IInv, KSound
  <2>6. Awake(k')
    BY <2>4, <2>5, WantAndK DEF Awake, KSound, pc
  <2>7. QED  BY <1>1, <2>6, KswapdIdles
<1>4. QED  BY <1>2, <1>3

LEMMA GotBound ==
    ASSUME NEW n \in Nat
    PROVE  Min({n, SwapCluster}) \in 0..SwapCluster
<1>1. SwapCluster \in Nat
  BY NodeAssumption
<1>2. Min({n, SwapCluster}) \in Nat /\ Min({n, SwapCluster}) <= SwapCluster
  BY <1>1, MinOfTwo
<1>3. QED  BY <1>1, <1>2

LEMMA KShrinkStep == ASSUME IInv, KShrink PROVE IInv'
<1> DEFINE z == k.i
<1>1. NoTaskChange /\ UNCHANGED <<want, queued>> /\ k.pc = "shrink" /\ z \in Zones
      /\ k \in KRecord /\ k.prio \in 0..DefPriority
  <2>1. NoTaskChange /\ UNCHANGED <<want, queued>> /\ k.pc = "shrink"
    BY DEF KShrink
  <2>2. k \in KRecord /\ k.prio \in -1..DefPriority /\ k.prio >= 0 /\ DefPriority \in Nat
    BY <2>1, NodeAssumption DEF IInv, KSound
  <2>3. QED  BY <2>1, <2>2 DEF KRecord
<1>2. CASE Skipped(z)
  <2>1. k' = NextZone(k) /\ NoZoneChange
    BY <1>2 DEF KShrink
  <2>2. QED  BY <1>1, <2>1, NextZoneSound, KswapdIdles
<1>3. CASE ~Skipped(z)
  <2>1. PICK x \in Shrunk(zone[z], Pinned(z), k.prio) :
           LET got == Min({k.got + x.got + x.slab, SwapCluster})
           IN  /\ Become([zone EXCEPT ![z] = x.zn], {})
               /\ k' = IF x.zn.dead THEN NextZone([k EXCEPT !.got = got])
                       ELSE [k EXCEPT !.got = got, !.pc = "mark",
                                      !.kill = x.slab = 0 /\ ~Reclaimable(x.zn)]
    BY <1>3 DEF KShrink
  <2>2. ZoneSound(zone[z], z)
    BY <1>1 DEF IInv, ZonesSound
  <2>3. ZoneSound(x.zn, z) /\ x.got \in Nat /\ x.slab \in Nat
    BY <1>1, <2>2, ShrunkSound DEF Pinned
  <2> DEFINE got  == Min({k.got + x.got + x.slab, SwapCluster})
             kill == (x.slab = 0 /\ ~Reclaimable(x.zn))
             pc   == "mark"
  <2>4. got \in 0..SwapCluster
    <3>1. k.got \in Nat
      BY <1>1, NodeAssumption DEF KRecord
    <3>2. k.got + x.got + x.slab \in Nat
      BY <2>3, <3>1
    <3>3. QED  BY <3>2, GotBound
  <2>5. Awake(k')
    <3>1. CASE x.zn.dead
      <4>1. k' = NextZone([k EXCEPT !.got = got])
        BY <2>1, <3>1
      <4> HIDE DEF got
      <4>2. [k EXCEPT !.got = got] \in KRecord /\ [k EXCEPT !.got = got].prio = k.prio
        BY <1>1, <2>4 DEF KRecord
      <4>3. QED  BY <1>1, <4>1, <4>2, NextZoneSound
    <3>2. CASE ~x.zn.dead
      <4>1. k' = [k EXCEPT !.got = got, !.pc = pc, !.kill = kill]
        BY <2>1, <3>2
      <4>2. pc \in KPlaces /\ kill \in BOOLEAN
        BY DEF KPlaces
      <4> HIDE DEF got, kill, pc
      <4>3. k' \in KRecord /\ k'.pc = pc /\ k'.prio = k.prio
        BY <1>1, <2>4, <4>1, <4>2 DEF KRecord
      <4>4. QED  BY <1>1, <4>3, WantAndK DEF Awake, KSound, pc
    <3>3. QED  BY <3>1, <3>2
  <2>6. ZonesSound' /\ UnmetBelow' /\ unmet' \subseteq unmet
    BY <1>1, <2>1, <2>3, BecomeSound DEF IInv
  <2>7. QED  BY <1>1, <2>5, <2>6, KswapdWorks
<1>4. QED  BY <1>2, <1>3

LEMMA KMarkStep == ASSUME IInv, KMark PROVE IInv'
<1> DEFINE z == k.i
           y == [zone[z] EXCEPT !.dead = @ \/ k.kill]
<1>1. NoTaskChange /\ UNCHANGED <<want, queued>> /\ k.pc = "mark" /\ z \in Zones
      /\ k \in KRecord /\ k.prio \in 0..DefPriority
  <2>1. NoTaskChange /\ UNCHANGED <<want, queued>> /\ k.pc = "mark"
    BY DEF KMark
  <2>2. k \in KRecord /\ k.prio \in -1..DefPriority /\ k.prio >= 0 /\ DefPriority \in Nat
    BY <2>1, NodeAssumption DEF IInv, KSound
  <2>3. QED  BY <2>1, <2>2 DEF KRecord
<1>2. Become([zone EXCEPT ![z] = y], {})
  BY DEF KMark
<1>3. ZoneSound(y, z)
  <2>1. ZoneSound(zone[z], z) /\ zone[z] \in ZoneRecord
    BY <1>1 DEF IInv, ZonesSound
  <2>2. y \in ZoneRecord /\ y.nr = zone[z].nr /\ y.lru = zone[z].lru
        /\ y.scanned = zone[z].scanned /\ y.saved = zone[z].saved
    BY <2>1 DEF ZoneRecord
  <2>3. QED  BY <2>1, <2>2 DEF ZoneSound, Free
<1>4. Awake(k')
  <2> DEFINE n == k.bal + IF z <= k.cz THEN Present[z] ELSE 0
             u == [k EXCEPT !.kill = FALSE, !.ok = FALSE]
             v == [k EXCEPT !.kill = FALSE, !.bal = n]
  <2>1. n \in Int
    BY <1>1, NodeAssumption DEF KRecord
  <2>2. k' = NextZone(u) \/ k' = NextZone(v)
    BY DEF KMark
  <2>3. u \in KRecord /\ u.prio = k.prio
    BY <1>1 DEF KRecord
  <2>4. v \in KRecord /\ v.prio = k.prio
    <3> HIDE DEF n
    <3>1. QED  BY <1>1, <2>1 DEF KRecord
  <2> HIDE DEF u, v
  <2>5. QED  BY <1>1, <2>2, <2>3, <2>4, NextZoneSound
<1> HIDE DEF y
<1>5. ZonesSound' /\ UnmetBelow' /\ unmet' \subseteq unmet
  BY <1>1, <1>2, <1>3, BecomeSound DEF IInv
<1>6. QED  BY <1>1, <1>4, <1>5, KswapdWorks

LEMMA KConfirmStep == ASSUME IInv, KConfirm PROVE IInv'
<1>1. [k EXCEPT !.order = 0] \in KRecord
  <2>1. 0 \in Orders
    BY NodeAssumption DEF Orders
  <2>2. QED  BY <2>1, WantAndK DEF KRecord
<1>2. k' = Done(k) \/ k' = Again([k EXCEPT !.order = 0])
  BY DEF KConfirm
<1>3. Awake(k')
  BY <1>1, <1>2, WantAndK, DoneSound, AgainSound
<1>4. QED  BY <1>3, KswapdIdles DEF KConfirm

-----------------------------------------------------------------------------
(* Tasks *)

LEMMA ZonesBelow == ASSUME NEW z \in Zones PROVE 0..z \subseteq Zones /\ Zones \subseteq Nat
<1>1. NZones \in Nat
  BY NodeAssumption
<1>2. QED  BY <1>1 DEF Zones

LEMMA KindType ==
    ASSUME NEW r \in TaskRecord
    PROVE  /\ r.kind.order \in Orders /\ r.kind.top \in Zones /\ r.kind.top \in Nat
           /\ r.kind \in Kinds /\ r.kind.memalloc \in BOOLEAN
<1>1. r.kind \in Kinds
  BY DEF TaskRecord
<1>2. /\ r.kind.order \in Orders /\ r.kind.top \in Zones /\ r.kind.memalloc \in BOOLEAN
  BY <1>1, NodeAssumption
<1>3. Zones \subseteq Nat
  BY NodeAssumption DEF Zones
<1>4. QED  BY <1>1, <1>2, <1>3

Settled(r) == r = Idle \/ Busy(r)

\* A task that leaves the locks to others as they are
Outside(r) == \A z \in Zones : ~Inside(r, z)

LEMMA IdleOutside == Settled(Idle) /\ Outside(Idle)
BY DEF Settled, Outside, Inside, Idle

LEMMA WalkBusy ==
    ASSUME NEW r \in TaskRecord, r.prio \in 0..DefPriority,
           NEW s \in {"first", "slow", "desperate", "reclaimed", "oom"}
    PROVE  /\ Busy(Walk(r, s)) /\ Walk(r, s).pc = "scan" /\ Walk(r, s).stage = s
           /\ Walk(r, s).kind = r.kind
<1> DEFINE top == r.kind.top
           pc  == "scan"
<1>1. top \in Nat /\ top \in Int
      /\ pc \in {"scan", "take", "wake", "reclaim", "result", "oom", "blamo"}
  BY KindType
<1>2. Walk(r, s) = [r EXCEPT !.pc = pc, !.stage = s, !.zone = top]
  BY DEF Walk
<1> HIDE DEF top, pc
<1>3. /\ Walk(r, s) \in TaskRecord /\ Walk(r, s).pc = pc /\ Walk(r, s).stage = s
      /\ Walk(r, s).kind = r.kind /\ Walk(r, s).zone = top /\ Walk(r, s).prio = r.prio
  BY <1>1, <1>2 DEF TaskRecord
<1>4. QED  BY <1>1, <1>3 DEF Busy, top, pc

LEMMA BalanceSettled ==
    ASSUME NEW r \in TaskRecord
    PROVE  Settled(Balance(r)) /\ Outside(Balance(r))
<1>1. CASE ~r.kind.wait \/ r.kind.memalloc
  BY <1>1, IdleOutside DEF Balance
<1>2. CASE ~(~r.kind.wait \/ r.kind.memalloc)
  <2> DEFINE top  == r.kind.top
             pc   == "reclaim"
             st   == "slow"
             prio == DefPriority
             b    == Balance(r)
  <2>1. top \in Nat /\ prio \in Nat /\ top \in Int /\ prio \in Int
        /\ pc \in {"scan", "take", "wake", "reclaim", "result", "oom", "blamo"}
        /\ st \in {"first", "slow", "desperate", "reclaimed", "oom"}
    BY KindType, NodeAssumption
  <2>2. b = [r EXCEPT !.pc = pc, !.stage = st, !.zone = top, !.prio = prio]
    BY <1>2 DEF Balance
  <2> HIDE DEF top, prio, b, pc, st
  <2>3. /\ b \in TaskRecord /\ b.pc = pc /\ b.kind = r.kind /\ b.zone = top /\ b.prio = prio
    BY <2>1, <2>2 DEF TaskRecord
  <2>4. Busy(b)
    BY <2>1, <2>3 DEF Busy, top, prio, pc
  <2>5. Outside(b)
    BY <2>3 DEF Outside, Inside, pc
  <2>6. QED  BY <2>4, <2>5 DEF Settled, b
<1>3. QED  BY <1>1, <1>2

\* Only the place of a task changes.
LEMMA PlaceBusy ==
    ASSUME NEW r, Busy(r), NEW pc \in {"wake", "result", "oom", "blamo"},
           pc = "blamo" => r.stage = "oom"
    PROVE  /\ Busy([r EXCEPT !.pc = pc]) /\ [r EXCEPT !.pc = pc].pc = pc
           /\ [r EXCEPT !.pc = pc].stage = r.stage /\ [r EXCEPT !.pc = pc].kind = r.kind
<1>1. r \in TaskRecord
  BY DEF Busy
<1>2. /\ [r EXCEPT !.pc = pc] \in TaskRecord /\ [r EXCEPT !.pc = pc].pc = pc
      /\ [r EXCEPT !.pc = pc].stage = r.stage /\ [r EXCEPT !.pc = pc].kind = r.kind
      /\ [r EXCEPT !.pc = pc].zone = r.zone /\ [r EXCEPT !.pc = pc].prio = r.prio
  BY <1>1 DEF TaskRecord
<1>3. QED  BY <1>2 DEF Busy

SameLocks(r, q) == \A z \in Zones : Inside(r, z) <=> Inside(q, z)

\* A walk that finds no page leads out of __alloc_pages_may_oom by no hidden path.
LEMMA AfterWalkSettled ==
    ASSUME NEW r, Busy(r), r.pc = "scan"
    PROVE  Settled(AfterWalk(r)) /\ SameLocks(AfterWalk(r), r)
<1>1. r \in TaskRecord /\ r.prio \in 0..DefPriority
      /\ r.stage \in {"first", "slow", "desperate", "reclaimed", "oom"}
  BY DEF Busy, TaskRecord
<1>2. Settled(Balance(r)) /\ Outside(Balance(r))
  BY <1>1, BalanceSettled
<1>3. Busy(Walk(r, "desperate")) /\ Walk(r, "desperate").stage = "desperate"
  BY <1>1, WalkBusy
<1>4. r.stage # "oom" => Outside(r)
  BY DEF Outside, Inside
<1>5. CASE r.stage = "first"
  <2>1. AfterWalk(r) = [r EXCEPT !.pc = "wake"]
    BY <1>5 DEF AfterWalk
  <2>2. QED  BY <1>5, <2>1, PlaceBusy DEF Settled, SameLocks, Inside
<1>6. CASE r.stage = "slow"
  <2>1. AfterWalk(r) = Walk(r, "desperate") \/ AfterWalk(r) = Balance(r)
    BY <1>6 DEF AfterWalk
  <2>2. QED  BY <1>2, <1>3, <1>4, <1>6, <2>1 DEF Settled, SameLocks, Outside, Inside
<1>7. CASE r.stage = "desperate"
  <2>1. AfterWalk(r) = Walk(r, "desperate") \/ AfterWalk(r) = Balance(r)
    BY <1>7 DEF AfterWalk
  <2>2. QED  BY <1>2, <1>3, <1>4, <1>7, <2>1 DEF Settled, SameLocks, Outside, Inside
<1>8. CASE r.stage = "reclaimed"
  <2>1. AfterWalk(r) = Idle \/ AfterWalk(r) = Balance(r)
    BY <1>8 DEF AfterWalk
  <2>2. QED  BY <1>2, <1>4, <1>8, <2>1, IdleOutside DEF SameLocks, Outside
<1>9. CASE r.stage = "oom"
  <2> DEFINE q  == AfterWalk(r)
             pc == "blamo"
  <2>1. q = [r EXCEPT !.pc = pc] /\ pc \in {"wake", "result", "oom", "blamo"}
        /\ (pc = "blamo" => r.stage = "oom")
    BY <1>9 DEF AfterWalk
  <2> HIDE DEF pc, q
  <2>2. Busy(q) /\ q.pc = pc /\ q.stage = r.stage /\ q.kind = r.kind
    <3>1. Busy([r EXCEPT !.pc = pc])
      BY <2>1, PlaceBusy
    <3>2. q.pc = pc /\ q.stage = r.stage /\ q.kind = r.kind
      BY <1>1, <2>1 DEF TaskRecord
    <3>3. QED  BY <2>1, <3>1, <3>2
  <2> USE DEF pc
  <2>3. Settled(q) /\ SameLocks(q, r)
    BY <2>2 DEF Settled, SameLocks, Inside
  <2>4. QED  BY <2>3 DEF q
<1>10. QED  BY <1>1, <1>5, <1>6, <1>7, <1>8, <1>9

\* One task changes its place; r is where it is now.
Moved(t, r) ==
    /\ Settled(r)
    /\ task' = [task EXCEPT ![t] = r]
    /\ UNCHANGED k

LEMMA MovedTasks ==
    ASSUME IInv, NEW t \in Tasks, NEW r, Moved(t, r)
    PROVE  /\ TasksSound' /\ KSound(k)'
           /\ task'[t] = r /\ \A u \in Tasks \ {t} : task'[u] = task[u]
<1>1. task'[t] = r /\ \A u \in Tasks \ {t} : task'[u] = task[u]
  BY DEF Moved, IInv, TasksSound
<1>2. QED  BY <1>1 DEF Moved, IInv, TasksSound, Settled

LEMMA LocksSame ==
    ASSUME IInv, NEW t \in Tasks, NEW r, Moved(t, r), SameLocks(r, task[t]), UNCHANGED oom
    PROVE  OneHolder'
<1>1. \A u \in Tasks, z \in Zones : Inside(task'[u], z) <=> Inside(task[u], z)
  BY MovedTasks DEF SameLocks
<1>2. OneHolder /\ oom \subseteq Zones
  BY DEF IInv, RestSound
<1> HIDE DEF IInv
<1>3. QED
  <2>1. \A z \in oom' : \E u \in Tasks : Inside(task'[u], z)
    BY <1>1, <1>2 DEF OneHolder
  <2>2. \A u \in Tasks, z \in Zones : Inside(task'[u], z) => z \in oom'
    BY <1>1, <1>2 DEF OneHolder
  <2>3. \A u, v \in Tasks, z \in Zones : Inside(task'[u], z) /\ Inside(task'[v], z) => u = v
    BY <1>1, <1>2 DEF OneHolder
  <2>4. QED  BY <2>1, <2>2, <2>3 DEF OneHolder, Inside

\* The holder gives back what it holds, and no more.
LEMMA LocksGivenBack ==
    ASSUME IInv, NEW t \in Tasks, NEW r, Moved(t, r), Outside(r), oom' = Unlock(task[t]),
           Busy(task[t]), task[t].pc \in {"scan", "take", "blamo"}
    PROVE  OneHolder'
<1> DEFINE q   == task[t]
           top == q.kind.top
<1>1. top \in Nat /\ Zones \subseteq Nat
  BY KindType, NodeAssumption DEF Busy, Zones
<1>2. OneHolder /\ oom \subseteq Zones
  BY DEF IInv, RestSound
<1>3. task'[t] = r /\ \A u \in Tasks \ {t} : task'[u] = task[u]
  BY MovedTasks
<1>4. CASE q.stage # "oom"
  <2>1. Outside(q)
    BY <1>4 DEF Outside, Inside
  <2>2. oom' = oom
    BY <1>4 DEF Unlock
  <2>3. QED  BY <2>1, <2>2, LocksSame DEF SameLocks, Outside
<1>5. CASE q.stage = "oom"
  <2>1. \A z \in Zones : Inside(q, z) <=> z \in 0..top
    BY <1>1, <1>5 DEF Inside
  <2>2. oom' = oom \ (0..top)
    BY <1>5 DEF Unlock
  <2>3. ASSUME NEW z \in oom' PROVE \E u \in Tasks : Inside(task'[u], z)
    <3>1. z \in oom /\ z \in Zones /\ ~Inside(q, z)
      BY <1>2, <2>1, <2>2
    <3>2. PICK u \in Tasks : Inside(task[u], z)
      BY <1>2, <3>1 DEF OneHolder
    <3>3. u # t
      BY <3>1, <3>2
    <3>4. QED  BY <1>3, <3>2, <3>3
  <2>4. ASSUME NEW u \in Tasks, NEW z \in Zones, Inside(task'[u], z)
        PROVE  u # t /\ Inside(task[u], z) /\ z \in oom'
    <3>1. u # t
      BY <1>3, <2>4 DEF Outside
    <3>2. Inside(task[u], z)
      BY <1>3, <2>4, <3>1
    <3>3. z \in oom /\ ~Inside(q, z)
      BY <1>2, <3>1, <3>2 DEF OneHolder
    <3>4. QED  BY <2>1, <2>2, <3>1, <3>2, <3>3
  <2>5. \A u, v \in Tasks, z \in Zones : Inside(task'[u], z) /\ Inside(task'[v], z) => u = v
    BY <1>2, <2>4 DEF OneHolder
  <2>6. QED  BY <2>3, <2>4, <2>5 DEF OneHolder, Inside
<1>6. QED  BY <1>4, <1>5

\* A lock is taken for all zones or none, and only if none is held.
LEMMA LocksTaken ==
    ASSUME IInv, NEW t \in Tasks, NEW r, Moved(t, r), Outside(task[t]), Busy(r),
           oom \cap (0..r.kind.top) = {}, oom' = oom \cup (0..r.kind.top),
           \A z \in Zones : Inside(r, z) <=> z \in 0..r.kind.top
    PROVE  OneHolder'
<1>1. r.kind.top \in Zones /\ Zones \subseteq Nat /\ Zones = 0..NZones - 1 /\ NZones \in Nat
  <2>1. r \in TaskRecord
    BY DEF Busy
  <2>2. r.kind.top \in Zones
    BY <2>1, KindType
  <2>3. NZones \in Nat
    BY NodeAssumption
  <2>4. QED  BY ONLY <2>2, <2>3 DEF Zones
<1>2. 0..r.kind.top \subseteq Zones
  BY <1>1
<1>3. OneHolder
  BY DEF IInv
<1>4. task'[t] = r /\ \A u \in Tasks \ {t} : task'[u] = task[u]
  BY MovedTasks
<1>5. ASSUME NEW z \in oom' PROVE \E u \in Tasks : Inside(task'[u], z)
  <2>1. CASE z \in 0..r.kind.top
    BY <1>2, <1>4, <2>1
  <2>2. CASE z \in oom
    <3>1. PICK u \in Tasks : Inside(task[u], z)
      BY <1>3, <2>2 DEF OneHolder
    <3>2. z \in Zones
      BY <2>2 DEF IInv, RestSound
    <3>3. u # t
      BY <3>1, <3>2 DEF Outside
    <3>4. QED  BY <1>4, <3>1, <3>3
  <2>3. QED  BY <2>1, <2>2
<1>6. ASSUME NEW u \in Tasks, NEW z \in Zones, Inside(task'[u], z)
      PROVE  /\ u = t => z \in 0..r.kind.top
             /\ u # t => Inside(task[u], z) /\ z \in oom
  BY <1>3, <1>4, <1>6 DEF OneHolder
<1>7. \A u, v \in Tasks, z \in Zones : Inside(task'[u], z) /\ Inside(task'[v], z) => u = v
  BY <1>3, <1>6 DEF OneHolder
<1>8. QED  BY <1>5, <1>6, <1>7 DEF OneHolder, Inside

\* A task that changes only its place: no zone, no request, no lock.
LEMMA TaskAlone ==
    ASSUME IInv, NEW t \in Tasks, NEW r, Moved(t, r), SameLocks(r, task[t]), NoZoneChange,
           UNCHANGED <<want, queued, oom>>
    PROVE  IInv'
<1>1. UNCHANGED <<zone, unmet, k>>
  BY DEF NoZoneChange, Moved
<1>2. ZonesSound' /\ RestSound' /\ UnmetBelow' /\ NoLostWakeup'
  BY <1>1 DEF IInv, ZonesSound, RestSound, UnmetBelow, NoLostWakeup
<1>3. QED  BY <1>2, MovedTasks, LocksSame DEF IInv

LEMMA SearchStep ==
    ASSUME IInv, NEW t \in Tasks, NEW r, Busy(r), r.pc = "scan", SameLocks(r, task[t]),
           Search(t, r), NoZoneChange, UNCHANGED <<want, queued, k, oom>>
    PROVE  IInv'
<1> DEFINE zs == {z \in 0..r.zone : Passes(r, z)}
           q  == IF zs = {} THEN AfterWalk(r) ELSE [r EXCEPT !.pc = "take", !.zone = Max(zs)]
<1>1. task' = [task EXCEPT ![t] = q]
  BY DEF Search, Goto
<1>2. Settled(q) /\ SameLocks(q, r)
  <2>1. CASE zs = {}
    BY <2>1, AfterWalkSettled
  <2>2. CASE zs # {}
    <3> DEFINE m  == Max(zs)
               pc == "take"
    <3>1. r \in TaskRecord /\ r.zone \in Int /\ r.zone <= r.kind.top
      BY DEF Busy, TaskRecord
    <3>2. r.zone \in Nat
      BY <2>2, <3>1
    <3>3. m \in 0..r.zone /\ m \in Int
      <4>1. zs \in SUBSET (0..r.zone)
        OBVIOUS
      <4> HIDE DEF zs
      <4>2. m \in zs
        BY <2>2, <3>2, <4>1, GreatestIn
      <4> HIDE DEF m
      <4>3. m \in 0..r.zone
        BY <4>1, <4>2
      <4>4. QED  BY <4>3
    <3>4. q = [r EXCEPT !.pc = pc, !.zone = m]
          /\ pc \in {"scan", "take", "wake", "reclaim", "result", "oom", "blamo"}
      BY <2>2
    <3> HIDE DEF m, pc, zs, q
    <3>5. /\ q \in TaskRecord /\ q.pc = pc /\ q.stage = r.stage /\ q.kind = r.kind
          /\ q.zone = m /\ q.prio = r.prio
      BY <3>1, <3>3, <3>4 DEF TaskRecord
    <3>6. m <= r.kind.top /\ 0 <= m
      BY <3>1, <3>2, <3>3, KindType
    <3>7. Busy(q)
      BY <3>5, <3>6 DEF Busy, pc
    <3>8. SameLocks(q, r)
      BY <3>5 DEF SameLocks, Inside, pc
    <3>9. QED  BY <3>7, <3>8 DEF Settled
  <2>3. QED  BY <2>1, <2>2
<1> HIDE DEF q
<1>3. Moved(t, q) /\ SameLocks(q, task[t])
  BY <1>1, <1>2 DEF Moved, SameLocks
<1>4. QED  BY <1>3, TaskAlone

LEMMA BusyTask ==
    ASSUME IInv, NEW t \in Tasks, task[t].pc # "idle"
    PROVE  Busy(task[t]) /\ task[t] \in TaskRecord
BY DEF IInv, TasksSound, Idle, Busy

LEMMA RequestStep == ASSUME IInv, NEW t \in Tasks, NEW kind \in Kinds, Request(t, kind) PROVE IInv'
<1> DEFINE pc == "scan"
           st == "first"
           o  == 0
           no == FALSE
           r  == [pc |-> pc, stage |-> st, kind |-> kind, zone |-> kind.top,
                  nowm |-> no, prio |-> o, got |-> o]
<1>1. /\ pc \in {"scan", "take", "wake", "reclaim", "result", "oom", "blamo"}
      /\ st \in {"first", "slow", "desperate", "reclaimed", "oom"}
      /\ o \in Int /\ no \in BOOLEAN /\ o \in 0..SwapCluster /\ o \in 0..DefPriority
      /\ kind.top \in Int
  <2>1. kind.top \in Zones
    BY NodeAssumption
  <2>2. QED  BY <2>1, NodeAssumption DEF Zones
<1>2. /\ task[t].pc = "idle" /\ Search(t, r) /\ NoZoneChange
      /\ UNCHANGED <<want, queued, k, oom>>
  BY DEF Request, At
<1>3. Busy(r) /\ r.pc = "scan" /\ r.stage = "first"
  <2> HIDE DEF pc, st, o, no
  <2>1. r \in TaskRecord
    BY <1>1 DEF TaskRecord
  <2>2. QED  BY <1>1, <2>1 DEF Busy, pc, st
<1> HIDE DEF r
<1>4. SameLocks(r, task[t])
  BY <1>2, <1>3 DEF SameLocks, Inside
<1>5. QED  BY <1>2, <1>3, <1>4, SearchStep

LEMMA ScanStep == ASSUME IInv, NEW t \in Tasks, Scan(t) PROVE IInv'
<1>1. /\ task[t].pc = "scan" /\ Search(t, task[t]) /\ NoZoneChange
      /\ UNCHANGED <<want, queued, k, oom>>
  BY DEF Scan, At
<1>2. Busy(task[t])
  BY <1>1, BusyTask
<1>3. SameLocks(task[t], task[t])
  BY DEF SameLocks
<1>4. QED  BY <1>1, <1>2, <1>3, SearchStep

\* A task that leaves the allocator or goes on; a page it takes is gone from its zone.
LEMMA TakePageStep == ASSUME IInv, NEW t \in Tasks, TakePage(t) PROVE IInv'
<1> DEFINE r == task[t]
           z == r.zone
           o == r.kind.order
<1>1. r.pc = "take" /\ UNCHANGED <<want, queued, k>>
  BY DEF TakePage, At
<1>2. Busy(r) /\ r \in TaskRecord
  BY <1>1, BusyTask
<1>3. z \in Zones /\ o \in Orders /\ z \in Nat /\ z <= r.kind.top /\ r.kind.top \in Nat
  <2>1. z \in Int /\ 0 <= z /\ z <= r.kind.top /\ r.kind.top \in Zones /\ r.kind.top \in Nat
        /\ o \in Orders
    BY <1>1, <1>2, KindType DEF Busy, TaskRecord
  <2>2. NZones \in Nat
    BY NodeAssumption
  <2>3. QED  BY <2>1, <2>2 DEF Zones
<1>4. CASE Blocks(zone[z], o) = {}
  <2> DEFINE m  == z - 1
             pc == "scan"
             q  == [r EXCEPT !.pc = pc, !.zone = m]
  <2>1. task' = [task EXCEPT ![t] = q] /\ NoZoneChange /\ UNCHANGED oom
    BY <1>4 DEF TakePage, Goto
  <2>2. m \in Int /\ m <= r.kind.top
        /\ pc \in {"scan", "take", "wake", "reclaim", "result", "oom", "blamo"}
    BY <1>3
  <2> HIDE DEF m, pc, r
  <2>3. /\ q \in TaskRecord /\ q.pc = pc /\ q.stage = r.stage /\ q.kind = r.kind
        /\ q.zone = m /\ q.prio = r.prio
    BY <1>2, <2>2 DEF TaskRecord
  <2> HIDE DEF q
  <2>4. Busy(q) /\ SameLocks(q, r)
    BY <1>1, <1>2, <2>2, <2>3 DEF Busy, SameLocks, Inside, pc
  <2>5. Moved(t, q)
    BY <1>1, <2>1, <2>4 DEF Moved, Settled
  <2>6. QED  BY <1>1, <2>1, <2>4, <2>5, TaskAlone DEF r
<1>5. CASE Blocks(zone[z], o) # {}
  <2>1. PICK n \in {0, 1} :
           LET b == TakeBlock(zone[z], o)
           IN  /\ n = 1 => o = 0 /\ zone[z].lru < MaxLru[z]
               /\ Become([zone EXCEPT ![z] = [b EXCEPT !.lru = @ + n]], {})
    BY <1>5 DEF TakePage
  <2>2. oom' = Unlock(r) /\ task' = [task EXCEPT ![t] = Idle]
    BY <1>5 DEF TakePage, Goto
  <2> DEFINE b == TakeBlock(zone[z], o)
             y == [b EXCEPT !.lru = @ + n]
  <2>3. ZoneSound(zone[z], z) /\ zone[z] \in ZoneRecord /\ zone \in [Zones -> ZoneRecord]
    BY <1>3 DEF IInv, ZonesSound
  <2>4. Become([zone EXCEPT ![z] = y], {})
    BY <1>3, <2>1, <2>3
  <2>5. /\ b \in ZoneRecord /\ Free(b) = Free(zone[z]) - Size[o]
        /\ b.lru = zone[z].lru /\ b.scanned = zone[z].scanned /\ b.saved = zone[z].saved
    BY <1>3, <1>5, <2>3, TakeBlockPages
  <2>6. ZoneSound(y, z)
    <3>1. Size[o] \in Nat \ {0} /\ (n = 1 => Size[o] = 1) /\ Free(zone[z]) \in Int
          /\ Present[z] \in Nat /\ MaxLru[z] \in Nat /\ zone[z].lru \in Nat
      BY <1>3, <2>1, <2>3, SizeDoubles, OrdersFinite, FreeType, NodeAssumption DEF ZoneRecord
    <3> HIDE DEF b
    <3>2. y \in ZoneRecord /\ y.nr = b.nr /\ y.lru = b.lru + n /\ y.scanned = b.scanned
          /\ y.saved = b.saved
      BY <2>5, <3>1 DEF ZoneRecord
    <3>3. y.lru <= MaxLru[z]
      <4>1. zone[z].lru <= MaxLru[z]
        BY <2>3 DEF ZoneSound
      <4>2. n = 0 \/ (n = 1 /\ zone[z].lru < MaxLru[z])
        BY <2>1
      <4>3. y.lru = zone[z].lru + n
        BY <2>5, <3>2
      <4> HIDE DEF y
      <4>4. QED  BY <3>1, <4>1, <4>2, <4>3
    <3>4. Free(y) = Free(b)
      BY <3>2 DEF Free
    <3>5. Present[z] - Free(y) - y.lru >= 0
      <4>1. Present[z] - Free(zone[z]) - zone[z].lru >= 0
        BY <2>3 DEF ZoneSound
      <4>2. Free(y) = Free(zone[z]) - Size[o] /\ y.lru = zone[z].lru + n
        BY <2>5, <3>2, <3>4
      <4> HIDE DEF y
      <4>3. QED  BY <2>1, <3>1, <4>1, <4>2
    <3>6. QED  BY <2>3, <2>5, <3>2, <3>3, <3>5 DEF ZoneSound
  <2> HIDE DEF y
  <2>7. ZonesSound' /\ UnmetBelow' /\ unmet' \subseteq unmet
    BY <1>3, <2>4, <2>6, BecomeSound DEF IInv
  <2>8. Moved(t, Idle)
    BY <1>1, <2>2, IdleOutside DEF Moved
  <2>9. OneHolder'
    BY <1>1, <1>2, <2>2, <2>8, IdleOutside, LocksGivenBack
  <2>10. RestSound' /\ NoLostWakeup'
    <3>1. oom' \subseteq oom
      BY <2>2 DEF Unlock
    <3>2. QED  BY <1>1, <2>7, <3>1 DEF IInv, RestSound, NoLostWakeup
  <2>11. QED  BY <2>7, <2>8, <2>9, <2>10, MovedTasks DEF IInv
<1>6. QED  BY <1>4, <1>5

\* A request that finds a zone below its low watermark wakes kswapd: whatever it adds
\* to unmet, kswapd is on its queue no more.
LEMMA WakeAllKswapdStep == ASSUME IInv, NEW t \in Tasks, WakeAllKswapd(t) PROVE IInv'
<1> DEFINE r   == task[t]
           low == {z \in 0..r.kind.top : ~AtLow(zone[z], z, r.kind.order)}
           new == {z \in low : ~AtLow(zone[z], z, 0)}
           w   == Walk(r, "slow")
           no  == r.kind.memalloc
           q   == [w EXCEPT !.nowm = no]
<1>1. r.pc = "wake" /\ UNCHANGED <<k, oom>>
  BY DEF WakeAllKswapd, At
<1>2. Busy(r) /\ r \in TaskRecord
  BY <1>1, BusyTask
<1>3. want' \in Asked
  <2>1. want \in Asked
    BY DEF IInv, RestSound
  <2>2. want' = IF want.order >= r.kind.order THEN want
                ELSE [order |-> r.kind.order, cz |-> Min({want.cz, r.kind.top})]
    BY DEF WakeAllKswapd
  <2>3. r.kind.order \in Orders /\ r.kind.top \in Zones /\ want.cz \in Zones
    BY <1>2, <2>1, KindType DEF Asked
  <2>4. Min({want.cz, r.kind.top}) \in Zones
    <3>1. {want.cz, r.kind.top} \in SUBSET Nat /\ {want.cz, r.kind.top} # {}
      BY <2>3, NodeAssumption DEF Zones
    <3>2. Min({want.cz, r.kind.top}) \in {want.cz, r.kind.top}
      BY <3>1, LeastIn
    <3>3. QED  BY <2>3, <3>2
  <2>5. QED  BY <2>1, <2>2, <2>3, <2>4 DEF Asked
<1>4. queued' = (queued /\ low = {})
  BY DEF WakeAllKswapd
<1>5. task' = [task EXCEPT ![t] = q] /\ Become(zone, new)
  BY DEF WakeAllKswapd, Goto
<1>6. /\ zone' = zone
      /\ unmet' = {z \in unmet \union new : ~AtLow(zone[z], z, 0) /\ ~zone[z].dead}
  BY <1>5 DEF Become
<1>7. new \subseteq low /\ new \subseteq Zones
  <2>1. r.kind.top \in Zones
    BY <1>2, KindType
  <2>2. 0..r.kind.top \subseteq Zones
    BY <2>1, ZonesBelow
  <2>3. QED  BY <2>2
<1>8. Busy(q) /\ Outside(q)
  <2>1. Busy(w) /\ w.pc = "scan" /\ w.stage = "slow" /\ w.kind = r.kind
    BY <1>2, WalkBusy DEF Busy
  <2>2. no \in BOOLEAN
    BY <1>2, KindType
  <2> HIDE DEF w, no
  <2>3. q \in TaskRecord /\ q.pc = w.pc /\ q.stage = w.stage /\ q.kind = w.kind
        /\ q.zone = w.zone /\ q.prio = w.prio
    BY <2>1, <2>2 DEF Busy, TaskRecord
  <2>4. QED  BY <2>1, <2>3 DEF Busy, Outside, Inside
<1> HIDE DEF q, low, new
<1>9. Moved(t, q) /\ SameLocks(q, r)
  BY <1>1, <1>5, <1>8 DEF Moved, Settled, SameLocks, Outside, Inside
<1>10. OneHolder'
  BY <1>1, <1>9, LocksSame
<1>11. ZonesSound' /\ UnmetBelow'
  BY <1>6 DEF IInv, ZonesSound, UnmetBelow
<1>12. RestSound'
  BY <1>1, <1>3, <1>4, <1>6, <1>7 DEF IInv, RestSound
<1>13. NoLostWakeup'
  <2>1. CASE low = {}
    <3>1. unmet' \subseteq unmet /\ queued' = queued
      BY <1>4, <1>6, <1>7, <2>1 DEF IInv, RestSound
    <3>2. QED  BY <1>1, <3>1 DEF IInv, NoLostWakeup
  <2>2. CASE low # {}
    BY <1>4, <2>2 DEF NoLostWakeup
  <2>3. QED  BY <2>1, <2>2
<1>14. QED  BY <1>9, <1>10, <1>11, <1>12, <1>13, MovedTasks DEF IInv

LEMMA DirectReclaimStep == ASSUME IInv, NEW t \in Tasks, DirectReclaim(t) PROVE IInv'
<1> DEFINE r == task[t]
           z == r.zone
<1>1. r.pc = "reclaim" /\ UNCHANGED <<want, queued, k, oom>>
  BY DEF DirectReclaim, At
<1>2. Busy(r) /\ r \in TaskRecord
  BY <1>1, BusyTask
<1>3. z \in Zones /\ z \in Nat /\ z <= r.kind.top /\ r.kind.top \in Nat /\ r.got \in Nat
      /\ r.prio \in 0..DefPriority /\ DefPriority \in Nat
  <2>1. z \in Int /\ 0 <= z /\ z <= r.kind.top /\ r.kind.top \in Zones /\ r.kind.top \in Nat
    BY <1>1, <1>2, KindType DEF Busy, TaskRecord
  <2>2. NZones \in Nat /\ DefPriority \in Nat /\ SwapCluster \in Nat
    BY NodeAssumption
  <2>3. QED  BY <1>2, <2>1, <2>2 DEF Zones, Busy, TaskRecord
<1>4. PICK x \in IF zone[z].dead /\ r.prio # DefPriority
                  THEN {[zn |-> zone[z], got |-> 0, slab |-> 0]}
                  ELSE Shrunk(zone[z], Pinned(z), r.prio) :
         LET got == Min({r.got + x.got + x.slab, SwapCluster})
         IN  /\ Become([zone EXCEPT ![z] = x.zn], {})
             /\ Goto(t, IF z > 0 THEN [r EXCEPT !.zone = z - 1, !.got = got]
                        ELSE IF got = SwapCluster \/ r.prio = 0
                        THEN [r EXCEPT !.pc = "result", !.got = got]
                        ELSE [r EXCEPT !.zone = r.kind.top, !.got = got, !.prio = @ - 1])
  BY DEF DirectReclaim
<1>5. ZoneSound(x.zn, z) /\ x.got \in Nat /\ x.slab \in Nat
  <2>1. ZoneSound(zone[z], z)
    BY <1>3 DEF IInv, ZonesSound
  <2>2. CASE zone[z].dead /\ r.prio # DefPriority
    BY <1>4, <2>1, <2>2
  <2>3. CASE ~(zone[z].dead /\ r.prio # DefPriority)
    <3>1. x \in Shrunk(zone[z], Present[z] - Free(zone[z]) - zone[z].lru, r.prio)
      BY <1>4, <2>3 DEF Pinned
    <3>2. QED  BY <1>3, <2>1, <3>1, ShrunkSound
  <2>4. QED  BY <2>2, <2>3
<1>6. ZonesSound' /\ UnmetBelow' /\ unmet' \subseteq unmet
  <2>1. Become([zone EXCEPT ![z] = x.zn], {})
    BY <1>4
  <2>2. QED  BY <1>3, <1>5, <2>1, BecomeSound DEF IInv
<1> DEFINE got  == Min({r.got + x.got + x.slab, SwapCluster})
           down == z - 1
           top  == r.kind.top
           less == r.prio - 1
           pc   == "result"
           q    == IF z > 0 THEN [r EXCEPT !.zone = down, !.got = got]
                   ELSE IF got = SwapCluster \/ r.prio = 0
                   THEN [r EXCEPT !.pc = pc, !.got = got]
                   ELSE [r EXCEPT !.zone = top, !.got = got, !.prio = less]
<1>7. got \in 0..SwapCluster
  <2>1. r.got + x.got + x.slab \in Nat
    BY <1>3, <1>5
  <2>2. QED  BY <2>1, GotBound
<1>8. task' = [task EXCEPT ![t] = q]
  BY <1>4 DEF Goto
<1>9. Busy(q) /\ Outside(q)
  <2>1. down \in Int /\ top \in Int /\ less \in Int /\ top \in Nat
        /\ pc \in {"scan", "take", "wake", "reclaim", "result", "oom", "blamo"}
    BY <1>3
  <2>2. CASE z > 0
    <3>1. 0 <= down /\ down <= top
      BY <1>3, <2>2
    <3>2. q = [r EXCEPT !.zone = down, !.got = got]
      BY <2>2
    <3> HIDE DEF q, got, down, top, r
    <3>3. /\ q \in TaskRecord /\ q.pc = r.pc /\ q.stage = r.stage /\ q.kind = r.kind
          /\ q.zone = down /\ q.prio = r.prio
      BY <1>2, <1>7, <2>1, <3>2 DEF TaskRecord
    <3>4. QED  BY <1>1, <1>2, <3>1, <3>3 DEF Busy, Outside, Inside, top, r
  <2>3. CASE ~(z > 0) /\ (got = SwapCluster \/ r.prio = 0)
    <3>2. q = [r EXCEPT !.pc = pc, !.got = got]
      BY <2>3
    <3> HIDE DEF q, got, pc, r
    <3>3. /\ q \in TaskRecord /\ q.pc = pc /\ q.stage = r.stage /\ q.kind = r.kind
          /\ q.zone = r.zone /\ q.prio = r.prio
      BY <1>2, <1>7, <2>1, <3>2 DEF TaskRecord
    <3>4. QED  BY <1>2, <3>3 DEF Busy, Outside, Inside, pc
  <2>4. CASE ~(z > 0) /\ ~(got = SwapCluster \/ r.prio = 0)
    <3>1. less \in 0..DefPriority
      BY <1>3, <2>4
    <3>2. q = [r EXCEPT !.zone = top, !.got = got, !.prio = less]
      BY <2>4
    <3> HIDE DEF q, got, top, less, r
    <3>3. /\ q \in TaskRecord /\ q.pc = r.pc /\ q.stage = r.stage /\ q.kind = r.kind
          /\ q.zone = top /\ q.prio = less
      BY <1>2, <1>7, <2>1, <3>2 DEF TaskRecord
    <3>4. top <= r.kind.top /\ 0 <= top
      BY <1>3 DEF top, r
    <3>5. QED  BY <1>1, <1>2, <3>1, <3>3, <3>4 DEF Busy, Outside, Inside, r
  <2>5. QED  BY <2>2, <2>3, <2>4
<1> HIDE DEF q
<1>10. Moved(t, q) /\ SameLocks(q, r)
  BY <1>1, <1>8, <1>9 DEF Moved, Settled, SameLocks, Outside, Inside
<1>11. OneHolder'
  BY <1>1, <1>10, LocksSame
<1>12. RestSound' /\ NoLostWakeup'
  BY <1>1, <1>6 DEF IInv, RestSound, NoLostWakeup
<1>13. QED  BY <1>6, <1>10, <1>11, <1>12, MovedTasks DEF IInv

LEMMA ReclaimResultStep == ASSUME IInv, NEW t \in Tasks, ReclaimResult(t) PROVE IInv'
<1> DEFINE r    == task[t]
           o    == 0
           done == [r EXCEPT !.got = o, !.prio = o]
<1>1. r.pc = "result" /\ NoZoneChange /\ UNCHANGED <<want, queued, k, oom>>
  BY DEF ReclaimResult, At
<1>2. Busy(r) /\ r \in TaskRecord
  BY <1>1, BusyTask
<1>3. Busy(done) /\ done \in TaskRecord /\ done.prio \in 0..DefPriority
  <2>1. o \in 0..SwapCluster /\ o \in Int /\ o \in 0..DefPriority
    BY NodeAssumption
  <2> HIDE DEF o, r
  <2>2. /\ done \in TaskRecord /\ done.pc = r.pc /\ done.stage = r.stage /\ done.kind = r.kind
        /\ done.zone = r.zone /\ done.prio = o
    BY <1>2, <2>1 DEF TaskRecord
  <2> HIDE DEF done
  <2>3. QED  BY <1>2, <2>1, <2>2 DEF Busy
<1>4. PICK q \in {Walk(done, "reclaimed"), [done EXCEPT !.pc = "oom"], Balance(done), Idle} :
         task' = [task EXCEPT ![t] = q]
  BY DEF ReclaimResult, Goto
<1> HIDE DEF done
<1>5. Settled(q) /\ Outside(q)
  <2>1. CASE q = Walk(done, "reclaimed")
    BY <1>3, <2>1, WalkBusy DEF Settled, Outside, Inside
  <2>2. CASE q = [done EXCEPT !.pc = "oom"]
    <3>1. Busy(q) /\ q.pc = "oom"
      BY <1>3, <2>2, PlaceBusy
    <3>2. QED  BY <3>1 DEF Settled, Outside, Inside
  <2>3. CASE q = Balance(done)
    BY <1>3, <2>3, BalanceSettled
  <2>4. CASE q = Idle
    BY <2>4, IdleOutside
  <2>5. QED  BY <2>1, <2>2, <2>3, <2>4
<1>6. Moved(t, q) /\ SameLocks(q, r)
  BY <1>1, <1>4, <1>5 DEF Moved, SameLocks, Outside, Inside
<1>7. QED  BY <1>1, <1>6, TaskAlone

\* After the OOM killer, or the look at who holds the lock
LEMMA AfterOomSettled ==
    ASSUME NEW r, Busy(r)
    PROVE  Settled(AfterOom(r)) /\ Outside(AfterOom(r))
<1>1. CASE OomHelps(r.kind)
  <2> DEFINE q == AfterOom(r)
  <2>1. q = [r EXCEPT !.pc = "wake"]
    BY <1>1 DEF AfterOom
  <2> HIDE DEF q
  <2>2. Busy(q) /\ q.pc = "wake"
    BY <2>1, PlaceBusy
  <2>3. Settled(q) /\ Outside(q)
    BY <2>2 DEF Settled, Outside, Inside
  <2>4. QED  BY <2>3 DEF q
<1>2. CASE ~OomHelps(r.kind)
  BY <1>2, IdleOutside DEF AfterOom
<1>3. QED  BY <1>1, <1>2

\* try_set_zonelist_oom takes the locks of all zones of the request or none.
LEMMA OomLockStep == ASSUME IInv, NEW t \in Tasks, OomLock(t) PROVE IInv'
<1> DEFINE r == task[t]
<1>1. r.pc = "oom" /\ NoZoneChange /\ UNCHANGED <<want, queued, k>>
  BY DEF OomLock, At
<1>2. Busy(r) /\ r \in TaskRecord /\ r.prio \in 0..DefPriority
  BY <1>1, BusyTask DEF Busy
<1>3. Outside(r)
  BY <1>1 DEF Outside, Inside
<1>4. CASE oom \intersect (0..r.kind.top) # {}
  <2>1. task' = [task EXCEPT ![t] = AfterOom(r)] /\ UNCHANGED oom
    BY <1>4 DEF OomLock, Goto
  <2>2. Settled(AfterOom(r)) /\ Outside(AfterOom(r))
    BY <1>2, AfterOomSettled
  <2>3. Moved(t, AfterOom(r)) /\ SameLocks(AfterOom(r), r)
    BY <1>1, <1>3, <2>1, <2>2 DEF Moved, SameLocks, Outside
  <2>4. QED  BY <1>1, <2>1, <2>3, TaskAlone
<1>5. CASE oom \intersect (0..r.kind.top) = {}
  <2> DEFINE w == Walk(r, "oom")
  <2>1. task' = [task EXCEPT ![t] = w] /\ oom' = oom \union (0..r.kind.top)
    BY <1>5 DEF OomLock, Goto
  <2>2. Busy(w) /\ w.pc = "scan" /\ w.stage = "oom" /\ w.kind = r.kind
    BY <1>2, WalkBusy
  <2> HIDE DEF w
  <2>3. Moved(t, w)
    BY <1>1, <2>1, <2>2 DEF Moved, Settled
  <2>4. r.kind.top \in Nat /\ Zones \subseteq Nat /\ 0..r.kind.top \subseteq Zones
    <3>1. r.kind.top \in Zones
      BY <1>2, KindType
    <3>2. QED  BY <3>1, ZonesBelow
  <2>5. \A z \in Zones : Inside(w, z) <=> z \in 0..w.kind.top
    <3> DEFINE top == r.kind.top
    <3>1. w.kind.top = top /\ top \in Nat
      BY <2>2, <2>4
    <3> HIDE DEF top
    <3>2. ASSUME NEW z \in Zones PROVE top >= z <=> z \in 0..top
      <4>1. z \in Nat
        BY <2>4
      <4>2. QED  BY <3>1, <4>1
    <3>3. \A z \in Zones : Inside(w, z) <=> top >= z
      BY <2>2, <3>1 DEF Inside
    <3>4. QED  BY <3>1, <3>2, <3>3
  <2>6. OneHolder'
    BY <1>3, <1>5, <2>1, <2>2, <2>3, <2>5, LocksTaken
  <2>7. UNCHANGED <<zone, unmet>>
    BY <1>1 DEF NoZoneChange
  <2>8. ZonesSound' /\ UnmetBelow' /\ RestSound' /\ NoLostWakeup'
    BY <1>1, <2>1, <2>4, <2>7 DEF IInv, ZonesSound, UnmetBelow, RestSound, NoLostWakeup
  <2>9. QED  BY <2>3, <2>6, <2>8, MovedTasks DEF IInv
<1>6. QED  BY <1>4, <1>5

LEMMA OutOfMemoryStep == ASSUME IInv, NEW t \in Tasks, OutOfMemory(t) PROVE IInv'
<1> DEFINE r == task[t]
<1>1. /\ r.pc = "blamo" /\ NoZoneChange /\ UNCHANGED <<want, queued, k>>
      /\ oom' = Unlock(r) /\ task' = [task EXCEPT ![t] = AfterOom(r)]
  BY DEF OutOfMemory, At, Goto
<1>2. Busy(r)
  BY <1>1, BusyTask
<1>3. Moved(t, AfterOom(r)) /\ Outside(AfterOom(r))
  BY <1>1, <1>2, AfterOomSettled DEF Moved
<1>4. OneHolder'
  BY <1>1, <1>2, <1>3, LocksGivenBack
<1>5. UNCHANGED <<zone, unmet>> /\ oom' \subseteq oom
  BY <1>1 DEF NoZoneChange, Unlock
<1>6. ZonesSound' /\ UnmetBelow' /\ RestSound' /\ NoLostWakeup'
  BY <1>1, <1>5 DEF IInv, ZonesSound, UnmetBelow, RestSound, NoLostWakeup
<1>7. QED  BY <1>3, <1>4, <1>6, MovedTasks DEF IInv

LEMMA ReleaseStep == ASSUME IInv, NEW z \in Zones, NEW lru \in {0, 1}, Release(z, lru) PROVE IInv'
<1>1. UNCHANGED <<want, queued, k, task, oom>>
  BY DEF Release
<1> DEFINE a == zone[z].lru - lru
           b == [zone[z] EXCEPT !.lru = a]
<1>2. PICK y \in Freed(b, 1) : Become([zone EXCEPT ![z] = y], {})
  BY DEF Release
<1>3. /\ ZoneSound(zone[z], z) /\ zone[z] \in ZoneRecord /\ zone[z].lru \in Nat
      /\ Free(zone[z]) \in Int /\ Present[z] \in Nat /\ MaxLru[z] \in Nat
      /\ MaxLru[z] * ScanFactor \in Nat
  <2>1. ZoneSound(zone[z], z) /\ zone[z] \in ZoneRecord
    BY DEF IInv, ZonesSound
  <2>2. Present[z] \in Nat /\ MaxLru[z] \in Nat /\ ScanFactor \in Nat
    BY NodeAssumption
  <2>3. MaxLru[z] * ScanFactor \in Nat
    BY <2>2
  <2>4. QED  BY <2>1, <2>2, <2>3, FreeType DEF ZoneRecord
<1>4. a \in Nat /\ Present[z] - Free(zone[z]) - 1 - a >= 0 /\ a <= MaxLru[z]
  <2>1. lru = 1 => zone[z].lru > 0
    BY DEF Release
  <2>2. lru = 0 => Present[z] - Free(zone[z]) - zone[z].lru > 0
    BY DEF Release, Pinned
  <2>3. QED  BY <1>3, <2>1, <2>2 DEF ZoneSound
<1> HIDE DEF a
<1>5. /\ b \in ZoneRecord /\ b.lru = a /\ b.nr = zone[z].nr /\ b.scanned = zone[z].scanned
      /\ b.saved = zone[z].saved
  BY <1>3, <1>4 DEF ZoneRecord
<1> HIDE DEF b
<1>6. Free(b) = Free(zone[z])
  BY <1>5 DEF Free
<1>7. /\ y \in ZoneRecord /\ Free(y) = Free(b) + 1
      /\ y.lru = b.lru /\ y.saved = b.saved /\ y.scanned \in {0, b.scanned}
  <2>1. 1 \in Nat
    OBVIOUS
  <2>2. QED  BY <1>2, <1>5, <2>1, FreedPages
<1>8. ZoneSound(y, z)
  BY <1>3, <1>4, <1>5, <1>6, <1>7 DEF ZoneSound
<1>9. ZonesSound' /\ UnmetBelow' /\ unmet' \subseteq unmet
  BY <1>2, <1>8, BecomeSound DEF IInv
<1>10. QED
  BY <1>1, <1>9 DEF IInv, TasksSound, OneHolder, RestSound, NoLostWakeup

-----------------------------------------------------------------------------
(* The initial states, the steps, and what follows *)

\* The zones' sizes have a greatest.
LEMMA PresentBound == Max({Present[y] : y \in Zones}) \in Nat
<1> DEFINE Below(n) == \E x \in Nat : \A y \in 0..n : Present[y] <= x
           T == {n \in Zones : ~Below(n)}
<1>1. Zones = 0..NZones - 1 /\ NZones \in Nat /\ NZones # 0 /\ Present \in [Zones -> Nat]
  BY NodeAssumption DEF Zones
<1>2. T = {}
  <2> SUFFICES ASSUME T # {} PROVE FALSE
    OBVIOUS
  <2>0. T \in SUBSET Nat
    BY <1>1
  <2> HIDE DEF T
  <2>1. Min(T) \in T /\ \A j \in T : Min(T) <= j
    BY <2>0, LeastIn
  <2> DEFINE m == Min(T)
  <2> HIDE DEF m
  <2>2. m \in Zones /\ ~Below(m) /\ \A j \in T : m <= j
    BY <2>1 DEF T, m
  <2>3. CASE m = 0
    <3>1. 0 \in Zones /\ Present[0] \in Nat /\ \A y \in 0..0 : y = 0
      BY <1>1
    <3>2. Below(0)
      BY <3>1
    <3>3. QED  BY <2>2, <2>3, <3>2
  <2>4. CASE m # 0
    <3>1. m - 1 \in Zones /\ ~(m <= m - 1)
      BY <1>1, <2>2, <2>4
    <3>2. Below(m - 1)
      BY <2>2, <3>1 DEF T
    <3>3. PICK x \in Nat : \A y \in 0..m - 1 : Present[y] <= x
      BY <3>2
    <3> DEFINE p == Present[m]
    <3>4. p \in Nat
      BY <1>1, <2>2
    <3>5. \A y \in 0..m : Present[y] <= x + p
      <4> SUFFICES ASSUME NEW y \in 0..m PROVE Present[y] <= x + p
        OBVIOUS
      <4>1. CASE y = m
        BY <3>4, <4>1
      <4>2. CASE y # m
        <5>1. y \in 0..m - 1 /\ y \in Zones
          BY <1>1, <2>2, <4>2
        <5>2. Present[y] \in Nat /\ Present[y] <= x
          BY <1>1, <3>3, <5>1
        <5> HIDE DEF p
        <5>3. QED  BY <3>4, <5>2
      <4>3. QED  BY <4>1, <4>2
    <3>6. x + p \in Nat
      BY <3>4
    <3>7. QED  BY <2>2, <3>5, <3>6
  <2>5. QED  BY <2>3, <2>4
<1>3. NZones - 1 \in Zones
  BY <1>1
<1>4. PICK x \in Nat : \A y \in 0..NZones - 1 : Present[y] <= x
  BY <1>2, <1>3
<1>5. {Present[y] : y \in Zones} \in SUBSET (0..x) /\ {Present[y] : y \in Zones} # {}
  BY <1>1, <1>3, <1>4
<1> DEFINE P == {Present[y] : y \in Zones}
<1> HIDE DEF P
<1>6. P \in SUBSET (0..x) /\ P # {}
  BY <1>5 DEF P
<1>7. Max(P) \in P
  BY <1>6, GreatestIn
<1>8. Max(P) \in Nat
  <2>1. \A n \in 0..x : n \in Nat
    BY <1>4
  <2> DEFINE m == Max(P)
  <2>2. m \in 0..x
    BY <1>6, <1>7
  <2> HIDE DEF m
  <2>3. m \in Nat
    BY <2>1, <2>2
  <2>4. QED  BY <2>3 DEF m
<1>9. QED  BY <1>8 DEF P

LEMMA InitIInv == ASSUME Init PROVE IInv
<1>1. ZonesSound
  <2> DEFINE top == Max({Present[y] : y \in Zones})
             Z   == [nr : [Orders -> 0..top], lru : {0}, scanned : {0}, saved : {0},
                     dead : {FALSE}]
  <2>1. top \in Nat
    BY PresentBound
  <2>2. zone \in [Zones -> Z] /\ \A y \in Zones : Free(zone[y]) = Present[y]
    BY DEF Init
  <2> HIDE DEF top
  <2>3. \A x \in Z : x \in ZoneRecord /\ x.lru = 0 /\ x.scanned = 0 /\ x.saved = 0
    <3> SUFFICES ASSUME NEW x \in Z
                 PROVE  x \in ZoneRecord /\ x.lru = 0 /\ x.scanned = 0 /\ x.saved = 0
      OBVIOUS
    <3> DEFINE N == 0..top
    <3>1. \A n \in N : n \in Nat
      BY <2>1
    <3>2. x.nr \in [Orders -> N] /\ x.lru = 0 /\ x.scanned = 0 /\ x.saved = 0 /\ x.dead = FALSE
          /\ x = [nr |-> x.nr, lru |-> x.lru, scanned |-> x.scanned, saved |-> x.saved,
                  dead |-> x.dead]
      OBVIOUS
    <3> HIDE DEF N, Z
    <3>3. x.nr \in [Orders -> Nat]
      BY <3>1, <3>2
    <3> DEFINE f == x.nr
    <3> HIDE DEF f
    <3>4. f \in [Orders -> Nat] /\ x = [nr |-> f, lru |-> 0, scanned |-> 0, saved |-> 0,
                                       dead |-> FALSE]
      BY <3>2, <3>3 DEF f
    <3>5. x \in ZoneRecord
      BY <3>4 DEF ZoneRecord
    <3>6. QED  BY <3>2, <3>5
  <2> HIDE DEF Z
  <2>4. zone \in [Zones -> ZoneRecord]
    BY <2>2, <2>3
  <2>5. ASSUME NEW z \in Zones PROVE ZoneSound(zone[z], z)
    <3>1. /\ zone[z] \in ZoneRecord /\ zone[z].lru = 0 /\ zone[z].scanned = 0
          /\ zone[z].saved = 0 /\ Free(zone[z]) = Present[z]
      BY <2>2, <2>3
    <3>2. /\ Present[z] \in Nat /\ MaxLru[z] \in Nat /\ ScanFactor \in Nat
          /\ SwapCluster \in Nat \ {0}
      BY NodeAssumption
    <3>3. MaxLru[z] * ScanFactor \in Nat
      BY <3>2
    <3>4. QED  BY <3>1, <3>2, <3>3 DEF ZoneSound
  <2>6. QED  BY <2>4, <2>5 DEF ZonesSound
<1>2. /\ 0 \in Orders /\ 0 \in Zones /\ NZones - 1 \in Zones
      /\ 0 \in 0..SwapCluster /\ 0 \in -1..DefPriority
  BY NodeAssumption DEF Orders, Zones
<1>3. want \in Asked
  BY <1>2 DEF Init, Asked
<1>4. KSound(k)
  <2>1. k = [pc |-> "read", order |-> 0, cz |-> NZones - 1, new |-> want,
             prio |-> 0, i |-> 0, end |-> 0, ok |-> TRUE, bal |-> 0, got |-> 0,
             kill |-> FALSE, early |-> FALSE]
    BY DEF Init
  <2>2. k \in KRecord
    BY <1>2, <1>3, <2>1 DEF KRecord, KPlaces
  <2>3. QED  BY <1>2, <2>1, <2>2 DEF KSound
<1>5. TasksSound
  BY DEF Init, TasksSound
<1>6. RestSound
  BY <1>3 DEF Init, RestSound
<1>7. OneHolder
  <2>1. \A t \in Tasks, z \in Zones : ~Inside(task[t], z)
    BY IdleOutside DEF Init, Outside
  <2>2. oom = {}
    BY DEF Init
  <2>3. QED  BY <2>1, <2>2 DEF OneHolder
<1>8. UnmetBelow /\ NoLostWakeup
  BY DEF Init, UnmetBelow, NoLostWakeup
<1>9. QED  BY <1>1, <1>4, <1>5, <1>6, <1>7, <1>8 DEF IInv

LEMMA StepSound == IInv /\ [Next]_vars => IInv'
<1> SUFFICES ASSUME IInv, [Next]_vars PROVE IInv'
  OBVIOUS
<1>1. ASSUME NEW t \in Tasks, NEW kind \in Kinds, Request(t, kind) PROVE IInv'
  BY <1>1, RequestStep
<1>2. ASSUME NEW t \in Tasks, Scan(t) PROVE IInv'
  BY <1>2, ScanStep
<1>3. ASSUME NEW t \in Tasks, TakePage(t) PROVE IInv'
  BY <1>3, TakePageStep
<1>4. ASSUME NEW t \in Tasks, WakeAllKswapd(t) PROVE IInv'
  BY <1>4, WakeAllKswapdStep
<1>5. ASSUME NEW t \in Tasks, DirectReclaim(t) PROVE IInv'
  BY <1>5, DirectReclaimStep
<1>6. ASSUME NEW t \in Tasks, ReclaimResult(t) PROVE IInv'
  BY <1>6, ReclaimResultStep
<1>7. ASSUME NEW t \in Tasks, OomLock(t) PROVE IInv'
  BY <1>7, OomLockStep
<1>8. ASSUME NEW t \in Tasks, OutOfMemory(t) PROVE IInv'
  BY <1>8, OutOfMemoryStep
<1>9. ASSUME NEW z \in Zones, NEW lru \in {0, 1}, Release(z, lru) PROVE IInv'
  BY <1>9, ReleaseStep
<1>10. CASE KRead     BY <1>10, KReadStep
<1>11. CASE KClear    BY <1>11, KClearStep
<1>12. CASE KPrepare  BY <1>12, KPrepareStep
<1>13. CASE KCheck    BY <1>13, KCheckStep
<1>14. CASE KNap      BY <1>14, KNapStep
<1>15. CASE KCheck2   BY <1>15, KCheck2Step
<1>16. CASE KWoken    BY <1>16, KWokenStep
<1>17. CASE KFind     BY <1>17, KFindStep
<1>18. CASE KShrink   BY <1>18, KShrinkStep
<1>19. CASE KMark     BY <1>19, KMarkStep
<1>20. CASE KConfirm  BY <1>20, KConfirmStep
<1>21. CASE UNCHANGED vars
  <2>1. UNCHANGED <<zone, want, queued, k, task, oom, unmet>>
    BY <1>21 DEF vars
  <2>2. ZonesSound' /\ KSound(k)' /\ TasksSound'
    BY <2>1 DEF IInv, ZonesSound, TasksSound
  <2>3. RestSound' /\ OneHolder' /\ UnmetBelow' /\ NoLostWakeup'
    BY <2>1 DEF IInv, RestSound, OneHolder, Inside, UnmetBelow, NoLostWakeup
  <2>4. QED  BY <2>2, <2>3 DEF IInv
<1>22. QED
  BY <1>1, <1>2, <1>3, <1>4, <1>5, <1>6, <1>7, <1>8, <1>9, <1>10, <1>11, <1>12, <1>13,
     <1>14, <1>15, <1>16, <1>17, <1>18, <1>19, <1>20, <1>21 DEF Next

LEMMA IInvTypes == ASSUME IInv PROVE TypeOK
<1>1. ASSUME NEW z \in Zones
      PROVE  /\ zone[z].nr \in [Orders -> Nat]
             /\ zone[z].lru \in 0..MaxLru[z]
             /\ zone[z].scanned \in 0..MaxLru[z] * ScanFactor
             /\ zone[z].saved \in 0..SwapCluster - 1
             /\ zone[z].dead \in BOOLEAN
             /\ Pinned(z) >= 0
  <2>1. ZoneSound(zone[z], z) /\ zone[z] \in ZoneRecord
    BY DEF IInv, ZonesSound
  <2>2. MaxLru[z] \in Nat /\ ScanFactor \in Nat /\ SwapCluster \in Nat \ {0}
    BY NodeAssumption
  <2>3. MaxLru[z] * ScanFactor \in Nat
    BY <2>2
  <2>4. /\ zone[z].nr \in [Orders -> Nat] /\ zone[z].lru \in Nat
        /\ zone[z].scanned \in Nat /\ zone[z].saved \in Nat /\ zone[z].dead \in BOOLEAN
    BY <2>1 DEF ZoneRecord
  <2>5. QED  BY <2>1, <2>2, <2>3, <2>4 DEF ZoneSound, Pinned
<1>2. /\ k.order \in Orders /\ k.cz \in Zones /\ k.end \in Zones /\ k.i \in Zones
      /\ k.prio \in -1..DefPriority /\ k.got \in 0..SwapCluster
  BY DEF IInv, KSound, KRecord
<1>3. want \in Asked /\ queued \in BOOLEAN /\ oom \subseteq Zones /\ unmet \subseteq Zones
  BY DEF IInv, RestSound
<1>4. DOMAIN task = Tasks
  BY DEF IInv, TasksSound
<1>5. QED  BY <1>1, <1>2, <1>3, <1>4 DEF TypeOK, Asked

LEMMA IInvOneOwner == ASSUME IInv PROVE OomLockOwned
<1> SUFFICES ASSUME NEW z \in Zones
             PROVE  Cardinality({t \in Tasks : Inside(task[t], z)}) = IF z \in oom THEN 1 ELSE 0
  BY DEF OomLockOwned, Inside
<1> DEFINE S == {t \in Tasks : Inside(task[t], z)}
<1>1. OneHolder
  BY DEF IInv
<1>2. CASE z \in oom
  <2>1. PICK t \in Tasks : Inside(task[t], z)
    BY <1>1, <1>2 DEF OneHolder
  <2>2. S = {t}
    BY <1>1, <2>1 DEF OneHolder
  <2>3. QED  BY <1>2, <2>2, FS_Singleton
<1>3. CASE z \notin oom
  <2>1. S = {}
    BY <1>1, <1>3 DEF OneHolder
  <2>2. QED  BY <1>3, <2>1, FS_EmptySet
<1>4. QED  BY <1>2, <1>3

LEMMA Always == Spec => []IInv
<1>1. Init => IInv
  BY InitIInv
<1>2. QED  BY <1>1, StepSound, PTL DEF Spec

\* The zones' counts add up, and the OOM lock of a zone is held exactly while one task
\* is between try_set_zonelist_oom and clear_zonelist_oom, whatever way it takes.
THEOREM OomLockHasOneOwner == Spec => []OomLockSound
<1>1. IInv => OomLockSound
  BY IInvTypes, IInvOneOwner DEF OomLockSound
<1>2. QED  BY <1>1, Always, PTL

\* While kswapd sleeps after a test at order 0, no zone that wakeup_kswapd found below
\* its low watermark is still there, unless it has been given up.
THEOREM NoWakeupIsLost == Spec => []NoLostWakeup
<1>1. IInv => NoLostWakeup
  BY DEF IInv
<1>2. QED  BY <1>1, Always, PTL
=============================================================================
