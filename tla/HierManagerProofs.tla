------------------------- MODULE HierManagerProofs -------------------------
(***************************************************************************)
(* Proofs about HierManager, for any number of pages, chains and frames    *)
(* and any bound on the clock: the chains stay doubly linked lists, every  *)
(* call is a call of HierPromise or changes nothing that a client sees,    *)
(* and a fault evicts a hated page or the oldest page of the oldest chain. *)
(***************************************************************************)
EXTENDS HierManager, FiniteSetTheorems, TLAPS

-----------------------------------------------------------------------------
(* The inductive invariant *)

Links == Pages \cup {Null}

\* TypeOK of the objects, but for the bound on the sizes.
Objects ==
    [ head : [Chains -> Links], tail : [Chains -> Links], size : [Chains -> Nat],
      rep : [Chains -> Links], stamp : [Chains -> Nat],
      next : [Pages -> Links], prev : [Pages -> Links],
      resides : [Pages -> Chains \cup {None}], assigned : [Pages -> Chains \cup {None}],
      ts : [Pages -> Nat] ]

\* pos counts a page's steps from the head of its chain.
Placed(m, pos) ==
    \A p \in Pages : m.resides[p] # None => pos[p] < m.size[m.resides[p]]

Distinct(m, pos) ==
    \A p, q \in Pages :
        m.resides[p] # None /\ m.resides[p] = m.resides[q] /\ pos[p] = pos[q] => p = q

Backward(m, pos) ==
    \A p \in Pages :
        /\ m.prev[p] = Null <=> m.resides[p] = None \/ pos[p] = 0
        /\ m.prev[p] # Null => /\ m.resides[m.prev[p]] = m.resides[p]
                               /\ pos[m.prev[p]] = pos[p] - 1

Forward(m, pos) ==
    \A p \in Pages :
        /\ m.next[p] = Null <=> m.resides[p] = None \/ pos[p] = m.size[m.resides[p]] - 1
        /\ m.next[p] # Null => /\ m.resides[m.next[p]] = m.resides[p]
                               /\ pos[m.next[p]] = pos[p] + 1

Ended(m, pos) ==
    \A c \in Chains :
        /\ m.head[c] = Null <=> m.size[c] = 0
        /\ m.size[c] > 0 =>
              /\ m.resides[m.head[c]] = c /\ pos[m.head[c]] = 0
              /\ m.tail[c] # Null
              /\ m.resides[m.tail[c]] = c /\ pos[m.tail[c]] = m.size[c] - 1

Filled(m, pos) ==
    \A c \in Chains, n \in Nat :
        n < m.size[c] => \E p \in Pages : m.resides[p] = c /\ pos[p] = n

Shape(m, pos) ==
    /\ pos \in [Pages -> Nat]
    /\ Placed(m, pos) /\ Distinct(m, pos)
    /\ Backward(m, pos) /\ Forward(m, pos)
    /\ Ended(m, pos) /\ Filled(m, pos)

-----------------------------------------------------------------------------
LEMMA ChainIds ==
    /\ None \notin Chains
    /\ "hated" \in Chains /\ "default" \in Chains /\ "hated" # "default"
    /\ UserChains \subseteq Chains
    /\ \A c \in UserChains : c # "hated" /\ c # "default" /\ c # None
    /\ \A c \in Chains : c # "out" /\ c # None
    /\ \A c \in Chains : c \in UserChains \/ c \in SystemChains
BY ChainsAssumption DEF Chains, SystemChains, None

\* What unlink does to each field
Unlinked(m, c, p, g) ==
    /\ g.assigned = m.assigned /\ g.ts = m.ts /\ g.stamp = m.stamp
    /\ g.resides = [m.resides EXCEPT ![p] = None]
    /\ g.size = [m.size EXCEPT ![c] = @ - 1]
    /\ g.rep = [m.rep EXCEPT ![c] = IF @ = p THEN Null ELSE @]
    /\ g.head = [m.head EXCEPT ![c] = IF m.prev[p] = Null THEN m.next[p] ELSE @]
    /\ g.tail = [m.tail EXCEPT ![c] =
                     IF m.prev[p] # Null /\ m.next[p] = Null THEN m.prev[p] ELSE @]
    /\ g.next = [q \in Pages |-> IF q = p THEN Null
                                  ELSE IF q = m.prev[p] THEN m.next[p] ELSE m.next[q]]
    /\ g.prev = [q \in Pages |-> IF q = p THEN Null
                                  ELSE IF q = m.next[p] THEN m.prev[p] ELSE m.prev[q]]

LEMMA UnlinkFields ==
    ASSUME NEW m \in Objects, NEW c \in Chains, NEW p \in Pages,
           m.size[c] > 0,
           NEW g, g = Unlink(m, c, p)
    PROVE  g \in Objects /\ Unlinked(m, c, p, g)
<1> DEFINE hd == [m.head EXCEPT ![c] = IF m.prev[p] = Null THEN m.next[p] ELSE @]
           tl == [m.tail EXCEPT ![c] =
                           IF m.prev[p] # Null /\ m.next[p] = Null THEN m.prev[p] ELSE @]
           nx == [q \in Pages |-> IF q = p THEN Null
                                        ELSE IF q = m.prev[p] THEN m.next[p] ELSE m.next[q]]
           pv == [q \in Pages |-> IF q = p THEN Null
                                        ELSE IF q = m.next[p] THEN m.prev[p] ELSE m.prev[q]]
           rp == [m.rep EXCEPT ![c] = IF @ = p THEN Null ELSE @]
           rs == [m.resides EXCEPT ![p] = None]
           sz == [m.size EXCEPT ![c] = @ - 1]
<1>1. g = [m EXCEPT !.head = hd, !.tail = tl, !.next = nx, !.prev = pv, !.rep = rp,
                    !.resides = rs, !.size = sz]
  BY DEF Unlink, Objects
<1>2. m.prev[p] \in Links /\ m.next[p] \in Links
  BY DEF Objects
<1>3. hd \in [Chains -> Links] /\ tl \in [Chains -> Links]
  BY <1>2 DEF Objects
<1>4. nx \in [Pages -> Links] /\ pv \in [Pages -> Links]
  BY <1>2 DEF Objects, Links
<1>5. rp \in [Chains -> Links]
  BY DEF Objects, Links
<1>6. rs \in [Pages -> Chains \cup {None}]
  BY DEF Objects
<1>7. sz \in [Chains -> Nat]
  BY DEF Objects
<1> HIDE DEF hd, tl, nx, pv, rp, rs, sz
<1>8. /\ g.head = hd /\ g.tail = tl /\ g.next = nx /\ g.prev = pv /\ g.rep = rp
      /\ g.resides = rs /\ g.size = sz
      /\ g.assigned = m.assigned /\ g.ts = m.ts /\ g.stamp = m.stamp
  BY <1>1 DEF Objects
<1>9. g \in Objects
  BY <1>1, <1>3, <1>4, <1>5, <1>6, <1>7, ZenonT(60) DEF Objects
<1>10. QED
  BY <1>8, <1>9 DEF Unlinked, hd, tl, nx, pv, rp, rs, sz

\* The pages behind p move up by one.
Closed(m, pos, p) ==
    [q \in Pages |-> IF m.resides[q] = m.resides[p] /\ pos[q] > pos[p]
                     THEN pos[q] - 1 ELSE pos[q]]

LEMMA UnlinkShape ==
    ASSUME NEW m \in Objects, NEW c \in Chains, NEW p \in Pages, NEW pos,
           Shape(m, pos), m.resides[p] = c,
           NEW g, g = Unlink(m, c, p)
    PROVE  m.size[c] > 0 /\ Shape(g, Closed(m, pos, p))
<1> DEFINE new == Closed(m, pos, p)
<1>0. /\ pos \in [Pages -> Nat] /\ c # None /\ None \notin Chains /\ Null \notin Pages
      /\ m.resides \in [Pages -> Chains \cup {None}]
      /\ m.size \in [Chains -> Nat]
      /\ m.next \in [Pages -> Links] /\ m.prev \in [Pages -> Links]
      /\ m.head \in [Chains -> Links] /\ m.tail \in [Chains -> Links]
  BY ChainIds, NullAssumption DEF Shape, Objects
<1>1. /\ Placed(m, pos) /\ Distinct(m, pos) /\ Backward(m, pos) /\ Forward(m, pos)
      /\ Ended(m, pos) /\ Filled(m, pos)
  BY DEF Shape
<1>2. m.size[c] > 0
  BY <1>0, <1>1 DEF Placed
<1>3. Unlinked(m, c, p, g)
  BY <1>2, UnlinkFields
<1>4. /\ new \in [Pages -> Nat]
      /\ \A q \in Pages : new[q] = IF m.resides[q] = c /\ pos[q] > pos[p]
                                   THEN pos[q] - 1 ELSE pos[q]
  BY <1>0 DEF Closed
<1>5. /\ \A q \in Pages : g.resides[q] = IF q = p THEN None ELSE m.resides[q]
      /\ \A d \in Chains : g.size[d] = IF d = c THEN m.size[c] - 1 ELSE m.size[d]
  BY <1>0, <1>3 DEF Unlinked
<1>6. \A q \in Pages : m.resides[q] = c /\ q # p => pos[q] # pos[p]
  BY <1>0, <1>1 DEF Distinct
<1> HIDE DEF new
<1>7. Placed(g, new)
  BY <1>0, <1>1, <1>4, <1>5, <1>6 DEF Placed
<1>8. Distinct(g, new)
  BY <1>0, <1>1, <1>4, <1>5, <1>6 DEF Distinct
<1>9. Backward(g, new)
  <2> SUFFICES ASSUME NEW q \in Pages
               PROVE  /\ g.prev[q] = Null <=> g.resides[q] = None \/ new[q] = 0
                      /\ g.prev[q] # Null => /\ g.resides[g.prev[q]] = g.resides[q]
                                             /\ new[g.prev[q]] = new[q] - 1
    BY DEF Backward
  <2>1. g.prev[q] = IF q = p THEN Null ELSE IF q = m.next[p] THEN m.prev[p] ELSE m.prev[q]
    BY <1>3 DEF Unlinked
  <2>2. \A r \in Pages : /\ m.prev[r] = Null <=> m.resides[r] = None \/ pos[r] = 0
                         /\ m.prev[r] # Null => /\ m.resides[m.prev[r]] = m.resides[r]
                                                /\ pos[m.prev[r]] = pos[r] - 1
                                                /\ m.prev[r] \in Pages
    BY <1>0, <1>1 DEF Backward, Links
  <2>3. /\ m.next[p] = Null <=> pos[p] = m.size[c] - 1
        /\ m.next[p] # Null => /\ m.resides[m.next[p]] = c /\ m.next[p] \in Pages
                               /\ pos[m.next[p]] = pos[p] + 1
    BY <1>0, <1>1 DEF Forward, Links
  <2>4. CASE q = p
    BY <1>5, <2>1, <2>4
  <2>5. CASE q # p /\ q = m.next[p]
    BY <1>0, <1>4, <1>5, <2>1, <2>2, <2>3, <2>5
  <2>6. CASE q # p /\ q # m.next[p]
    <3>1. m.prev[q] # p
      BY <1>0, <1>1, <2>2, <2>3, <2>6 DEF Distinct, Placed
    <3>2. g.prev[q] = m.prev[q] /\ g.resides[q] = m.resides[q]
      BY <1>5, <2>1, <2>6
    <3>3. CASE m.prev[q] = Null
      <4>1. m.resides[q] = None \/ pos[q] = 0
        BY <2>2, <3>3
      <4>2. pos[q] = 0 => new[q] = 0
        BY <1>0, <1>1, <1>4 DEF Placed
      <4> QED  BY <3>2, <3>3, <4>1, <4>2
    <3>4. CASE m.prev[q] # Null
      <4>1. PICK r \in Pages \ {p} : /\ r = m.prev[q] /\ m.resides[r] = m.resides[q]
                                    /\ pos[r] = pos[q] - 1 /\ m.resides[q] # None /\ pos[q] # 0
        BY <2>2, <3>1, <3>4
      <4>2. g.resides[r] = g.resides[q]
        BY <1>5, <2>6, <4>1
      <4>3. pos[r] \in Nat /\ pos[q] \in Nat /\ pos[p] \in Nat
        BY <1>0, <1>1, <4>1 DEF Placed
      <4>4. m.resides[r] = c => pos[r] # pos[p]
        BY <1>6, <4>1
      <4>5. new[r] = new[q] - 1 /\ new[q] # 0
        BY <1>4, <4>1, <4>3, <4>4
      <4> QED  BY <3>2, <3>4, <4>1, <4>2, <4>5
    <3>5. QED  BY <3>3, <3>4
  <2>7. QED  BY <2>4, <2>5, <2>6
<1>10. Forward(g, new)
  <2> SUFFICES ASSUME NEW q \in Pages
               PROVE  /\ g.next[q] = Null <=> g.resides[q] = None \/ new[q] = g.size[g.resides[q]] - 1
                      /\ g.next[q] # Null => /\ g.resides[g.next[q]] = g.resides[q]
                                             /\ new[g.next[q]] = new[q] + 1
    BY DEF Forward
  <2>1. g.next[q] = IF q = p THEN Null ELSE IF q = m.prev[p] THEN m.next[p] ELSE m.next[q]
    BY <1>3 DEF Unlinked
  <2>2. \A r \in Pages :
            /\ m.next[r] = Null <=> m.resides[r] = None \/ pos[r] = m.size[m.resides[r]] - 1
            /\ m.next[r] # Null => /\ m.resides[m.next[r]] = m.resides[r]
                                   /\ pos[m.next[r]] = pos[r] + 1
                                   /\ m.next[r] \in Pages
    BY <1>0, <1>1 DEF Forward, Links
  <2>3. /\ m.prev[p] = Null <=> pos[p] = 0
        /\ m.prev[p] # Null => /\ m.resides[m.prev[p]] = c /\ m.prev[p] \in Pages
                               /\ pos[m.prev[p]] = pos[p] - 1
    BY <1>0, <1>1 DEF Backward, Links
  <2>4. CASE q = p
    BY <1>5, <2>1, <2>4
  <2>5. CASE q # p /\ q = m.prev[p]
    BY <1>0, <1>1, <1>4, <1>5, <2>1, <2>2, <2>3, <2>5 DEF Placed
  <2>6. CASE q # p /\ q # m.prev[p]
    <3>1. m.next[q] # p
      BY <1>0, <1>1, <2>2, <2>3, <2>6 DEF Distinct, Placed
    <3>2. m.resides[q] = c => pos[q] # pos[p] - 1
      BY <1>0, <1>1, <2>3, <2>6 DEF Distinct
    <3>3. QED
      BY <1>0, <1>1, <1>4, <1>5, <1>6, <2>1, <2>2, <2>3, <2>6, <3>1, <3>2 DEF Distinct, Placed
  <2>7. QED  BY <2>4, <2>5, <2>6
<1>11. Ended(g, new)
  <2> SUFFICES ASSUME NEW d \in Chains
               PROVE  /\ g.head[d] = Null <=> g.size[d] = 0
                      /\ g.size[d] > 0 =>
                            /\ g.resides[g.head[d]] = d /\ new[g.head[d]] = 0
                            /\ g.tail[d] # Null
                            /\ g.resides[g.tail[d]] = d /\ new[g.tail[d]] = g.size[d] - 1
    BY DEF Ended
  <2>1. /\ m.head[d] = Null <=> m.size[d] = 0
        /\ m.size[d] > 0 =>
              /\ m.resides[m.head[d]] = d /\ pos[m.head[d]] = 0 /\ m.head[d] \in Pages
              /\ m.tail[d] \in Pages
              /\ m.resides[m.tail[d]] = d /\ pos[m.tail[d]] = m.size[d] - 1
    BY <1>0, <1>1 DEF Ended, Links
  <2>2. g.head[d] = IF d = c /\ m.prev[p] = Null THEN m.next[p] ELSE m.head[d]
    BY <1>0, <1>3 DEF Unlinked
  <2>3. g.tail[d] = IF d = c /\ m.prev[p] # Null /\ m.next[p] = Null THEN m.prev[p] ELSE m.tail[d]
    BY <1>0, <1>3 DEF Unlinked
  <2>4. /\ m.prev[p] = Null <=> pos[p] = 0
        /\ m.prev[p] # Null => /\ m.resides[m.prev[p]] = c /\ m.prev[p] \in Pages
                               /\ pos[m.prev[p]] = pos[p] - 1
    BY <1>0, <1>1 DEF Backward, Links
  <2>5. /\ m.next[p] = Null <=> pos[p] = m.size[c] - 1
        /\ m.next[p] # Null => /\ m.resides[m.next[p]] = c /\ m.next[p] \in Pages
                               /\ pos[m.next[p]] = pos[p] + 1
    BY <1>0, <1>1 DEF Forward, Links
  <2>6. CASE d # c
    BY <1>0, <1>4, <1>5, <2>1, <2>2, <2>3, <2>6
  <2>7. CASE d = c
    <3>0. pos[p] \in Nat /\ pos[p] < m.size[c] /\ m.size[c] \in Nat
      BY <1>0, <1>1 DEF Placed
    <3>1. g.head[c] = Null <=> g.size[c] = 0
      BY <1>0, <1>5, <2>1, <2>2, <2>4, <2>5, <2>7, <3>0, <1>2
    <3>2. ASSUME g.size[c] > 0
          PROVE  g.resides[g.head[c]] = c /\ new[g.head[c]] = 0
      <4>1. CASE m.prev[p] = Null
        <5>1. g.head[c] = m.next[p] /\ pos[p] = 0
          BY <2>2, <2>4, <2>7, <4>1
        <5>2. m.next[p] # Null
          BY <1>0, <1>5, <2>5, <3>0, <3>2, <5>1
        <5>3. m.next[p] \in Pages /\ m.resides[m.next[p]] = c /\ pos[m.next[p]] = 1
              /\ m.next[p] # p
          BY <2>5, <5>1, <5>2
        <5>4. QED  BY <1>4, <1>5, <5>1, <5>3
      <4>2. CASE m.prev[p] # Null
        <5>1. g.head[c] = m.head[c] /\ pos[p] # 0 /\ m.head[c] # p
          BY <1>2, <2>1, <2>2, <2>4, <2>7, <4>2
        <5>2. QED  BY <1>2, <1>4, <1>5, <2>1, <2>7, <3>0, <5>1
      <4>3. QED  BY <4>1, <4>2
    <3>3. ASSUME g.size[c] > 0
          PROVE  g.tail[c] # Null /\ g.resides[g.tail[c]] = c /\ new[g.tail[c]] = g.size[c] - 1
      BY <1>0, <1>4, <1>5, <1>6, <2>1, <2>3, <2>4, <2>5, <2>7, <3>0, <3>3, <1>2
    <3>4. QED  BY <2>7, <3>1, <3>2, <3>3
  <2>8. QED  BY <2>6, <2>7
<1>12. Filled(g, new)
  <2> SUFFICES ASSUME NEW d \in Chains, NEW n \in Nat, n < g.size[d]
               PROVE  \E q \in Pages : g.resides[q] = d /\ new[q] = n
    BY DEF Filled
  <2>1. CASE d # c
    BY <1>0, <1>1, <1>4, <1>5, <2>1 DEF Filled
  <2>2. CASE d = c /\ n < pos[p]
    <3>1. PICK q \in Pages : m.resides[q] = c /\ pos[q] = n
      BY <1>0, <1>1, <1>5, <2>2 DEF Filled
    <3>2. QED  BY <1>0, <1>4, <1>5, <2>2, <3>1
  <2>3. CASE d = c /\ n >= pos[p]
    <3>1. n + 1 \in Nat /\ n + 1 < m.size[c]
      BY <1>0, <1>5, <2>3
    <3>2. PICK q \in Pages : m.resides[q] = c /\ pos[q] = n + 1
      BY <1>1, <3>1 DEF Filled
    <3>3. QED  BY <1>0, <1>4, <1>5, <2>3, <3>2
  <2>4. QED  BY <1>0, <2>1, <2>2, <2>3
<1>13. QED
  BY <1>2, <1>4, <1>7, <1>8, <1>9, <1>10, <1>11, <1>12 DEF Shape, new

-----------------------------------------------------------------------------
\* What link does to each field, the new representative included
Linked(m, c, p, g) ==
    /\ g.assigned = m.assigned /\ g.ts = m.ts
    /\ g.resides = [m.resides EXCEPT ![p] = c]
    /\ g.size = [m.size EXCEPT ![c] = @ + 1]
    /\ g.stamp = [m.stamp EXCEPT ![c] = IF m.ts[p] > @ THEN m.ts[p] ELSE @]
    /\ g.rep = [m.rep EXCEPT ![c] = IF m.ts[p] > m.stamp[c] THEN p ELSE @]
    /\ g.head = [m.head EXCEPT ![c] = p]
    /\ g.tail = [m.tail EXCEPT ![c] = IF m.head[c] = Null THEN p ELSE @]
    /\ g.next = [m.next EXCEPT ![p] = IF m.head[c] = Null THEN @ ELSE m.head[c]]
    /\ g.prev = [q \in Pages |-> IF q = m.head[c] THEN p ELSE m.prev[q]]

LEMMA LinkFields ==
    ASSUME NEW m \in Objects, NEW c \in Chains, NEW p \in Pages,
           m.resides[p] = None,
           NEW g, g = Link(m, c, p)
    PROVE  g \in Objects /\ Linked(m, c, p, g)
<1> DEFINE hd == [m.head EXCEPT ![c] = p]
           tl == [m.tail EXCEPT ![c] = IF m.head[c] = Null THEN p ELSE @]
           nx == [m.next EXCEPT ![p] = IF m.head[c] = Null THEN @ ELSE m.head[c]]
           pv == [q \in Pages |-> IF q = m.head[c] THEN p ELSE m.prev[q]]
           rs == [m.resides EXCEPT ![p] = c]
           sz == [m.size EXCEPT ![c] = @ + 1]
           st == [m.stamp EXCEPT ![c] = m.ts[p]]
           rp == [m.rep EXCEPT ![c] = p]
           f  == [m EXCEPT !.head = hd, !.tail = tl, !.next = nx, !.prev = pv,
                           !.resides = rs, !.size = sz]
<1>0. c # None
  BY ChainIds
<1>1. g = Represent(f, c, p)
  BY <1>0, ZenonT(60) DEF Link, Objects
<1>2. hd \in [Chains -> Links] /\ tl \in [Chains -> Links] /\ rp \in [Chains -> Links]
  BY DEF Objects, Links
<1>3. nx \in [Pages -> Links] /\ pv \in [Pages -> Links]
  BY DEF Objects, Links
<1>4. rs \in [Pages -> Chains \cup {None}] /\ rs[p] = c
  BY DEF Objects
<1>5. sz \in [Chains -> Nat] /\ st \in [Chains -> Nat]
  BY DEF Objects
<1>6. m.ts[p] \in Nat /\ m.stamp[c] \in Nat
  BY DEF Objects
<1>7. /\ st = [m.stamp EXCEPT ![c] = m.ts[p]]
      /\ rp = [m.rep EXCEPT ![c] = p]
  OBVIOUS
<1> HIDE DEF hd, tl, nx, pv, rs, sz, st, rp
<1>8. /\ f.head = hd /\ f.tail = tl /\ f.next = nx /\ f.prev = pv
      /\ f.resides = rs /\ f.size = sz
      /\ f.assigned = m.assigned /\ f.ts = m.ts /\ f.stamp = m.stamp /\ f.rep = m.rep
  BY DEF Objects
<1>9. f \in Objects
  BY <1>2, <1>3, <1>4, <1>5 DEF Objects
<1> HIDE DEF f
<1>10. CASE m.ts[p] > m.stamp[c]
  <2>1. g = [f EXCEPT !.stamp[c] = m.ts[p], !.rep[c] = p]
    BY <1>1, <1>4, <1>8, <1>10 DEF Represent
  <2>2. g = [f EXCEPT !.stamp = st, !.rep = rp]
    BY <1>7, <1>8, <1>9, <2>1 DEF Objects
  <2>3. g \in Objects
    BY <1>2, <1>5, <1>9, <2>2 DEF Objects
  <2>4. /\ g.stamp = st /\ g.rep = rp
        /\ g.head = hd /\ g.tail = tl /\ g.next = nx /\ g.prev = pv
        /\ g.resides = rs /\ g.size = sz /\ g.assigned = m.assigned /\ g.ts = m.ts
    BY <1>8, <1>9, <2>2 DEF Objects
  <2>5. /\ st = [m.stamp EXCEPT ![c] = IF m.ts[p] > @ THEN m.ts[p] ELSE @]
        /\ rp = [m.rep EXCEPT ![c] = IF m.ts[p] > m.stamp[c] THEN p ELSE @]
    BY <1>7, <1>10
  <2>6. QED
    BY <2>3, <2>4, <2>5 DEF Linked, hd, tl, nx, pv, rs, sz
<1>11. CASE ~(m.ts[p] > m.stamp[c])
  <2>1. g = f
    BY <1>1, <1>4, <1>8, <1>11 DEF Represent
  <2>2. /\ m.stamp = [m.stamp EXCEPT ![c] = IF m.ts[p] > @ THEN m.ts[p] ELSE @]
        /\ m.rep = [m.rep EXCEPT ![c] = IF m.ts[p] > m.stamp[c] THEN p ELSE @]
    BY <1>11 DEF Objects
  <2>3. QED
    BY <1>8, <1>9, <2>1, <2>2 DEF Linked, hd, tl, nx, pv, rs, sz
<1>12. QED
  BY <1>10, <1>11

\* The pages of the chain move down by one.
Opened(m, pos, c, p) ==
    [q \in Pages |-> IF q = p THEN 0 ELSE IF m.resides[q] = c THEN pos[q] + 1 ELSE pos[q]]

LEMMA LinkShape ==
    ASSUME NEW m \in Objects, NEW c \in Chains, NEW p \in Pages, NEW pos,
           Shape(m, pos), m.resides[p] = None,
           NEW g, g = Link(m, c, p)
    PROVE  Shape(g, Opened(m, pos, c, p))
<1> DEFINE new == Opened(m, pos, c, p)
<1>0. /\ pos \in [Pages -> Nat] /\ c # None /\ None \notin Chains /\ Null \notin Pages
      /\ m.resides \in [Pages -> Chains \cup {None}]
      /\ m.size \in [Chains -> Nat]
      /\ m.next \in [Pages -> Links] /\ m.prev \in [Pages -> Links]
      /\ m.head \in [Chains -> Links] /\ m.tail \in [Chains -> Links]
  BY ChainIds, NullAssumption DEF Shape, Objects
<1>1. /\ Placed(m, pos) /\ Distinct(m, pos) /\ Backward(m, pos) /\ Forward(m, pos)
      /\ Ended(m, pos) /\ Filled(m, pos)
  BY DEF Shape
<1>2. Linked(m, c, p, g)
  BY LinkFields
<1>3. /\ new \in [Pages -> Nat]
      /\ \A q \in Pages : new[q] = IF q = p THEN 0
                                   ELSE IF m.resides[q] = c THEN pos[q] + 1 ELSE pos[q]
  BY <1>0 DEF Opened
<1>4. /\ \A q \in Pages : g.resides[q] = IF q = p THEN c ELSE m.resides[q]
      /\ \A d \in Chains : g.size[d] = IF d = c THEN m.size[c] + 1 ELSE m.size[d]
  BY <1>0, <1>2 DEF Linked
<1>5. /\ m.head[c] = Null <=> m.size[c] = 0
      /\ m.size[c] > 0 =>
            /\ m.resides[m.head[c]] = c /\ pos[m.head[c]] = 0 /\ m.head[c] \in Pages
            /\ m.head[c] # p
  BY <1>0, <1>1 DEF Ended, Links
<1>6. m.size[c] \in Nat
  BY <1>0
<1>7. m.next[p] = Null /\ m.prev[p] = Null
  BY <1>0, <1>1 DEF Forward, Backward
<1> HIDE DEF new
<1>8. Placed(g, new)
  BY <1>0, <1>1, <1>3, <1>4 DEF Placed
<1>9. Distinct(g, new)
  BY <1>0, <1>1, <1>3, <1>4 DEF Distinct
<1>10. Backward(g, new)
  <2> SUFFICES ASSUME NEW q \in Pages
               PROVE  /\ g.prev[q] = Null <=> g.resides[q] = None \/ new[q] = 0
                      /\ g.prev[q] # Null => /\ g.resides[g.prev[q]] = g.resides[q]
                                             /\ new[g.prev[q]] = new[q] - 1
    BY DEF Backward
  <2>1. g.prev[q] = IF q = m.head[c] THEN p ELSE m.prev[q]
    BY <1>2 DEF Linked
  <2>2. /\ m.prev[q] = Null <=> m.resides[q] = None \/ pos[q] = 0
        /\ m.prev[q] # Null => /\ m.resides[m.prev[q]] = m.resides[q]
                               /\ pos[m.prev[q]] = pos[q] - 1
                               /\ m.prev[q] \in Pages
    BY <1>0, <1>1 DEF Backward, Links
  <2>3. CASE q = m.head[c]
    BY <1>0, <1>3, <1>4, <1>5, <1>6, <2>1, <2>3
  <2>4. CASE q = p
    BY <1>0, <1>3, <1>4, <1>5, <1>6, <1>7, <2>1, <2>4
  <2>5. CASE q # m.head[c] /\ q # p
    <3>1. m.resides[q] = c => pos[q] # 0 /\ m.prev[q] # Null
      <4>1. m.resides[q] = c => m.size[c] > 0
        BY <1>0, <1>1 DEF Placed
      <4>2. m.resides[q] = c => pos[q] # 0
        BY <1>0, <1>1, <1>5, <2>5, <4>1 DEF Distinct
      <4>3. QED  BY <1>0, <2>2, <4>2
    <3>2. m.prev[q] # Null => m.prev[q] # p
      BY <1>0, <2>2
    <3>3. QED
      BY <1>0, <1>3, <1>4, <2>1, <2>2, <2>5, <3>1, <3>2
  <2>6. QED  BY <2>3, <2>4, <2>5
<1>11. Forward(g, new)
  <2> SUFFICES ASSUME NEW q \in Pages
               PROVE  /\ g.next[q] = Null <=> g.resides[q] = None \/ new[q] = g.size[g.resides[q]] - 1
                      /\ g.next[q] # Null => /\ g.resides[g.next[q]] = g.resides[q]
                                             /\ new[g.next[q]] = new[q] + 1
    BY DEF Forward
  <2>1. g.next[q] = IF q = p /\ m.head[c] # Null THEN m.head[c] ELSE m.next[q]
    BY <1>0, <1>2 DEF Linked
  <2>2. /\ m.next[q] = Null <=> m.resides[q] = None \/ pos[q] = m.size[m.resides[q]] - 1
        /\ m.next[q] # Null => /\ m.resides[m.next[q]] = m.resides[q]
                               /\ pos[m.next[q]] = pos[q] + 1
                               /\ m.next[q] \in Pages
    BY <1>0, <1>1 DEF Forward, Links
  <2>3. CASE q = p
    BY <1>0, <1>3, <1>4, <1>5, <1>6, <1>7, <2>1, <2>3
  <2>4. CASE q # p
    <3>1. m.next[q] # Null => m.next[q] # p
      BY <1>0, <2>2
    <3>2. g.next[q] = m.next[q] /\ g.resides[q] = m.resides[q]
      BY <1>4, <2>1, <2>4
    <3>3. g.resides[q] # None =>
             (new[q] = g.size[g.resides[q]] - 1 <=> pos[q] = m.size[m.resides[q]] - 1)
      BY <1>0, <1>3, <1>4, <2>4
    <3>4. m.next[q] # Null => /\ g.resides[m.next[q]] = m.resides[q]
                              /\ new[m.next[q]] = new[q] + 1
      BY <1>0, <1>3, <1>4, <2>2, <2>4, <3>1
    <3>5. QED
      BY <2>2, <3>2, <3>3, <3>4
  <2>5. QED  BY <2>3, <2>4
<1>12. Ended(g, new)
  <2> SUFFICES ASSUME NEW d \in Chains
               PROVE  /\ g.head[d] = Null <=> g.size[d] = 0
                      /\ g.size[d] > 0 =>
                            /\ g.resides[g.head[d]] = d /\ new[g.head[d]] = 0
                            /\ g.tail[d] # Null
                            /\ g.resides[g.tail[d]] = d /\ new[g.tail[d]] = g.size[d] - 1
    BY DEF Ended
  <2>1. /\ m.head[d] = Null <=> m.size[d] = 0
        /\ m.size[d] > 0 =>
              /\ m.resides[m.head[d]] = d /\ pos[m.head[d]] = 0 /\ m.head[d] \in Pages
              /\ m.tail[d] \in Pages
              /\ m.resides[m.tail[d]] = d /\ pos[m.tail[d]] = m.size[d] - 1
    BY <1>0, <1>1 DEF Ended, Links
  <2>2. g.head[d] = IF d = c THEN p ELSE m.head[d]
    BY <1>0, <1>2 DEF Linked
  <2>3. g.tail[d] = IF d = c /\ m.head[c] = Null THEN p ELSE m.tail[d]
    BY <1>0, <1>2 DEF Linked
  <2>4. m.size[d] \in Nat
    BY <1>0
  <2>5. CASE d # c
    BY <1>0, <1>3, <1>4, <2>1, <2>2, <2>3, <2>4, <2>5
  <2>6. CASE d = c
    BY <1>0, <1>3, <1>4, <1>5, <2>1, <2>2, <2>3, <2>4, <2>6
  <2>7. QED  BY <2>5, <2>6
<1>13. Filled(g, new)
  <2> SUFFICES ASSUME NEW d \in Chains, NEW n \in Nat, n < g.size[d]
               PROVE  \E q \in Pages : g.resides[q] = d /\ new[q] = n
    BY DEF Filled
  <2>1. CASE d # c
    <3>1. PICK q \in Pages : m.resides[q] = d /\ pos[q] = n
      BY <1>0, <1>1, <1>4, <2>1 DEF Filled
    <3>2. QED  BY <1>0, <1>3, <1>4, <2>1, <3>1
  <2>2. CASE d = c /\ n = 0
    BY <1>3, <1>4, <2>2
  <2>3. CASE d = c /\ n # 0
    <3>1. n - 1 \in Nat /\ n - 1 < m.size[c]
      BY <1>0, <1>4, <2>3
    <3>2. PICK q \in Pages : m.resides[q] = c /\ pos[q] = n - 1
      BY <1>1, <3>1 DEF Filled
    <3>3. QED  BY <1>0, <1>3, <1>4, <2>3, <3>2
  <2>4. QED  BY <2>1, <2>2, <2>3
<1>14. QED
  BY <1>3, <1>8, <1>9, <1>10, <1>11, <1>12, <1>13 DEF Shape, new

-----------------------------------------------------------------------------
LEMMA PagesCount == Cardinality(Pages) \in Nat
BY PagesAssumption, FS_CardinalityType

\* A set of numbers has a least one.
LEMMA LeastNumber ==
    ASSUME NEW T \in SUBSET Nat, T # {}
    PROVE  \E n \in T : \A k \in T : n <= k
<1>1. PICK n \in T : \A k \in T : ~(<<k, n>> \in OpToRel(<, Nat))
  BY NatLessThanWellFounded, WFMin
<1>2. \A k \in T : ~(k < n)
  BY <1>1 DEF OpToRel
<1>3. QED  BY <1>2

\* The loop that Nth models, from the head along next
Walk(m, c, f) ==
    [n \in 0 .. Cardinality(Pages) |->
        IF n = 0 THEN m.head[c]
        ELSE IF f[n - 1] = Null THEN Null ELSE m.next[f[n - 1]]]

\* It meets the pages of the chain in the order of their positions.
Met(m, c, pos, f) ==
    \A n \in 0 .. Cardinality(Pages) :
        IF n < m.size[c] THEN f[n] \in Pages /\ m.resides[f[n]] = c /\ pos[f[n]] = n
        ELSE f[n] = Null

LEMMA WalkExists ==
    ASSUME NEW m \in Objects, NEW c \in Chains, NEW pos, Shape(m, pos)
    PROVE  \E f : f = Walk(m, c, f)
<1> DEFINE At(n) == CHOOSE p \in Pages : m.resides[p] = c /\ pos[p] = n
           f == [n \in 0 .. Cardinality(Pages) |-> IF n < m.size[c] THEN At(n) ELSE Null]
<1>0. /\ pos \in [Pages -> Nat] /\ c # None /\ Null \notin Pages /\ Cardinality(Pages) \in Nat
      /\ m.resides \in [Pages -> Chains \cup {None}]
      /\ m.size[c] \in Nat /\ m.next \in [Pages -> Links] /\ m.head[c] \in Links
  BY ChainIds, NullAssumption, PagesCount DEF Shape, Objects
<1>1. /\ Distinct(m, pos) /\ Forward(m, pos) /\ Ended(m, pos) /\ Filled(m, pos)
  BY DEF Shape
<1>2. ASSUME NEW n \in Nat, n < m.size[c]
      PROVE  At(n) \in Pages /\ m.resides[At(n)] = c /\ pos[At(n)] = n
  BY <1>1, <1>2 DEF Filled
<1>3. ASSUME NEW n \in Nat, n < m.size[c], NEW p \in Pages, m.resides[p] = c, pos[p] = n
      PROVE  p = At(n)
  BY <1>0, <1>1, <1>2, <1>3 DEF Distinct
<1> HIDE DEF At
<1>4. ASSUME NEW n \in 0 .. Cardinality(Pages)
      PROVE  f[n] = IF n = 0 THEN m.head[c]
                    ELSE IF f[n - 1] = Null THEN Null ELSE m.next[f[n - 1]]
  <2>1. CASE n = 0
    BY <1>0, <1>1, <1>3, <2>1 DEF Ended, Links
  <2>2. CASE n # 0 /\ ~(n - 1 < m.size[c])
    BY <1>0, <2>2
  <2>3. CASE n # 0 /\ n - 1 < m.size[c]
    <3>1. n - 1 \in 0 .. Cardinality(Pages) /\ n - 1 \in Nat /\ n \in Nat
      BY <1>0, <2>3
    <3>2. f[n - 1] = At(n - 1) /\ At(n - 1) \in Pages /\ m.resides[At(n - 1)] = c
          /\ pos[At(n - 1)] = n - 1
      BY <1>2, <2>3, <3>1
    <3>3. m.next[At(n - 1)] = Null <=> n = m.size[c]
      BY <1>0, <1>1, <2>3, <3>1, <3>2 DEF Forward
    <3>4. n < m.size[c] => /\ m.next[At(n - 1)] \in Pages
                           /\ m.resides[m.next[At(n - 1)]] = c
                           /\ pos[m.next[At(n - 1)]] = n
      BY <1>0, <1>1, <2>3, <3>1, <3>2, <3>3 DEF Forward, Links
    <3>5. n < m.size[c] => m.next[At(n - 1)] = At(n)
      BY <1>3, <3>1, <3>4
    <3>6. QED  BY <1>0, <2>3, <3>1, <3>2, <3>3, <3>5
  <2>4. QED  BY <2>1, <2>2, <2>3
<1> HIDE DEF f
<1>5. f = Walk(m, c, f)
  <2>1. f = [n \in 0 .. Cardinality(Pages) |-> f[n]]
    BY DEF f
  <2>2. QED  BY <1>4, <2>1 DEF Walk
<1>6. QED  BY <1>5

LEMMA NthMeets ==
    ASSUME NEW m \in Objects, NEW c \in Chains, NEW pos, Shape(m, pos),
           NEW f, f = Nth(m, c)
    PROVE  Met(m, c, pos, f)
<1>0. /\ pos \in [Pages -> Nat] /\ c # None /\ Null \notin Pages /\ Cardinality(Pages) \in Nat
      /\ m.resides \in [Pages -> Chains \cup {None}]
      /\ m.size[c] \in Nat /\ m.next \in [Pages -> Links] /\ m.head[c] \in Links
  BY ChainIds, NullAssumption, PagesCount DEF Shape, Objects
<1>1. /\ Distinct(m, pos) /\ Forward(m, pos) /\ Ended(m, pos) /\ Filled(m, pos)
  BY DEF Shape
<1>2. f = Walk(m, c, f)
  <2>1. f = CHOOSE g : g = Walk(m, c, g)
    BY DEF Nth, Walk
  <2>2. QED  BY <2>1, WalkExists
<1>3. \A n \in 0 .. Cardinality(Pages) :
         f[n] = IF n = 0 THEN m.head[c]
                ELSE IF f[n - 1] = Null THEN Null ELSE m.next[f[n - 1]]
  BY <1>2 DEF Walk
<1> DEFINE Good(n) == IF n < m.size[c]
                      THEN f[n] \in Pages /\ m.resides[f[n]] = c /\ pos[f[n]] = n
                      ELSE f[n] = Null
           T == {n \in 0 .. Cardinality(Pages) : ~Good(n)}
<1>4. T = {}
  <2> SUFFICES ASSUME T # {} PROVE FALSE
    OBVIOUS
  <2>1. T \subseteq Nat
    BY <1>0
  <2>2. PICK n \in T : \A k \in T : n <= k
    <3> HIDE DEF T
    <3>1. QED  BY <2>1, LeastNumber
  <2>3. n \in 0 .. Cardinality(Pages) /\ ~Good(n)
    OBVIOUS
  <2>4. n # 0
    <3> SUFFICES ASSUME n = 0 PROVE Good(0)
      BY <2>3
    <3>1. f[0] = m.head[c]
      BY <1>0, <1>3
    <3>2. QED  BY <1>0, <1>1, <3>1 DEF Ended, Links
  <2>5. n - 1 \in 0 .. Cardinality(Pages) /\ Good(n - 1)
    BY <1>0, <2>2, <2>3, <2>4
  <2>6. f[n] = IF f[n - 1] = Null THEN Null ELSE m.next[f[n - 1]]
    BY <1>3, <2>3, <2>4
  <2>7. CASE ~(n - 1 < m.size[c])
    BY <1>0, <2>3, <2>5, <2>6, <2>7
  <2>8. CASE n - 1 < m.size[c]
    <3>1. f[n - 1] \in Pages /\ m.resides[f[n - 1]] = c /\ pos[f[n - 1]] = n - 1
      BY <2>5, <2>8
    <3>2. f[n] = m.next[f[n - 1]]
      BY <1>0, <2>6, <3>1
    <3>3. f[n] = Null <=> n = m.size[c]
      BY <1>0, <1>1, <2>3, <2>8, <3>1, <3>2 DEF Forward
    <3>4. f[n] # Null => f[n] \in Pages /\ m.resides[f[n]] = c /\ pos[f[n]] = n
      BY <1>0, <1>1, <2>3, <3>1, <3>2 DEF Forward, Links
    <3>5. QED  BY <1>0, <2>3, <2>8, <3>3, <3>4
  <2>9. QED  BY <2>7, <2>8
<1>5. QED  BY <1>4 DEF Met

\* The pages that say they are on chain c
Residents(m, c) == {p \in Pages : m.resides[p] = c}

LEMMA ChainCount ==
    ASSUME NEW m \in Objects, NEW c \in Chains, NEW pos, Shape(m, pos)
    PROVE  /\ IsFiniteSet(Residents(m, c))
           /\ Cardinality(Residents(m, c)) = m.size[c]
           /\ m.size[c] <= Cardinality(Pages)
<1> DEFINE R == Residents(m, c)
           k == m.size[c]
           f == [p \in R |-> pos[p]]
<1>0. /\ pos \in [Pages -> Nat] /\ c # None /\ k \in Nat
      /\ Placed(m, pos) /\ Distinct(m, pos) /\ Filled(m, pos)
  BY ChainIds DEF Shape, Objects
<1>1. IsFiniteSet(R) /\ Cardinality(R) <= Cardinality(Pages)
  BY PagesAssumption, FS_Subset DEF Residents
<1>2. \A p \in R : p \in Pages /\ m.resides[p] = c
  BY DEF Residents
<1>3. f \in [R -> 0 .. k - 1]
  BY <1>0, <1>2 DEF Placed
<1>4. IsInjective(f)
  BY <1>0, <1>2 DEF Distinct, IsInjective
<1>5. ASSUME NEW n \in 0 .. k - 1 PROVE \E p \in R : f[p] = n
  <2>1. PICK p \in Pages : m.resides[p] = c /\ pos[p] = n
    BY <1>0 DEF Filled
  <2>2. QED  BY <2>1 DEF Residents
<1> HIDE DEF f
<1>6. f \in Bijection(R, 0 .. k - 1)
  BY <1>3, <1>4, <1>5 DEF Bijection, Injection, Surjection
<1>7. Cardinality(0 .. k - 1) = Cardinality(R)
  BY <1>1, <1>6, FS_Bijection DEF ExistsBijection
<1>8. Cardinality(0 .. k - 1) = k
  BY <1>0, FS_Interval
<1>9. QED  BY <1>1, <1>7, <1>8

LEMMA MembersReside ==
    ASSUME NEW m \in Objects, NEW c \in Chains, NEW pos, Shape(m, pos)
    PROVE  Members(m, c) = Residents(m, c)
<1> DEFINE f == Nth(m, c)
<1>0. /\ pos \in [Pages -> Nat] /\ m.size[c] \in Nat /\ c # None /\ Null \notin Pages
      /\ Cardinality(Pages) \in Nat
      /\ Placed(m, pos) /\ Distinct(m, pos)
  BY ChainIds, NullAssumption, PagesCount DEF Shape, Objects
<1>1. Met(m, c, pos, f)
  BY NthMeets
<1>2. m.size[c] <= Cardinality(Pages)
  BY ChainCount
<1>3. Members(m, c) = {f[n] : n \in 0 .. Cardinality(Pages)} \ {Null}
  BY DEF Members
<1> HIDE DEF f
<1>4. ASSUME NEW p \in Members(m, c) PROVE p \in Residents(m, c)
  <2>1. PICK n \in 0 .. Cardinality(Pages) : p = f[n] /\ p # Null
    BY <1>3
  <2>2. QED  BY <1>1, <2>1 DEF Met, Residents
<1>5. ASSUME NEW p \in Residents(m, c) PROVE p \in Members(m, c)
  <2>1. p \in Pages /\ m.resides[p] = c /\ pos[p] < m.size[c] /\ pos[p] \in Nat
    BY <1>0 DEF Residents, Placed
  <2>2. pos[p] \in 0 .. Cardinality(Pages)
    BY <1>0, <1>2, <2>1
  <2>3. f[pos[p]] \in Pages /\ m.resides[f[pos[p]]] = c /\ pos[f[pos[p]]] = pos[p]
    BY <1>1, <2>1, <2>2 DEF Met
  <2>4. f[pos[p]] = p
    BY <1>0, <2>1, <2>3 DEF Distinct
  <2>5. QED  BY <1>0, <1>3, <2>1, <2>2, <2>4
<1>6. QED  BY <1>4, <1>5

-----------------------------------------------------------------------------
\* No timestamp is later than now; a chain's timestamp is its representative's,
\* or older after a break, and covers every page of a user chain.
Dated(m, now) ==
    /\ \A p \in Pages : m.ts[p] <= now
    /\ \A c \in Chains : m.stamp[c] <= now
    /\ \A c \in Chains : m.rep[c] # Null => m.stamp[c] <= m.ts[m.rep[c]]
    /\ \A p \in Pages : m.resides[p] \in UserChains => m.ts[p] <= m.stamp[m.resides[p]]

Sound(m, now) ==
    /\ m \in Objects
    /\ \E pos : Shape(m, pos)
    /\ Dated(m, now)

\* The fields that the shape of the lists is about
SameLists(m, g) ==
    /\ g.head = m.head /\ g.tail = m.tail /\ g.size = m.size
    /\ g.next = m.next /\ g.prev = m.prev /\ g.resides = m.resides

LEMMA SameShape ==
    ASSUME NEW m, NEW g, SameLists(m, g), NEW pos, Shape(m, pos)
    PROVE  Shape(g, pos)
BY DEF SameLists, Shape, Placed, Distinct, Backward, Forward, Ended, Filled

LEMMA UnlinkSound ==
    ASSUME NEW now \in Nat, NEW m, Sound(m, now), NEW c \in Chains, NEW p \in Pages,
           m.resides[p] = c,
           NEW g, g = Unlink(m, c, p)
    PROVE  Sound(g, now) /\ Unlinked(m, c, p, g)
<1>0. m \in Objects /\ Dated(m, now) /\ c # None /\ Null \notin Pages /\ None \notin UserChains
  BY ChainIds, NullAssumption DEF Sound
<1>1. PICK pos : Shape(m, pos)
  BY DEF Sound
<1>2. m.size[c] > 0 /\ Shape(g, Closed(m, pos, p))
  BY <1>0, <1>1, UnlinkShape
<1>3. g \in Objects /\ Unlinked(m, c, p, g)
  BY <1>0, <1>2, UnlinkFields
<1>4. /\ g.ts = m.ts /\ g.stamp = m.stamp
      /\ \A q \in Pages : g.resides[q] = IF q = p THEN None ELSE m.resides[q]
      /\ \A d \in Chains : g.rep[d] = m.rep[d] \/ g.rep[d] = Null
  BY <1>0, <1>3 DEF Unlinked, Objects
<1>5. Dated(g, now)
  BY <1>0, <1>4 DEF Dated
<1>6. QED  BY <1>2, <1>3, <1>5 DEF Sound

LEMMA LinkSound ==
    ASSUME NEW now \in Nat, NEW m, Sound(m, now), NEW c \in Chains, NEW p \in Pages,
           m.resides[p] = None,
           NEW g, g = Link(m, c, p)
    PROVE  Sound(g, now) /\ Linked(m, c, p, g)
<1>0. m \in Objects /\ Dated(m, now) /\ c # None /\ Null \notin Pages
  BY ChainIds, NullAssumption DEF Sound
<1>1. PICK pos : Shape(m, pos)
  BY DEF Sound
<1>2. Shape(g, Opened(m, pos, c, p))
  BY <1>0, <1>1, LinkShape
<1>3. g \in Objects /\ Linked(m, c, p, g)
  BY <1>0, LinkFields
<1>4. /\ g.ts = m.ts
      /\ \A q \in Pages : g.resides[q] = IF q = p THEN c ELSE m.resides[q]
      /\ \A d \in Chains : g.stamp[d] = IF d = c /\ m.ts[p] > m.stamp[c] THEN m.ts[p] ELSE m.stamp[d]
      /\ \A d \in Chains : g.rep[d] = IF d = c /\ m.ts[p] > m.stamp[c] THEN p ELSE m.rep[d]
      /\ m.ts \in [Pages -> Nat] /\ m.stamp \in [Chains -> Nat] /\ m.rep \in [Chains -> Links]
      /\ m.resides \in [Pages -> Chains \cup {None}] /\ UserChains \subseteq Chains
  BY <1>0, <1>3, ChainIds DEF Linked, Objects
<1>5. Dated(g, now)
  <2>1. \A q \in Pages : g.ts[q] <= now
    BY <1>0, <1>4 DEF Dated
  <2>2. \A d \in Chains : g.stamp[d] <= now
    BY <1>0, <1>4 DEF Dated
  <2>3. \A d \in Chains : g.rep[d] # Null => g.stamp[d] <= g.ts[g.rep[d]]
    BY <1>0, <1>4 DEF Dated
  <2>4. \A q \in Pages : g.resides[q] \in UserChains => g.ts[q] <= g.stamp[g.resides[q]]
    <3> SUFFICES ASSUME NEW q \in Pages, g.resides[q] \in UserChains
                 PROVE  g.ts[q] <= g.stamp[g.resides[q]]
      OBVIOUS
    <3>1. CASE q = p
      BY <1>4, <3>1
    <3>2. CASE q # p
      <4>1. m.ts[q] <= m.stamp[m.resides[q]] /\ g.resides[q] = m.resides[q]
            /\ m.resides[q] \in Chains
        BY <1>0, <1>4, <3>2 DEF Dated
      <4>2. m.ts[q] \in Nat /\ m.stamp[m.resides[q]] \in Nat /\ m.ts[p] \in Nat
        BY <1>4, <4>1
      <4>3. QED  BY <1>4, <4>1, <4>2
    <3>3. QED  BY <3>1, <3>2
  <2>5. QED  BY <2>1, <2>2, <2>3, <2>4 DEF Dated
<1>6. QED  BY <1>2, <1>3, <1>5 DEF Sound

Assigned(m, p, c) == [m EXCEPT !.assigned[p] = c]

LEMMA AssignSound ==
    ASSUME NEW now \in Nat, NEW m, Sound(m, now), NEW c \in Chains, NEW p \in Pages,
           NEW g, g = Assigned(m, p, c)
    PROVE  /\ Sound(g, now) /\ SameLists(m, g)
           /\ g.assigned = [m.assigned EXCEPT ![p] = c] /\ g.ts = m.ts
           /\ g.stamp = m.stamp /\ g.rep = m.rep
<1>0. m \in Objects /\ Dated(m, now)
  BY DEF Sound
<1> DEFINE a == [m.assigned EXCEPT ![p] = c]
<1>1. a \in [Pages -> Chains \cup {None}]
  BY <1>0 DEF Objects
<1>2. g = [m EXCEPT !.assigned = a]
  BY <1>0 DEF Objects, Assigned
<1> HIDE DEF a
<1>3. g \in Objects
  BY <1>0, <1>1, <1>2 DEF Objects
<1>4. SameLists(m, g) /\ g.assigned = a /\ g.ts = m.ts /\ g.stamp = m.stamp /\ g.rep = m.rep
  BY <1>0, <1>2 DEF Objects, SameLists
<1>5. \E pos : Shape(g, pos)
  BY <1>4, SameShape DEF Sound
<1>6. Dated(g, now)
  BY <1>0, <1>4 DEF Dated, SameLists
<1>7. QED  BY <1>3, <1>4, <1>5, <1>6 DEF Sound, a

\* ref(): the page is stamped with a time later than every other.
Stamped(m, p, t) == [m EXCEPT !.ts[p] = t]

LEMMA StampSound ==
    ASSUME NEW now \in Nat, NEW m, Sound(m, now), NEW p \in Pages, NEW t \in Nat, t > now,
           NEW g, g = Stamped(m, p, t)
    PROVE  /\ SameLists(m, g) /\ g \in Objects /\ \E pos : Shape(g, pos)
           /\ g.ts = [m.ts EXCEPT ![p] = t] /\ g.assigned = m.assigned
           /\ g.stamp = m.stamp /\ g.rep = m.rep
<1>0. m \in Objects /\ Dated(m, now)
  BY DEF Sound
<1> DEFINE a == [m.ts EXCEPT ![p] = t]
<1>1. a \in [Pages -> Nat]
  BY <1>0 DEF Objects
<1>2. g = [m EXCEPT !.ts = a]
  BY <1>0 DEF Objects, Stamped
<1> HIDE DEF a
<1>3. g \in Objects
  BY <1>0, <1>1, <1>2 DEF Objects
<1>4. /\ SameLists(m, g) /\ g.ts = a /\ g.assigned = m.assigned
      /\ g.stamp = m.stamp /\ g.rep = m.rep
  BY <1>0, <1>2 DEF Objects, SameLists
<1>5. \E pos : Shape(g, pos)
  BY <1>4, SameShape DEF Sound
<1>6. QED  BY <1>3, <1>4, <1>5 DEF a

LEMMA StampKeeps ==
    ASSUME NEW m \in Objects, NEW p \in Pages, NEW t, NEW g, g = Stamped(m, p, t)
    PROVE  SameLists(m, g) /\ g.assigned = m.assigned
BY DEF Objects, SameLists, Stamped

LEMMA StampApart ==
    ASSUME NEW now \in Nat, NEW m, Sound(m, now), NEW p \in Pages, NEW t \in Nat, t > now,
           m.resides[p] \notin UserChains, NEW g, g = Stamped(m, p, t)
    PROVE  Sound(g, t) /\ SameLists(m, g) /\ g.assigned = m.assigned
<1>0. m \in Objects /\ Dated(m, now)
  BY DEF Sound
<1>1. /\ SameLists(m, g) /\ g \in Objects /\ \E pos : Shape(g, pos)
      /\ g.ts = [m.ts EXCEPT ![p] = t] /\ g.assigned = m.assigned
      /\ g.stamp = m.stamp /\ g.rep = m.rep
  BY StampSound
<1>2. /\ \A q \in Pages : g.ts[q] = IF q = p THEN t ELSE m.ts[q]
      /\ m.ts \in [Pages -> Nat] /\ m.stamp \in [Chains -> Nat] /\ m.rep \in [Chains -> Links]
      /\ UserChains \subseteq Chains /\ g.resides = m.resides
  BY <1>0, <1>1, ChainIds DEF Objects, SameLists
<1>3. \A q \in Pages : g.ts[q] <= t
  BY <1>0, <1>2 DEF Dated
<1>4. \A d \in Chains : g.stamp[d] <= t
  BY <1>0, <1>1, <1>2 DEF Dated
<1>5. \A d \in Chains : g.rep[d] # Null => g.stamp[d] <= g.ts[g.rep[d]]
  BY <1>0, <1>1, <1>2 DEF Dated, Links
<1>6. \A q \in Pages : g.resides[q] \in UserChains => g.ts[q] <= g.stamp[g.resides[q]]
  BY <1>0, <1>1, <1>2 DEF Dated
<1>7. QED  BY <1>1, <1>3, <1>4, <1>5, <1>6 DEF Dated, Sound

\* access() of a resident page of a user chain: the page becomes the representative.
LEMMA RepresentSound ==
    ASSUME NEW now \in Nat, NEW m, Sound(m, now), NEW p \in Pages, NEW t \in Nat, t > now,
           NEW c \in UserChains, m.resides[p] = c,
           NEW g, g = Represent([m EXCEPT !.ts[p] = t], c, p)
    PROVE  Sound(g, t) /\ SameLists(m, g) /\ g.assigned = m.assigned
<1> DEFINE f == Stamped(m, p, t)
<1>1. /\ SameLists(m, f) /\ f \in Objects /\ \E pos : Shape(f, pos)
      /\ f.ts = [m.ts EXCEPT ![p] = t] /\ f.assigned = m.assigned
      /\ f.stamp = m.stamp /\ f.rep = m.rep
  BY StampSound
<1>2. g = Represent(f, c, p)
  BY DEF Stamped
<1> HIDE DEF f
<1>0. m \in Objects /\ Dated(m, now) /\ c \in Chains
  BY ChainIds DEF Sound
<1>3. /\ m.ts \in [Pages -> Nat] /\ m.stamp \in [Chains -> Nat] /\ m.rep \in [Chains -> Links]
      /\ f.resides = m.resides /\ m.resides[p] = c /\ Null \notin Pages
  BY <1>0, <1>1, NullAssumption DEF Objects, SameLists
<1>4. f.ts[p] > f.stamp[c] /\ f.resides[p] = c /\ f.ts[p] = t
  BY <1>0, <1>1, <1>3 DEF Dated
<1> DEFINE st == [m.stamp EXCEPT ![c] = t]
           rp == [m.rep EXCEPT ![c] = p]
<1>5. g = [f EXCEPT !.stamp = st, !.rep = rp]
  <2>1. g = [f EXCEPT !.stamp[c] = t, !.rep[c] = p]
    BY <1>2, <1>4 DEF Represent
  <2>2. QED  BY <1>1, <2>1 DEF Objects
<1>6. st \in [Chains -> Nat] /\ rp \in [Chains -> Links]
  BY <1>3 DEF Links
<1>7. /\ \A d \in Chains : st[d] = IF d = c THEN t ELSE m.stamp[d]
      /\ \A d \in Chains : rp[d] = IF d = c THEN p ELSE m.rep[d]
  BY <1>3
<1> HIDE DEF st, rp
<1>8. g \in Objects
  BY <1>1, <1>5, <1>6 DEF Objects
<1>9. /\ SameLists(f, g) /\ g.stamp = st /\ g.rep = rp /\ g.ts = f.ts /\ g.assigned = f.assigned
  BY <1>1, <1>5 DEF Objects, SameLists
<1>10. \E pos : Shape(g, pos)
  BY <1>1, <1>9, SameShape
<1>11. Dated(g, t)
  <2>1. /\ \A q \in Pages : g.ts[q] = IF q = p THEN t ELSE m.ts[q]
        /\ g.resides = m.resides
    BY <1>1, <1>3, <1>9 DEF SameLists
  <2>2. \A q \in Pages : g.ts[q] <= t
    BY <1>0, <1>3, <2>1 DEF Dated
  <2>3. \A d \in Chains : g.stamp[d] <= t
    BY <1>0, <1>3, <1>7, <1>9 DEF Dated
  <2>4. \A d \in Chains : g.rep[d] # Null => g.stamp[d] <= g.ts[g.rep[d]]
    BY <1>0, <1>3, <1>7, <1>9, <2>1 DEF Dated, Links
  <2>5. \A q \in Pages : g.resides[q] \in UserChains => g.ts[q] <= g.stamp[g.resides[q]]
    BY <1>0, <1>3, <1>7, <1>9, <2>1, <2>2, ChainIds DEF Dated
  <2>6. QED  BY <2>2, <2>3, <2>4, <2>5 DEF Dated
<1>12. SameLists(m, g) /\ g.assigned = m.assigned
  BY <1>1, <1>9 DEF SameLists
<1>13. QED  BY <1>8, <1>10, <1>11, <1>12 DEF Sound

\* A page that none of the set exceeds in age
LEMMA NewestExists ==
    ASSUME NEW ts \in [Pages -> Nat], NEW now \in Nat, \A p \in Pages : ts[p] <= now,
           NEW R \in SUBSET Pages, R # {}
    PROVE  \E p \in R : \A q \in R : ts[q] <= ts[p]
<1> DEFINE T == {n \in Nat : \E p \in R : n = now - ts[p]}
<1>1. \A p \in R : now - ts[p] \in T
  OBVIOUS
<1>2. T \in SUBSET Nat /\ T # {}
  BY <1>1
<1>3. \A n \in T : n \in Nat /\ \E p \in R : n = now - ts[p]
  OBVIOUS
<1> HIDE DEF T
<1>4. PICK n \in T : \A k \in T : n <= k
  BY <1>2, LeastNumber
<1>5. PICK p \in R : n = now - ts[p]
  BY <1>3
<1>6. ASSUME NEW q \in R PROVE ts[q] <= ts[p]
  <2>1. n <= now - ts[q]
    BY <1>1, <1>4
  <2>2. QED  BY <1>5, <2>1
<1>7. QED  BY <1>6

\* What timestamp() leaves: a valid timestamp where there was no representative
Newest(m, c) == CHOOSE p \in Members(m, c) : \A q \in Members(m, c) : m.ts[q] <= m.ts[p]

Refreshed(m, C, g) ==
    /\ SameLists(m, g) /\ g.ts = m.ts /\ g.assigned = m.assigned
    /\ g.stamp = [c \in Chains |-> IF c \in C /\ m.rep[c] = Null
                                   THEN m.ts[Newest(m, c)] ELSE m.stamp[c]]
    /\ g.rep = [c \in Chains |-> IF c \in C /\ m.rep[c] = Null
                                 THEN Newest(m, c) ELSE m.rep[c]]

LEMMA RefreshSound ==
    ASSUME NEW now \in Nat, NEW m, Sound(m, now), NEW C \in SUBSET UserChains,
           \A c \in C : m.size[c] > 0,
           NEW g, g = Refresh(m, C)
    PROVE  /\ Sound(g, now) /\ Refreshed(m, C, g)
           /\ \A c \in C : /\ Newest(m, c) \in Residents(m, c)
                           /\ \A q \in Residents(m, c) : m.ts[q] <= m.ts[Newest(m, c)]
<1>0. m \in Objects /\ Dated(m, now) /\ C \subseteq Chains /\ Null \notin Pages
  BY ChainIds, NullAssumption DEF Sound
<1>1. PICK pos : Shape(m, pos)
  BY DEF Sound
<1>2. /\ m.ts \in [Pages -> Nat] /\ m.stamp \in [Chains -> Nat] /\ m.rep \in [Chains -> Links]
      /\ m.resides \in [Pages -> Chains \cup {None}]
  BY <1>0 DEF Objects
<1>3. ASSUME NEW c \in C
      PROVE  /\ Newest(m, c) \in Residents(m, c)
             /\ \A q \in Residents(m, c) : m.ts[q] <= m.ts[Newest(m, c)]
  <2>1. Members(m, c) = Residents(m, c)
    BY <1>0, <1>1, MembersReside
  <2>2. Residents(m, c) \in SUBSET Pages
    BY DEF Residents
  <2>3. Residents(m, c) # {}
    <3>1. \E p \in Pages : m.resides[p] = c /\ pos[p] = 0
      BY <1>0, <1>1 DEF Shape, Filled
    <3>2. QED  BY <3>1 DEF Residents
  <2>4. \E p \in Residents(m, c) : \A q \in Residents(m, c) : m.ts[q] <= m.ts[p]
    BY <1>0, <1>2, <2>2, <2>3, NewestExists DEF Dated
  <2>5. QED  BY <2>1, <2>4 DEF Newest
<1> DEFINE st == [c \in Chains |-> IF c \in C /\ m.rep[c] = Null
                                   THEN m.ts[Newest(m, c)] ELSE m.stamp[c]]
           rp == [c \in Chains |-> IF c \in C /\ m.rep[c] = Null
                                 THEN Newest(m, c) ELSE m.rep[c]]
<1>4. g = [m EXCEPT !.stamp = st, !.rep = rp]
  BY <1>0, <1>2 DEF Refresh, Newest, Objects
<1>5. \A c \in C : Newest(m, c) \in Pages /\ m.resides[Newest(m, c)] = c
  BY <1>3 DEF Residents
<1>6. st \in [Chains -> Nat] /\ rp \in [Chains -> Links]
  BY <1>2, <1>5 DEF Links
<1>7. /\ \A c \in Chains : st[c] = IF c \in C /\ m.rep[c] = Null
                                   THEN m.ts[Newest(m, c)] ELSE m.stamp[c]
      /\ \A c \in Chains : rp[c] = IF c \in C /\ m.rep[c] = Null
                                   THEN Newest(m, c) ELSE m.rep[c]
  OBVIOUS
<1> HIDE DEF st, rp
<1>8. g \in Objects
  BY <1>0, <1>4, <1>6 DEF Objects
<1>9. /\ SameLists(m, g) /\ g.stamp = st /\ g.rep = rp /\ g.ts = m.ts /\ g.assigned = m.assigned
  BY <1>0, <1>4 DEF Objects, SameLists
<1>10. \E pp : Shape(g, pp)
  BY <1>1, <1>9, SameShape
<1>11. Dated(g, now)
  <2>1. g.resides = m.resides
    BY <1>9 DEF SameLists
  <2>2. \A q \in Pages : g.ts[q] <= now
    BY <1>0, <1>9 DEF Dated
  <2>3. \A d \in Chains : g.stamp[d] <= now
    BY <1>0, <1>2, <1>5, <1>7, <1>9 DEF Dated
  <2>4. \A d \in Chains : g.rep[d] # Null => g.stamp[d] <= g.ts[g.rep[d]]
    BY <1>0, <1>2, <1>5, <1>7, <1>9 DEF Dated, Links
  <2>5. ASSUME NEW q \in Pages, g.resides[q] \in UserChains
        PROVE  g.ts[q] <= g.stamp[g.resides[q]]
    <3>1. m.resides[q] \in UserChains /\ m.resides[q] \in Chains /\ g.ts[q] = m.ts[q]
      BY <1>9, <2>1, <2>5, ChainIds
    <3>2. CASE m.resides[q] \in C /\ m.rep[m.resides[q]] = Null
      <4>1. q \in Residents(m, m.resides[q])
        BY DEF Residents
      <4>2. m.ts[q] <= m.ts[Newest(m, m.resides[q])]
        BY <1>3, <3>2, <4>1
      <4>3. QED  BY <1>7, <1>9, <2>1, <3>1, <3>2, <4>2
    <3>3. CASE ~(m.resides[q] \in C /\ m.rep[m.resides[q]] = Null)
      BY <1>0, <1>7, <1>9, <2>1, <3>1, <3>3 DEF Dated
    <3>4. QED  BY <3>2, <3>3
  <2>6. QED  BY <2>2, <2>3, <2>4, <2>5 DEF Dated
<1>12. QED  BY <1>3, <1>8, <1>9, <1>10, <1>11 DEF Sound, Refreshed, st, rp

-----------------------------------------------------------------------------
(* breakMemoryChain *)

\* The loop that links the pages to the hated queue
Moves(v, e, k, f) ==
    [n \in 0 .. k |-> IF n = 0 THEN e ELSE Link(v[n - 1], "hated", f[n - 1])]

LEMMA MovesExist ==
    ASSUME NEW e, NEW f, NEW k \in Nat
    PROVE  \E v : v = Moves(v, e, k, f)
<1> DEFINE Upto(n) == \E v : v = Moves(v, e, n, f)
           T == {n \in Nat : ~Upto(n)}
<1>1. Upto(0)
  <2> DEFINE v == [n \in 0 .. 0 |-> e]
  <2>1. v = Moves(v, e, 0, f)
    BY DEF Moves
  <2>2. QED  BY <2>1
<1>2. ASSUME NEW n \in Nat, Upto(n) PROVE Upto(n + 1)
  <2>1. PICK v : v = Moves(v, e, n, f)
    BY <1>2
  <2> DEFINE w == [i \in 0 .. n + 1 |-> IF i = n + 1 THEN Link(v[n], "hated", f[n]) ELSE v[i]]
  <2>2. \A i \in 0 .. n : v[i] = IF i = 0 THEN e ELSE Link(v[i - 1], "hated", f[i - 1])
    BY <2>1 DEF Moves
  <2>3. ASSUME NEW i \in 0 .. n + 1
        PROVE  w[i] = IF i = 0 THEN e ELSE Link(w[i - 1], "hated", f[i - 1])
    <3>1. CASE i = n + 1
      <4>1. i # 0 /\ i - 1 = n /\ w[i] = Link(v[n], "hated", f[n]) /\ w[n] = v[n]
        BY <3>1
      <4>2. QED  BY <4>1
    <3>2. CASE i # n + 1 /\ i = 0
      BY <2>2, <3>2
    <3>3. CASE i # n + 1 /\ i # 0
      <4>1. i \in 0 .. n /\ i - 1 \in 0 .. n + 1 /\ i - 1 # n + 1
        BY <3>3
      <4>2. w[i] = v[i] /\ w[i - 1] = v[i - 1]
        BY <3>3, <4>1
      <4>3. QED  BY <2>2, <3>3, <4>1, <4>2
    <3>4. QED  BY <3>1, <3>2, <3>3
  <2>4. w = [i \in 0 .. n + 1 |-> w[i]]
    OBVIOUS
  <2> HIDE DEF w
  <2>5. w = Moves(w, e, n + 1, f)
    BY <2>3, <2>4 DEF Moves
  <2>6. QED  BY <2>5
<1>3. T = {}
  <2> SUFFICES ASSUME T # {} PROVE FALSE
    OBVIOUS
  <2> HIDE DEF Upto
  <2>1. PICK n \in T : \A j \in T : n <= j
    <3>1. T \in SUBSET Nat
      OBVIOUS
    <3> HIDE DEF T
    <3>2. QED  BY <3>1, LeastNumber
  <2>2. n # 0
    BY <1>1
  <2>3. n - 1 \in Nat /\ n - 1 < n /\ ~Upto((n - 1) + 1)
    BY <2>2
  <2>4. QED  BY <1>2, <2>1, <2>3
<1>4. QED
  <2> HIDE DEF Upto
  <2>1. Upto(k)
    BY <1>3
  <2>2. QED  BY <2>1 DEF Upto

\* What unchain() leaves, with the pages' new assignment
Emptied(m, c) ==
    LET P == Members(m, c)
    IN  [m EXCEPT !.head[c] = Null, !.tail[c] = Null, !.size[c] = 0,
           !.next     = [p \in Pages |-> IF p \in P THEN Null ELSE @[p]],
           !.prev     = [p \in Pages |-> IF p \in P THEN Null ELSE @[p]],
           !.resides  = [p \in Pages |-> IF p \in P THEN None ELSE @[p]],
           !.assigned = [p \in Pages |-> IF p \in P THEN "default" ELSE @[p]]]

LEMMA EmptiedSound ==
    ASSUME NEW now \in Nat, NEW m, Sound(m, now), NEW c \in UserChains,
           NEW g, g = Emptied(m, c)
    PROVE  /\ Sound(g, now) /\ g.ts = m.ts
           /\ g.resides = [p \in Pages |-> IF m.resides[p] = c THEN None ELSE m.resides[p]]
           /\ g.assigned = [p \in Pages |-> IF m.resides[p] = c THEN "default" ELSE m.assigned[p]]
           /\ \A pos : Shape(m, pos) => Shape(g, pos)
<1>0. /\ m \in Objects /\ Dated(m, now) /\ c \in Chains /\ c # None /\ Null \notin Pages
      /\ None \notin UserChains /\ None \notin Chains /\ "default" \in Chains
  BY ChainIds, NullAssumption DEF Sound
<1>1. Members(m, c) = Residents(m, c)
  BY <1>0, MembersReside DEF Sound
<1> DEFINE hd == [m.head EXCEPT ![c] = Null]
           tl == [m.tail EXCEPT ![c] = Null]
           sz == [m.size EXCEPT ![c] = 0]
           nx == [p \in Pages |-> IF m.resides[p] = c THEN Null ELSE m.next[p]]
           pv == [p \in Pages |-> IF m.resides[p] = c THEN Null ELSE m.prev[p]]
           rs == [p \in Pages |-> IF m.resides[p] = c THEN None ELSE m.resides[p]]
           as == [p \in Pages |-> IF m.resides[p] = c THEN "default" ELSE m.assigned[p]]
<1>2. /\ [p \in Pages |-> IF p \in Members(m, c) THEN Null ELSE m.next[p]] = nx
      /\ [p \in Pages |-> IF p \in Members(m, c) THEN Null ELSE m.prev[p]] = pv
      /\ [p \in Pages |-> IF p \in Members(m, c) THEN None ELSE m.resides[p]] = rs
      /\ [p \in Pages |-> IF p \in Members(m, c) THEN "default" ELSE m.assigned[p]] = as
  BY <1>1 DEF Residents
<1>3. g = [m EXCEPT !.head = hd, !.tail = tl, !.size = sz, !.next = nx, !.prev = pv,
                    !.resides = rs, !.assigned = as]
  <2>1. g = [m EXCEPT !.head[c] = Null, !.tail[c] = Null, !.size[c] = 0,
               !.next = nx, !.prev = pv, !.resides = rs, !.assigned = as]
    BY <1>2 DEF Emptied
  <2> HIDE DEF nx, pv, rs, as
  <2>2. QED  BY <1>0, <2>1 DEF Objects
<1>4. /\ m.head \in [Chains -> Links] /\ m.tail \in [Chains -> Links]
      /\ m.size \in [Chains -> Nat]
      /\ m.next \in [Pages -> Links] /\ m.prev \in [Pages -> Links]
      /\ m.resides \in [Pages -> Chains \cup {None}]
      /\ m.assigned \in [Pages -> Chains \cup {None}]
  BY <1>0 DEF Objects
<1>5. hd \in [Chains -> Links] /\ tl \in [Chains -> Links] /\ sz \in [Chains -> Nat]
  BY <1>4 DEF Links
<1>6. /\ nx \in [Pages -> Links] /\ pv \in [Pages -> Links]
      /\ rs \in [Pages -> Chains \cup {None}] /\ as \in [Pages -> Chains \cup {None}]
  BY <1>0, <1>4 DEF Links
<1>7. /\ \A d \in Chains : /\ hd[d] = IF d = c THEN Null ELSE m.head[d]
                           /\ tl[d] = IF d = c THEN Null ELSE m.tail[d]
                           /\ sz[d] = IF d = c THEN 0 ELSE m.size[d]
      /\ \A p \in Pages : /\ nx[p] = IF m.resides[p] = c THEN Null ELSE m.next[p]
                          /\ pv[p] = IF m.resides[p] = c THEN Null ELSE m.prev[p]
                          /\ rs[p] = IF m.resides[p] = c THEN None ELSE m.resides[p]
  BY <1>4
<1> HIDE DEF hd, tl, sz, nx, pv, rs, as
<1>8. g \in Objects
  BY <1>0, <1>3, <1>5, <1>6, ZenonT(60) DEF Objects
<1>9. /\ g.head = hd /\ g.tail = tl /\ g.size = sz /\ g.next = nx /\ g.prev = pv
      /\ g.resides = rs /\ g.assigned = as /\ g.ts = m.ts /\ g.stamp = m.stamp /\ g.rep = m.rep
  BY <1>0, <1>3 DEF Objects
<1>10. ASSUME NEW pos, Shape(m, pos) PROVE Shape(g, pos)
  <2>0. /\ pos \in [Pages -> Nat]
        /\ Placed(m, pos) /\ Distinct(m, pos) /\ Backward(m, pos) /\ Forward(m, pos)
        /\ Ended(m, pos) /\ Filled(m, pos)
    BY <1>10 DEF Shape
  <2>1. Placed(g, pos)
    BY <1>0, <1>4, <1>7, <1>9, <2>0 DEF Placed
  <2>2. Distinct(g, pos)
    BY <1>0, <1>4, <1>7, <1>9, <2>0 DEF Distinct
  <2>3. Backward(g, pos)
    BY <1>0, <1>4, <1>7, <1>9, <2>0 DEF Backward, Links
  <2>4. Forward(g, pos)
    BY <1>0, <1>4, <1>7, <1>9, <2>0 DEF Forward, Links
  <2>5. Ended(g, pos)
    BY <1>0, <1>4, <1>7, <1>9, <2>0 DEF Ended, Links
  <2>6. Filled(g, pos)
    <3> SUFFICES ASSUME NEW d \in Chains, NEW n \in Nat, n < g.size[d]
                 PROVE  \E p \in Pages : g.resides[p] = d /\ pos[p] = n
      BY DEF Filled
    <3>1. d # c /\ n < m.size[d]
      BY <1>7, <1>9
    <3>2. PICK p \in Pages : m.resides[p] = d /\ pos[p] = n
      BY <2>0, <3>1 DEF Filled
    <3>3. QED  BY <1>7, <1>9, <3>1, <3>2
  <2>7. QED  BY <2>0, <2>1, <2>2, <2>3, <2>4, <2>5, <2>6 DEF Shape
<1>11. \E pos : Shape(g, pos)
  BY <1>10 DEF Sound
<1>12. Dated(g, now)
  BY <1>0, <1>7, <1>9 DEF Dated
<1>13. QED  BY <1>8, <1>9, <1>10, <1>11, <1>12 DEF Sound, rs, as

LEMMA HateSound ==
    ASSUME NEW now \in Nat, NEW m, Sound(m, now), NEW c \in UserChains,
           NEW g, g = Hate(m, c)
    PROVE  /\ Sound(g, now) /\ g.ts = m.ts
           /\ g.resides = [p \in Pages |-> IF m.resides[p] = c THEN "hated" ELSE m.resides[p]]
           /\ g.assigned = [p \in Pages |-> IF m.resides[p] = c THEN "default" ELSE m.assigned[p]]
<1> DEFINE e == Emptied(m, c)
           f == Nth(m, c)
           k == Cardinality(Members(m, c))
           v == CHOOSE w : w = Moves(w, e, k, f)
<1>0. m \in Objects /\ c \in Chains /\ c # "hated" /\ c # None /\ "hated" \in Chains
      /\ "hated" # None
  BY ChainIds DEF Sound
<1>1. PICK pos : Shape(m, pos)
  BY DEF Sound
<1>2. k = m.size[c] /\ k \in Nat /\ k <= Cardinality(Pages) /\ Cardinality(Pages) \in Nat
  BY <1>0, <1>1, MembersReside, ChainCount, PagesCount DEF Objects
<1>3. g = v[k]
  BY DEF Hate, Moves, Emptied
<1>4. /\ Sound(e, now) /\ e.ts = m.ts
      /\ e.resides = [p \in Pages |-> IF m.resides[p] = c THEN None ELSE m.resides[p]]
      /\ e.assigned = [p \in Pages |-> IF m.resides[p] = c THEN "default" ELSE m.assigned[p]]
  BY EmptiedSound
<1> HIDE DEF e, k
<1>5. v = Moves(v, e, k, f)
  <2> HIDE DEF f
  <2>1. \E w : w = Moves(w, e, k, f)
    BY <1>2, MovesExist
  <2>2. QED  BY <2>1
<1>6. Met(m, c, pos, f)
  BY <1>0, <1>1, NthMeets
<1> HIDE DEF f, v
<1>7. /\ v[0] = e
      /\ \A n \in 1 .. k : v[n] = Link(v[n - 1], "hated", f[n - 1])
  BY <1>2, <1>5 DEF Moves
<1> DEFINE At(n, p) == IF m.resides[p] # c THEN m.resides[p]
                       ELSE IF pos[p] < n THEN "hated" ELSE None
           Good(n) == /\ Sound(v[n], now) /\ v[n].ts = m.ts /\ v[n].assigned = e.assigned
                      /\ \A p \in Pages : v[n].resides[p] = At(n, p)
           T == {n \in 0 .. k : ~Good(n)}
<1>8. /\ pos \in [Pages -> Nat] /\ Placed(m, pos) /\ Distinct(m, pos)
  BY <1>1 DEF Shape
<1>9. Good(0)
  <2>1. \A p \in Pages : e.resides[p] = At(0, p)
    BY <1>4, <1>8
  <2>2. QED  BY <1>4, <1>7, <2>1
<1>10. ASSUME NEW n \in 1 .. k, Good(n - 1) PROVE Good(n)
  <2>1. n - 1 \in 0 .. Cardinality(Pages) /\ n - 1 < m.size[c]
    BY <1>2
  <2>2. f[n - 1] \in Pages /\ m.resides[f[n - 1]] = c /\ pos[f[n - 1]] = n - 1
    BY <1>6, <2>1 DEF Met
  <2>3. /\ Sound(v[n - 1], now) /\ v[n - 1].ts = m.ts /\ v[n - 1].assigned = e.assigned
        /\ \A p \in Pages : v[n - 1].resides[p] = At(n - 1, p)
    BY <1>10
  <2>4. v[n - 1].resides[f[n - 1]] = None
    BY <2>2, <2>3
  <2>5. Sound(v[n], now) /\ Linked(v[n - 1], "hated", f[n - 1], v[n])
    BY <1>0, <1>7, <2>2, <2>3, <2>4, LinkSound
  <2>6. /\ v[n].ts = m.ts /\ v[n].assigned = e.assigned
        /\ \A p \in Pages : v[n].resides[p] = IF p = f[n - 1] THEN "hated"
                                              ELSE v[n - 1].resides[p]
    BY <2>3, <2>5 DEF Linked, Sound, Objects
  <2>7. ASSUME NEW p \in Pages PROVE v[n].resides[p] = At(n, p)
    <3>1. CASE p = f[n - 1]
      BY <1>2, <2>2, <2>6, <3>1
    <3>2. CASE p # f[n - 1]
      <4>1. m.resides[p] = c => pos[p] # n - 1
        BY <1>0, <1>8, <2>2, <3>2 DEF Distinct
      <4>2. m.resides[p] = c => (pos[p] < n <=> pos[p] < n - 1)
        BY <1>2, <1>8, <4>1
      <4>3. v[n].resides[p] = At(n - 1, p)
        BY <2>3, <2>6, <3>2
      <4>4. QED  BY <4>2, <4>3
    <3>3. QED  BY <3>1, <3>2
  <2>8. QED  BY <2>5, <2>6, <2>7
<1>11. T = {}
  <2> SUFFICES ASSUME T # {} PROVE FALSE
    OBVIOUS
  <2> HIDE DEF Good
  <2>1. PICK n \in T : \A j \in T : n <= j
    <3>1. T \in SUBSET Nat
      BY <1>2
    <3> HIDE DEF T
    <3>2. QED  BY <3>1, LeastNumber
  <2>2. n # 0
    BY <1>9
  <2>3. n \in 1 .. k /\ n - 1 \in 0 .. k /\ ~(n <= n - 1)
    BY <1>2, <2>2
  <2>4. Good(n - 1)
    BY <2>1, <2>3
  <2>5. QED  BY <1>10, <2>3, <2>4
<1>12. Good(k)
  <2> HIDE DEF Good
  <2>1. QED  BY <1>2, <1>11
<1>13. \A p \in Pages : g.resides[p] = IF m.resides[p] = c THEN "hated" ELSE m.resides[p]
  <2> SUFFICES ASSUME NEW p \in Pages
               PROVE  g.resides[p] = IF m.resides[p] = c THEN "hated" ELSE m.resides[p]
    OBVIOUS
  <2>1. g.resides[p] = At(k, p)
    BY <1>3, <1>12
  <2>2. m.resides[p] = c => pos[p] < k
    BY <1>0, <1>2, <1>8 DEF Placed
  <2>3. QED  BY <2>1, <2>2
<1>14. g.resides = [p \in Pages |-> IF m.resides[p] = c THEN "hated" ELSE m.resides[p]]
  <2>1. g.resides \in [Pages -> Chains \cup {None}]
    BY <1>3, <1>12 DEF Sound, Objects
  <2>2. QED  BY <1>13, <2>1
<1>15. QED  BY <1>3, <1>4, <1>12, <1>14

-----------------------------------------------------------------------------
(* access() of a page that is not resident *)

\* Page table and chains agree: a frame holds one page, the resident pages are
\* those on a chain, and that chain is still there.
Agree(m, t) ==
    /\ \A p, q \in Pages : t[p] # -1 /\ t[p] = t[q] => p = q
    /\ \A p \in Pages : t[p] = -1 <=> m.resides[p] = None
    /\ \A p \in Pages : m.resides[p] \in open \cup SystemChains \cup {None}

LEMMA FreeFrameFree ==
    ASSUME NEW t \in [Pages -> Frames \cup {-1}],
           \E i \in Frames : \A q \in Pages : t[q] # i
    PROVE  FreeFrame(t) \in Frames /\ \A q \in Pages : t[q] # FreeFrame(t)
<1> DEFINE T == {i \in Frames : \A q \in Pages : t[q] # i}
<1>1. T \in SUBSET Nat /\ T # {}
  BY SizeAssumption DEF Frames
<1>2. PICK i \in T : \A k \in T : i <= k
  <2> HIDE DEF T
  <2>1. QED  BY <1>1, LeastNumber
<1>3. i \in Frames /\ \A q \in Pages : t[q] # i
  OBVIOUS
<1>4. ASSUME NEW k \in 0 .. i - 1 PROVE \E q \in Pages : t[q] = k
  <2>1. k \in Frames /\ ~(i <= k)
    BY <1>3, SizeAssumption DEF Frames
  <2>2. k \notin T
    BY <1>2, <2>1
  <2>3. QED  BY <2>1, <2>2
<1>5. \E j \in Frames : /\ \A q \in Pages : t[q] # j
                        /\ \A k \in 0 .. j - 1 : \E q \in Pages : t[q] = k
  BY <1>3, <1>4
<1>6. QED  BY <1>5 DEF FreeFrame

\* The victim is on the chain that it is taken from.
LEMMA VictimListed ==
    ASSUME NEW now, NEW m, Sound(m, now), open \subseteq UserChains,
           NEW v \in Victims(m)
    PROVE  v[1] \in Chains /\ v[2] \in Pages /\ m.resides[v[2]] = v[1]
<1>0. /\ m \in Objects /\ Null \notin Pages /\ UserChains \subseteq Chains
      /\ "hated" \in Chains /\ "default" \in Chains
  BY ChainIds, NullAssumption DEF Sound
<1>1. PICK pos : Shape(m, pos)
  BY DEF Sound
<1>2. \A c \in Chains : Members(m, c) = {p \in Pages : m.resides[p] = c}
  BY <1>0, <1>1, MembersReside DEF Residents
<1>3. CASE m.size["hated"] > 0
  <2>1. v = <<"hated", m.tail["hated"]>>
    BY <1>3 DEF Victims
  <2>2. m.tail["hated"] \in Pages /\ m.resides[m.tail["hated"]] = "hated"
    BY <1>0, <1>1, <1>3 DEF Shape, Ended, Objects, Links
  <2>3. QED  BY <1>0, <2>1, <2>2
<1>4. CASE ~(m.size["hated"] > 0)
  <2> DEFINE D == Members(m, "default")
             U == NonEmptyUser
             ages == {m.ts[p] : p \in D} \cup {m.stamp[c] : c \in U}
             least == CHOOSE n \in ages : \A k \in ages : n <= k
  <2>1. v \in {<<"default", p>> : p \in {q \in D : m.ts[q] = least}} \cup
              UNION {{<<c, p>> : p \in Oldest(m, Members(m, c))} :
                        c \in {d \in U : m.stamp[d] = least}}
    BY <1>4 DEF Victims
  <2> HIDE DEF least
  <2>2. CASE \E p \in D : v = <<"default", p>>
    BY <1>0, <1>2, <2>2
  <2>3. CASE \E c \in U : \E p \in Oldest(m, Members(m, c)) : v = <<c, p>>
    <3>1. PICK c \in U : \E p \in Oldest(m, Members(m, c)) : v = <<c, p>>
      BY <2>3
    <3>2. PICK p \in Oldest(m, Members(m, c)) : v = <<c, p>>
      BY <3>1
    <3>3. c \in Chains /\ p \in Members(m, c)
      BY <1>0 DEF NonEmptyUser, Oldest
    <3>4. QED  BY <1>2, <3>2, <3>3
  <2>4. QED  BY <2>1, <2>2, <2>3
<1>5. QED  BY <1>3, <1>4

\* What access() does with a page that it has read in
Loaded(m, t, p) ==
    LET c == IF m.assigned[p] = None THEN "default" ELSE m.assigned[p]
    IN  /\ Sound(h', clock') /\ h'.assigned = m.assigned
        /\ clock' \in Nat /\ clock' > clock
        /\ table' \in [Pages -> Frames \cup {-1}]
        /\ table'[p] # -1 /\ \A q \in Pages : q # p => table'[q] = t[q]
        /\ \A q, r \in Pages : table'[q] # -1 /\ table'[q] = table'[r] => q = r
        /\ \/ /\ crash' = TRUE /\ c \notin open \cup SystemChains
              /\ h'.resides = m.resides
           \/ /\ crash' = FALSE /\ c \in open \cup SystemChains
              /\ h'.resides = [m.resides EXCEPT ![p] = c]

LEMMA LoadSound ==
    ASSUME clock \in Nat, crash = FALSE, open \subseteq UserChains,
           NEW m, Sound(m, clock), NEW t \in [Pages -> Frames \cup {-1}],
           NEW p \in Pages, t[p] = -1, m.resides[p] = None, Agree(m, t),
           \E i \in Frames : \A q \in Pages : t[q] # i,
           Load(m, t, p)
    PROVE  Loaded(m, t, p)
<1> DEFINE g == Stamped(m, p, clock + 2)
           c == IF m.assigned[p] = None THEN "default" ELSE m.assigned[p]
           i == FreeFrame(t)
<1>0. None \notin UserChains /\ UserChains \subseteq Chains /\ SystemChains \subseteq Chains
  BY ChainIds DEF SystemChains
<1>1. /\ Sound(g, clock + 2) /\ g.resides = m.resides /\ g.assigned = m.assigned
  <2> DEFINE s == clock + 2
  <2>1. s \in Nat /\ s > clock /\ m.resides[p] \notin UserChains /\ clock \in Nat
    BY <1>0
  <2>2. g = Stamped(m, p, s)
    OBVIOUS
  <2> HIDE DEF g, s
  <2>3. SameLists(m, g) /\ g.assigned = m.assigned /\ Sound(g, s)
    BY <2>1, <2>2, StampApart
  <2>4. QED  BY <2>3 DEF SameLists, s
<1>2. i \in Frames /\ \A q \in Pages : t[q] # i
  BY FreeFrameFree
<1>3. /\ table' = [t EXCEPT ![p] = i]
      /\ clock' = clock + 2
      /\ IF c \in open \cup SystemChains THEN h' = Link(g, c, p) /\ UNCHANGED crash
         ELSE h' = g /\ crash' = TRUE
  <2>1. /\ table' = [t EXCEPT ![p] = i]
        /\ clock' = clock + 2
        /\ LET d == IF g.assigned[p] = None THEN "default" ELSE g.assigned[p]
           IN IF d \in open \cup SystemChains THEN h' = Link(g, d, p) /\ UNCHANGED crash
              ELSE h' = g /\ crash' = TRUE
    BY DEF Load, Stamped
  <2> HIDE DEF g, i
  <2>2. QED  BY <1>1, <2>1
<1> HIDE DEF g, i
<1>4. i # -1
  BY <1>2, SizeAssumption DEF Frames
<1>5. /\ table' \in [Pages -> Frames \cup {-1}]
      /\ table'[p] = i /\ \A q \in Pages : q # p => table'[q] = t[q]
  BY <1>2, <1>3
<1>6. \A q, r \in Pages : table'[q] # -1 /\ table'[q] = table'[r] => q = r
  BY <1>2, <1>5 DEF Agree
<1>7. clock' \in Nat /\ clock' > clock
  BY <1>3
<1>8. CASE c \in open \cup SystemChains
  <2>1. h' = Link(g, c, p) /\ crash' = FALSE
    BY <1>3, <1>8
  <2>2. c \in Chains /\ g.resides[p] = None
    BY <1>0, <1>1, <1>8
  <2>3. Sound(h', clock + 2) /\ Linked(g, c, p, h')
    BY <1>1, <2>1, <2>2, LinkSound
  <2>4. h'.assigned = m.assigned /\ h'.resides = [m.resides EXCEPT ![p] = c]
    BY <1>1, <2>3 DEF Linked
  <2>5. QED  BY <1>3, <1>4, <1>5, <1>6, <1>7, <1>8, <2>1, <2>3, <2>4 DEF Loaded
<1>9. CASE c \notin open \cup SystemChains
  <2>1. h' = g /\ crash' = TRUE
    BY <1>3, <1>9
  <2>2. QED  BY <1>1, <1>3, <1>4, <1>5, <1>6, <1>7, <1>9, <2>1 DEF Loaded
<1>10. QED  BY <1>8, <1>9

-----------------------------------------------------------------------------
(* The inductive invariant *)

Types ==
    /\ table \in [Pages -> Frames \cup {-1}]
    /\ clock \in Nat /\ open \in SUBSET UserChains /\ made \in SUBSET UserChains
    /\ crash \in BOOLEAN

\* Page table and chains agree; only the page whose access has just failed is
\* in memory and on no chain.
Mapped ==
    /\ \A p, q \in Pages : table[p] # -1 /\ table[p] = table[q] => p = q
    /\ \A p \in Pages : table[p] = -1 => h.resides[p] = None
    /\ ~crash => \A p \in Pages : table[p] # -1 => h.resides[p] # None

Listed == \A p \in Pages : h.resides[p] \in open \cup SystemChains \cup {None}

IInv == Types /\ Sound(h, clock) /\ Mapped /\ Listed

LEMMA InitIInv == Init => IInv
<1> SUFFICES ASSUME Init PROVE IInv
  OBVIOUS
<1>1. h = [ head |-> [c \in Chains |-> Null], tail |-> [c \in Chains |-> Null],
             size |-> [c \in Chains |-> 0],    rep  |-> [c \in Chains |-> Null],
             stamp |-> [c \in Chains |-> 0],
             next |-> [p \in Pages |-> Null],  prev |-> [p \in Pages |-> Null],
             resides |-> [p \in Pages |-> None], assigned |-> [p \in Pages |-> None],
             ts |-> [p \in Pages |-> 0] ]
  BY DEF Init
<1>2. h \in Objects
  BY <1>1 DEF Objects, Links
<1>3. /\ \A c \in Chains : /\ h.head[c] = Null /\ h.tail[c] = Null /\ h.size[c] = 0
                           /\ h.rep[c] = Null /\ h.stamp[c] = 0
      /\ \A p \in Pages : /\ h.next[p] = Null /\ h.prev[p] = Null
                          /\ h.resides[p] = None /\ h.ts[p] = 0
  BY <1>1
<1> DEFINE pos == [p \in Pages |-> 0]
<1>4. pos \in [Pages -> Nat]
  OBVIOUS
<1>5. Shape(h, pos)
  BY <1>3, <1>4 DEF Shape, Placed, Distinct, Backward, Forward, Ended, Filled
<1> HIDE DEF pos
<1>6. Dated(h, clock)
  <2>1. clock = 0 /\ None \notin UserChains
    BY ChainIds DEF Init
  <2>2. QED  BY <1>3, <2>1 DEF Dated
<1>7. Sound(h, clock)
  BY <1>2, <1>5, <1>6 DEF Sound
<1>8. Types /\ Mapped /\ Listed
  BY <1>3 DEF Init, Types, Mapped, Listed
<1>9. QED  BY <1>7, <1>8 DEF IInv

LEMMA IInvAgree == IInv /\ ~crash => Agree(h, table)
BY DEF IInv, Mapped, Listed, Agree

\* A fault keeps the invariant, from the chains and the table that are left
\* when a frame is free.
LEMMA LoadedIInv ==
    ASSUME Types, NEW m, m \in Objects, NEW t, NEW p \in Pages, Agree(m, t),
           Loaded(m, t, p), UNCHANGED <<open, made>>
    PROVE  IInv'
<1> DEFINE c == IF m.assigned[p] = None THEN "default" ELSE m.assigned[p]
<1>1. /\ Sound(h', clock') /\ clock' \in Nat
      /\ table' \in [Pages -> Frames \cup {-1}]
      /\ table'[p] # -1 /\ \A q \in Pages : q # p => table'[q] = t[q]
      /\ \A q, r \in Pages : table'[q] # -1 /\ table'[q] = table'[r] => q = r
      /\ \/ crash' = TRUE /\ h'.resides = m.resides
         \/ /\ crash' = FALSE /\ c \in open \cup SystemChains
            /\ h'.resides = [m.resides EXCEPT ![p] = c]
  BY DEF Loaded
<1>2. c \in open \cup SystemChains => c # None
  BY ChainIds DEF Types, SystemChains
<1> HIDE DEF c
<1>3. m.resides \in [Pages -> Chains \cup {None}]
  BY DEF Objects
<1>4. /\ \A q \in Pages : t[q] = -1 <=> m.resides[q] = None
      /\ \A q \in Pages : m.resides[q] \in open \cup SystemChains \cup {None}
  BY DEF Agree
<1>5. Types'
  BY <1>1 DEF Types
<1>6. \A q \in Pages : q # p => h'.resides[q] = m.resides[q]
  BY <1>1, <1>3
<1>7. h'.resides[p] \in open \cup SystemChains \cup {None}
      /\ (~crash' => h'.resides[p] # None)
  BY <1>1, <1>2, <1>3, <1>4
<1>8. Mapped'
  BY <1>1, <1>4, <1>6, <1>7 DEF Mapped
<1>9. Listed'
  BY <1>4, <1>6, <1>7 DEF Listed
<1>10. QED  BY <1>1, <1>5, <1>8, <1>9 DEF IInv

\* The page v goes, if the memory is full.
Evicted(v, m, t) ==
    /\ v \in Pages /\ h.resides[v] # None
    /\ \A p \in Pages : h.resides[p] = "hated" => h.resides[v] = "hated"
    /\ t = [table EXCEPT ![v] = -1]
    /\ m \in Objects /\ m.assigned = h.assigned
    /\ m.resides = [h.resides EXCEPT ![v] = None]

LEMMA FaultLoads ==
    ASSUME IInv, ~crash, NEW p \in Pages, Fault(p)
    PROVE  \/ UsedFrames # Frames /\ Agree(h, table) /\ Loaded(h, table, p)
           \/ /\ UsedFrames = Frames
              /\ \E v, m, t : Evicted(v, m, t) /\ Agree(m, t) /\ Loaded(m, t, p)
<1>0. /\ clock \in Nat /\ crash = FALSE /\ open \subseteq UserChains
      /\ table \in [Pages -> Frames \cup {-1}] /\ Sound(h, clock) /\ table[p] = -1
      /\ Agree(h, table) /\ h \in Objects /\ h.resides[p] = None
  BY IInvAgree DEF IInv, Types, Fault, Agree, Sound
<1>00. "hated" \in Chains /\ Null \notin Pages /\ None \notin Chains /\ "hated" # None
  BY ChainIds, NullAssumption
<1>1. CASE UsedFrames # Frames
  <2>1. Load(h, table, p)
    BY <1>1 DEF Fault
  <2>2. \E i \in Frames : \A q \in Pages : table[q] # i
    <3>1. UsedFrames \subseteq Frames
      BY <1>0 DEF UsedFrames
    <3>2. PICK i \in Frames : i \notin UsedFrames
      BY <1>1, <3>1
    <3>3. i # -1
      BY SizeAssumption DEF Frames
    <3>4. QED  BY <3>2, <3>3 DEF UsedFrames
  <2>3. Loaded(h, table, p)
    BY <1>0, <2>1, <2>2, LoadSound
  <2>4. QED  BY <1>0, <1>1, <2>3
<1>2. CASE UsedFrames = Frames
  <2> DEFINE k == IF h.size["hated"] > 0 THEN h ELSE Refresh(h, NonEmptyUser)
  <2>1. PICK v \in Victims(k) : Load(Unlink(k, v[1], v[2]), [table EXCEPT ![v[2]] = -1], p)
    BY <1>2 DEF Fault
  <2>2. Sound(k, clock) /\ SameLists(h, k) /\ k.assigned = h.assigned
    <3>1. CASE h.size["hated"] > 0
      BY <1>0, <3>1 DEF SameLists
    <3>2. CASE ~(h.size["hated"] > 0)
      <4>1. NonEmptyUser \in SUBSET UserChains /\ \A c \in NonEmptyUser : h.size[c] > 0
        BY <1>0 DEF NonEmptyUser
      <4>2. k = Refresh(h, NonEmptyUser)
        BY <3>2
      <4> HIDE DEF k
      <4>3. Sound(k, clock) /\ Refreshed(h, NonEmptyUser, k)
        BY <1>0, <4>1, <4>2, RefreshSound
      <4>4. QED  BY <4>3 DEF Refreshed
    <3>3. QED  BY <3>1, <3>2
  <2> HIDE DEF k
  <2>3. v[1] \in Chains /\ v[2] \in Pages /\ k.resides[v[2]] = v[1]
    BY <1>0, <2>2, VictimListed
  <2> DEFINE w == v[2]
             m == Unlink(k, v[1], v[2])
             t == [table EXCEPT ![v[2]] = -1]
  <2>4. Sound(m, clock) /\ Unlinked(k, v[1], w, m)
    BY <1>0, <2>2, <2>3, UnlinkSound
  <2>5. Load(m, t, p)
    BY <2>1
  <2>6. t = [table EXCEPT ![w] = -1] /\ w \in Pages
    BY <2>3
  <2> HIDE DEF w, m, t
  <2>7. k.resides = h.resides /\ k.size = h.size
    BY <2>2 DEF SameLists
  <2>8. /\ m \in Objects /\ m.assigned = h.assigned
        /\ m.resides = [h.resides EXCEPT ![w] = None]
    BY <2>2, <2>4, <2>7 DEF Unlinked, Sound
  <2>9. h.resides[w] # None
    BY <1>00, <2>3, <2>7 DEF w
  <2>10. \A q \in Pages : h.resides[q] = "hated" => h.resides[w] = "hated"
    <3> SUFFICES ASSUME NEW q \in Pages, h.resides[q] = "hated" PROVE h.resides[w] = "hated"
      OBVIOUS
    <3>1. PICK pos : Shape(h, pos)
      BY <1>0 DEF Sound
    <3>2. h.size["hated"] > 0
      BY <1>0, <1>00, <3>1 DEF Shape, Placed, Objects
    <3>3. v = <<"hated", k.tail["hated"]>>
      BY <2>1, <2>7, <3>2 DEF Victims
    <3>4. QED  BY <2>3, <2>7, <3>3 DEF w
  <2>11. Evicted(w, m, t)
    BY <2>6, <2>8, <2>9, <2>10 DEF Evicted
  <2>12. /\ \A q \in Pages : t[q] = IF q = w THEN -1 ELSE table[q]
         /\ \A q \in Pages : m.resides[q] = IF q = w THEN None ELSE h.resides[q]
         /\ t \in [Pages -> Frames \cup {-1}]
    BY <1>0, <2>6, <2>8 DEF Objects
  <2>13. Agree(m, t)
    BY <1>0, <2>12 DEF Agree
  <2>14. table[w] # -1
    BY <1>0, <2>6, <2>9 DEF Agree
  <2>15. \E i \in Frames : \A q \in Pages : t[q] # i
    <3>1. table[w] \in Frames /\ \A q \in Pages : t[q] # table[w]
      BY <1>0, <2>6, <2>12, <2>14 DEF Agree
    <3>2. QED  BY <3>1
  <2>16. t[p] = -1 /\ m.resides[p] = None
    BY <1>0, <2>12
  <2>17. Loaded(m, t, p)
    BY <1>0, <2>4, <2>5, <2>12, <2>13, <2>15, <2>16, LoadSound
  <2>18. QED  BY <1>2, <2>11, <2>13, <2>17
<1>3. QED  BY <1>1, <1>2

-----------------------------------------------------------------------------
(* What the other operations do to the chain that a page is on and to the  *)
(* chain that it is assigned to                                            *)

LEMMA HitKeeps ==
    ASSUME IInv, NEW p \in Pages, Hit(p)
    PROVE  Sound(h', clock') /\ h'.resides = h.resides /\ h'.assigned = h.assigned
<1>0. clock \in Nat /\ clock + 1 \in Nat /\ clock + 1 > clock /\ clock' = clock + 1
      /\ Sound(h, clock)
  BY DEF IInv, Types, Hit
<1> DEFINE t == clock + 1
           g == Stamped(h, p, t)
<1>1. /\ t \in Nat /\ t > clock /\ clock' = t
      /\ h' = IF g.resides[p] \in UserChains THEN Represent(g, g.resides[p], p) ELSE g
  BY <1>0 DEF Hit, Stamped
<1>2. g = Stamped(h, p, t)
  OBVIOUS
<1> HIDE DEF t, g
<1>3. SameLists(h, g) /\ g.assigned = h.assigned
  BY <1>0, <1>2, StampKeeps DEF Sound
<1>4. CASE h.resides[p] \in UserChains
  <2> DEFINE c == h.resides[p]
  <2>1. h' = Represent(g, c, p) /\ c \in UserChains
    BY <1>1, <1>3, <1>4 DEF SameLists
  <2>2. h' = Represent([h EXCEPT !.ts[p] = t], c, p)
    BY <1>2, <2>1 DEF Stamped
  <2>3. h.resides[p] = c
    OBVIOUS
  <2> HIDE DEF c
  <2>4. Sound(h', t) /\ SameLists(h, h') /\ h'.assigned = h.assigned
    BY <1>0, <1>1, <2>1, <2>2, <2>3, RepresentSound
  <2>5. QED  BY <1>1, <2>4 DEF SameLists
<1>5. CASE h.resides[p] \notin UserChains
  <2>1. h' = g
    BY <1>1, <1>3, <1>5 DEF SameLists
  <2>2. Sound(g, t)
    BY <1>0, <1>1, <1>2, <1>5, StampApart
  <2>3. QED  BY <1>1, <1>3, <2>1, <2>2 DEF SameLists
<1>6. QED  BY <1>4, <1>5

LEMMA LinkPageMoves ==
    ASSUME IInv, NEW c \in UserChains, NEW p \in Pages, LinkPage(c, p)
    PROVE  /\ Sound(h', clock)
           /\ h'.resides = [h.resides EXCEPT ![p] = c]
           /\ h'.assigned = [h.assigned EXCEPT ![p] = c]
<1> DEFINE old == h.resides[p]
           g == IF old \notin {None, c} THEN Unlink(h, old, p) ELSE h
           f == Assigned(g, p, c)
<1>0. /\ clock \in Nat /\ Sound(h, clock) /\ c \in Chains /\ c # None /\ h \in Objects
      /\ old # None /\ old \in Chains
  BY ChainIds DEF IInv, Types, LinkPage, Begin, Mapped, Sound, Objects
<1>1. h' = Link(f, c, p)
  BY DEF LinkPage, Assigned
<1>2. CASE old = c
  <2>1. g = h
    BY <1>2
  <2>2. f = Assigned(h, p, c)
    BY <2>1
  <2> HIDE DEF f
  <2>3. /\ Sound(f, clock) /\ SameLists(h, f)
        /\ f.assigned = [h.assigned EXCEPT ![p] = c]
    BY <1>0, <2>2, AssignSound
  <2>4. h' = f
    BY <1>1, <1>2, <2>3 DEF Link, SameLists
  <2>5. h.resides = [h.resides EXCEPT ![p] = c]
    BY <1>0, <1>2 DEF Objects
  <2>6. QED  BY <2>3, <2>4, <2>5 DEF SameLists
<1>3. CASE old # c
  <2>1. g = Unlink(h, old, p)
    BY <1>0, <1>3
  <2>2. f = Assigned(g, p, c) /\ h.resides[p] = old
    OBVIOUS
  <2> HIDE DEF f, g, old
  <2>3. Sound(g, clock) /\ Unlinked(h, old, p, g)
    BY <1>0, <2>1, <2>2, UnlinkSound
  <2>4. /\ Sound(f, clock) /\ SameLists(g, f)
        /\ f.assigned = [g.assigned EXCEPT ![p] = c]
    BY <1>0, <2>2, <2>3, AssignSound
  <2>5. f.resides = [h.resides EXCEPT ![p] = None] /\ f.resides[p] = None
    BY <1>0, <2>3, <2>4 DEF Unlinked, SameLists, Objects
  <2>6. Sound(h', clock) /\ Linked(f, c, p, h')
    BY <1>0, <1>1, <2>4, <2>5, LinkSound
  <2>7. h'.resides = [h.resides EXCEPT ![p] = c]
    BY <1>0, <2>5, <2>6 DEF Linked, Objects
  <2>8. h'.assigned = [h.assigned EXCEPT ![p] = c]
    BY <2>3, <2>4, <2>6 DEF Linked, Unlinked
  <2>9. QED  BY <2>6, <2>7, <2>8
<1>4. QED  BY <1>2, <1>3

LEMMA UnlinkPageMoves ==
    ASSUME IInv, NEW p \in Pages, UnlinkPage(p)
    PROVE  /\ Sound(h', clock) /\ h.resides[p] \notin {None, "hated"}
           /\ h'.resides = [h.resides EXCEPT ![p] = "hated"]
           /\ h'.assigned = [h.assigned EXCEPT ![p] = "default"]
<1> DEFINE d == "default"
           old == h.resides[p]
           g == Unlink(h, old, p)
           f == Assigned(g, p, d)
<1>0. /\ clock \in Nat /\ Sound(h, clock) /\ h \in Objects
      /\ old # None /\ old \in Chains /\ old # "hated"
      /\ d \in Chains /\ "hated" \in Chains
  BY ChainIds DEF IInv, Types, UnlinkPage, Begin, Mapped, Sound, Objects
<1>1. h' = Link(f, "hated", p)
  BY DEF UnlinkPage, Assigned
<1>2. g = Unlink(h, old, p) /\ f = Assigned(g, p, d) /\ h.resides[p] = old
  OBVIOUS
<1> HIDE DEF d, f, g, old
<1>3. Sound(g, clock) /\ Unlinked(h, old, p, g)
  BY <1>0, <1>2, UnlinkSound
<1>4. /\ Sound(f, clock) /\ SameLists(g, f)
      /\ f.assigned = [g.assigned EXCEPT ![p] = d]
  BY <1>0, <1>2, <1>3, AssignSound
<1>5. f.resides = [h.resides EXCEPT ![p] = None] /\ f.resides[p] = None
  BY <1>0, <1>3, <1>4 DEF Unlinked, SameLists, Objects
<1>6. Sound(h', clock) /\ Linked(f, "hated", p, h')
  BY <1>0, <1>1, <1>4, <1>5, LinkSound
<1>7. h'.resides = [h.resides EXCEPT ![p] = "hated"]
  BY <1>0, <1>5, <1>6 DEF Linked, Objects
<1>8. h'.assigned = [h.assigned EXCEPT ![p] = d]
  BY <1>3, <1>4, <1>6 DEF Linked, Unlinked
<1>9. QED  BY <1>0, <1>2, <1>6, <1>7, <1>8 DEF d

LEMMA HateMoves ==
    ASSUME IInv, NEW c \in UserChains, h' = Hate(h, c)
    PROVE  /\ Sound(h', clock)
           /\ h'.resides = [p \in Pages |-> IF h.resides[p] = c THEN "hated" ELSE h.resides[p]]
           /\ h'.assigned = [p \in Pages |-> IF h.resides[p] = c THEN "default"
                                             ELSE h.assigned[p]]
<1>1. clock \in Nat /\ Sound(h, clock)
  BY DEF IInv, Types
<1>2. QED  BY <1>1, HateSound

LEMMA NextIInv == IInv /\ [Next]_vars => IInv'
<1> SUFFICES ASSUME IInv, [Next]_vars PROVE IInv'
  OBVIOUS
<1>0. /\ Types /\ Sound(h, clock) /\ Mapped /\ Listed /\ h \in Objects
      /\ "hated" # None /\ "hated" \in SystemChains /\ None \notin UserChains
      /\ h.resides \in [Pages -> Chains \cup {None}]
  BY ChainIds DEF IInv, SystemChains, Sound, Objects
<1>1. ASSUME NEW p \in Pages, Hit(p) PROVE IInv'
  <2>1. Sound(h', clock') /\ h'.resides = h.resides
    BY <1>1, HitKeeps
  <2>2. UNCHANGED <<table, open, made, crash>> /\ clock' = clock + 1
    BY <1>1 DEF Hit
  <2>3. QED  BY <1>0, <2>1, <2>2 DEF IInv, Types, Mapped, Listed
<1>2. ASSUME NEW p \in Pages, Fault(p) PROVE IInv'
  <2>1. ~crash /\ UNCHANGED <<open, made>>
    BY <1>2 DEF Fault, Begin
  <2>2. CASE Agree(h, table) /\ Loaded(h, table, p)
    BY <1>0, <2>1, <2>2, LoadedIInv
  <2>3. CASE \E v, m, t : Evicted(v, m, t) /\ Agree(m, t) /\ Loaded(m, t, p)
    <3>1. PICK v, m, t : Evicted(v, m, t) /\ Agree(m, t) /\ Loaded(m, t, p)
      BY <2>3
    <3>2. m \in Objects
      BY <3>1 DEF Evicted
    <3>3. QED  BY <1>0, <2>1, <3>1, <3>2, LoadedIInv
  <2>4. QED  BY <1>2, <2>1, <2>2, <2>3, FaultLoads
<1>3. ASSUME NEW p \in Pages, UnlinkPage(p) PROVE IInv'
  <2>1. /\ Sound(h', clock) /\ h.resides[p] # None
        /\ \A q \in Pages : h'.resides[q] = IF q = p THEN "hated" ELSE h.resides[q]
    BY <1>0, <1>3, UnlinkPageMoves
  <2>2. UNCHANGED <<table, clock, open, made, crash>>
    BY <1>3 DEF UnlinkPage
  <2>3. QED  BY <1>0, <2>1, <2>2 DEF IInv, Types, Mapped, Listed
<1>4. ASSUME NEW c \in UserChains, CreateMemoryChain(c) PROVE IInv'
  BY <1>0, <1>4 DEF CreateMemoryChain, IInv, Types, Mapped, Listed, Sound, Dated
<1>5. ASSUME NEW c \in UserChains, BreakMemoryChain(c) PROVE IInv'
  <2>1. /\ Sound(h', clock)
        /\ \A q \in Pages : h'.resides[q] = IF h.resides[q] = c THEN "hated" ELSE h.resides[q]
    <3>1. h' = Hate(h, c)
      BY <1>5 DEF BreakMemoryChain
    <3>2. /\ Sound(h', clock)
          /\ h'.resides = [q \in Pages |-> IF h.resides[q] = c THEN "hated" ELSE h.resides[q]]
      BY <3>1, HateMoves
    <3>3. QED  BY <3>2
  <2>2. UNCHANGED <<table, clock, open, made, crash>>
    BY <1>5 DEF BreakMemoryChain
  <2>3. QED  BY <1>0, <2>1, <2>2 DEF IInv, Types, Mapped, Listed
<1>6. ASSUME NEW c \in UserChains, ReleaseMemoryChain(c) PROVE IInv'
  <2>1. /\ Sound(h', clock)
        /\ \A q \in Pages : h'.resides[q] = IF h.resides[q] = c THEN "hated" ELSE h.resides[q]
    <3>1. h' = Hate(h, c)
      BY <1>6 DEF ReleaseMemoryChain
    <3>2. /\ Sound(h', clock)
          /\ h'.resides = [q \in Pages |-> IF h.resides[q] = c THEN "hated" ELSE h.resides[q]]
      BY <3>1, HateMoves
    <3>3. QED  BY <3>2
  <2>2. UNCHANGED <<table, clock, made, crash>> /\ open' = open \ {c}
    BY <1>6 DEF ReleaseMemoryChain
  <2>3. QED  BY <1>0, <2>1, <2>2 DEF IInv, Types, Mapped, Listed
<1>7. ASSUME NEW c \in UserChains, NEW p \in Pages, LinkPage(c, p) PROVE IInv'
  <2>1. /\ Sound(h', clock) /\ table[p] # -1 /\ c \in open
        /\ \A q \in Pages : h'.resides[q] = IF q = p THEN c ELSE h.resides[q]
    <3>1. Sound(h', clock) /\ h'.resides = [h.resides EXCEPT ![p] = c]
      BY <1>7, LinkPageMoves
    <3>2. table[p] # -1 /\ c \in open
      BY <1>7 DEF LinkPage
    <3>3. QED  BY <1>0, <3>1, <3>2
  <2>2. UNCHANGED <<table, clock, open, made, crash>>
    BY <1>7 DEF LinkPage
  <2>3. QED  BY <1>0, <2>1, <2>2 DEF IInv, Types, Mapped, Listed
<1>8. CASE UNCHANGED vars
  BY <1>0, <1>8 DEF vars, IInv, Types, Mapped, Listed
<1>9. QED
  BY <1>1, <1>2, <1>3, <1>4, <1>5, <1>6, <1>7, <1>8 DEF Next

-----------------------------------------------------------------------------
LEMMA IInvListsSound == IInv => ListsSound
<1> SUFFICES ASSUME IInv PROVE ListsSound
  OBVIOUS
<1>0. /\ Types /\ h \in Objects /\ Dated(h, clock) /\ Null \notin Pages /\ None \notin Chains
      /\ UserChains \subseteq Chains /\ Cardinality(Pages) \in Nat
  BY ChainIds, NullAssumption, PagesCount DEF IInv, Sound
<1>1. PICK pos : Shape(h, pos)
  BY DEF IInv, Sound
<1>2. \A c \in Chains : Members(h, c) = Residents(h, c)
  BY <1>0, <1>1, MembersReside
<1>3. \A c \in Chains : /\ Cardinality(Residents(h, c)) = h.size[c]
                        /\ h.size[c] <= Cardinality(Pages) /\ h.size[c] \in Nat
  BY <1>0, <1>1, ChainCount DEF Objects
<1>4. TypeOK
  <2>1. h.size \in [Chains -> 0 .. Cardinality(Pages)]
    <3>1. h.size \in [Chains -> Nat]
      BY <1>0 DEF Objects
    <3>2. QED  BY <1>0, <1>3, <3>1
  <2>2. QED  BY <1>0, <2>1 DEF TypeOK, Types, Objects, Links
<1>5. ASSUME NEW c \in Chains
      PROVE  LET f == Nth(h, c)
                 n == h.size[c]
             IN  /\ Cardinality(Members(h, c)) = n
                 /\ n > 0 => f[n - 1] = h.tail[c] /\ h.next[h.tail[c]] = Null
                 /\ \A i \in 0 .. n - 1 :
                       h.prev[f[i]] = IF i = 0 THEN Null ELSE f[i - 1]
                 /\ \A p \in Pages : p \in Members(h, c) <=> h.resides[p] = c
  <2> DEFINE f == Nth(h, c)
             n == h.size[c]
  <2>0. /\ pos \in [Pages -> Nat] /\ Placed(h, pos) /\ Distinct(h, pos) /\ Backward(h, pos)
        /\ Forward(h, pos) /\ Ended(h, pos) /\ c # None /\ n \in Nat /\ n <= Cardinality(Pages)
        /\ h.prev \in [Pages -> Links] /\ h.tail[c] \in Links
    BY <1>0, <1>1, <1>3 DEF Shape, Objects
  <2>1. Met(h, c, pos, f)
    BY <1>0, <1>1, NthMeets
  <2> HIDE DEF f
  <2>2. \A i \in 0 .. n - 1 : f[i] \in Pages /\ h.resides[f[i]] = c /\ pos[f[i]] = i
    BY <1>0, <2>0, <2>1 DEF Met
  <2>3. Cardinality(Members(h, c)) = n
    BY <1>2, <1>3
  <2>4. ASSUME n > 0 PROVE f[n - 1] = h.tail[c] /\ h.next[h.tail[c]] = Null
    <3>1. h.tail[c] \in Pages /\ h.resides[h.tail[c]] = c /\ pos[h.tail[c]] = n - 1
      BY <2>0, <2>4 DEF Ended, Links
    <3>2. f[n - 1] \in Pages /\ h.resides[f[n - 1]] = c /\ pos[f[n - 1]] = n - 1
      BY <2>0, <2>2, <2>4
    <3>3. f[n - 1] = h.tail[c]
      BY <2>0, <3>1, <3>2 DEF Distinct
    <3>4. h.next[h.tail[c]] = Null
      BY <2>0, <3>1 DEF Forward
    <3>5. QED  BY <3>3, <3>4
  <2>5. ASSUME NEW i \in 0 .. n - 1 PROVE h.prev[f[i]] = IF i = 0 THEN Null ELSE f[i - 1]
    <3>1. f[i] \in Pages /\ h.resides[f[i]] = c /\ pos[f[i]] = i
      BY <2>2
    <3>2. CASE i = 0
      BY <2>0, <3>1, <3>2 DEF Backward
    <3>3. CASE i # 0
      <4>1. /\ h.prev[f[i]] \in Pages /\ h.resides[h.prev[f[i]]] = c
            /\ pos[h.prev[f[i]]] = i - 1
        BY <2>0, <3>1, <3>3 DEF Backward, Links
      <4>2. i - 1 \in 0 .. n - 1
        BY <2>0, <3>3
      <4>3. f[i - 1] \in Pages /\ h.resides[f[i - 1]] = c /\ pos[f[i - 1]] = i - 1
        BY <2>2, <4>2
      <4>4. QED  BY <2>0, <3>3, <4>1, <4>3 DEF Distinct
    <3>4. QED  BY <3>2, <3>3
  <2>6. \A p \in Pages : p \in Members(h, c) <=> h.resides[p] = c
    BY <1>2 DEF Residents
  <2>7. QED  BY <2>3, <2>4, <2>5, <2>6 DEF f
<1>6. ListsWellFormed
  BY <1>5 DEF ListsWellFormed
<1>7. TimestampIsNewest
  <2> SUFFICES ASSUME NEW c \in open, h.rep[c] # Null
               PROVE  /\ \A p \in Members(h, c) : h.ts[p] <= h.stamp[c]
                      /\ h.resides[h.rep[c]] = c => h.ts[h.rep[c]] = h.stamp[c]
    BY DEF TimestampIsNewest
  <2>1. /\ c \in UserChains /\ c \in Chains /\ h.rep[c] \in Pages
        /\ h.ts \in [Pages -> Nat] /\ h.stamp[c] \in Nat
    BY <1>0 DEF Types, Objects, Links
  <2>2. \A p \in Pages : h.resides[p] = c => h.ts[p] <= h.stamp[c]
    BY <1>0, <2>1 DEF Dated
  <2>3. h.stamp[c] <= h.ts[h.rep[c]]
    BY <1>0, <2>1 DEF Dated
  <2>4. \A p \in Members(h, c) : p \in Pages /\ h.resides[p] = c
    BY <1>2, <2>1 DEF Residents
  <2>5. QED  BY <2>1, <2>2, <2>3, <2>4
<1>8. QED  BY <1>4, <1>6, <1>7 DEF ListsSound

\* Every chain of the simulator's manager is a proper doubly linked list of the
\* pages that say they are on it, for any number of pages, chains, frames and
\* calls, and a chain's cached timestamp is its representative's and covers its
\* pages (MemoryChain.java:100-206, 340-380).
THEOREM ChainsStayLists == Spec => []ListsSound
<1>1. Spec => []IInv
  BY InitIInv, NextIInv, PTL DEF Spec
<1>2. QED  BY <1>1, IInvListsSound, PTL

-----------------------------------------------------------------------------
(* The manager keeps what the interface promises. *)

\* The refinement mapping, read off the pages instead of the lists
Spot == [p \in Pages |-> IF h.resides[p] = None THEN "out" ELSE h.resides[p]]

LEMMA WhereIsSpot == IInv => Where = Spot
<1> SUFFICES ASSUME IInv, NEW p \in Pages
             PROVE  (IF table[p] = -1 \/ (crash /\ h.resides[p] = None) THEN "out"
                     ELSE CHOOSE c \in Chains : p \in Members(h, c))
                    = (IF h.resides[p] = None THEN "out" ELSE h.resides[p])
  BY DEF Where, Spot
<1>1. Mapped /\ h \in Objects /\ None \notin Chains
  BY ChainIds DEF IInv, Sound
<1>2. CASE h.resides[p] = None
  BY <1>1, <1>2 DEF Mapped
<1>3. CASE h.resides[p] # None
  <2>1. \A c \in Chains : p \in Members(h, c) <=> h.resides[p] = c
    BY IInvListsSound DEF ListsSound, ListsWellFormed
  <2>2. h.resides[p] \in Chains
    BY <1>1, <1>3 DEF Objects
  <2>3. (CHOOSE c \in Chains : p \in Members(h, c)) = h.resides[p]
    BY <2>1, <2>2
  <2>4. table[p] # -1
    BY <1>1, <1>3 DEF Mapped
  <2>5. QED  BY <1>3, <2>3, <2>4
<1>4. QED  BY <1>2, <1>3

LEMMA SpotType ==
    ASSUME IInv
    PROVE  /\ Spot \in [Pages -> Chains \cup {"out"}]
           /\ \A p \in Pages : /\ Spot[p] = IF h.resides[p] = None THEN "out" ELSE h.resides[p]
                               /\ Spot[p] = "out" <=> h.resides[p] = None
           /\ ~crash => \A p \in Pages : Spot[p] = "out" <=> table[p] = -1
<1>1. h.resides \in [Pages -> Chains \cup {None}] /\ \A c \in Chains : c # "out" /\ c # None
  BY ChainIds DEF IInv, Sound, Objects
<1>2. /\ Spot \in [Pages -> Chains \cup {"out"}]
      /\ \A p \in Pages : /\ Spot[p] = IF h.resides[p] = None THEN "out" ELSE h.resides[p]
                          /\ Spot[p] = "out" <=> h.resides[p] = None
  BY <1>1 DEF Spot
<1>3. QED  BY <1>2 DEF IInv, Mapped

\* Memory is full exactly when every frame is in use.
LEMMA FullMemory ==
    ASSUME IInv, ~crash
    PROVE  LET Resident == {p \in Pages : Spot[p] # "out"}
           IN  Cardinality(Resident) = Size <=> UsedFrames = Frames
<1> DEFINE R == {p \in Pages : Spot[p] # "out"}
           f == [p \in R |-> table[p]]
<1>0. table \in [Pages -> Frames \cup {-1}] /\ Mapped
  BY DEF IInv, Types
<1>1. R = {p \in Pages : table[p] # -1}
  BY SpotType
<1>2. IsFiniteSet(Frames) /\ Cardinality(Frames) = Size /\ -1 \notin Frames
  BY SizeAssumption, FS_Interval DEF Frames
<1>3. f \in Injection(R, Frames)
  <2>1. f \in [R -> Frames]
    BY <1>0, <1>1
  <2>2. IsInjective(f)
    BY <1>0, <1>1 DEF IsInjective, Mapped
  <2>3. QED  BY <2>1, <2>2 DEF Injection
<1>4. f \in Surjection(R, Frames) <=> UsedFrames = Frames
  <2>1. f \in [R -> Frames]
    BY <1>0, <1>1
  <2>2. UsedFrames = {table[p] : p \in R}
    BY <1>1 DEF UsedFrames
  <2>3. UsedFrames \subseteq Frames
    BY <1>0, <1>1, <2>2
  <2>4. QED  BY <2>1, <2>2, <2>3 DEF Surjection
<1> HIDE DEF f, R
<1>5. Cardinality(R) = Size <=> f \in Surjection(R, Frames)
  BY <1>2, <1>3, FS_Injection
<1>6. QED  BY <1>4, <1>5 DEF R

LEMMA InitKeepsPromise == Init => Promise!Init
<1> SUFFICES ASSUME Init PROVE Promise!Init
  OBVIOUS
<1>1. IInv
  BY InitIInv
<1>2. Where = Spot
  BY <1>1, WhereIsSpot
<1>3. h.resides = [p \in Pages |-> None] /\ h.assigned = [p \in Pages |-> None] /\ open = {}
  BY DEF Init
<1>4. Spot = [p \in Pages |-> "out"]
  BY <1>3 DEF Spot
<1>5. QED
  BY <1>2, <1>3, <1>4 DEF Promise!Init, Promise!Out, Promise!None, None

LEMMA SameCardinality == \A S : Promise!Cardinality(S) = Cardinality(S)
BY DEF Promise!Cardinality, Cardinality

\* A fault as the interface sees it
LEMMA FaultKeepsPromise ==
    ASSUME IInv, IInv', Where = Spot, Where' = Spot', ~crash, ~crash',
           NEW p \in Pages, Fault(p)
    PROVE  Promise!Fault(p)
<1> DEFINE c == IF h.assigned[p] = None THEN "default" ELSE h.assigned[p]
           Res == {q \in Pages : Spot[q] # "out"}
           Hat == {q \in Pages : Spot[q] = "hated"}
<1>0. /\ Spot \in [Pages -> Chains \cup {"out"}] /\ Spot' \in [Pages -> Chains \cup {"out"}]
      /\ \A q \in Pages : /\ Spot[q] = IF h.resides[q] = None THEN "out" ELSE h.resides[q]
                          /\ Spot[q] = "out" <=> h.resides[q] = None
      /\ \A q \in Pages : Spot'[q] = IF h'.resides[q] = None THEN "out" ELSE h'.resides[q]
      /\ h.resides \in [Pages -> Chains \cup {None}] /\ "hated" # None
  <2>1. \A q \in Pages : Spot'[q] = IF h'.resides[q] = None THEN "out" ELSE h'.resides[q]
    BY DEF Spot
  <2>2. h'.resides \in [Pages -> Chains \cup {None}]
    BY DEF IInv, Sound, Objects
  <2>3. Spot' \in [Pages -> Chains \cup {"out"}]
    BY <2>2 DEF Spot
  <2>4. h.resides \in [Pages -> Chains \cup {None}] /\ "hated" # None
    BY ChainIds DEF IInv, Sound, Objects
  <2>5. QED  BY <2>1, <2>3, <2>4, SpotType
<1>1. UNCHANGED open /\ Spot[p] = "out"
  <2>1. table[p] = -1 /\ UNCHANGED open
    BY DEF Fault
  <2>2. QED  BY <2>1, SpotType
<1>2. c # None /\ (c \in open \cup SystemChains <=> h.assigned[p] \in open \cup SystemChains \cup {None})
  BY ChainIds DEF SystemChains, IInv, Types
<1> DEFINE Goes(gone) ==
             /\ gone \in SUBSET (IF Hat # {} THEN Hat ELSE Res)
             /\ Cardinality(gone) = IF Cardinality(Res) = Size THEN 1 ELSE 0
             /\ \A q \in Pages : Spot'[q] = IF q \in gone THEN "out"
                                            ELSE IF q = p THEN c ELSE Spot[q]
<1>3. /\ h'.assigned = h.assigned /\ c \in open \cup SystemChains
      /\ \E gone : Goes(gone)
  <2>1. CASE UsedFrames # Frames /\ Loaded(h, table, p)
    <3>1. /\ h'.assigned = h.assigned /\ c \in open \cup SystemChains
          /\ h'.resides = [h.resides EXCEPT ![p] = c]
      BY <2>1 DEF Loaded
    <3>2. Cardinality(Res) # Size
      BY <2>1, FullMemory
    <3>3. Goes({})
      <4>1. Cardinality({}) = 0
        BY FS_EmptySet
      <4>2. \A q \in Pages : h'.resides[q] = IF q = p THEN c ELSE h.resides[q]
        BY <1>0, <3>1
      <4>3. \A q \in Pages : Spot'[q] = IF q = p THEN c ELSE Spot[q]
        BY <1>0, <1>2, <4>2
      <4>4. QED  BY <3>2, <4>1, <4>3
    <3>4. QED  BY <3>1, <3>3
  <2>2. CASE /\ UsedFrames = Frames
             /\ \E v, m, t : Evicted(v, m, t) /\ Agree(m, t) /\ Loaded(m, t, p)
    <3>1. PICK v, m, t : Evicted(v, m, t) /\ Agree(m, t) /\ Loaded(m, t, p)
      BY <2>2
    <3>2. /\ v \in Pages /\ h.resides[v] # None
          /\ \A q \in Pages : h.resides[q] = "hated" => h.resides[v] = "hated"
          /\ m.assigned = h.assigned /\ m.resides = [h.resides EXCEPT ![v] = None]
      BY <3>1 DEF Evicted
    <3>3. /\ h'.assigned = h.assigned /\ c \in open \cup SystemChains
          /\ h'.resides = [m.resides EXCEPT ![p] = c]
      BY <3>1, <3>2 DEF Loaded
    <3>4. Cardinality(Res) = Size
      BY <2>2, FullMemory
    <3>5. v # p
      BY <1>0, <1>1, <3>2
    <3>6. Goes({v})
      <4>1. Cardinality({v}) = 1
        BY FS_Singleton
      <4>2. \A q \in Pages : h'.resides[q] = IF q = v THEN None ELSE IF q = p THEN c
                                             ELSE h.resides[q]
        BY <1>0, <3>2, <3>3, <3>5
      <4>3. \A q \in Pages : Spot'[q] = IF q = v THEN "out" ELSE IF q = p THEN c ELSE Spot[q]
        BY <1>0, <1>2, <4>2
      <4>4. {v} \in SUBSET (IF Hat # {} THEN Hat ELSE Res)
        BY <1>0, <3>2
      <4>5. QED  BY <3>4, <4>1, <4>3, <4>4
    <3>7. QED  BY <3>3, <3>6
  <2>3. QED  BY <2>1, <2>2, FaultLoads
<1>4. PICK gone : Goes(gone)
  BY <1>3
<1>5. Spot' = [q \in Pages |-> CASE q \in gone -> "out"
                                 [] q = p      -> c
                                 [] OTHER      -> Spot[q]]
  <2>1. \A q \in gone : q # p
    BY <1>0, <1>1, <1>4
  <2>2. \A q \in Pages : Spot'[q] = CASE q \in gone -> "out"
                                      [] q = p      -> c
                                      [] OTHER      -> Spot[q]
    BY <1>4, <2>1
  <2>3. QED  BY <1>0, <2>2
<1>6. Promise!Candidates = IF Hat # {} THEN Hat ELSE Res
  BY DEF Promise!Candidates, Promise!Hated, Promise!Resident, Promise!Out
<1>7. Promise!Resident = Res
  BY DEF Promise!Resident, Promise!Out
<1>8. gone \in SUBSET Promise!Candidates
      /\ Cardinality(gone) = IF Cardinality(Promise!Resident) = Size THEN 1 ELSE 0
  BY <1>4, <1>6, <1>7
<1>9. h.assigned[p] \in open \cup SystemChains \cup {None}
  BY <1>2, <1>3
<1>10. /\ Where[p] = Promise!Out
       /\ h.assigned[p] \in open \cup Promise!SystemChains \cup {Promise!None}
       /\ UNCHANGED <<h.assigned, open>>
  BY <1>1, <1>3, <1>9
  DEF Promise!Out, Promise!SystemChains, Promise!None, SystemChains, None
<1>11. Where' = [q \in Pages |->
                    CASE q \in gone -> Promise!Out
                      [] q = p      -> IF h.assigned[p] = Promise!None THEN "default"
                                       ELSE h.assigned[p]
                      [] OTHER      -> Where[q]]
  BY <1>5 DEF Promise!Out, Promise!None, None
<1> HIDE DEF Goes, Res, Hat, c
<1>12. \E out \in SUBSET Promise!Candidates :
          /\ Promise!Cardinality(out) = IF Promise!Cardinality(Promise!Resident) = Size
                                        THEN 1 ELSE 0
          /\ Where' = [q \in Pages |->
                         CASE q \in out -> Promise!Out
                           [] q = p     -> IF h.assigned[p] = Promise!None THEN "default"
                                           ELSE h.assigned[p]
                           [] OTHER     -> Where[q]]
  <2>1. gone \in SUBSET Promise!Candidates
    BY <1>8
  <2>2. Promise!Cardinality(gone) = IF Promise!Cardinality(Promise!Resident) = Size
                                    THEN 1 ELSE 0
    BY <1>8, SameCardinality
  <2>3. QED  BY <1>11, <2>1, <2>2, Zenon
<1>13. QED
  BY <1>10, <1>12, Zenon DEF Promise!Fault

LEMMA NextKeepsPromise ==
    IInv /\ IInv' /\ Where = Spot /\ Where' = Spot' /\ [Next]_vars
      => [crash' \/ Promise!Next]_(Promise!vars)
<1> SUFFICES ASSUME IInv, IInv', Where = Spot, Where' = Spot', [Next]_vars
             PROVE  crash' \/ Promise!Next \/ UNCHANGED <<Where, h.assigned, open>>
  BY DEF Promise!vars
<1>0. /\ h.resides \in [Pages -> Chains \cup {None}]
      /\ h.assigned \in [Pages -> Chains \cup {None}]
      /\ Spot = [p \in Pages |-> IF h.resides[p] = None THEN "out" ELSE h.resides[p]]
      /\ Spot' = [p \in Pages |-> IF h'.resides[p] = None THEN "out" ELSE h'.resides[p]]
      /\ "hated" # None /\ \A c \in Chains : c # "out" /\ c # None
      /\ UserChains \subseteq Chains
  BY ChainIds DEF IInv, Sound, Objects, Spot
<1>1. ASSUME NEW p \in Pages, Hit(p) PROVE UNCHANGED <<Where, h.assigned, open>>
  <2>1. h'.resides = h.resides /\ h'.assigned = h.assigned
    BY <1>1, HitKeeps
  <2>2. QED  BY <1>0, <1>1, <2>1 DEF Hit
<1>2. ASSUME NEW p \in Pages, Fault(p), ~crash' PROVE Promise!Next
  <2>1. ~crash
    BY <1>2 DEF Fault, Begin
  <2>2. Promise!Fault(p)
    BY <1>2, <2>1, FaultKeepsPromise
  <2>3. QED  BY <2>2 DEF Promise!Next
<1>3. ASSUME NEW p \in Pages, UnlinkPage(p) PROVE Promise!Next
  <2>1. /\ h.resides[p] # None
        /\ h'.resides = [h.resides EXCEPT ![p] = "hated"]
        /\ h'.assigned = [h.assigned EXCEPT ![p] = "default"]
    BY <1>3, UnlinkPageMoves
  <2>2. UNCHANGED open
    BY <1>3 DEF UnlinkPage
  <2>3. Spot' = [Spot EXCEPT ![p] = "hated"] /\ Spot[p] # "out"
    BY <1>0, <2>1
  <2>4. Promise!Unlink(p)
    BY <2>1, <2>2, <2>3 DEF Promise!Unlink, Promise!Out
  <2>5. QED  BY <2>4 DEF Promise!Next
<1>4. ASSUME NEW c \in UserChains, CreateMemoryChain(c) PROVE Promise!Next
  <2>1. UNCHANGED <<h, crash>> /\ open' = open \cup {c}
    BY <1>4 DEF CreateMemoryChain
  <2>2. Promise!Create(c)
    BY <1>0, <2>1 DEF Promise!Create
  <2>3. QED  BY <2>2 DEF Promise!Next
<1>5. ASSUME NEW c \in UserChains, c \in open, h' = Hate(h, c),
             NEW close, open' = open \ close
      PROVE  Promise!Break(c, close)
  <2>1. /\ h'.resides = [p \in Pages |-> IF h.resides[p] = c THEN "hated" ELSE h.resides[p]]
        /\ h'.assigned = [p \in Pages |-> IF h.resides[p] = c THEN "default"
                                          ELSE h.assigned[p]]
    BY <1>5, HateMoves
  <2>2. \A p \in Pages : Spot[p] = c <=> h.resides[p] = c
    BY <1>0
  <2>3. Spot' = [p \in Pages |-> IF Spot[p] = c THEN "hated" ELSE Spot[p]]
    BY <1>0, <2>1
  <2>4. h'.assigned = [p \in Pages |-> IF Spot[p] = c THEN "default" ELSE h.assigned[p]]
    BY <2>1, <2>2
  <2>5. QED  BY <1>5, <2>3, <2>4 DEF Promise!Break
<1>6. ASSUME NEW c \in UserChains, BreakMemoryChain(c) PROVE Promise!Next
  <2>1. c \in open /\ h' = Hate(h, c) /\ open' = open \ {}
    BY <1>6 DEF BreakMemoryChain
  <2>2. Promise!Break(c, {})
    BY <1>5, <2>1
  <2>3. QED  BY <2>2 DEF Promise!Next
<1>7. ASSUME NEW c \in UserChains, ReleaseMemoryChain(c) PROVE Promise!Next
  <2>1. c \in open /\ h' = Hate(h, c) /\ open' = open \ {c}
    BY <1>7 DEF ReleaseMemoryChain
  <2>2. Promise!Break(c, {c})
    BY <1>5, <2>1
  <2>3. QED  BY <2>2 DEF Promise!Next
<1>8. ASSUME NEW c \in UserChains, NEW p \in Pages, LinkPage(c, p) PROVE Promise!Next
  <2>1. /\ h'.resides = [h.resides EXCEPT ![p] = c]
        /\ h'.assigned = [h.assigned EXCEPT ![p] = c]
    BY <1>8, LinkPageMoves
  <2>2. UNCHANGED open /\ c \in open /\ h.resides[p] # None
    BY <1>8 DEF LinkPage, Begin, IInv, Mapped
  <2>3. Spot' = [Spot EXCEPT ![p] = c] /\ Spot[p] # "out"
    BY <1>0, <2>1, <2>2
  <2>4. Promise!Link(c, p)
    BY <2>1, <2>2, <2>3 DEF Promise!Link, Promise!Out
  <2>5. QED  BY <2>4 DEF Promise!Next
<1>9. CASE UNCHANGED vars
  BY <1>9 DEF vars, Spot
<1>10. QED
  BY <1>1, <1>2, <1>3, <1>4, <1>6, <1>7, <1>8, <1>9 DEF Next

\* The manager that keeps its chains as linked lists implements the interface:
\* every call of it is a call of HierPromise or changes nothing that a client
\* sees, until a call fails on a chain that was released.
THEOREM ManagerKeepsPromise == Spec => KeepsPromise
<1>1. Spec => []IInv
  BY InitIInv, NextIInv, PTL DEF Spec
<1>2. Init => Promise!Init
  BY InitKeepsPromise
<1>3. IInv => Where = Spot
  BY WhereIsSpot
<1>4. IInv /\ IInv' /\ [Next]_vars => [crash' \/ Promise!Next]_(Promise!vars)
  <2>1. IInv' => (Where = Spot)'
    BY WhereIsSpot, PTL
  <2>2. QED  BY <1>3, <2>1, NextKeepsPromise
<1>5. QED  BY <1>1, <1>2, <1>4, PTL DEF Spec, KeepsPromise

-----------------------------------------------------------------------------
(* The page that is evicted *)

\* timestamp() is the newest page's, where no break has left a representative
\* that is elsewhere.
LEMMA StampIsNewest ==
    ASSUME IInv, NoStaleRep, NEW k, k = Refresh(h, NonEmptyUser)
    PROVE  /\ Sound(k, clock) /\ SameLists(h, k) /\ k.ts = h.ts
           /\ \A c \in NonEmptyUser :
                 /\ \E q \in Pages : h.resides[q] = c /\ k.stamp[c] = h.ts[q]
                 /\ \A q \in Pages : h.resides[q] = c => h.ts[q] <= k.stamp[c]
<1>0. /\ clock \in Nat /\ Sound(h, clock) /\ h \in Objects /\ Dated(h, clock)
      /\ open \subseteq UserChains /\ UserChains \subseteq Chains
  BY ChainIds DEF IInv, Types, Sound
<1>1. NonEmptyUser \in SUBSET UserChains /\ \A c \in NonEmptyUser : h.size[c] > 0 /\ c \in open
  BY <1>0 DEF NonEmptyUser
<1>2. /\ Sound(k, clock) /\ Refreshed(h, NonEmptyUser, k)
      /\ \A c \in NonEmptyUser :
            /\ Newest(h, c) \in Residents(h, c)
            /\ \A q \in Residents(h, c) : h.ts[q] <= h.ts[Newest(h, c)]
  BY <1>0, <1>1, RefreshSound
<1>3. /\ SameLists(h, k) /\ k.ts = h.ts
      /\ \A c \in Chains : k.stamp[c] = IF c \in NonEmptyUser /\ h.rep[c] = Null
                                        THEN h.ts[Newest(h, c)] ELSE h.stamp[c]
  BY <1>2 DEF Refreshed
<1>4. ASSUME NEW c \in NonEmptyUser
      PROVE  /\ \E q \in Pages : h.resides[q] = c /\ k.stamp[c] = h.ts[q]
             /\ \A q \in Pages : h.resides[q] = c => h.ts[q] <= k.stamp[c]
  <2>1. c \in Chains /\ c \in UserChains /\ c \in open
    BY <1>0, <1>1
  <2>2. CASE h.rep[c] = Null
    <3>1. k.stamp[c] = h.ts[Newest(h, c)]
      BY <1>3, <2>1, <2>2
    <3>2. Newest(h, c) \in Pages /\ h.resides[Newest(h, c)] = c
      BY <1>2 DEF Residents
    <3>3. \A q \in Pages : h.resides[q] = c => h.ts[q] <= h.ts[Newest(h, c)]
      BY <1>2 DEF Residents
    <3>4. QED  BY <3>1, <3>2, <3>3
  <2>3. CASE h.rep[c] # Null
    <3>1. k.stamp[c] = h.stamp[c]
      BY <1>3, <2>1, <2>3
    <3>2. h.rep[c] \in Pages /\ h.ts[h.rep[c]] \in Nat /\ h.stamp[c] \in Nat
      BY <1>0, <2>1, <2>3 DEF Objects, Links
    <3>3. h.resides[h.rep[c]] = c /\ h.stamp[c] <= h.ts[h.rep[c]]
      BY <1>0, <2>1, <2>3 DEF NoStaleRep, Dated
    <3>4. \A q \in Pages : h.resides[q] = c => h.ts[q] <= h.stamp[c]
      BY <1>0, <2>1 DEF Dated
    <3>5. QED  BY <3>1, <3>2, <3>3, <3>4
  <2>4. QED  BY <2>2, <2>3
<1>5. QED  BY <1>2, <1>3, <1>4

LEMMA AgeIs ==
    ASSUME IInv, NEW p \in Pages, h.resides[p] \in UserChains, NEW n,
           \E q \in Pages : h.resides[q] = h.resides[p] /\ n = h.ts[q],
           \A q \in Pages : h.resides[q] = h.resides[p] => h.ts[q] <= n
    PROVE  Age(p) = n
<1> DEFINE c == h.resides[p]
           S == {h.ts[q] : q \in Members(h, c)}
<1>1. Members(h, c) = {q \in Pages : h.resides[q] = c}
  BY MembersReside, ChainIds DEF IInv, Sound, Residents
<1>2. h.ts \in [Pages -> Nat]
  BY DEF IInv, Sound, Objects
<1>3. n \in S /\ \A q \in Members(h, c) : h.ts[q] <= n
  BY <1>1
<1>4. \A k \in S : (\A q \in Members(h, c) : h.ts[q] <= k) => k = n
  BY <1>1, <1>2
<1>5. Age(p) = CHOOSE k \in S : \A q \in Members(h, c) : h.ts[q] <= k
  BY DEF Age
<1> HIDE DEF S, c
<1>6. QED  BY <1>3, <1>4, <1>5

LEMMA VictimOldest ==
    ASSUME IInv, ~crash, NoStaleRep, ~(h.size["hated"] > 0),
           NEW k, k = Refresh(h, NonEmptyUser), NEW v \in Victims(k)
    PROVE  \A p \in Pages : table[p] # -1 =>
              /\ Age(v[2]) <= Age(p)
              /\ h.resides[p] = h.resides[v[2]] => h.ts[v[2]] <= h.ts[p]
<1>0. /\ h \in Objects /\ open \subseteq UserChains /\ UserChains \subseteq Chains
      /\ None \notin Chains /\ "default" \in Chains /\ "default" \notin UserChains
      /\ "hated" \in Chains /\ "hated" \notin UserChains
      /\ h.ts \in [Pages -> Nat] /\ h.size \in [Chains -> Nat] /\ Listed /\ Mapped
  BY ChainIds DEF IInv, Types, Sound, Objects
<1>1. /\ Sound(k, clock) /\ SameLists(h, k) /\ k.ts = h.ts
      /\ \A c \in NonEmptyUser :
            /\ \E q \in Pages : h.resides[q] = c /\ k.stamp[c] = h.ts[q]
            /\ \A q \in Pages : h.resides[q] = c => h.ts[q] <= k.stamp[c]
  BY StampIsNewest
<1>2. k \in Objects /\ k.resides = h.resides /\ k.size = h.size /\ k.stamp \in [Chains -> Nat]
  BY <1>1 DEF Sound, SameLists, Objects
<1>3. \A c \in Chains : Members(k, c) = {q \in Pages : h.resides[q] = c}
  BY <1>1, <1>2, MembersReside DEF Residents, Sound
<1> DEFINE D == Members(k, "default")
           U == NonEmptyUser
           ages == {k.ts[p] : p \in D} \cup {k.stamp[c] : c \in U}
           least == CHOOSE n \in ages : \A j \in ages : n <= j
<1>4. v \in {<<"default", p>> : p \in {q \in D : k.ts[q] = least}} \cup
            UNION {{<<c, p>> : p \in Oldest(k, Members(k, c))} :
                      c \in {d \in U : k.stamp[d] = least}}
  BY <1>2 DEF Victims
<1>5. U \subseteq UserChains /\ D \subseteq Pages
  BY <1>0, <1>3 DEF NonEmptyUser
<1>6. ages \in SUBSET Nat
  BY <1>0, <1>1, <1>2, <1>5
<1> HIDE DEF least
<1>7. ages # {}
  BY <1>4
<1>8. least \in ages /\ \A j \in ages : least <= j
  <2> HIDE DEF ages
  <2>1. \E n \in ages : \A j \in ages : n <= j
    BY <1>6, <1>7, LeastNumber
  <2>2. QED  BY <2>1 DEF least
<1>9. ASSUME NEW c \in U, NEW p \in Pages, h.resides[p] = c
      PROVE  Age(p) = k.stamp[c]
  <2>1. c \in UserChains
    BY <1>5
  <2>2. /\ \E q \in Pages : h.resides[q] = h.resides[p] /\ k.stamp[c] = h.ts[q]
        /\ \A q \in Pages : h.resides[q] = h.resides[p] => h.ts[q] <= k.stamp[c]
    BY <1>1, <1>9
  <2>3. QED  BY <1>9, <2>1, <2>2, AgeIs
<1>10. ASSUME NEW p \in Pages, h.resides[p] = "default" PROVE Age(p) = k.ts[p]
  BY <1>0, <1>1, <1>10 DEF Age
<1>11. ASSUME NEW p \in Pages, table[p] # -1 PROVE Age(p) \in ages
  <2>1. h.resides[p] \in open \cup SystemChains /\ h.resides[p] # None
    BY <1>0, <1>11 DEF Mapped, Listed
  <2>2. PICK pos : Shape(h, pos)
    BY DEF IInv, Sound
  <2>3. h.size[h.resides[p]] > 0
    BY <1>0, <2>1, <2>2 DEF Shape, Placed, SystemChains
  <2>4. CASE h.resides[p] \in open
    <3>1. h.resides[p] \in U
      BY <2>3, <2>4 DEF NonEmptyUser
    <3>2. QED  BY <1>9, <3>1
  <2>5. CASE h.resides[p] = "default"
    BY <1>0, <1>3, <1>10, <2>5
  <2>6. QED  BY <2>1, <2>3, <2>4, <2>5 DEF SystemChains
<1>12. Age(v[2]) = least
       /\ \A p \in Pages : h.resides[p] = h.resides[v[2]] => h.ts[v[2]] <= h.ts[p]
  <2>1. CASE \E p \in D : v = <<"default", p>> /\ k.ts[p] = least
    <3>1. PICK p \in D : v = <<"default", p>> /\ k.ts[p] = least
      BY <2>1
    <3>2. v[2] = p /\ p \in Pages /\ h.resides[p] = "default"
      BY <1>0, <1>3, <3>1
    <3>3. \A q \in Pages : h.resides[q] = "default" => h.ts[q] \in ages
      BY <1>0, <1>1, <1>3
    <3>4. h.ts[p] = least
      BY <1>1, <3>1
    <3> HIDE DEF ages, D
    <3>5. QED  BY <1>8, <1>10, <3>1, <3>2, <3>3, <3>4
  <2>2. CASE \E c \in U : k.stamp[c] = least /\ \E p \in Oldest(k, Members(k, c)) : v = <<c, p>>
    <3>1. PICK c \in U : k.stamp[c] = least /\ \E p \in Oldest(k, Members(k, c)) : v = <<c, p>>
      BY <2>2
    <3>2. PICK p \in Oldest(k, Members(k, c)) : v = <<c, p>>
      BY <3>1
    <3>3. c \in Chains
      BY <1>0, <1>5
    <3>4. /\ v[2] = p /\ p \in Pages /\ h.resides[p] = c
          /\ \A q \in Pages : h.resides[q] = c => h.ts[p] <= h.ts[q]
      BY <1>1, <1>3, <3>2, <3>3 DEF Oldest
    <3>5. QED  BY <1>9, <3>1, <3>4
  <2>3. QED  BY <1>4, <2>1, <2>2
<1> HIDE DEF ages
<1>13. QED  BY <1>8, <1>11, <1>12

LEMMA StepEvictsOldest == IInv /\ [Next]_vars => EvictStep \/ UNCHANGED vars
<1> SUFFICES ASSUME IInv, Next, NEW v \in Pages, table[v] # -1, table'[v] = -1
             PROVE  IF h.size["hated"] > 0 THEN h.resides[v] = "hated"
                    ELSE NoStaleRep =>
                            \A p \in Pages : table[p] # -1 =>
                                /\ Age(v) <= Age(p)
                                /\ h.resides[p] = h.resides[v] => h.ts[v] <= h.ts[p]
  BY DEF EvictStep, vars
<1>1. PICK p \in Pages : Fault(p)
  BY DEF Next, Hit, UnlinkPage, CreateMemoryChain, BreakMemoryChain, ReleaseMemoryChain,
         LinkPage
<1>2. ~crash
  BY <1>1 DEF Fault, Begin
<1>3. CASE UsedFrames # Frames /\ Loaded(h, table, p)
  BY <1>3 DEF Loaded
<1>4. CASE UsedFrames = Frames
  <2> DEFINE k == IF h.size["hated"] > 0 THEN h ELSE Refresh(h, NonEmptyUser)
  <2>1. PICK u \in Victims(k) : Load(Unlink(k, u[1], u[2]), [table EXCEPT ![u[2]] = -1], p)
    BY <1>1, <1>4 DEF Fault
  <2>2. table' = [[table EXCEPT ![u[2]] = -1] EXCEPT ![p] = FreeFrame([table EXCEPT ![u[2]] = -1])]
    BY <2>1 DEF Load
  <2> HIDE DEF k
  <2>3. v # p
    BY <1>1 DEF Fault
  <2>4. v = u[2]
    BY <2>2, <2>3 DEF IInv, Types
  <2>5. CASE h.size["hated"] > 0
    <3>1. k = h /\ u = <<"hated", h.tail["hated"]>>
      BY <2>1, <2>5 DEF Victims, k
    <3>2. h.resides[h.tail["hated"]] = "hated"
      BY <2>5, ChainIds DEF IInv, Sound, Shape, Ended
    <3>3. QED  BY <2>4, <2>5, <3>1, <3>2
  <2>6. CASE ~(h.size["hated"] > 0)
    <3>1. k = Refresh(h, NonEmptyUser)
      BY <2>6 DEF k
    <3>2. QED  BY <1>2, <2>4, <2>6, <3>1, VictimOldest
  <2>7. QED  BY <2>5, <2>6
<1>5. QED  BY <1>1, <1>2, <1>3, <1>4, FaultLoads

\* An access that needs a frame takes the page from the hated queue while it
\* has any; otherwise it takes the oldest page of a chain that is, as a whole,
\* unused for longest, unless a break has left a stale timestamp.
THEOREM EvictorTakesOldest == Spec => EvictsOldest
<1>1. Spec => []IInv
  BY InitIInv, NextIInv, PTL DEF Spec
<1>2. IInv /\ [Next]_vars => [EvictStep]_vars
  BY StepEvictsOldest
<1>3. QED  BY <1>1, <1>2, PTL DEF Spec, EvictsOldest
=============================================================================
