----------------------------- MODULE SimManager -----------------------------
(***************************************************************************)
(* The flat simulator: MemoryManager.java and MultiLevelMemoryManager.java *)
(* of MemoryManagerSimulator, with the replacement policies Main.java      *)
(* compares.  The policy of a run is chosen at the start; "MLMU" stands    *)
(* for MultiLevelMemoryManager.                                            *)
(*                                                                         *)
(* Sequential: one action per call.  A page outlives its eviction (the     *)
(* `disk` map), with its time, love and reference bit.  Chains are         *)
(* sequences, head first; a page's link is the chain it is in.  The two    *)
(* ticks of a load are one: the first one's time is overwritten.           *)
(* The drivers hate a page with the id of the chain it is in, if any, and  *)
(* love only pages they have just accessed, and so does this module.       *)
(***************************************************************************)
EXTENDS Integers, FiniteSets, Sequences, SequencesExt

CONSTANTS
    Pages,
    Size,        \* frames of memory
    Chains,      \* ids of the chains made by love() or chain()
    Levels,      \* levels of love
    PIN_LEVEL,   \* 255 in the code
    MaxClock     \* bound: the clock

Default == 0     \* MLMU: the default chain, whose id is the lowest

ASSUME SimManagerAssumption ==
    /\ Size \in Nat \ {0} /\ Chains \subseteq Nat \ {Default}
    /\ Levels \subseteq Nat /\ PIN_LEVEL \in Nat \ {0} /\ MaxClock \in Nat

VARIABLES
    policy,      \* the manager and policy of this run
    memory,      \* the frames in use
    clock,       \* Coordinator's counter
    time, love, referenced,   \* per page
    hand,        \* clockHand
    chain,       \* chain id -> its pages
    anchor,      \* chain id -> its anchor, or none
    stamp,       \* chain id -> timestamp
    anchored     \* chain id -> flag

pageVars  == <<time, love, referenced>>
chainVars == <<chain, anchor, stamp, anchored>>
vars == <<policy, memory, clock, pageVars, hand, chainVars>>

AllChains == Chains \cup {Default}

Init ==
    /\ policy \in {"LRU", "LHR", "Clock", "Love Clock", "LoveQueue", "C-LRU", "MLMU"}
    /\ memory = << >> /\ clock = 0 /\ hand = 1
    /\ time = [p \in Pages |-> 0] /\ love = [p \in Pages |-> 0]
    /\ referenced = [p \in Pages |-> FALSE]
    /\ chain = [c \in AllChains |-> << >>]
    /\ anchor = [c \in AllChains |-> {}]
    /\ stamp = [c \in AllChains |-> 0]
    /\ \E b \in BOOLEAN :
         /\ b => policy = "C-LRU"
         /\ anchored = [c \in AllChains |-> b]

Resident == ToSet(memory)
isFull   == Len(memory) = Size
LinkOf(p) == {c \in AllChains : Contains(chain[c], p)}
Oldest(S) == {p \in S : \A q \in S : time[p] <= time[q]}
LastFrame(S) == {p \in S : \A i, j \in 1..Len(memory) : memory[i] = p /\ memory[j] \in S => j <= i}

------------------------------------------------------------------------------
(* What each policy evicts, and what finding it changes *)

Result(v, l, r, h) == [victim |-> v, love |-> l, referenced |-> r, hand |-> h]

Lru == Result(Oldest(Resident), love, referenced, hand)

LeastLoved(S) == {p \in S : \A q \in S : love[p] <= love[q]}

\* The oldest of the least loved; a page that only love protected is loved less
LoveHate ==
    LET v == Oldest(LeastLoved(Resident))
        Protected == {p \in Oldest(Resident) \ v : love[p] # PIN_LEVEL}
    IN Result(v, [p \in Pages |-> IF p \in Protected THEN love[p] - 1 ELSE love[p]],
              referenced, hand)

Advanced(h) == (h % Size) + 1

RECURSIVE Swept(_, _)
Swept(r, h) ==
    IF ~r[memory[h]] THEN Result({memory[h]}, love, r, h)
    ELSE Swept([r EXCEPT ![memory[h]] = FALSE], Advanced(h))

RECURSIVE LoveSwept(_, _, _)
LoveSwept(l, r, h) ==
    LET p == memory[h]
    IN IF l[p] = 0 /\ ~r[p] THEN Result({p}, l, r, h)
       ELSE LoveSwept([l EXCEPT ![p] = IF @ > 0 THEN @ - 1 ELSE 0],
                      [r EXCEPT ![p] = l[p] > 0], Advanced(h))

\* The ratio is an integer division: only a queue of all pages is too big
tooBigLoveQueue(Loved) == Cardinality(Loved) = Size

\* The last frame's page is taken, not the oldest: minTime is never lowered
LoveQueue ==
    LET Loved == {p \in Resident : love[p] > 0}
        Left  == IF tooBigLoveQueue(Loved) THEN Loved \ LastFrame(Loved) ELSE Loved
    IN Result(LastFrame(Resident \ Left),
              [p \in Pages |-> IF p \in Loved \ Left THEN 0 ELSE love[p]], referenced, hand)

\* Faulty variant: the chain is judged by its head.
timestamp_Head(c) == IF chain[c] = << >> THEN stamp[c] ELSE time[Head(chain[c])]

\* Chain.timestamp: never goes down, whatever leaves the chain
timestamp(c) ==
    CHOOSE t \in {stamp[c]} \cup {time[p] : p \in ToSet(chain[c])} :
        /\ t >= stamp[c]
        /\ \A p \in ToSet(chain[c]) : time[p] <= t

\* Chain.evict: not the anchor, unless it is alone
Evictable(c) == IF Len(chain[c]) = 1 THEN ToSet(chain[c]) ELSE ToSet(chain[c]) \ anchor[c]

\* The chain whose timestamp is lowest: of its pages the first in memory decides
\* a tie in the flat manager, the lowest id in the multi-level one
Coldest ==
    LET Used == {c \in AllChains : chain[c] # << >>}
        Low  == {c \in Used : \A d \in Used : timestamp(c) <= timestamp(d)}
        At(c) == IF policy = "MLMU" THEN c
                 ELSE CHOOSE i \in 1..Size : /\ memory[i] \in ToSet(chain[c])
                                             /\ \A j \in 1..i - 1 : memory[j] \notin ToSet(chain[c])
    IN {c \in Low : \A d \in Low : At(c) <= At(d)}

\* Pages in no chain compete one by one with chains, in the flat manager
ColdestLoose ==
    LET Loose == {p \in Resident : LinkOf(p) = {}}
    IN {p \in Oldest(Loose) : policy = "C-LRU" /\ \A c \in Coldest : time[p] <= timestamp(c)}

Victims ==
    CASE policy = "LRU"        -> Lru
      [] policy = "LHR"        -> LoveHate
      [] policy = "Clock"      -> Swept(referenced, hand)
      [] policy = "Love Clock" -> LoveSwept(love, referenced, hand)
      [] policy = "LoveQueue"  -> LoveQueue
      [] OTHER -> Result(IF ColdestLoose # {} THEN ColdestLoose
                         ELSE UNION {Oldest(Evictable(c)) : c \in Coldest},
                         love, referenced, hand)

------------------------------------------------------------------------------
(* Chains *)

\* Faulty variant: the chain still calls the page its anchor.
AnchorAfter_Kept(c, p) == anchor[c]

AnchorAfter(c, p) == anchor[c] \ {p}

Without(f, p) == [c \in AllChains |-> Remove(f[c], p)]
Unanchored(p) == [c \in AllChains |-> AnchorAfter(c, p)]

------------------------------------------------------------------------------
(* access *)

Touch(p, now) ==
    /\ clock' = now
    /\ referenced' = [referenced EXCEPT ![p] = TRUE]

Hit(p) ==
    /\ p \in Resident /\ clock < MaxClock
    /\ Touch(p, clock + 1)
    /\ time' = [time EXCEPT ![p] = clock + 1]
    /\ UNCHANGED <<policy, memory, love, hand, chainVars>>

\* In MLMU a page starts in the default chain
Load(p) ==
    /\ p \notin Resident /\ ~isFull /\ clock < MaxClock
    /\ Touch(p, clock + 1)
    /\ time' = [time EXCEPT ![p] = clock + 1]
    /\ memory' = Append(memory, p)
    /\ chain' = IF policy = "MLMU" THEN [chain EXCEPT ![Default] = <<p>> \o @] ELSE chain
    /\ UNCHANGED <<policy, love, hand, anchor, stamp, anchored>>

\* The victim leaves its chain; an anchored chain's head counts as just used
Replace(p) ==
    /\ p \notin Resident /\ isFull
    /\ \E v \in Victims.victim :
         LET Heads == {Head(chain[c]) : c \in {d \in LinkOf(v) : anchored[d]}} \ {v}
             now   == IF \E c \in LinkOf(v) : anchored[c] THEN clock + 1 ELSE clock
             left  == Without(chain, v)
         IN /\ now < MaxClock
            /\ memory' = [memory EXCEPT ![CHOOSE i \in 1..Size : memory[i] = v] = p]
            /\ clock' = now + 1
            /\ time' = [q \in Pages |-> CASE q = p -> now + 1
                                          [] q \in Heads -> now
                                          [] OTHER -> time[q]]
            /\ referenced' = [Victims.referenced EXCEPT ![p] = TRUE]
            /\ chain' = IF policy = "MLMU" THEN [left EXCEPT ![Default] = <<p>> \o @] ELSE left
            /\ anchor' = Unanchored(v)
    /\ stamp' = [c \in AllChains |-> timestamp(c)]
    /\ love' = Victims.love /\ hand' = Victims.hand
    /\ UNCHANGED <<policy, anchored>>

------------------------------------------------------------------------------
(* love and hate, as each policy has them *)

Min2(m, n) == IF m < n THEN m ELSE n

\* LoveHateReplacementPolicy.love of two arguments, and of three with pin set: the
\* drivers call no other
Loved(l, pin) == IF pin THEN PIN_LEVEL ELSE Min2(l, PIN_LEVEL)

LoveLevel(p, l, pin) ==
    /\ p \in Resident
    /\ \/ policy = "LHR" /\ love' = [love EXCEPT ![p] = Loved(l, pin)] /\ UNCHANGED referenced
       \/ policy = "LoveQueue" /\ love' = [love EXCEPT ![p] = l] /\ UNCHANGED referenced
       \/ /\ policy = "Love Clock"
          /\ love' = [love EXCEPT ![p] = l]
          /\ referenced' = [referenced EXCEPT ![p] = TRUE]
    /\ UNCHANGED <<policy, memory, clock, time, hand, chainVars>>

\* A page already in the chain stays where it is in C-LRU; MLMU takes it out first
LoveChain(p, c, pin) ==
    /\ policy \in {"C-LRU", "MLMU"} /\ p \in Resident /\ c \in Chains
    /\ chain' = IF policy = "C-LRU" /\ LinkOf(p) = {c} THEN chain
                ELSE [Without(chain, p) EXCEPT ![c] = <<p>> \o Remove(@, p)]
    /\ anchor' = [c2 \in AllChains |->
                    CASE c2 = c /\ pin -> {p}
                      [] policy = "C-LRU" /\ LinkOf(p) = {c} -> anchor[c2]
                      [] OTHER -> AnchorAfter(c2, p)]
    /\ UNCHANGED <<policy, memory, clock, pageVars, hand, stamp, anchored>>

\* LHR lowers the level; the others forget it, and LoveQueue the time as well
HateLevel(p, l) ==
    /\ p \in Resident
    /\ \/ /\ policy = "LHR"
          /\ love' = [love EXCEPT ![p] = Min2(l, @)] /\ UNCHANGED <<time, referenced>>
       \/ /\ policy = "LoveQueue"
          /\ love' = [love EXCEPT ![p] = 0] /\ time' = [time EXCEPT ![p] = 0]
          /\ UNCHANGED referenced
       \/ /\ policy = "Love Clock"
          /\ love' = [love EXCEPT ![p] = 0]
          /\ referenced' = [referenced EXCEPT ![p] = FALSE] /\ UNCHANGED time
    /\ UNCHANGED <<policy, memory, clock, hand, chainVars>>

\* C-LRU: the page leaves its chain
HateFlat(p) ==
    /\ policy = "C-LRU" /\ p \in Resident /\ LinkOf(p) # {}
    /\ chain' = Without(chain, p)
    /\ anchor' = Unanchored(p)
    /\ UNCHANGED <<policy, memory, clock, pageVars, hand, stamp, anchored>>

\* Faulty variant: the page is left without a chain, as the others are.
Rehomed_Not(p) == << >>

\* What the default chain gets
Rehomed(p) == <<p>>

\* MLMU: the page's whole chain is undone, and the page alone goes to the default one
HateMulti(p) ==
    /\ policy = "MLMU" /\ p \in Resident /\ LinkOf(p) # {Default}
    /\ chain' = [c \in AllChains |->
                   CASE c \in LinkOf(p) -> << >>
                     [] c = Default -> Rehomed(p) \o chain[c]
                     [] OTHER -> chain[c]]
    /\ anchor' = [c \in AllChains |-> IF c \in LinkOf(p) THEN {} ELSE anchor[c]]
    /\ UNCHANGED <<policy, memory, clock, pageVars, hand, stamp, anchored>>

------------------------------------------------------------------------------
Next ==
    \/ \E p \in Pages : Hit(p) \/ Load(p) \/ Replace(p)
    \/ \E p \in Pages, l \in Levels, pin \in BOOLEAN : LoveLevel(p, l, pin)
    \/ \E p \in Pages, c \in Chains, pin \in BOOLEAN : LoveChain(p, c, pin)
    \/ \E p \in Pages, l \in Levels : HateLevel(p, l)
    \/ \E p \in Pages : HateFlat(p) \/ HateMulti(p)

Spec == Init /\ [][Next]_vars

------------------------------------------------------------------------------
(* Properties *)

\* Type invariant; in particular LoveHateReplacementPolicy never lets a level of love
\* leave 0..PIN_LEVEL, however often findPageToEvict lowers it.
TypeOK ==
    /\ memory \in BoundedSeq(Pages, Size) /\ clock \in 0..MaxClock
    /\ time \in [Pages -> 0..clock] /\ love \in [Pages -> Nat]
    /\ policy = "LHR" => love \in [Pages -> 0..PIN_LEVEL]
    /\ referenced \in [Pages -> BOOLEAN] /\ hand \in 1..Size
    /\ stamp \in [AllChains -> 0..clock]

\* A chain holds resident pages only, no page is in two chains or twice in memory, and
\* a chain's anchor is one of its pages (add, unlink, unchain and evict of Chain).
ChainsMatchMemory ==
    /\ IsInjective(memory)
    /\ \A c \in AllChains :
         /\ IsInjective(chain[c]) /\ ToSet(chain[c]) \subseteq Resident
         /\ anchor[c] \subseteq ToSet(chain[c]) /\ Cardinality(anchor[c]) <= 1
         /\ \A d \in AllChains \ {c} : ToSet(chain[c]) \cap ToSet(chain[d]) = {}

\* Chains, anchors and memory agree through loads, evictions, love and hate.
ChainsSound == TypeOK /\ ChainsMatchMemory

\* A full memory always has a page to evict, though hate leaves pages in no chain,
\* where evict_page of MultiLevelMemoryManager never finds them again.
SomethingToEvict ==
    isFull => Cardinality(Victims.victim) = 1 /\ Victims.victim \subseteq Resident

Evicted(v) == v \in Resident /\ v \notin ToSet(memory')

\* An anchor is evicted only when its chain has no other page (Chain.evict).
AnchorLast ==
    [][\A v \in Pages : Evicted(v) =>
         \A c \in AllChains : v \in anchor[c] => chain[c] = <<v>>]_vars

\* A pinned page is evicted only when all pages are, and a loved one from the love
\* queue only when all are loved (findPageToEvict of LHR and LoveQueue).
LovedLast ==
    [][\A v \in Pages : Evicted(v) =>
         /\ policy = "LHR" => \A p \in Resident : love[v] <= love[p]
         /\ policy = "LoveQueue" /\ love[v] > 0 => \A p \in Resident : love[p] > 0]_vars

\* A chain is only broken up when every page outside chains was used after all of its
\* pages, and every other chain has, or has had, a page used no earlier than they
\* (findPageToEvict and timestamp of the chained policy).
ColdChainFirst ==
    [][\A v \in Pages : Evicted(v) /\ policy = "C-LRU" =>
         \A c \in LinkOf(v) : \A q \in ToSet(chain[c]) :
           /\ \A u \in Resident : LinkOf(u) = {} => time[q] < time[u]
           /\ \A d \in AllChains : chain[d] # << >> => time[q] <= stamp'[d]]_vars

\* What is evicted is what the policy values least: anchors, pinned and loved
\* pages and the pages of warm chains go last (findPageToEvict and Chain.evict).
EvictsByPolicy == AnchorLast /\ LovedLast /\ ColdChainFirst
=============================================================================
