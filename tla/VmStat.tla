------------------------------- MODULE VmStat -------------------------------
(***************************************************************************)
(* The zone counters of Linux/vmstat.c and what CPU hotplug does to them   *)
(* (vmstat.c and page_alloc_cpu_notify of Linux/page_alloc.c).             *)
(*                                                                         *)
(* A counter is the sum of a zone's vm_stat and of a small signed          *)
(* difference per CPU, which is folded into the zone when it exceeds a     *)
(* threshold, by a periodic work on each CPU, and when a CPU dies.  One    *)
(* item is modelled; the items are independent.  `truth` is what the       *)
(* counter should be.                                                      *)
(*                                                                         *)
(* With CONFIG_CMPXCHG_LOCAL a task updates a counter without disabling    *)
(* anything: it may move to another CPU, or be interrupted, between any    *)
(* two accesses.  Updates with interrupts disabled are one step.           *)
(***************************************************************************)
EXTENDS Integers, FiniteSets, Functions

CONSTANTS
    Cpus,           \* the possible CPUs
    Removable,      \* the CPUs that may go offline (the boot CPU may not)
    Zones,
    Tasks,          \* tasks that may be preempted while they count
    Half,           \* vm_stat_diff holds -Half..Half - 1: 128 in the code (s8)
    MaxThreshold,   \* 125 in the code
    SizeClass,      \* zone -> fls(mem), mem in units of 128 MB
    Distance,       \* zone -> low_wmark_pages - min_wmark_pages
    Deltas,         \* what __mod_zone_page_state is called with
    Calls,          \* the <<delta, overstep mode>> mod_state is called with
    Lo, Hi,         \* bound: the values a counter takes
    MaxWorks        \* bound: works under way at once

ASSUME VmStatAssumption ==
    /\ Cpus # {} /\ Zones # {}
    /\ IsFiniteSet(Cpus) /\ IsFiniteSet(Zones) /\ IsFiniteSet(Tasks)
    /\ Half \in Nat /\ MaxThreshold \in Nat \ {0} /\ MaxThreshold + 1 < Half
    /\ SizeClass \in [Zones -> Nat] /\ Distance \in [Zones -> Nat]
    /\ Removable \subseteq Cpus /\ Removable # Cpus
    /\ Deltas \subseteq Int /\ Calls \subseteq Int \X {-1, 0, 1}
    /\ Lo \in Int /\ Hi \in Int /\ Lo <= 0 /\ 0 <= Hi
    /\ MaxWorks \in Nat \ {0}
    /\ "hotplug" \notin Cpus

VARIABLES
    diff,       \* cpu -> zone -> vm_stat_diff
    thr,        \* cpu -> zone -> stat_threshold
    zstat,      \* zone -> zone->vm_stat
    global,     \* vm_stat
    mark,       \* zone -> whether percpu_drift_mark is set
    online,     \* the online CPUs
    timer,      \* the CPUs whose vmstat_work is scheduled
    op,         \* per task: mod_state's place and locals
    fold,       \* per CPU's work and for hotplug: refresh_cpu_vm_stats
    hp,         \* hotplug: [pc, cpu]
    truth       \* zone -> the sum of all updates

counters == <<diff, zstat, global, truth>>
cpus     == <<thr, mark, online, timer>>
vars     == <<diff, thr, zstat, global, mark, online, timer, op, fold, hp, truth>>

------------------------------------------------------------------------------
Max2(m, n) == IF m > n THEN m ELSE n
Min2(m, n) == IF m < n THEN m ELSE n
Abs(n)     == Max2(n, -n)

\* The powers of two up to n are as many as the bits n needs
fls(n) == Cardinality({p \in 1..n : \E k \in 0..n : p = 2 ^ k})

\* What is left of n in an integer of that width
Wrap(n) == ((n + Half) % (2 * Half)) - Half

calculate_pressure_threshold(z, on) ==
    Min2(MaxThreshold, Max2(1, Distance[z] \div Cardinality(on)))

calculate_normal_threshold(z, on) ==
    Min2(MaxThreshold, 2 * fls(Cardinality(on)) * (1 + SizeClass[z]))

\* Faulty variant: the drift of a zone is not looked at again.
MayDrift_Not(z, on) == FALSE

\* The counter may be off by more than lies between the low and min watermarks
MayDrift(z, on) == Cardinality(on) * calculate_normal_threshold(z, on) > Distance[z]

\* refresh_zone_stat_thresholds: the online CPUs only; a mark is never taken back
refresh_thresholds ==
    /\ thr' = [c \in Cpus |-> IF c \in online
                 THEN [z \in Zones |-> calculate_normal_threshold(z, online)] ELSE thr[c]]
    /\ mark' = [z \in Zones |-> mark[z] \/ MayDrift(z, online)]

NoFold == [left |-> {}, zone |-> {}, v |-> 0, global |-> 0, busy |-> FALSE]
NoOp   == [pc |-> "idle", zone |-> {}, delta |-> 0, mode |-> 0, o |-> 0, n |-> 0, z |-> 0]
Workers == Cpus \cup {"hotplug"}

\* setup_vmstat: not all possible CPUs need be online
Init ==
    /\ diff = [c \in Cpus |-> [z \in Zones |-> 0]]
    /\ zstat = [z \in Zones |-> 0] /\ global = 0 /\ truth = [z \in Zones |-> 0]
    /\ online \in SUBSET Cpus /\ Cpus \ Removable \subseteq online /\ timer = online
    /\ thr = [c \in Cpus |-> [z \in Zones |->
                IF c \in online THEN calculate_normal_threshold(z, online) ELSE 0]]
    /\ mark = [z \in Zones |-> MayDrift(z, online)]
    /\ op = [t \in Tasks |-> NoOp]
    /\ fold = [w \in Workers |-> NoFold]
    /\ hp = [pc |-> "idle", cpu |-> {}]

------------------------------------------------------------------------------
(* Updates with interrupts disabled, on an online CPU *)

InBounds(z, d) == truth[z] + d \in Lo..Hi

\* The difference becomes n, and x goes to the zone and the global counter
Apply(c, z, d, n, x) ==
    /\ diff' = [diff EXCEPT ![c][z] = Wrap(n)]
    /\ zstat' = [zstat EXCEPT ![z] = @ + x]
    /\ global' = global + x
    /\ truth' = [truth EXCEPT ![z] = @ + d]
    /\ UNCHANGED <<cpus, op, fold, hp>>

\* __mod_zone_page_state
ModZone(c, z, d) ==
    /\ c \in online /\ InBounds(z, d)
    /\ LET x == d + diff[c][z]
       IN IF Abs(x) > thr[c][z] THEN Apply(c, z, d, 0, x) ELSE Apply(c, z, d, x, 0)

\* Faulty variant: the overstep is kept in the difference but not added.
Over_Lost(n, t) == n

\* What goes to the zone when the difference is n, one above threshold t
Over(n, t) == n + t \div 2

\* __inc_zone_state: steps half a threshold over
IncZone(c, z) ==
    /\ c \in online /\ InBounds(z, 1)
    /\ LET v == Wrap(diff[c][z] + 1)
           t == thr[c][z]
       IN IF v > t THEN Apply(c, z, 1, -(t \div 2), Over(v, t)) ELSE Apply(c, z, 1, v, 0)

\* __dec_zone_state
DecZone(c, z) ==
    /\ c \in online /\ InBounds(z, -1)
    /\ LET v == Wrap(diff[c][z] - 1)
           t == thr[c][z]
       IN IF v < -t THEN Apply(c, z, -1, t \div 2, -Over(-v, t)) ELSE Apply(c, z, -1, v, 0)

------------------------------------------------------------------------------
(* mod_state: updates of a task that may be moved between any two accesses *)

\* The call: mod_zone_page_state, inc_zone_page_state or dec_zone_page_state
ModState(t, z, d, mode) ==
    /\ op[t].pc = "idle"
    /\ op' = [op EXCEPT ![t] = [NoOp EXCEPT !.pc = "read", !.zone = {z},
                                            !.delta = d, !.mode = mode]]
    /\ UNCHANGED <<counters, cpus, fold, hp>>

TheZone(t) == CHOOSE z \in op[t].zone : TRUE

\* The threshold and the difference are read, perhaps on two CPUs, and what to
\* store (n) and to add to the zone (z) is computed
ReadBoth(t) ==
    /\ op[t].pc = "read"
    /\ \E c, d \in online :
         LET th == thr[c][TheZone(t)]
             o  == diff[d][TheZone(t)]
             n  == op[t].delta + o
             os == op[t].mode * (th \div 2)
         IN op' = [op EXCEPT ![t] = [@ EXCEPT !.pc = "cmpxchg", !.o = o,
                                !.n = IF Abs(n) > th THEN -os ELSE n,
                                !.z = IF Abs(n) > th THEN n + os ELSE 0]]
    /\ UNCHANGED <<counters, cpus, fold, hp>>

\* Faulty variant: the value is stored whatever the CPU's difference is by now.
Exchanged_Always(o, now) == TRUE

\* this_cpu_cmpxchg(*p, o, n) == o
Exchanged(o, now) == o = now

\* this_cpu_cmpxchg on the CPU the task is on by now; from the start on failure
CmpXchg(t) ==
    /\ op[t].pc = "cmpxchg" /\ InBounds(TheZone(t), op[t].delta)
    /\ LET z == TheZone(t)
       IN \E c \in online :
            IF ~Exchanged(op[t].o, diff[c][z])
            THEN /\ op' = [op EXCEPT ![t] = [@ EXCEPT !.pc = "read", !.o = 0, !.n = 0, !.z = 0]]
                 /\ UNCHANGED counters
            ELSE /\ diff' = [diff EXCEPT ![c][z] = Wrap(op[t].n)]
                 /\ truth' = [truth EXCEPT ![z] = @ + op[t].delta]
                 /\ op' = [op EXCEPT ![t] = IF op[t].z = 0 THEN NoOp
                              ELSE [NoOp EXCEPT !.pc = "zone", !.zone = {z}, !.z = op[t].z]]
                 /\ UNCHANGED <<zstat, global>>
    /\ UNCHANGED <<cpus, fold, hp>>

\* zone_page_state_add: first the zone, then the global counter
AddZone(t) ==
    /\ op[t].pc = "zone"
    /\ zstat' = [zstat EXCEPT ![TheZone(t)] = @ + op[t].z]
    /\ op' = [op EXCEPT ![t].pc = "global"]
    /\ UNCHANGED <<diff, global, truth, cpus, fold, hp>>

AddGlobal(t) ==
    /\ op[t].pc = "global"
    /\ global' = global + op[t].z
    /\ op' = [op EXCEPT ![t] = NoOp]
    /\ UNCHANGED <<diff, zstat, truth, cpus, fold, hp>>

------------------------------------------------------------------------------
(* refresh_cpu_vm_stats, by the work of a CPU or for a dead CPU *)

CpuOf(w) == IF w = "hotplug" THEN CHOOSE c \in hp.cpu : TRUE ELSE w

StartFold(w) == fold' = [fold EXCEPT ![w] = [NoFold EXCEPT !.left = Zones, !.busy = TRUE]]

\* vmstat_update runs, on its own CPU
VmstatUpdate(c) ==
    /\ c \in timer /\ ~fold[c].busy
    /\ Cardinality({w \in Workers : fold[w].busy}) < MaxWorks
    /\ \E z \in Zones : diff[c][z] # 0
    /\ StartFold(c)
    /\ UNCHANGED <<counters, cpus, op, hp>>

\* Takes the difference of a zone away, with interrupts disabled
TakeDiff(w) ==
    /\ fold[w].busy /\ fold[w].zone = {} /\ fold[w].left # {}
    /\ \E z \in fold[w].left :
         LET v == diff[CpuOf(w)][z]
         IN /\ fold' = [fold EXCEPT ![w] = [fold[w] EXCEPT !.left = @ \ {z}, !.v = v,
                                                           !.zone = IF v = 0 THEN {} ELSE {z}]]
            /\ diff' = [diff EXCEPT ![CpuOf(w)][z] = 0]
    /\ UNCHANGED <<zstat, global, truth, cpus, op, hp>>

\* Adds it to the zone, and to global_diff for later
AddDiff(w) ==
    /\ fold[w].zone # {}
    /\ \E z \in fold[w].zone : zstat' = [zstat EXCEPT ![z] = @ + fold[w].v]
    /\ fold' = [fold EXCEPT ![w] = [fold[w] EXCEPT !.zone = {}, !.v = 0,
                                                  !.global = @ + fold[w].v]]
    /\ UNCHANGED <<diff, global, truth, cpus, op, hp>>

\* The global counter, once all zones are done
AddGlobalDiff(w) ==
    /\ fold[w].busy /\ fold[w].zone = {} /\ fold[w].left = {}
    /\ global' = global + fold[w].global
    /\ fold' = [fold EXCEPT ![w] = NoFold]
    /\ IF w = "hotplug" THEN hp' = [hp EXCEPT !.pc = "dead"] ELSE UNCHANGED hp
    /\ UNCHANGED <<diff, zstat, truth, cpus, op>>

------------------------------------------------------------------------------
(* CPU hotplug: vmstat_cpuup_callback and page_alloc_cpu_notify *)

\* CPU_DOWN_PREPARE: the work is cancelled, and waited for if it runs
DownPrepare(c) ==
    /\ hp.pc = "idle" /\ c \in online \cap Removable /\ ~fold[c].busy
    /\ timer' = timer \ {c}
    /\ hp' = [pc |-> "down", cpu |-> {c}]
    /\ UNCHANGED <<counters, thr, mark, online, op, fold>>

\* CPU_DOWN_FAILED
DownFailed ==
    /\ hp.pc = "down"
    /\ timer' = timer \cup hp.cpu
    /\ hp' = [pc |-> "idle", cpu |-> {}]
    /\ UNCHANGED <<counters, thr, mark, online, op, fold>>

\* The CPU stops (external); tasks on it go on elsewhere
Die ==
    /\ hp.pc = "down"
    /\ online' = online \ hp.cpu
    /\ hp' = [hp EXCEPT !.pc = "refresh"]
    /\ UNCHANGED <<counters, thr, mark, timer, op, fold>>

\* CPU_DEAD, refresh_cpu_vm_stats of the dead CPU
RefreshDead ==
    /\ hp' = [hp EXCEPT !.pc = "folding"]
    /\ StartFold("hotplug")

DeadStats ==
    /\ hp.pc = "refresh"
    /\ RefreshDead
    /\ UNCHANGED <<counters, cpus, op>>

\* CPU_DEAD, in vmstat_cpuup_callback
Dead ==
    /\ hp.pc = "dead"
    /\ refresh_thresholds
    /\ hp' = [pc |-> "idle", cpu |-> {}]
    /\ UNCHANGED <<counters, online, timer, op, fold>>

\* The CPU starts (external)
Up(c) ==
    /\ hp.pc = "idle" /\ c \notin online
    /\ online' = online \cup {c}
    /\ hp' = [pc |-> "up", cpu |-> {c}]
    /\ UNCHANGED <<counters, thr, mark, timer, op, fold>>

\* CPU_ONLINE
Online ==
    /\ hp.pc = "up"
    /\ timer' = timer \cup hp.cpu
    /\ refresh_thresholds
    /\ hp' = [pc |-> "idle", cpu |-> {}]
    /\ UNCHANGED <<counters, online, op, fold>>

------------------------------------------------------------------------------
(* kswapd lowers the thresholds while it is awake (set_pgdat_percpu_threshold) *)

SetThresholds(f) ==
    /\ thr' = [c \in Cpus |-> [z \in Zones |-> IF mark[z] THEN f[z] ELSE thr[c][z]]]
    /\ UNCHANGED <<counters, mark, online, timer, op, fold, hp>>

Pressure == SetThresholds([z \in Zones |-> calculate_pressure_threshold(z, online)])
Relax    == SetThresholds([z \in Zones |-> calculate_normal_threshold(z, online)])

------------------------------------------------------------------------------
Next ==
    \/ \E c \in Cpus, z \in Zones : \E d \in Deltas : ModZone(c, z, d)
    \/ \E c \in Cpus, z \in Zones : IncZone(c, z) \/ DecZone(c, z)
    \/ \E t \in Tasks, z \in Zones : \E d \in Calls : ModState(t, z, d[1], d[2])
    \/ \E t \in Tasks : \/ ReadBoth(t) \/ CmpXchg(t)
                        \/ AddZone(t) \/ AddGlobal(t)
    \/ \E c \in Cpus : VmstatUpdate(c)
    \/ \E w \in Workers : TakeDiff(w) \/ AddDiff(w) \/ AddGlobalDiff(w)
    \/ \E c \in Cpus : DownPrepare(c) \/ Up(c)
    \/ DownFailed \/ Die \/ DeadStats \/ Dead \/ Online
    \/ Pressure \/ Relax

Spec == Init /\ [][Next]_vars

\* What goes on by itself: the works of the CPUs, hotplug once it has begun, and
\* the rest of an update
Step(t) == \/ ReadBoth(t) \/ CmpXchg(t) \/ AddZone(t) \/ AddGlobal(t)
Work(w) == \/ TakeDiff(w) \/ AddDiff(w) \/ AddGlobalDiff(w)
           \/ w \in Cpus /\ VmstatUpdate(w)

FairSpec ==
    /\ Spec
    /\ \A t \in Tasks : WF_vars(Step(t))
    /\ \A w \in Workers : WF_vars(Work(w))
    /\ WF_vars(DownFailed \/ DeadStats \/ Dead \/ Online)

------------------------------------------------------------------------------
(* Properties *)

\* Type invariant: in particular a difference fits its width (vm_stat_diff).
TypeOK ==
    /\ diff \in [Cpus -> [Zones -> -MaxThreshold..MaxThreshold]]
    /\ thr \in [Cpus -> [Zones -> 0..MaxThreshold]]
    /\ zstat \in [Zones -> Int] /\ global \in Int /\ truth \in [Zones -> Lo..Hi]
    /\ mark \in [Zones -> BOOLEAN]
    /\ Cpus \ Removable \subseteq online /\ online \subseteq Cpus /\ timer \subseteq online
    /\ \A w \in Workers : fold[w].left \subseteq Zones /\ fold[w].busy \in BOOLEAN
    /\ hp.pc \in {"idle", "down", "refresh", "folding", "dead", "up"}

\* What is on its way to the zone and to the global counter
OpZone(z)   == [t \in Tasks |-> IF op[t].pc = "zone" /\ op[t].zone = {z} THEN op[t].z ELSE 0]
FoldZone(z) == [w \in Workers |-> IF fold[w].zone = {z} THEN fold[w].v ELSE 0]
OpGlobal    == [t \in Tasks |-> IF op[t].pc \in {"zone", "global"} THEN op[t].z ELSE 0]
FoldGlobal  == [w \in Workers |-> fold[w].v + fold[w].global]
ForZone(z)  == SumFunction(OpZone(z)) + SumFunction(FoldZone(z))
ForGlobal   == SumFunction(OpGlobal) + SumFunction(FoldGlobal)
InDiffs(z) == SumFunction([c \in Cpus |-> diff[c][z]])

\* No update is lost or counted twice: what the zone and the global counter lack
\* is in the differences or on its way (mod_state, refresh_cpu_vm_stats), whichever
\* CPUs a task runs on and whichever CPU dies meanwhile.
Conserved ==
    /\ \A z \in Zones : zstat[z] + InDiffs(z) + ForZone(z) = truth[z]
    /\ global + SumFunction([z \in Zones |-> InDiffs(z)]) + ForGlobal = SumFunction(truth)

\* Between hotplug events a CPU that is offline holds no part of any counter: nobody
\* would fold it in (page_alloc_cpu_notify).
OfflineClean ==
    hp.pc = "idle" =>
        \A c \in Cpus \ online : \A z \in Zones : diff[c][z] = 0

\* Every update is accounted for: differences fit their width, none is lost or
\* counted twice, and none stays with a CPU that is gone.
Accounted == TypeOK /\ Conserved /\ OfflineClean

\* A zone without a percpu_drift_mark may be judged by its vm_stat alone: it is never
\* off by more than lies between the low and min watermarks, unless a work or an
\* update is in between (refresh_zone_stat_thresholds).
DriftTolerated ==
    \A z \in Zones :
        (hp.pc = "idle" /\ ~mark[z] /\ ForZone(z) = 0) => Abs(truth[z] - zstat[z]) <= Distance[z]

\* When the updates and hotplug stop, the counters become exact (vmstat_update).
EventuallyExact ==
    <>[][FALSE]_<<truth, timer>> =>
        <>[](zstat = truth /\ global = SumFunction(truth))
=============================================================================
