---------------------------- MODULE ProcessLife ----------------------------
(***************************************************************************)
(* The life of a task: created by copy_process and do_fork (Linux/fork.c), *)
(* ended by do_exit, buried by wait4, by itself or by the task its parent  *)
(* left it to (Linux/exit.c).  do_fork and do_exit are where the memory    *)
(* chains of a task begin and end.                                         *)
(*                                                                         *)
(* The structures tasks share (open files, fs, signal handlers, address    *)
(* space) are reference counts.  tasklist_lock is a readers-writer lock:   *)
(* an action under the write lock is one step that no reader overlaps, and *)
(* a reader that decides in two steps stays in `Readers` between them.     *)
(* Signals, exec, ptrace and job control belong to code that is not in the *)
(* repository; of the signals only the SIGKILL of a group exit and what    *)
(* do_notify_parent does about SIGCHLD are modelled.                       *)
(***************************************************************************)
EXTENDS Integers, FiniteSets

CONSTANTS
    Tasks,      \* task structures; each is used once
    init,       \* the child reaper; it never exits
    first,      \* the process that runs in the beginning
    none,       \* no task
    Ignoring,   \* the leaders of the processes that ignore SIGCHLD
    Kinds,      \* the clone calls: the subset of CloneFlags and the exit signal
    Opts,       \* the options a task may wait with
    Unshares,   \* the unshare calls: pairs of a task and what it unshares
    MaxThreads, \* max_threads
    Fails       \* the stages of copy_process that may fail

Res     == {"files", "fs", "sighand", "mm"}
Ids     == 1..2 * Cardinality(Tasks)
Signals == {"SIGCHLD", "other", "detached"}     \* exit_signal; detached is -1

\* The order in which copy_process acquires what it must give back on an error
Stage == [user |-> 1, files |-> 2, fs |-> 3, sighand |-> 4, signal |-> 5, mm |-> 6,
          pid |-> 7]

CloneFlags == {"VM", "FILES", "FS", "SIGHAND", "THREAD", "PARENT", "VFORK"}
FlagOf     == [files |-> "FILES", fs |-> "FS", sighand |-> "SIGHAND", mm |-> "VM"]

ASSUME TasksAssumption ==
    /\ IsFiniteSet(Tasks) /\ init \in Tasks /\ first \in Tasks \ {init}
    /\ none \notin Tasks /\ Ignoring \subseteq Tasks \ {init}
    /\ MaxThreads \in Nat
    /\ Unshares \subseteq Tasks \X SUBSET {"files", "fs"}
    /\ Fails \subseteq 0..7
    /\ \A kind \in Kinds : kind.flags \subseteq CloneFlags /\ kind.sig \in Signals \ {"detached"}
    /\ \A opt \in Opts : /\ {opt.hang, opt.nothread, opt.all, opt.clone} \subseteq BOOLEAN
                         /\ opt.pid \in Tasks \cup {none}

VARIABLES
    task,       \* the task structures
    th,         \* per task: its place in the kernel and its locals
    sig,        \* per group leader: its signal_struct
    cnt,        \* the reference counts of the shared structures
    owner,      \* mm->owner
    processes,  \* user->processes
    nr_threads  \* nr_threads

vars == <<task, th, sig, cnt, owner, processes, nr_threads>>

\* A task structure with nothing in it
Blank == [leader |-> none, real_parent |-> none, exit_signal |-> "SIGCHLD",
          exit_state |-> "0", exiting |-> FALSE, kill |-> FALSE,
          usage |-> 0, hashed |-> FALSE, rcu |-> FALSE, vfork |-> none,
          res |-> [r \in Res |-> 0]]

Idle == [pc |-> "user", child |-> none, kind |-> {}, stage |-> 0, mm |-> 0,
         todo |-> {}, opt |-> none, new |-> [r \in {"files", "fs"} |-> 0]]

At(x, pc) == [th EXCEPT ![x].pc = pc]

------------------------------------------------------------------------------
Exiting(x)  == task[x].exiting
Live(p)     == task[p].hashed
Group(l)    == {t \in Tasks : Live(t) /\ task[t].leader = l}
SameGroup(x, y) == task[x].leader = task[y].leader
Children(x) == {p \in Tasks \ {init} : /\ Live(p) /\ task[p].leader = p
                                       /\ task[p].real_parent = x}
GroupEmpty(l) == Group(l) = {l}
Detached(p) == task[p].exit_signal = "detached"

\* Those that hold tasklist_lock for reading between two steps
Readers == {x \in Tasks : th[x].pc \in {"claim", "owner"}}

\* What the slab allocator returns; it does not matter which
Unused   == CHOOSE p \in Tasks \cup {none} :
                IF \E q \in Tasks : th[q].pc = "unused" THEN p # none /\ th[p].pc = "unused"
                                                      ELSE p = none
Fresh(r) == CHOOSE i \in Ids : cnt[r][i] = 0

\* eligible_child, eligible_pid and child_wait_callback, for waiter x
EligiblePid(x, p)   == th[x].opt.pid \in {none, p}

\* Faulty variant: __WALL is not looked at.
EligibleChild_NoWall(x, p) ==
    /\ EligiblePid(x, p)
    /\ th[x].opt.clone <=> task[p].exit_signal # "SIGCHLD"

EligibleChild(x, p) ==
    /\ EligiblePid(x, p)
    /\ th[x].opt.all \/ (th[x].opt.clone <=> task[p].exit_signal # "SIGCHLD")

\* The children x looks at: those of its thread, or of its whole group
Waited(x) == UNION {Children(y) : y \in IF th[x].opt.nothread THEN {x}
                                        ELSE Group(task[x].leader)}

\* What do_notify_parent makes of p's exit signal when parent q hears of it
SignalAfter(p, q) == IF task[q].leader \in Ignoring /\ task[p].exit_signal = "SIGCHLD"
                     THEN "detached" ELSE task[p].exit_signal

\* The waiters of q's group that p's death wakes
Woken(p, q) == {x \in Tasks : /\ th[x].pc = "asleep" /\ SameGroup(x, q)
                              /\ EligiblePid(x, p)
                              /\ th[x].opt.nothread => x = q}
Awake(f, ws) == [x \in Tasks |-> IF x \in ws THEN [f[x] EXCEPT !.pc = "scan"] ELSE f[x]]

------------------------------------------------------------------------------
Init ==
    /\ task = [x \in Tasks |->
                 IF x \in {init, first}
                 THEN [Blank EXCEPT !.leader = x, !.real_parent = init, !.usage = 2,
                                    !.hashed = TRUE,
                                    !.res = [r \in Res |-> IF x = init THEN 1 ELSE 2]]
                 ELSE Blank]
    /\ th = [x \in Tasks |-> IF x \in {init, first} THEN Idle
                             ELSE [Idle EXCEPT !.pc = "unused"]]
    /\ sig = [x \in Tasks |-> LET n == IF x \in {init, first} THEN 1 ELSE 0
                              IN [nr |-> n, live |-> n, cnt |-> n, exit |-> FALSE,
                                  code |-> none]]
    /\ cnt = [r \in Res |-> [i \in Ids |-> IF i \in {1, 2} THEN 1 ELSE 0]]
    /\ owner = [i \in Ids |-> IF i = 1 THEN init ELSE IF i = 2 THEN first ELSE none]
    /\ processes = 2
    /\ nr_threads = 2

------------------------------------------------------------------------------
(* do_fork *)

\* The combinations of flags copy_process refuses
FlagsOk(x, flags) ==
    /\ "THREAD" \in flags => "SIGHAND" \in flags
    /\ "SIGHAND" \in flags => "VM" \in flags
    /\ "PARENT" \in flags => task[x].leader # init

\* The structures the child has acquired after a stage
Acquired(n) == {r \in Res : Stage[r] <= n}
Shared(r, flags) == FlagOf[r] \in flags

\* copy_process up to the point where the task would become visible: the new
\* task begins as a copy of x and takes its own references one by one; it may
\* be refused or run out of memory at any stage
Copy(x, p, kind, n) ==
    /\ th[x].pc = "user" /\ ~task[x].kill /\ x # init
    /\ p = Unused
    /\ FlagsOk(x, kind.flags)
    /\ nr_threads >= MaxThreads => n <= Stage.user
    /\ LET res == [r \in Res |-> IF r \in Acquired(n) /\ ~Shared(r, kind.flags)
                                 THEN Fresh(r) ELSE task[x].res[r]]
       IN /\ task' = [task EXCEPT ![p] =
                        [Blank EXCEPT !.leader = p, !.usage = 2, !.res = res,
                              !.exit_signal = IF "THREAD" \in kind.flags
                                              THEN "detached" ELSE kind.sig]]
          /\ cnt' = [r \in Res |-> IF r \in Acquired(n)
                                   THEN [cnt[r] EXCEPT ![res[r]] = @ + 1] ELSE cnt[r]]
          /\ owner' = IF n >= Stage.mm /\ ~Shared("mm", kind.flags)
                      THEN [owner EXCEPT ![res.mm] = p] ELSE owner
    /\ sig' = IF n >= Stage.signal /\ "THREAD" \notin kind.flags
              THEN [sig EXCEPT ![p] = [nr |-> 1, live |-> 1, cnt |-> 1,
                                       exit |-> FALSE, code |-> none]]
              ELSE sig
    /\ processes' = processes + (IF n >= Stage.user THEN 1 ELSE 0)
    /\ th' = [th EXCEPT ![x].pc = IF n = 8 THEN "copied" ELSE "undo",
                        ![x].child = p, ![x].kind = kind.flags, ![x].stage = n,
                        ![p].pc = "new"]
    /\ UNCHANGED nr_threads

\* Faulty variant: an error jumps to the label below the right one.
Undone_TooFew(n) == IF n > 0 THEN Acquired(n - 1) ELSE {}

\* The structures the error path gives back, from the last one acquired
Undone(n) == Acquired(n)

\* The labels bad_fork_cleanup_...: everything acquired is given back and the
\* task structure freed
Undo(x) ==
    /\ th[x].pc = "undo"
    /\ LET p == th[x].child
           n == th[x].stage
       IN /\ cnt' = [r \in Res |-> IF r \in Undone(n)
                                   THEN [cnt[r] EXCEPT ![task[p].res[r]] = @ - 1]
                                   ELSE cnt[r]]
          /\ owner' = IF n >= Stage.mm /\ cnt'.mm[task[p].res.mm] = 0
                      THEN [owner EXCEPT ![task[p].res.mm] = none] ELSE owner
          /\ sig' = IF n >= Stage.signal /\ "THREAD" \notin th[x].kind
                    THEN [sig EXCEPT ![p] = [nr |-> 0, live |-> 0, cnt |-> 0,
                                             exit |-> FALSE, code |-> none]]
                    ELSE sig
          /\ processes' = processes - (IF n >= Stage.user THEN 1 ELSE 0)
          /\ task' = [task EXCEPT ![p] = Blank]
          /\ th' = [th EXCEPT ![p].pc = "unused", ![x] = Idle]
    /\ UNCHANGED nr_threads

\* Faulty variant: a new thread is added although its group is being killed.
MayJoin_AfterKill(x) == TRUE

\* signal_pending, tested under siglock: a task that is to die adds no thread
MayJoin(x) == ~task[x].kill

\* The end of copy_process, under tasklist_lock and siglock
Publish(x) ==
    /\ th[x].pc = "copied" /\ Readers = {}
    /\ LET p == th[x].child
           thread == "THREAD" \in th[x].kind
           l == task[x].leader
       IN IF MayJoin(x)
          THEN /\ task' = [task EXCEPT
                     ![p].hashed = TRUE,
                     ![p].leader = IF thread THEN l ELSE p,
                     ![p].real_parent = IF {"PARENT", "THREAD"} \cap th[x].kind # {}
                                        THEN task[x].real_parent ELSE x]
               /\ sig' = IF thread
                         THEN [sig EXCEPT ![l].nr = @ + 1, ![l].live = @ + 1,
                                          ![l].cnt = @ + 1]
                         ELSE sig
               /\ nr_threads' = nr_threads + 1
               /\ th' = [th EXCEPT ![x].pc = "publ", ![p].pc = "fresh"]
          ELSE /\ th' = At(x, "undo")
               /\ UNCHANGED <<task, sig, nr_threads>>
    /\ UNCHANGED <<cnt, owner, processes>>

\* The rest of do_fork up to wake_up_new_task and the wait of a vfork
Wake(x) ==
    /\ th[x].pc = "publ"
    /\ LET vfork == "VFORK" \in th[x].kind
       IN /\ th' = [th EXCEPT ![th[x].child].pc = "user",
                              ![x].pc = IF vfork THEN "vfork" ELSE "mcc"]
          /\ task' = IF vfork THEN [task EXCEPT ![th[x].child].vfork = x] ELSE task
    /\ UNCHANGED <<sig, cnt, owner, processes, nr_threads>>

\* p->mcc = NULL: the parent writes to the child it has woken
ClearMcc(x) ==
    /\ th[x].pc = "mcc"
    /\ th' = [th EXCEPT ![x] = Idle]
    /\ UNCHANGED <<task, sig, cnt, owner, processes, nr_threads>>

------------------------------------------------------------------------------
(* unshare of files and fs *)

\* Copies what x shares with others; the counts are read without a lock
UnshareCopy(x, rs) ==
    /\ th[x].pc = "user" /\ ~task[x].kill
    /\ \E r \in rs : cnt[r][task[x].res[r]] > 1
    /\ LET new == [r \in {"files", "fs"} |->
                     IF r \in rs /\ cnt[r][task[x].res[r]] > 1 THEN Fresh(r) ELSE 0]
       IN /\ cnt' = [r \in Res |-> IF r \in DOMAIN new /\ new[r] # 0
                                   THEN [cnt[r] EXCEPT ![new[r]] = 1] ELSE cnt[r]]
          /\ th' = [th EXCEPT ![x].pc = "unshare", ![x].new = new]
    /\ UNCHANGED <<task, sig, owner, processes, nr_threads>>

\* Puts the copies in place and drops the old structures
UnshareSwap(x) ==
    /\ th[x].pc = "unshare"
    /\ LET new == th[x].new
           rs  == {r \in DOMAIN new : new[r] # 0}
       IN /\ task' = [task EXCEPT ![x].res =
                        [r \in Res |-> IF r \in rs THEN new[r] ELSE @[r]]]
          /\ cnt' = [r \in Res |-> IF r \in rs
                                   THEN [cnt[r] EXCEPT ![task[x].res[r]] = @ - 1]
                                   ELSE cnt[r]]
    /\ th' = [th EXCEPT ![x] = Idle]
    /\ UNCHANGED <<sig, owner, processes, nr_threads>>

------------------------------------------------------------------------------
(* do_group_exit and do_exit *)

\* The beginning of do_exit: PF_EXITING and signal->live
Exit(x) ==
    /\ task' = [task EXCEPT ![x].exiting = TRUE]
    /\ sig' = [sig EXCEPT ![task[x].leader].live = @ - 1]
    /\ th' = At(x, "exit")

\* exit: this thread only
SysExit(x) ==
    /\ th[x].pc = "user" /\ ~task[x].kill /\ x # init
    /\ Exit(x)
    /\ UNCHANGED <<cnt, owner, processes, nr_threads>>

\* exit_group, or the SIGKILL of one: the state of the group is first looked at
\* without a lock
GroupExit(x) ==
    /\ th[x].pc = "user" /\ x # init
    /\ LET l == task[x].leader
       IN IF sig[l].exit \/ GroupEmpty(l)
          THEN Exit(x)
          ELSE th' = At(x, "zap") /\ UNCHANGED <<task, sig>>
    /\ UNCHANGED <<cnt, owner, processes, nr_threads>>

\* signal_group_exit, the second time, under siglock
Decided(l) == sig[l].exit

\* zap_other_threads (external): SIGKILL to every thread that is not exiting;
\* it ends an interruptible sleep
Zap(x) ==
    /\ th[x].pc = "zap"
    /\ LET l == task[x].leader
           killed == {t \in Group(l) \ {x} : task[t].exit_state = "0"}
       IN IF Decided(l)
          THEN Exit(x)
          ELSE /\ task' = [t \in Tasks |->
                             IF t \in killed THEN [task[t] EXCEPT !.kill = TRUE]
                             ELSE IF t = x THEN [task[x] EXCEPT !.exiting = TRUE]
                             ELSE task[t]]
               /\ sig' = [sig EXCEPT ![l].exit = TRUE, ![l].code = x, ![l].live = @ - 1]
               /\ th' = Awake(At(x, "exit"), {t \in killed : th[t].pc = "asleep"})
    /\ UNCHANGED <<cnt, owner, processes, nr_threads>>

\* mm_release: the parent that waits in vfork goes on
MmRelease(x) ==
    [y \in Tasks |-> IF y = task[x].vfork THEN [th[y] EXCEPT !.pc = "mcc"] ELSE th[y]]

\* The part of exit_mm that takes the address space away
ExitMm(x) ==
    /\ th[x].pc = "exit"
    /\ th' = [MmRelease(x) EXCEPT ![x].pc = "exitmm", ![x].mm = task[x].res.mm]
    /\ task' = [task EXCEPT ![x].res.mm = 0, ![x].vfork = none]
    /\ UNCHANGED <<sig, cnt, owner, processes, nr_threads>>

\* mmput: the owner goes with the last user
MmPut(mm, own) ==
    owner' = IF cnt.mm[mm] = 1 THEN [own EXCEPT ![mm] = none] ELSE own

\* The end of exit_mm, and exit_files and exit_fs after it
Put(x, own) ==
    LET mm == th[x].mm
    IN /\ cnt' = [r \in Res |->
                    CASE r = "mm" -> [cnt.mm EXCEPT ![mm] = @ - 1]
                      [] r \in {"files", "fs"} -> [cnt[r] EXCEPT ![task[x].res[r]] = @ - 1]
                      [] OTHER -> cnt[r]]
       /\ MmPut(mm, own)
       /\ task' = [task EXCEPT ![x].res.files = 0, ![x].res.fs = 0]
       /\ th' = [th EXCEPT ![x].pc = "forget", ![x].mm = 0, ![x].child = none]

\* Where mm_update_next_owner looks for a new owner, in this order
Heirs(x, mm) ==
    LET Users(ts) == {c \in ts : Live(c) /\ task[c].res.mm = mm}
        siblings  == Children(task[x].real_parent)
    IN IF Users(Children(x)) # {} THEN Users(Children(x))
       ELSE IF Users(siblings) # {} THEN Users(siblings)
       ELSE Users(Tasks)

\* mm_update_next_owner: finds an heir, under tasklist_lock
FindOwner(x) ==
    /\ th[x].pc = "exitmm"
    /\ LET mm == th[x].mm
       IN IF cnt.mm[mm] <= 1 \/ owner[mm] # x
          THEN Put(x, owner)
          ELSE IF Heirs(x, mm) = {}
          THEN Put(x, [owner EXCEPT ![mm] = none])
          ELSE /\ \E c \in Heirs(x, mm) : th' = [th EXCEPT ![x].pc = "owner", ![x].child = c]
               /\ UNCHANGED <<task, cnt, owner>>
    /\ UNCHANGED <<sig, processes, nr_threads>>

\* Faulty variant: the heir's mm is not looked at again under its task_lock.
StillUses_NotRechecked(c, mm) == TRUE

\* c->mm == mm, under task_lock(c)
StillUses(c, mm) == task[c].res.mm = mm

\* mm_update_next_owner: makes the heir the owner, or looks again
SetOwner(x) ==
    /\ th[x].pc = "owner"
    /\ LET heir == th[x].child
           mm   == th[x].mm
       IN IF StillUses(heir, mm)
          THEN Put(x, [owner EXCEPT ![mm] = heir])
          ELSE /\ th' = [th EXCEPT ![x].pc = "exitmm", ![x].child = none]
               /\ UNCHANGED <<task, cnt, owner>>
    /\ UNCHANGED <<sig, processes, nr_threads>>

------------------------------------------------------------------------------
(* exit_notify *)

\* Faulty variant: children may be left to a thread that is exiting too.
Adopters_Exiting(x) == Group(task[x].leader) \ {x}

\* find_new_reaper: another thread of the group, or init
Adopters(x) == {t \in Group(task[x].leader) \ {x} : ~Exiting(t)}

\* forget_original_parent: every child, with all its threads, gets another
\* parent; one that has died is reported to it, and is buried here when the new
\* parent does not want to know
Forget(x) ==
    /\ th[x].pc = "forget" /\ Readers = {}
    /\ \E heir \in IF Adopters(x) = {} THEN {init} ELSE Adopters(x) :
         LET threaded == SameGroup(heir, x)
             left     == Children(x)
             reported == {p \in left : /\ ~threaded /\ ~Detached(p)
                                       /\ task[p].exit_state = "zombie" /\ GroupEmpty(p)}
             chld(p)  == IF threaded \/ Detached(p) THEN task[p]
                         ELSE [task[p] EXCEPT !.exit_signal = "SIGCHLD"]
             signal   == IF task[heir].leader \in Ignoring THEN "detached" ELSE "SIGCHLD"
             dead     == IF signal = "detached" THEN reported ELSE {}
         IN /\ task' = [t \in Tasks |->
                  IF ~Live(t) \/ task[t].leader \notin left THEN task[t]
                  ELSE [chld(t) EXCEPT
                          !.real_parent = heir,
                          !.exit_signal = IF t \in reported THEN signal ELSE @,
                          !.exit_state = IF t \in dead THEN "dead" ELSE @]]
            /\ th' = [Awake(th, UNION {Woken(p, heir) : p \in reported})
                        EXCEPT ![x].pc = IF dead = {} THEN "notify" ELSE "bury",
                               ![x].todo = dead]
    /\ UNCHANGED <<sig, cnt, owner, processes, nr_threads>>

\* tracehook_notify_death (external) and do_notify_parent: the task becomes a
\* zombie, or dies at once when nobody will wait for it
Notify(x) ==
    /\ th[x].pc = "notify" /\ Readers = {}
    /\ LET q      == task[x].real_parent
           delay  == task[x].leader = x /\ ~GroupEmpty(x)
           report == ~Detached(x) /\ ~delay
           signal == IF report THEN SignalAfter(x, q) ELSE task[x].exit_signal
           reap   == ~delay /\ signal = "detached"
       IN /\ task' = [task EXCEPT ![x].exit_signal = signal,
                                  ![x].exit_state = IF reap THEN "dead" ELSE "zombie"]
          /\ th' = [Awake(th, IF report THEN Woken(x, q) ELSE {})
                      EXCEPT ![x].pc = IF reap THEN "self" ELSE "last",
                             ![x].todo = IF reap THEN {x} ELSE {}]
    /\ UNCHANGED <<sig, cnt, owner, processes, nr_threads>>

\* Faulty variant: nobody is told that a leader waited only for its threads.
LastOfGroup_Ignored(p, l) == FALSE

\* p was the last thread of a group whose leader is dead
LastOfGroup(p, l) ==
    /\ l # p /\ Group(l) \ {p} = {l} /\ task[l].exit_state = "zombie"

\* Where a task goes when it has buried all it had to
AfterRelease == [bury |-> "notify", self |-> "last", reap |-> "user"]

\* release_task: the task leaves the lists; its leader is reported if it waited
\* for it, and buried too when nobody wants to know
Release(x) ==
    /\ th[x].pc \in DOMAIN AfterRelease /\ Readers = {}
    /\ \E p \in th[x].todo :
         LET l      == task[p].leader
             q      == task[l].real_parent
             last   == LastOfGroup(p, l)
             signal == IF last THEN SignalAfter(l, q) ELSE task[l].exit_signal
             zap    == last /\ signal = "detached"
             todo   == (th[x].todo \ {p}) \cup (IF zap THEN {l} ELSE {})
             pc     == th[x].pc
         IN /\ task' = [task EXCEPT
                          ![l].exit_signal = signal,
                          ![l].exit_state = IF zap THEN "dead" ELSE @,
                          ![p].hashed = FALSE, ![p].rcu = TRUE,
                          ![p].res.sighand = 0]
            /\ sig' = [sig EXCEPT ![l].nr = @ - 1]
            /\ cnt' = [cnt EXCEPT !.sighand[task[p].res.sighand] = @ - 1]
            /\ th' = [Awake(th, IF last THEN Woken(l, q) ELSE {})
                        EXCEPT ![x].todo = todo,
                               ![x].pc = IF todo = {} THEN AfterRelease[pc] ELSE pc]
    /\ processes' = processes - 1
    /\ nr_threads' = nr_threads - 1
    /\ UNCHANGED owner

\* put_task_struct: the last reference frees the structure, and the signal_struct
\* with the last thread
PutTask(p, f) ==
    LET l == task[p].leader
    IN IF task[p].usage > 1
       THEN /\ task' = [task EXCEPT ![p].usage = @ - 1,
                                     ![p].rcu = IF f = th THEN FALSE ELSE @]
            /\ th' = f
            /\ UNCHANGED sig
       ELSE /\ task' = [task EXCEPT ![p] = Blank]
            /\ th' = [f EXCEPT ![p] = [Idle EXCEPT !.pc = "freed"]]
            /\ sig' = IF sig[l].cnt = 1
                      THEN [sig EXCEPT ![l] = [nr |-> 0, live |-> 0, cnt |-> 0,
                                               exit |-> FALSE, code |-> none]]
                      ELSE [sig EXCEPT ![l].cnt = @ - 1]

\* The last schedule() of do_exit: finish_task_switch (external) drops a reference
Last(x) ==
    /\ th[x].pc = "last"
    /\ PutTask(x, At(x, "gone"))
    /\ UNCHANGED <<cnt, owner, processes, nr_threads>>

\* delayed_put_task_struct, after the grace period
Rcu(p) ==
    /\ task[p].rcu
    /\ PutTask(p, th)
    /\ UNCHANGED <<cnt, owner, processes, nr_threads>>

------------------------------------------------------------------------------
(* wait4 and waitid, for children that have died *)

Wait(x, opt) ==
    /\ th[x].pc = "user" /\ ~task[x].kill
    /\ th' = [th EXCEPT ![x].pc = "scan", ![x].opt = opt]
    /\ UNCHANGED <<task, sig, cnt, owner, processes, nr_threads>>

\* wait_consider_task: a leader with threads is not reaped
Reapable(p) == task[p].exit_state = "zombie" /\ GroupEmpty(p)

\* do_wait under tasklist_lock: picks a dead child, goes to sleep when there is
\* one that may still die, or returns
Scan(x) ==
    /\ th[x].pc = "scan"
    /\ LET children == {p \in Waited(x) : EligibleChild(x, p)}
           zombies  == {p \in children : Reapable(p)}
           pending  == {p \in children : task[p].exit_state # "dead"}
       IN IF zombies # {}
          THEN \E p \in zombies : th' = [th EXCEPT ![x].pc = "claim", ![x].child = p]
          ELSE IF pending # {} /\ th[x].opt.hang /\ ~task[x].kill
          THEN th' = At(x, "asleep")
          ELSE th' = [th EXCEPT ![x] = Idle]
    /\ UNCHANGED <<task, sig, cnt, owner, processes, nr_threads>>

\* xchg(&p->exit_state, EXIT_DEAD) == EXIT_ZOMBIE
Won(p) == task[p].exit_state = "zombie"

\* wait_task_zombie: only one waiter gets the child; the others look on
Claim(x) ==
    /\ th[x].pc = "claim"
    /\ LET p == th[x].child
       IN IF Won(p)
          THEN /\ th' = [th EXCEPT ![x].pc = "reap", ![x].todo = {p}, ![x].child = none,
                                   ![x].opt = none]
               /\ task' = [task EXCEPT ![p].exit_state = "dead"]
          ELSE /\ th' = [th EXCEPT ![x].pc = "scan", ![x].child = none]
               /\ UNCHANGED task
    /\ UNCHANGED <<sig, cnt, owner, processes, nr_threads>>

------------------------------------------------------------------------------
\* What a task does in the kernel once it is there
Kernel(x) ==
    \/ Undo(x) \/ Publish(x) \/ Wake(x) \/ ClearMcc(x) \/ UnshareSwap(x)
    \/ Zap(x) \/ ExitMm(x) \/ FindOwner(x) \/ SetOwner(x) \/ Forget(x)
    \/ Notify(x) \/ Release(x) \/ Last(x) \/ Scan(x) \/ Claim(x)

Next ==
    \/ \E x, p \in Tasks : \E kind \in Kinds : \E n \in Fails \cup {8} : Copy(x, p, kind, n)
    \/ \E u \in Unshares : UnshareCopy(u[1], u[2])
    \/ \E x \in Tasks : SysExit(x)
    \/ \E x \in Tasks : GroupExit(x)
    \/ \E x \in Tasks : \E opt \in Opts : Wait(x, opt)
    \/ \E x \in Tasks : Kernel(x)
    \/ \E p \in Tasks : Rcu(p)

Spec == Init /\ [][Next]_vars

\* What x does sooner or later: the kernel runs every task that can run, a killed
\* task does not return to its program, and init waits for children for ever
Must(x) ==
    \/ Kernel(x)
    \/ task[x].kill /\ GroupExit(x)
    \/ x = init /\ \E opt \in Opts : opt.hang /\ opt.all /\ opt.pid = none /\ Wait(x, opt)

FairSpec == Spec /\ \A x \in Tasks : WF_vars(Must(x))

------------------------------------------------------------------------------
(* Properties *)

TypeOK ==
    /\ \A x \in Tasks :
         /\ task[x].leader \in Tasks \cup {none}
         /\ task[x].real_parent \in Tasks \cup {none}
         /\ task[x].exit_signal \in Signals
         /\ task[x].exit_state \in {"0", "zombie", "dead"}
         /\ {task[x].exiting, task[x].kill, task[x].hashed, task[x].rcu} \subseteq BOOLEAN
         /\ task[x].usage \in 0..2 /\ task[x].vfork \in Tasks \cup {none}
         /\ \A r \in Res : task[x].res[r] \in Ids \cup {0}
         /\ th[x].todo \subseteq Tasks /\ th[x].child \in Tasks \cup {none}
         /\ sig[x].nr \in Nat /\ sig[x].live \in Nat /\ sig[x].cnt \in Nat
         /\ sig[x].exit \in BOOLEAN /\ sig[x].code \in Tasks \cup {none}
    /\ cnt \in [Res -> [Ids -> Nat]]
    /\ owner \in [Ids -> Tasks \cup {none}]
    /\ processes \in Nat /\ nr_threads \in Nat

\* The task structures that hold a reference to structure i of kind r: those of
\* tasks under construction that have come so far, and those of the others;
\* a task that exits keeps its mm in a local until mmput
Users(r, i) ==
    {x \in Tasks :
        \/ /\ task[x].res[r] = i
           /\ th[x].pc # "new" \/ \E y \in Tasks : /\ th[y].pc \in {"copied", "undo"}
                                                   /\ th[y].child = x
                                                   /\ r \in Acquired(th[y].stage)
        \/ r = "mm" /\ th[x].mm = i}
\* The copies unshare has made but not yet put in place
Copies(r, i) == {x \in Tasks : r # "mm" /\ r # "sighand" /\ th[x].new[r] = i}

\* Every structure tasks share is counted exactly once for each of them, however
\* their clones fail and their exits interleave: none is freed while somebody
\* uses it and none is leaked.
SharedCounted ==
    \A r \in Res : \A i \in Ids :
        cnt[r][i] = Cardinality(Users(r, i)) + Cardinality(Copies(r, i))

\* Once a group exit is decided, every thread of the group that is not exiting
\* has SIGKILL pending: none joins the group after the others were killed.
NoneEscapes ==
    \A x \in Tasks : Live(x) /\ sig[task[x].leader].exit
                        => task[x].exiting \/ task[x].kill

\* A task that has not died has a parent that can still reap it: one that has
\* not yet given its children away.
ParentsAlive ==
    \A p \in Tasks : Live(p) /\ task[p].exit_state # "dead"
        => LET q == task[task[p].leader].real_parent
           IN Live(q) /\ th[q].pc \notin {"notify", "self", "bury", "last", "gone", "freed"}

\* Nobody sleeps in wait4 while a child it waits for is dead and unreaped.  This
\* is about waiters without __WNOTHREAD.
NoMissedChild ==
    \A x \in Tasks : th[x].pc = "asleep" /\ ~th[x].opt.nothread
        => ~\E p \in Waited(x) : EligibleChild(x, p) /\ Reapable(p)

\* mm->owner->mm == mm, as mm_update_next_owner wants it, unless the owner is
\* on its way out; without an owner, the mm has no user but those on their way out
OwnerUsesMm ==
    \A i \in Ids : cnt.mm[i] > 0
        => LET o == owner[i]
           IN IF o = none THEN ~\E x \in Tasks : Live(x) /\ task[x].res.mm = i
              ELSE task[o].res.mm = i \/ th[o].mm = i

\* A task is buried by one task only, and only when it is EXIT_DEAD
BuriedOnce ==
    \A p \in Tasks :
        LET by == {x \in Tasks : p \in th[x].todo}
        IN /\ Cardinality(by) <= 1
           /\ by # {} => Live(p) /\ task[p].exit_state = "dead"

\* The leader is the last of its group to be released
LeaderLast ==
    \A x \in Tasks : Live(x) => Live(task[x].leader)

\* The family tree while everybody exits: who has not died has a parent that
\* can still bury him, only one does, and leaders go last (forget_original_parent,
\* wait_task_zombie, release_task).
BurialSound == TypeOK /\ ParentsAlive /\ BuriedOnce /\ LeaderLast

\* The exit code of a group is decided once
CodeDecidedOnce ==
    [][\A l \in Tasks : sig[l].exit /\ sig'[l].exit => sig'[l].code = sig[l].code]_vars

\* Again and again init has no child that is dead and has no threads left: what
\* dead parents leave behind is buried in the end
ZombiesBuried ==
    []<>\A p \in Tasks : ~(Live(p) /\ Reapable(p) /\ task[p].real_parent = init)

\* Every group that is told to exit does: no thread of it stays but the dead
\* leader, and those that wait for a vfork child to end
GroupDies ==
    []<>\A l \in Tasks : sig[l].exit
            => \A t \in Group(l) : task[t].exit_state # "0" \/ th[t].pc = "vfork"

\* A group exit is kept: its code is decided once, no thread that is being
\* cloned meanwhile escapes it, and all threads die (do_group_exit, zap_other_threads,
\* the check for a pending signal in copy_process).
GroupExitKept == [][NoneEscapes']_vars /\ CodeDecidedOnce /\ GroupDies

\* Fails: do_fork takes the child's pid "before we wake up the new thread - the thread
\* pointer might get invalid after that point, if the thread exits quickly", and yet
\* clears p->mcc after that point (ClearMcc).
ChildStillThere ==
    \A x \in Tasks : th[x].pc = "mcc" => th[th[x].child].pc # "freed"
=============================================================================
