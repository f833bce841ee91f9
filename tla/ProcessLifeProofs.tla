-------------------------- MODULE ProcessLifeProofs --------------------------
(***************************************************************************)
(* Proofs about ProcessLife.                                               *)
(*                                                                         *)
(* One inductive invariant, IInv, carries all the theorems: every step of  *)
(* the life of a task keeps it (one lemma X..Keeps per action X), and the  *)
(* safety properties that TLC checks follow from it.                       *)
(***************************************************************************)
EXTENDS ProcessLife, FiniteSetTheorems, TLAPS

------------------------------------------------------------------------------
(* The inductive invariant *)

\* The places of a task that has not begun to exit, of one that exits, and of
\* one that is dead
Busy   == {"fresh", "user", "copied", "undo", "publ", "vfork", "mcc", "unshare", "zap",
           "scan", "asleep", "claim", "reap"}
Ending == {"exit", "exitmm", "owner", "forget", "notify", "bury"}
Ended  == {"self", "last", "gone"}
Absent == {"unused", "freed"}

Links == Tasks \cup {none}
Held  == [Res -> Ids \cup {0}]

TaskRecord ==
    [leader : Links, real_parent : Links, exit_signal : Signals,
     exit_state : {"0", "zombie", "dead"}, exiting : BOOLEAN, kill : BOOLEAN,
     usage : 0..2, hashed : BOOLEAN, rcu : BOOLEAN, vfork : Links, res : Held]

ThRecord ==
    [pc : Absent \cup {"new"} \cup Busy \cup Ending \cup Ended, child : Links,
     kind : SUBSET CloneFlags, stage : 0..8, mm : Ids \cup {0}, todo : SUBSET Tasks,
     opt : Opts \cup {none}, new : [{"files", "fs"} -> Ids \cup {0}]]

SigRecord == [nr : Int, live : Int, cnt : Int, exit : BOOLEAN, code : Links]

Types ==
    /\ task \in [Tasks -> TaskRecord]
    /\ th \in [Tasks -> ThRecord]
    /\ sig \in [Tasks -> SigRecord]
    /\ cnt \in [Res -> [Ids -> Int]]
    /\ owner \in [Ids -> Links]
    /\ processes \in Int /\ nr_threads \in Int

\* What the place of task t, with structure k and locals h, says of the structure,
\* and what t holds there
Sound(t, k, h) ==
    /\ h.pc \in Absent => k = Blank
    /\ h.pc = "new" => /\ k.leader = t /\ ~k.hashed /\ k.vfork = none /\ ~k.kill
    /\ h.pc \in Busy \cup Ending => k.hashed
    /\ h.pc \in Busy \cup Ending \cup {"new"}
          => ~k.rcu /\ k.usage = 2 /\ k.exit_state = "0" /\ (k.exiting <=> h.pc \in Ending)
    /\ h.pc \in Ended
          => /\ k.exiting /\ k.exit_state # "0" /\ ~(k.hashed /\ k.rcu)
             /\ k.usage = (IF h.pc = "gone" THEN 0 ELSE 1)
                          + (IF k.hashed \/ k.rcu THEN 1 ELSE 0)
             /\ k.usage # 0
    /\ k.exit_state = "zombie" => k.hashed
    /\ k.res.mm # 0 => h.pc \in Busy \cup {"new", "exit"}
    /\ k.res.files # 0 \/ k.res.fs # 0
          => h.pc \in Busy \cup {"new", "exit", "exitmm", "owner"}
    /\ k.res.sighand # 0 => k.hashed \/ h.pc = "new"
    /\ h.mm # 0 => h.pc \in {"exitmm", "owner"}
    /\ h.new.files # 0 \/ h.new.fs # 0 => h.pc = "unshare"
    /\ h.pc \in {"scan", "asleep", "claim"} => h.opt \in Opts

Phases == \A t \in Tasks : Sound(t, task[t], th[t])

\* A task being made has one maker, which stays what it is meanwhile; a parent in
\* vfork waits for the child that will wake it
Making(y, p) == th[y].pc \in {"copied", "undo", "publ"} /\ th[y].child = p

Makers ==
    /\ \A y \in Tasks : th[y].pc \in {"copied", "undo", "publ"}
          => /\ th[y].child \in Tasks
             /\ th[th[y].child].pc = IF th[y].pc = "publ" THEN "fresh" ELSE "new"
    /\ \A y \in Tasks : th[y].pc = "copied" => th[y].stage = 8
    /\ \A y, z, p \in Tasks : Making(y, p) /\ Making(z, p) => y = z
    /\ \A p \in Tasks : th[p].pc = "new" => \E y \in Tasks : Making(y, p)
    /\ \A c \in Tasks : task[c].vfork # none
          => th[task[c].vfork].pc = "vfork" /\ th[task[c].vfork].child = c

\* Who is to be buried is dead, and one task has him to bury
Buried ==
    /\ \A x \in Tasks : th[x].todo # {} => th[x].pc \in {"bury", "self", "reap"}
    /\ \A x, p \in Tasks : p \in th[x].todo => Live(p) /\ task[p].exit_state = "dead"
    /\ \A x, y, p \in Tasks : p \in th[x].todo /\ p \in th[y].todo => x = y

\* Nobody but l is left in the group of l
Alone(l) == \A t \in Tasks : Live(t) /\ task[t].leader = l => t = l

\* A leader stays while there are threads, is not dead before he is alone, and is
\* alone while a waiter looks at him
Groups ==
    /\ \A t \in Tasks : Live(t) => /\ task[t].leader \in Tasks
                                   /\ Live(task[t].leader)
                                   /\ task[task[t].leader].leader = task[t].leader
    /\ \A l \in Tasks : Live(l) /\ task[l].leader = l /\ task[l].exit_state = "dead"
                           => Alone(l)
    /\ \A x \in Tasks : th[x].pc = "claim" => th[x].child \in Tasks
    /\ \A x, c \in Tasks : th[x].pc = "claim" /\ th[x].child = c
                           => Live(c) /\ task[c].leader = c /\ Alone(c)
    /\ \A t \in Tasks : th[t].pc \notin Absent => task[t].leader \in Tasks
    /\ \A t \in Tasks : th[t].pc \notin Absent /\ task[t].leader # t
          => th[task[t].leader].pc \notin {"unused", "new"}

\* The places of a task that has given its children away
Childless == {"notify", "bury", "self", "last", "gone", "freed"}

\* The parent of a live task is alive and still has its children, and all the
\* threads of a group have the same
Parents ==
    /\ th[init].pc \in {"user", "unshare", "scan", "asleep", "claim", "reap"}
    /\ task[init].leader = init /\ task[init].real_parent = init
    /\ \A t \in Tasks : Live(t) =>
          /\ task[t].real_parent \in Tasks
          /\ task[t].real_parent = task[task[t].leader].real_parent
          /\ Live(task[t].real_parent)
          /\ th[task[t].real_parent].pc \notin Childless

\* A zombie nobody wants to know of still has threads
NoZombieLeft ==
    \A l \in Tasks : Live(l) /\ task[l].leader = l /\ task[l].exit_state = "zombie"
                     /\ Detached(l) => ~Alone(l)

\* Who is to die knows it, and a new process is not to die
Killed ==
    /\ NoneEscapes
    /\ \A p \in Tasks : th[p].pc \in {"unused", "new"} => ~sig[p].exit

\* The new process p has its own signal_struct, or is counted for its user
Maker(y, p) == th[y].pc \in {"copied", "undo"} /\ th[y].child = p
Led(p)      == \E y \in Tasks : /\ Maker(y, p) /\ th[y].stage >= Stage.signal
                                /\ "THREAD" \notin th[y].kind
Begun(p)    == \E y \in Tasks : Maker(y, p) /\ th[y].stage >= Stage.user

\* Those whom nr, live and cnt of l's signal_struct count
Listed(l)  == {t \in Tasks : task[t].leader = l /\ (Live(t) \/ Led(t))}
Staying(l) == {t \in Listed(l) : ~task[t].exiting}
Members(l) == {t \in Tasks : /\ task[t].leader = l
                             /\ th[t].pc \notin Absent \cup {"new"} \/ Led(t)}
Charged    == {t \in Tasks : Live(t) \/ Begun(t)}
Alive      == {t \in Tasks : Live(t)}

SigCounted ==
    /\ \A l \in Tasks : /\ sig[l].nr = Cardinality(Listed(l))
                        /\ sig[l].live = Cardinality(Staying(l))
                        /\ sig[l].cnt = Cardinality(Members(l))
    /\ processes = Cardinality(Charged)
    /\ nr_threads = Cardinality(Alive)

\* The task that y is making owns its mm and is its only user, or it has y's mm
\* and owns none
OwnMm(y) == th[y].stage >= Stage.mm /\ "VM" \notin th[y].kind

NewOwners ==
    /\ \A y, p \in Tasks : Maker(y, p) =>
         LET i == task[p].res.mm
         IN IF OwnMm(y)
            THEN /\ i \in Ids /\ owner[i] = p
                 /\ \A t \in Tasks \ {p} : task[t].res.mm # i /\ th[t].mm # i
            ELSE /\ i = task[y].res.mm
                 /\ \A j \in Ids : cnt.mm[j] > 0 => owner[j] # p
    /\ \A x \in Tasks : th[x].pc = "owner"
          => th[x].child \in Tasks /\ th[th[x].child].pc \notin {"unused", "new"}

\* x sleeps although he could bury p
Missed(x, p) ==
    /\ th[x].pc = "asleep" /\ ~th[x].opt.nothread /\ p # init
    /\ Live(p) /\ task[p].leader = p /\ Alone(p) /\ task[p].exit_state = "zombie"
    /\ Live(task[p].real_parent) /\ SameGroup(task[p].real_parent, x)
    /\ EligibleChild(x, p)

NoneMissed == \A x, p \in Tasks : ~Missed(x, p)

IInv ==
    /\ Types /\ Phases /\ Makers /\ Buried /\ Groups /\ Parents /\ NoZombieLeft
    /\ Killed /\ SharedCounted /\ SigCounted /\ OwnerUsesMm /\ NewOwners /\ NoneMissed

------------------------------------------------------------------------------
(* What a step keeps when it leaves alone what a part is about *)

\* The places where a task is made, and the parent that waits in vfork
MakePcs == {"copied", "undo", "publ", "vfork", "new", "fresh"}

KeepsMaking ==
    \A t \in Tasks :
        /\ th'[t].pc = th[t].pc \/ (th[t].pc \notin MakePcs /\ th'[t].pc \notin MakePcs)
        /\ th[t].pc \in {"copied", "undo", "publ", "vfork"}
              => /\ th'[t].child = th[t].child /\ th'[t].stage = th[t].stage
                 /\ th'[t].kind = th[t].kind

\* The same for the tasks whose making has just begun or fails
KeepsMade ==
    \A t \in Tasks :
        /\ th'[t].pc = "new" <=> th[t].pc = "new"
        /\ th'[t].pc \in {"copied", "undo"} <=> th[t].pc \in {"copied", "undo"}
        /\ th[t].pc \in {"copied", "undo"}
              => /\ th'[t].child = th[t].child /\ th'[t].stage = th[t].stage
                 /\ th'[t].kind = th[t].kind

\* The family tree of those who live
KeepsTree ==
    \A t \in Tasks : /\ task'[t].hashed = task[t].hashed
                     /\ Live(t) => /\ task'[t].leader = task[t].leader
                                   /\ task'[t].real_parent = task[t].real_parent

\* exit_state and exit_signal
KeepsFate ==
    \A t \in Tasks : /\ task'[t].exit_state = task[t].exit_state
                     /\ task'[t].exit_signal = task[t].exit_signal

KeepsHeld ==
    \A t \in Tasks : /\ task'[t].res = task[t].res
                     /\ th'[t].mm = th[t].mm /\ th'[t].new = th[t].new

\* A step that keeps who makes whom keeps who has been made so far.
LEMMA MakingMade == KeepsMaking => KeepsMade
BY DEF KeepsMaking, KeepsMade, MakePcs

\* A step that keeps who makes whom, and lets no parent begin to wait in vfork,
\* keeps Makers.
LEMMA MakersFrame ==
    ASSUME Makers, KeepsMaking, \A c \in Tasks : task'[c].vfork \in {task[c].vfork, none}, Types
    PROVE  Makers'
<1>1. ASSUME NEW y \in Tasks, NEW p \in Tasks PROVE Making(y, p)' <=> Making(y, p)
  BY DEF KeepsMaking, Making, MakePcs
<1>2. ASSUME NEW y \in Tasks, th'[y].pc \in {"copied", "undo", "publ"}
      PROVE  /\ th'[y].child \in Tasks
             /\ th'[th'[y].child].pc = IF th'[y].pc = "publ" THEN "fresh" ELSE "new"
  <2>1. th[y].pc = th'[y].pc /\ th'[y].child = th[y].child /\ th[y].child \in Tasks
    BY <1>2 DEF KeepsMaking, MakePcs, Makers
  <2>2. th[th[y].child].pc = IF th[y].pc = "publ" THEN "fresh" ELSE "new"
    BY <1>2, <2>1 DEF Makers
  <2> QED  BY <2>1, <2>2 DEF KeepsMaking, MakePcs
<1>3. ASSUME NEW y \in Tasks, th'[y].pc = "copied" PROVE th'[y].stage = 8
  BY <1>3 DEF KeepsMaking, MakePcs, Makers
<1>4. ASSUME NEW p \in Tasks, th'[p].pc = "new" PROVE \E y \in Tasks : Making(y, p)'
  <2>1. th[p].pc = "new"
    BY <1>4 DEF KeepsMaking, MakePcs
  <2>2. PICK y \in Tasks : Making(y, p)
    BY <2>1 DEF Makers
  <2> QED  BY <1>1, <2>2
<1>5. ASSUME NEW y \in Tasks, NEW z \in Tasks, NEW p \in Tasks, Making(y, p)', Making(z, p)'
      PROVE  y = z
  BY <1>1, <1>5 DEF Makers
<1>6. ASSUME NEW c \in Tasks, task'[c].vfork # none
      PROVE  th'[task'[c].vfork].pc = "vfork" /\ th'[task'[c].vfork].child = c
  <2>1. task'[c].vfork = task[c].vfork /\ task[c].vfork \in Tasks
    BY <1>6 DEF Types, TaskRecord, Links
  <2>2. th[task[c].vfork].pc = "vfork" /\ th[task[c].vfork].child = c
    BY <1>6, <2>1 DEF Makers
  <2> QED  BY <2>1, <2>2 DEF KeepsMaking, MakePcs
<1> QED  BY <1>2, <1>3, <1>4, <1>5, <1>6 DEF Makers

\* A step that keeps the tasks whose making has begun keeps their makers, and what
\* the counts take them for.
LEMMA MakerFrame ==
    ASSUME KeepsMade
    PROVE  /\ \A y, p \in Tasks : Maker(y, p)' <=> Maker(y, p)
           /\ \A y, p \in Tasks : Maker(y, p) => /\ th'[y].stage = th[y].stage
                                                 /\ th'[y].kind = th[y].kind
           /\ \A p \in Tasks : (Led(p)' <=> Led(p)) /\ (Begun(p)' <=> Begun(p))
<1>1. ASSUME NEW y \in Tasks, NEW p \in Tasks
      PROVE  /\ Maker(y, p)' <=> Maker(y, p)
             /\ Maker(y, p) => th'[y].stage = th[y].stage /\ th'[y].kind = th[y].kind
  BY DEF KeepsMade, Maker
<1>2. ASSUME NEW p \in Tasks PROVE (Led(p)' <=> Led(p)) /\ (Begun(p)' <=> Begun(p))
  BY <1>1 DEF Led, Begun
<1> QED  BY <1>1, <1>2

\* A step after which everybody has the same dead to bury keeps Buried.
LEMMA BuriedFrame ==
    ASSUME Buried,
           \A t \in Tasks : /\ th'[t].todo = th[t].todo
                            /\ th'[t].pc = th[t].pc \/ th[t].pc \notin {"bury", "self", "reap"}
                            /\ Live(t) /\ task[t].exit_state = "dead"
                                  => task'[t].hashed /\ task'[t].exit_state = "dead"
    PROVE  Buried'
BY DEF Buried, Live

\* A step that moves no live task between groups, and lets no leader die before he
\* is alone, keeps Groups.
LEMMA GroupsFrame ==
    ASSUME Groups,
           \A t \in Tasks :
              /\ task'[t].hashed = task[t].hashed
              /\ Live(t) \/ th'[t].pc \notin Absent => task'[t].leader = task[t].leader
              /\ Live(t) /\ task'[t].exit_state = "dead" /\ task[t].leader = t
                    => task[t].exit_state = "dead" \/ Alone(t)
              /\ th'[t].pc = "claim" => th[t].pc = "claim" /\ th'[t].child = th[t].child
              /\ th'[t].pc \notin Absent => th[t].pc \notin Absent
              /\ th'[t].pc \in {"unused", "new"} => th[t].pc \in {"unused", "new"}
    PROVE  Groups'
<1>1. ASSUME NEW l \in Tasks, Alone(l) PROVE Alone(l)'
  BY <1>1 DEF Alone, Live
<1>2. ASSUME NEW t \in Tasks, Live(t)'
      PROVE  task'[t].leader \in Tasks /\ Live(task[t].leader)'
             /\ task'[task'[t].leader].leader = task'[t].leader
  BY <1>2 DEF Groups, Live
<1>3. ASSUME NEW l \in Tasks, Live(l)', task'[l].leader = l, task'[l].exit_state = "dead"
      PROVE  Alone(l)'
  BY <1>1, <1>3 DEF Groups, Live
<1>4. ASSUME NEW x \in Tasks, NEW c \in Tasks, th'[x].pc = "claim", th'[x].child = c
      PROVE  Live(c)' /\ task'[c].leader = c /\ Alone(c)'
  <2>1. Live(c) /\ task[c].leader = c /\ Alone(c)
    BY <1>4 DEF Groups
  <2> QED  BY <1>1, <2>1 DEF Live
<1>5. \A t \in Tasks : th'[t].pc \notin Absent => task'[t].leader \in Tasks
  BY DEF Groups
<1>6. \A t \in Tasks : th'[t].pc \notin Absent /\ task'[t].leader # t
                          => th'[task'[t].leader].pc \notin {"unused", "new"}
  BY DEF Groups
<1>7. \A t \in Tasks : Live(t)' =>
          /\ task'[t].leader \in Tasks
          /\ Live(task[t].leader)'
          /\ task'[task'[t].leader].leader = task'[t].leader
  BY <1>2
<1>8. \A l \in Tasks : Live(l)' /\ task'[l].leader = l /\ task'[l].exit_state = "dead"
                           => Alone(l)'
  BY <1>3
<1>9. \A x, c \in Tasks : th'[x].pc = "claim" /\ th'[x].child = c
                           => Live(c)' /\ task'[c].leader = c /\ Alone(c)'
  BY <1>4
<1>10. \A x \in Tasks : th'[x].pc = "claim" => th'[x].child \in Tasks
  BY DEF Groups
<1> QED  BY <1>5, <1>6, <1>7, <1>8, <1>9, <1>10 DEF Groups

\* A step that keeps the family tree, and in which nobody gives his children away,
\* keeps Parents.
LEMMA ParentsFrame ==
    ASSUME Parents, Groups, Phases, KeepsTree,
           \A t \in Tasks : th'[t].pc \in Childless => th[t].pc \in Childless,
           th'[init].pc \in {"user", "unshare", "scan", "asleep", "claim", "reap"}
    PROVE  Parents'
<1>1. ASSUME NEW t \in Tasks, Live(t)'
      PROVE  /\ task'[t].real_parent \in Tasks
             /\ task'[t].real_parent = task'[task'[t].leader].real_parent
             /\ Live(task[t].real_parent)'
             /\ th'[task'[t].real_parent].pc \notin Childless
  <2>1. Live(t)
    BY <1>1 DEF KeepsTree, Live
  <2>2. PICK q, l \in Tasks : /\ q = task[t].real_parent /\ l = task[t].leader
                             /\ q = task[l].real_parent /\ Live(q)
                             /\ th[q].pc \notin Childless
    BY <2>1 DEF Parents, Groups
  <2>3. Live(q)' /\ th'[q].pc \notin Childless /\ task'[l].real_parent = task[l].real_parent
    BY <2>1, <2>2 DEF KeepsTree, Live, Groups
  <2>4. task'[t].real_parent = q /\ task'[t].leader = l
    BY <2>1, <2>2 DEF KeepsTree
  <2> QED  BY <2>2, <2>3, <2>4
<1>2. task'[init].leader = init /\ task'[init].real_parent = init
  <2>1. Live(init)
    BY TasksAssumption DEF Parents, Phases, Sound, Busy, Live
  <2> QED  BY <2>1, TasksAssumption DEF Parents, KeepsTree
<1> QED  BY <1>1, <1>2 DEF Parents

\* A step that makes no zombie and detaches none keeps NoZombieLeft.
LEMMA NoZombieFrame ==
    ASSUME NoZombieLeft, KeepsTree,
           \A t \in Tasks : Live(t) /\ task'[t].exit_state = "zombie" /\ Detached(t)'
                               => task[t].exit_state = "zombie" /\ Detached(t) 
    PROVE  NoZombieLeft'
BY DEF NoZombieLeft, Live, KeepsTree, Alone

\* A step that adds nobody to a group, tells no group to exit and takes no SIGKILL
\* back keeps Killed.
LEMMA KilledFrame ==
    ASSUME Killed,
           \A t \in Tasks :
              /\ Live(t)' => Live(t) /\ task'[t].leader = task[t].leader /\ task[t].leader \in Tasks
              /\ Live(t)' /\ (task[t].exiting \/ task[t].kill) => task'[t].exiting \/ task'[t].kill
              /\ th'[t].pc \in {"unused", "new"} => th[t].pc \in {"unused", "new"}
              /\ sig'[t].exit => sig[t].exit
    PROVE  Killed'
BY DEF Killed, NoneEscapes, Live

\* A step that takes and drops no reference keeps SharedCounted.
LEMMA SharedFrame ==
    ASSUME SharedCounted, KeepsMade, KeepsHeld, cnt' = cnt
    PROVE  SharedCounted'
<1>1. ASSUME NEW x \in Tasks, NEW r \in Res
      PROVE  (\E y \in Tasks : /\ th'[y].pc \in {"copied", "undo"} /\ th'[y].child = x
                               /\ r \in Acquired(th'[y].stage))
             <=> (\E y \in Tasks : /\ th[y].pc \in {"copied", "undo"} /\ th[y].child = x
                                   /\ r \in Acquired(th[y].stage))
  BY DEF KeepsMade
<1>2. ASSUME NEW r \in Res, NEW i \in Ids
      PROVE  Users(r, i)' = Users(r, i) /\ Copies(r, i)' = Copies(r, i)
  <2>1. \A x \in Tasks : th'[x].pc = "new" <=> th[x].pc = "new"
    BY DEF KeepsMade
  <2> QED  BY <1>1, <2>1 DEF Users, Copies, KeepsHeld
<1> QED  BY <1>2 DEF SharedCounted

\* A step that keeps the members of the groups and their counts keeps SigCounted.
LEMMA SigFrame ==
    ASSUME SigCounted, KeepsMade,
           \A t \in Tasks : /\ task'[t].hashed = task[t].hashed
                            /\ task'[t].leader = task[t].leader
                            /\ task'[t].exiting = task[t].exiting
                            /\ th'[t].pc \in Absent <=> th[t].pc \in Absent
                            /\ sig'[t].nr = sig[t].nr /\ sig'[t].live = sig[t].live
                            /\ sig'[t].cnt = sig[t].cnt,
           UNCHANGED <<processes, nr_threads>>
    PROVE  SigCounted'
<1>1. ASSUME NEW l \in Tasks
      PROVE  Listed(l)' = Listed(l) /\ Staying(l)' = Staying(l)
  BY MakerFrame DEF Listed, Staying, Live
<1>2. ASSUME NEW l \in Tasks PROVE  Members(l)' = Members(l)
  <2>1. \A x \in Tasks : th'[x].pc = "new" <=> th[x].pc = "new"
    BY DEF KeepsMade
  <2>2. \A t \in Tasks : Led(t)' <=> Led(t)
    BY MakerFrame
  <2> QED  BY <2>1, <2>2 DEF Members
<1>3. Charged' = Charged /\ Alive' = Alive
  BY MakerFrame DEF Charged, Alive, Live
<1> QED  BY <1>1, <1>2, <1>3 DEF SigCounted

\* A step that changes neither an mm nor an owner keeps OwnerUsesMm.
LEMMA OwnersFrame ==
    ASSUME OwnerUsesMm, owner' = owner, cnt'.mm = cnt.mm, Types,
           \A t \in Tasks : /\ task'[t].res.mm = task[t].res.mm /\ th'[t].mm = th[t].mm
                            /\ Live(t)' => Live(t)
    PROVE  OwnerUsesMm'
BY SMTT(60) DEF OwnerUsesMm, Live, Types, Links

\* A step that changes neither an mm nor an owner keeps what the makers know of them.
LEMMA NewOwnersFrame ==
    ASSUME NewOwners, KeepsMade, owner' = owner, cnt'.mm = cnt.mm,
           \A t \in Tasks :
              /\ task'[t].res.mm = task[t].res.mm /\ th'[t].mm = th[t].mm
              /\ th'[t].pc = "owner" => th[t].pc = "owner" /\ th'[t].child = th[t].child
              /\ th'[t].pc \in {"unused", "new"} => th[t].pc \in {"unused", "new"}
    PROVE  NewOwners'
<1>1. ASSUME NEW y \in Tasks, NEW p \in Tasks, Maker(y, p)'
      PROVE  Maker(y, p) /\ (OwnMm(y)' <=> OwnMm(y))
  BY <1>1, MakerFrame DEF OwnMm
<1> QED  BY <1>1 DEF NewOwners

\* A step in which nobody falls asleep or dies misses nobody.
LEMMA MissedFrame ==
    ASSUME NoneMissed, Parents, Phases, KeepsTree,
           \A t \in Tasks :
              /\ th'[t].pc = "asleep" => th[t].pc = "asleep" /\ th'[t].opt = th[t].opt
              /\ Live(t) /\ task'[t].exit_state = "zombie"
                    => task[t].exit_state = "zombie" /\ task'[t].exit_signal = task[t].exit_signal
    PROVE  NoneMissed'
<1> SUFFICES ASSUME NEW x \in Tasks, NEW p \in Tasks, Missed(x, p)' PROVE Missed(x, p)
  BY DEF NoneMissed
<1> DEFINE q == task[p].real_parent
<1>1. Live(p) /\ task[p].leader = p /\ task'[p].real_parent = q /\ Alone(p)
  BY DEF Missed, KeepsTree, Live, Alone
<1>2. q \in Tasks
  BY <1>1 DEF Parents
<1> HIDE DEF q
<1>3. Live(q) /\ SameGroup(q, x)
  <2>1. th[x].pc = "asleep"
    BY DEF Missed
  <2>2. Live(x)
    BY <2>1 DEF Phases, Sound, Busy, Live
  <2> QED  BY <1>1, <1>2, <2>2 DEF Missed, KeepsTree, Live, SameGroup
<1>4. /\ th[x].pc = "asleep" /\ th'[x].opt = th[x].opt
      /\ task[p].exit_state = "zombie" /\ task'[p].exit_signal = task[p].exit_signal
  BY <1>1 DEF Missed
<1>5. EligibleChild(x, p) /\ ~th[x].opt.nothread /\ p # init
  BY <1>4 DEF Missed, EligibleChild, EligiblePid
<1> QED  BY <1>1, <1>3, <1>4, <1>5 DEF Missed, q
------------------------------------------------------------------------------
(* Steps that change only the locals of one task *)

Local == {"user", "mcc", "zap", "scan", "asleep", "claim", "exitmm", "owner"}

\* A step that changes nothing but the locals of a task that makes nobody keeps the
\* invariant, when the new place is sound, what it looks at is a dead leader that is
\* alone, and a task that falls asleep misses nobody.
LEMMA LocalStep ==
    ASSUME IInv, UNCHANGED <<task, sig, cnt, owner, processes, nr_threads>>,
           NEW x \in Tasks, NEW h \in ThRecord, th' = [th EXCEPT ![x] = h],
           th[x].pc \in Local, h.pc \in Local, Sound(x, task[x], h),
           h.mm = th[x].mm, h.new = th[x].new, h.todo = {},
           x = init => h.pc \in {"user", "scan", "asleep", "claim"},
           h.pc = "claim" => /\ h.child \in Tasks /\ Live(h.child)
                             /\ task[h.child].leader = h.child /\ Alone(h.child),
           h.pc = "owner" => h.child \in Tasks /\ th[h.child].pc \notin {"unused", "new"},
           h.pc = "asleep" /\ ~h.opt.nothread => \A p \in Tasks : ~Missed(x, p)'
    PROVE  IInv'
<1> USE DEF IInv
<1>1. th' \in [Tasks -> ThRecord] /\ th'[x] = h /\ \A t \in Tasks \ {x} : th'[t] = th[t]
  BY DEF Types
<1>2. Types'
  BY <1>1 DEF Types
<1>3. Phases'
  BY <1>1 DEF Phases
<1>4. th[x].todo = {}
  BY DEF Buried, Local
<1>5. KeepsMaking
  <2>1. th[x].pc \notin MakePcs /\ th'[x].pc \notin MakePcs
    BY <1>1 DEF MakePcs, Local
  <2> QED  BY <1>1, <2>1 DEF KeepsMaking, MakePcs
<1>6. KeepsTree /\ KeepsFate /\ KeepsHeld
  BY <1>1 DEF KeepsTree, KeepsFate, KeepsHeld
<1>7. Makers'
  BY <1>5, MakersFrame
<1>8. Buried'
  BY <1>1, <1>4, BuriedFrame DEF Local, Live
<1>9. Groups'
  <2>1. ASSUME NEW l \in Tasks, Alone(l) PROVE Alone(l)'
    BY <2>1 DEF Alone, Live
  <2>2. \A t \in Tasks : Live(t)' =>
            /\ task'[t].leader \in Tasks
            /\ Live(task[t].leader)'
            /\ task'[task'[t].leader].leader = task'[t].leader
    BY DEF Groups, Live
  <2>3. \A l \in Tasks : Live(l)' /\ task'[l].leader = l /\ task'[l].exit_state = "dead"
                             => Alone(l)'
    BY <2>1 DEF Groups, Live
  <2>4. ASSUME NEW y \in Tasks, NEW c \in Tasks, th'[y].pc = "claim", th'[y].child = c
        PROVE  Live(c)' /\ task'[c].leader = c /\ Alone(c)'
    <3>1. Live(c) /\ task[c].leader = c /\ Alone(c)
      BY <1>1, <2>4 DEF Groups
    <3> QED  BY <2>1, <3>1 DEF Live
  <2>5. \A y \in Tasks : th'[y].pc = "claim" => th'[y].child \in Tasks
    BY <1>1 DEF Groups
  <2>6. \A t \in Tasks : th'[t].pc \in Absent \cup {"new"} <=> th[t].pc \in Absent \cup {"new"}
    BY <1>1 DEF Local, Absent
  <2>7. \A t \in Tasks : th'[t].pc \notin Absent => task'[t].leader \in Tasks
    BY <1>1 DEF Groups, Local, Absent
  <2>8. \A t \in Tasks : th'[t].pc \notin Absent /\ task'[t].leader # t
                             => th'[task'[t].leader].pc \notin {"unused", "new"}
    BY <1>1, <2>7 DEF Groups, Local, Absent
  <2> QED  BY <2>2, <2>3, <2>4, <2>5, <2>7, <2>8 DEF Groups
<1>10. Parents'
  BY <1>1, <1>6, ParentsFrame DEF Childless, Local, Parents
<1>11. NoZombieLeft'
  BY <1>6, NoZombieFrame DEF KeepsFate, Detached
<1>12. Killed'
  BY <1>1, KilledFrame DEF Local, Live, Groups
<1>13. SharedCounted'
  BY <1>5, <1>6, SharedFrame, MakingMade
<1>14. SigCounted'
  BY <1>1, <1>5, SigFrame, MakingMade DEF Local, Absent
<1>15. OwnerUsesMm'
  BY <1>1, OwnersFrame DEF Live
<1>16. NewOwners'
  <2>1. \A y, p \in Tasks : (Maker(y, p)' <=> Maker(y, p))
                            /\ (Maker(y, p) => (OwnMm(y)' <=> OwnMm(y)))
    BY <1>5, MakerFrame, MakingMade DEF OwnMm
  <2>2. \A t \in Tasks : th'[t].mm = th[t].mm
    BY <1>1
  <2>3. \A y, p \in Tasks : Maker(y, p)' =>
          LET i == task'[p].res.mm
          IN IF OwnMm(y)'
             THEN /\ i \in Ids /\ owner'[i] = p
                  /\ \A t \in Tasks \ {p} : task'[t].res.mm # i /\ th'[t].mm # i
             ELSE /\ i = task'[y].res.mm
                  /\ \A j \in Ids : cnt'.mm[j] > 0 => owner'[j] # p
    BY <2>1, <2>2 DEF NewOwners
  <2>4. ASSUME NEW y \in Tasks, th'[y].pc = "owner"
        PROVE  th'[y].child \in Tasks /\ th'[th'[y].child].pc \notin {"unused", "new"}
    BY <1>1, <2>4 DEF NewOwners, Local
  <2> QED  BY <2>3, <2>4 DEF NewOwners
<1>17. NoneMissed'
  <2> SUFFICES ASSUME NEW y \in Tasks, NEW p \in Tasks, Missed(y, p)' PROVE FALSE
    BY DEF NoneMissed
  <2>1. CASE y = x
    BY <1>1, <2>1 DEF Missed
  <2>2. CASE y # x
    <3>1. th'[y] = th[y] /\ (Alone(p)' <=> Alone(p))
      BY <1>1, <2>2 DEF Alone, Live
    <3>2. Missed(y, p)
      BY <3>1 DEF Missed, Live, SameGroup, EligibleChild, EligiblePid
    <3> QED  BY <3>2 DEF NoneMissed
  <2> QED  BY <2>1, <2>2
<1> QED  BY <1>2, <1>3, <1>7, <1>8, <1>9, <1>10, <1>11, <1>12, <1>13, <1>14, <1>15, <1>16, <1>17

\* Back to the program
LEMMA BackHome ==
    ASSUME IInv, NEW x \in Tasks, th[x].pc \in {"mcc", "scan"}
    PROVE  /\ Idle \in ThRecord /\ Sound(x, task[x], Idle)
           /\ Idle.mm = th[x].mm /\ Idle.new = th[x].new /\ Idle.todo = {}
           /\ Idle.pc = "user"
<1>1. Idle \in ThRecord /\ Idle.mm = 0 /\ Idle.todo = {} /\ Idle.pc = "user"
      /\ Idle.new = [r \in {"files", "fs"} |-> 0]
  BY DEF Idle, ThRecord, Links, Busy
<1>2. th[x] \in ThRecord /\ Sound(x, task[x], th[x])
  BY DEF IInv, Types, Phases
<1>3. th[x].mm = 0 /\ th[x].new.files = 0 /\ th[x].new.fs = 0
  BY <1>2 DEF Sound
<1>4. th[x].new = Idle.new
  BY <1>1, <1>2, <1>3 DEF ThRecord
<1>5. Sound(x, task[x], Idle)
  BY <1>1, <1>2 DEF Sound, Busy, Ending, Ended, Absent
<1> QED  BY <1>1, <1>3, <1>4, <1>5

\* Clearing the child's mcc, the end of do_fork, keeps the invariant.
LEMMA ClearMccKeeps ==
    ASSUME IInv, NEW x \in Tasks, ClearMcc(x)
    PROVE  IInv'
<1>1. th[x].pc = "mcc" /\ th' = [th EXCEPT ![x] = Idle]
      /\ UNCHANGED <<task, sig, cnt, owner, processes, nr_threads>>
  BY DEF ClearMcc
<1>2. x # init
  BY <1>1 DEF IInv, Parents
<1> QED  BY <1>1, <1>2, BackHome, LocalStep DEF Local

\* The beginning of wait4 keeps the invariant.
LEMMA WaitKeeps ==
    ASSUME IInv, NEW x \in Tasks, NEW opt \in Opts, Wait(x, opt)
    PROVE  IInv'
<1> DEFINE h == [th[x] EXCEPT !.pc = "scan", !.opt = opt]
<1>1. /\ th[x].pc = "user" /\ th' = [th EXCEPT ![x].pc = "scan", ![x].opt = opt]
      /\ UNCHANGED <<task, sig, cnt, owner, processes, nr_threads>>
  BY DEF Wait
<1>2. th[x] \in ThRecord /\ Sound(x, task[x], th[x]) /\ th \in [Tasks -> ThRecord]
      /\ th[x].todo = {}
  BY <1>1 DEF IInv, Types, Phases, Buried
<1>3. th' = [th EXCEPT ![x] = h]
  BY <1>1, <1>2
<1>4. /\ h \in ThRecord /\ h.pc = "scan" /\ h.opt = opt /\ h.mm = th[x].mm
      /\ h.new = th[x].new /\ h.todo = {}
  BY <1>2 DEF ThRecord, Busy
<1> HIDE DEF h
<1>5. Sound(x, task[x], h)
  BY <1>1, <1>2, <1>4 DEF Sound, Busy, Ending, Ended, Absent
<1> QED  BY <1>1, <1>3, <1>4, <1>5, LocalStep DEF Local

\* Looking for a dead child keeps the invariant: who falls asleep has found none.
LEMMA ScanKeeps ==
    ASSUME IInv, NEW x \in Tasks, Scan(x)
    PROVE  IInv'
<1> DEFINE children == {p \in Waited(x) : EligibleChild(x, p)}
           zombies  == {p \in children : Reapable(p)}
           pending  == {p \in children : task[p].exit_state # "dead"}
<1>1. th[x].pc = "scan" /\ UNCHANGED <<task, sig, cnt, owner, processes, nr_threads>>
  BY DEF Scan
<1>2. th[x] \in ThRecord /\ Sound(x, task[x], th[x]) /\ th \in [Tasks -> ThRecord]
      /\ th[x].todo = {}
  BY <1>1 DEF IInv, Types, Phases, Buried
<1>3. \/ \E p \in zombies : th' = [th EXCEPT ![x].pc = "claim", ![x].child = p]
      \/ zombies = {} /\ th' = At(x, "asleep")
      \/ th' = [th EXCEPT ![x] = Idle]
  BY DEF Scan
<1>4. ASSUME NEW p \in zombies, th' = [th EXCEPT ![x].pc = "claim", ![x].child = p]
      PROVE  IInv'
  <2> DEFINE h == [th[x] EXCEPT !.pc = "claim", !.child = p]
  <2>1. p \in Tasks /\ Live(p) /\ task[p].leader = p /\ Alone(p)
    <3>1. p \in Waited(x) /\ Reapable(p)
      BY <1>4
    <3>2. p \in Tasks /\ Live(p) /\ task[p].leader = p
      BY <3>1 DEF Waited, Children
    <3>3. GroupEmpty(p)
      BY <3>1 DEF Reapable
    <3> QED  BY <3>2, <3>3 DEF GroupEmpty, Group, Alone
  <2>2. th' = [th EXCEPT ![x] = h]
    BY <1>2, <1>4
  <2>3. /\ h \in ThRecord /\ h.pc = "claim" /\ h.opt = th[x].opt /\ h.mm = th[x].mm
        /\ h.new = th[x].new /\ h.todo = {} /\ h.child = p
    BY <1>2, <2>1 DEF ThRecord, Busy, Links
  <2> HIDE DEF h
  <2>4. Sound(x, task[x], h)
    BY <1>1, <1>2, <2>3 DEF Sound, Busy, Ending, Ended, Absent
  <2>5. PICK g \in ThRecord : g = h
    BY <2>3
  <2> QED  BY <1>1, <2>1, <2>2, <2>3, <2>4, <2>5, LocalStep DEF Local
<1>5. ASSUME zombies = {}, th' = At(x, "asleep") PROVE IInv'
  <2> DEFINE h == [th[x] EXCEPT !.pc = "asleep"]
  <2>2. th' = [th EXCEPT ![x] = h]
    BY <1>2, <1>5 DEF At
  <2>3. /\ h \in ThRecord /\ h.pc = "asleep" /\ h.opt = th[x].opt /\ h.mm = th[x].mm
        /\ h.new = th[x].new /\ h.todo = {}
    BY <1>2 DEF ThRecord, Busy
  <2> HIDE DEF h
  <2>4. Sound(x, task[x], h)
    BY <1>1, <1>2, <2>3 DEF Sound, Busy, Ending, Ended, Absent
  <2>5. ASSUME ~h.opt.nothread, NEW p \in Tasks, Missed(x, p)' PROVE FALSE
    <3>1. th'[x] = h
      BY <1>2, <2>2
    <3>2. /\ p # init /\ Live(p) /\ task[p].leader = p /\ Alone(p)
          /\ task[p].exit_state = "zombie" /\ Live(task[p].real_parent)
          /\ SameGroup(task[p].real_parent, x) /\ EligibleChild(x, p)
      BY <1>1, <2>3, <2>5, <3>1
         DEF Missed, Live, Alone, SameGroup, EligibleChild, EligiblePid
    <3>3. task[p].real_parent \in Tasks
      BY <3>2 DEF IInv, Parents
    <3>4. task[p].real_parent \in Group(task[x].leader)
      BY <3>2, <3>3 DEF Group, SameGroup
    <3>5. p \in Waited(x)
      BY <2>3, <2>5, <3>2, <3>4 DEF Waited, Children
    <3>6. Reapable(p)
      BY <3>2 DEF Reapable, GroupEmpty, Group, Alone
    <3> QED  BY <1>5, <3>2, <3>5, <3>6
  <2>6. PICK g \in ThRecord : g = h
    BY <2>3
  <2> QED  BY <1>1, <2>2, <2>3, <2>4, <2>5, <2>6, LocalStep DEF Local
<1>6. ASSUME th' = [th EXCEPT ![x] = Idle] PROVE IInv'
  BY <1>1, <1>6, BackHome, LocalStep DEF Local
<1> QED  BY <1>3, <1>4, <1>5, <1>6

------------------------------------------------------------------------------
(* Counting *)

\* A set of tasks that loses a member counts one less.
LEMMA CountLess ==
    ASSUME NEW S \in SUBSET Tasks, NEW x \in S
    PROVE  Cardinality(S \ {x}) = Cardinality(S) - 1 /\ Cardinality(S) \in Nat
BY TasksAssumption, FS_Subset, FS_RemoveElement, FS_CardinalityType

\* A set of tasks that gets a new member counts one more.
LEMMA CountMore ==
    ASSUME NEW S \in SUBSET Tasks, NEW x \in Tasks \ S
    PROVE  Cardinality(S \cup {x}) = Cardinality(S) + 1 /\ Cardinality(S) \in Nat
BY TasksAssumption, FS_Subset, FS_AddElement, FS_CardinalityType

\* The tasks in a set can be counted.
LEMMA CountType ==
    ASSUME NEW S \in SUBSET Tasks
    PROVE  Cardinality(S) \in Nat
BY TasksAssumption, FS_Subset, FS_CardinalityType

------------------------------------------------------------------------------
(* The beginning of an exit *)

\* Tasks that are woken up differ only in their place.
LEMMA AwakeFields ==
    ASSUME NEW f \in [Tasks -> ThRecord], NEW ws \in SUBSET Tasks,
           \A w \in ws : f[w].pc = "asleep"
    PROVE  /\ Awake(f, ws) \in [Tasks -> ThRecord]
           /\ \A t \in Tasks : LET h == Awake(f, ws)[t]
                 IN /\ h.child = f[t].child /\ h.kind = f[t].kind
                    /\ h.stage = f[t].stage /\ h.mm = f[t].mm
                    /\ h.todo = f[t].todo /\ h.opt = f[t].opt /\ h.new = f[t].new
                    /\ t \in ws => h.pc = "scan"
                    /\ t \notin ws => h.pc = f[t].pc /\ h = f[t]
<1>1. ASSUME NEW t \in ws
      PROVE  LET h == [f[t] EXCEPT !.pc = "scan"]
             IN /\ h \in ThRecord /\ h.child = f[t].child /\ h.kind = f[t].kind
                /\ h.stage = f[t].stage /\ h.mm = f[t].mm
                /\ h.todo = f[t].todo /\ h.opt = f[t].opt /\ h.new = f[t].new
                /\ h.pc = "scan"
  <2>1. f[t] \in ThRecord
    OBVIOUS
  <2> QED  BY <2>1 DEF ThRecord, Busy
<1> QED  BY <1>1 DEF Awake

\* x begins to exit and may tell K to die.
LEMMA LeavesKeeps ==
    ASSUME IInv, NEW x \in Tasks \ {init}, th[x].pc \in {"user", "zap"},
           NEW K \in SUBSET (Tasks \ {x}), \A t \in K : Live(t) /\ task[t].exit_state = "0",
           task' = [t \in Tasks |-> IF t \in K THEN [task[t] EXCEPT !.kill = TRUE]
                                    ELSE IF t = x THEN [task[x] EXCEPT !.exiting = TRUE]
                                    ELSE task[t]],
           th' = Awake(At(x, "exit"), {t \in K : th[t].pc = "asleep"}),
           NEW s \in SigRecord, sig' = [sig EXCEPT ![task[x].leader] = s],
           s.nr = sig[task[x].leader].nr, s.live = sig[task[x].leader].live - 1,
           s.cnt = sig[task[x].leader].cnt,
           s.exit => \/ sig[task[x].leader].exit
                     \/ K = {t \in Group(task[x].leader) \ {x} : task[t].exit_state = "0"},
           UNCHANGED <<cnt, owner, processes, nr_threads>>
    PROVE  IInv'
<1> USE DEF IInv
<1> DEFINE W == {t \in K : th[t].pc = "asleep"}
<1>1. /\ \A t \in Tasks : task[t] \in TaskRecord /\ th[t] \in ThRecord
      /\ \A t \in Tasks : Sound(t, task[t], th[t])
      /\ Live(x) /\ task[x].leader \in Tasks
  <2>1. \A t \in Tasks : /\ task[t] \in TaskRecord /\ th[t] \in ThRecord
                         /\ Sound(t, task[t], th[t])
    BY DEF Types, Phases
  <2>2. Live(x)
    BY <2>1 DEF Sound, Live, Busy
  <2> QED  BY <2>1, <2>2 DEF Groups
<1>2. ASSUME NEW t \in Tasks
      PROVE  /\ task'[t] \in TaskRecord
             /\ task'[t].leader = task[t].leader /\ task'[t].real_parent = task[t].real_parent
             /\ task'[t].exit_signal = task[t].exit_signal
             /\ task'[t].exit_state = task[t].exit_state
             /\ task'[t].usage = task[t].usage /\ task'[t].hashed = task[t].hashed
             /\ task'[t].rcu = task[t].rcu /\ task'[t].vfork = task[t].vfork
             /\ task'[t].res = task[t].res
             /\ task'[t].exiting = IF t = x THEN TRUE ELSE task[t].exiting
             /\ task'[t].kill = IF t \in K THEN TRUE ELSE task[t].kill
  <2>1. task[t] \in TaskRecord /\ (t \in K => t # x)
    BY <1>1
  <2>2. CASE t \in K
    <3>1. task'[t] = [task[t] EXCEPT !.kill = TRUE]
      BY <2>2
    <3> QED  BY <2>1, <2>2, <3>1 DEF TaskRecord
  <2>3. CASE t = x
    <3>1. task'[t] = [task[t] EXCEPT !.exiting = TRUE]
      BY <2>1, <2>3
    <3> QED  BY <2>1, <2>3, <3>1 DEF TaskRecord
  <2>4. CASE t \notin K /\ t # x
    BY <2>1, <2>4
  <2> QED  BY <2>2, <2>3, <2>4
<1>3. /\ At(x, "exit") \in [Tasks -> ThRecord]
      /\ \A t \in Tasks \ {x} : At(x, "exit")[t] = th[t]
      /\ LET h == At(x, "exit")[x]
         IN /\ h.child = th[x].child /\ h.kind = th[x].kind
            /\ h.stage = th[x].stage /\ h.mm = th[x].mm /\ h.todo = th[x].todo
            /\ h.opt = th[x].opt /\ h.new = th[x].new /\ h.pc = "exit"
  <2>1. At(x, "exit") = [th EXCEPT ![x] = [th[x] EXCEPT !.pc = "exit"]]
    BY DEF At, Types
  <2>2. LET h == [th[x] EXCEPT !.pc = "exit"]
        IN /\ h.child = th[x].child /\ h.kind = th[x].kind
           /\ h.stage = th[x].stage /\ h.mm = th[x].mm /\ h.todo = th[x].todo
           /\ h.opt = th[x].opt /\ h.new = th[x].new /\ h.pc = "exit"
           /\ h \in ThRecord
    BY <1>1 DEF ThRecord, Ending
  <2> QED  BY <2>1, <2>2 DEF Types
<1>4. /\ th' \in [Tasks -> ThRecord]
      /\ \A t \in Tasks :
           /\ th'[t].child = th[t].child /\ th'[t].kind = th[t].kind
           /\ th'[t].stage = th[t].stage /\ th'[t].mm = th[t].mm /\ th'[t].todo = th[t].todo
           /\ th'[t].opt = th[t].opt /\ th'[t].new = th[t].new
           /\ t \in W => th'[t].pc = "scan" /\ th[t].pc = "asleep"
           /\ t \notin W /\ t # x => th'[t].pc = th[t].pc
      /\ th'[x].pc = "exit"
  <2>1. W \in SUBSET Tasks /\ \A w \in W : At(x, "exit")[w].pc = "asleep"
    BY <1>3
  <2>2. PICK g \in [Tasks -> ThRecord] : g = At(x, "exit")
    BY <1>3
  <2>3. th' = Awake(g, W) /\ \A w \in W : g[w].pc = "asleep"
    BY <2>1, <2>2
  <2>4. /\ g[x].child = th[x].child /\ g[x].kind = th[x].kind
        /\ g[x].stage = th[x].stage /\ g[x].mm = th[x].mm /\ g[x].todo = th[x].todo
        /\ g[x].opt = th[x].opt /\ g[x].new = th[x].new /\ g[x].pc = "exit"
        /\ \A t \in Tasks \ {x} : g[t] = th[t]
    BY <1>3, <2>2
  <2>5. x \notin W
    OBVIOUS
  <2> HIDE DEF W, IInv
  <2>6. /\ th' \in [Tasks -> ThRecord]
        /\ \A t \in Tasks :
             /\ th'[t].child = g[t].child /\ th'[t].kind = g[t].kind
             /\ th'[t].stage = g[t].stage /\ th'[t].mm = g[t].mm
             /\ th'[t].todo = g[t].todo /\ th'[t].opt = g[t].opt /\ th'[t].new = g[t].new
             /\ t \in W => th'[t].pc = "scan"
             /\ t \notin W => th'[t].pc = g[t].pc
    BY ONLY <2>1, <2>3, AwakeFields
  <2>7. \A t \in W : th[t].pc = "asleep"
    BY ONLY <2>1, <2>3, <2>4, <2>5
  <2>8. th'[x].pc = "exit"
    BY ONLY <2>4, <2>5, <2>6
  <2>9. ASSUME NEW t \in Tasks
        PROVE  /\ th'[t].child = th[t].child /\ th'[t].kind = th[t].kind
               /\ th'[t].stage = th[t].stage /\ th'[t].mm = th[t].mm
               /\ th'[t].todo = th[t].todo /\ th'[t].opt = th[t].opt
               /\ th'[t].new = th[t].new
               /\ t \in W => th'[t].pc = "scan" /\ th[t].pc = "asleep"
               /\ t \notin W /\ t # x => th'[t].pc = th[t].pc
    <3>1. CASE t = x
      BY ONLY <2>4, <2>5, <2>6, <3>1
    <3>2. CASE t # x
      <4>1. g[t] = th[t]
        BY <2>4, <3>2
      <4> QED  BY ONLY <2>6, <2>7, <4>1
    <3> QED  BY <3>1, <3>2
  <2> QED  BY ONLY <2>6, <2>8, <2>9
<1> HIDE DEF W
<1>5. Types'
  <2>1. task' \in [Tasks -> TaskRecord]
    BY <1>2
  <2> QED  BY <1>4, <2>1 DEF Types
<1>6. ASSUME NEW t \in Tasks PROVE Sound(t, task'[t], th'[t])
  <2>1. Sound(t, task[t], th[t])
    BY <1>1
  <2>2. CASE t = x
    <3>1. /\ task'[x].leader = task[x].leader /\ task'[x].exit_state = task[x].exit_state
          /\ task'[x].usage = task[x].usage /\ task'[x].hashed = task[x].hashed
          /\ task'[x].rcu = task[x].rcu /\ task'[x].vfork = task[x].vfork
          /\ task'[x].res = task[x].res /\ task'[x].exiting = TRUE
      BY <1>2
    <3>2. th'[x].pc = "exit" /\ th'[x].mm = th[x].mm /\ th'[x].new = th[x].new
      BY <1>4
    <3>3. th[x].pc \in Busy
      BY <1>1 DEF Busy
    <3>4. Sound(x, task[x], th[x])
      BY <1>1
    <3>5. th[x].pc # "unshare"
      BY <1>1
    <3>6. Sound(x, task'[x], th'[x])
      BY ONLY <3>1, <3>2, <3>3, <3>4, <3>5, SMTT(60) DEF Sound, Busy, Ending, Ended, Absent
    <3> QED  BY <2>2, <3>6
  <2>3. CASE t # x /\ t \in K
    <3>1. Live(t) /\ task[t].exit_state = "0"
      BY <2>3
    <3>2. th[t].pc \in Busy \cup Ending
      BY <1>1, <2>1, <3>1 DEF Sound, Live, Blank, Absent, Ended, ThRecord
    <3>3. th'[t].pc \in Busy \cup Ending
          /\ (th'[t].pc = th[t].pc \/ (th'[t].pc = "scan" /\ th[t].pc = "asleep"))
      BY <1>4, <2>3, <3>2 DEF Busy
    <3>4. /\ task'[t].leader = task[t].leader /\ task'[t].hashed = task[t].hashed
          /\ task'[t].vfork = task[t].vfork /\ task'[t].rcu = task[t].rcu
          /\ task'[t].usage = task[t].usage /\ task'[t].exit_state = task[t].exit_state
          /\ task'[t].exiting = task[t].exiting /\ task'[t].res = task[t].res
      <4>1. task'[t].exiting = IF t = x THEN TRUE ELSE task[t].exiting
        BY <1>2
      <4> QED  BY <1>2, <2>3, <4>1
    <3>7. th'[t].mm = th[t].mm /\ th'[t].new = th[t].new /\ th'[t].opt = th[t].opt
      BY <1>4
    <3>5. CASE th'[t].pc = th[t].pc
      BY <2>1, <3>2, <3>4, <3>5, <3>7, ZenonT(60) DEF Sound, Busy, Ending, Ended, Absent
    <3>6. CASE th'[t].pc = "scan" /\ th[t].pc = "asleep"
      BY <2>1, <3>4, <3>6, <3>7, ZenonT(60) DEF Sound, Busy, Ending, Ended, Absent
    <3> QED  BY <3>3, <3>5, <3>6
  <2>4. CASE t # x /\ t \notin K
    <3>1. task'[t] = task[t] /\ t \notin W
      BY <2>4 DEF W
    <3>2. th'[t] = th[t]
      BY <1>3, <2>4, <3>1, AwakeFields DEF W
    <3> QED  BY <2>1, <3>1, <3>2
  <2> QED  BY <2>2, <2>3, <2>4
<1>7. Phases'
  BY <1>6 DEF Phases

<1>8. KeepsMaking
  <2>1. th'[x].pc \notin MakePcs /\ th[x].pc \notin MakePcs
    BY <1>4 DEF MakePcs
  <2>2. \A t \in W : th'[t].pc \notin MakePcs /\ th[t].pc \notin MakePcs
    BY <1>4 DEF MakePcs, W
  <2> QED  BY <1>4, <2>1, <2>2 DEF KeepsMaking, MakePcs
<1>9. KeepsTree /\ KeepsFate /\ KeepsHeld
  BY <1>2, <1>4 DEF KeepsTree, KeepsFate, KeepsHeld
<1>10. Makers'
  BY <1>2, <1>8, MakersFrame
<1>11. Buried'
  <2>1. \A t \in Tasks : /\ th'[t].todo = th[t].todo
                         /\ th'[t].pc = th[t].pc \/ th[t].pc \notin {"bury", "self", "reap"}
                         /\ Live(t) /\ task[t].exit_state = "dead"
                                  => task'[t].hashed /\ task'[t].exit_state = "dead"
    <3> SUFFICES ASSUME NEW t \in Tasks
                 PROVE  /\ th'[t].todo = th[t].todo
                        /\ th'[t].pc = th[t].pc \/ th[t].pc \notin {"bury", "self", "reap"}
                        /\ Live(t) /\ task[t].exit_state = "dead"
                                  => task'[t].hashed /\ task'[t].exit_state = "dead"
      OBVIOUS
    <3>1. th'[t].todo = th[t].todo
      BY <1>4
    <3>2. task'[t].hashed = task[t].hashed /\ task'[t].exit_state = task[t].exit_state
      BY <1>2
    <3>3. th'[t].pc = th[t].pc \/ th[t].pc \notin {"bury", "self", "reap"}
      BY <1>4
    <3> QED  BY ONLY <3>1, <3>2, <3>3 DEF Live
  <2> QED  BY <2>1, BuriedFrame
<1>12. \A t \in Tasks : /\ th'[t].pc \in Absent <=> th[t].pc \in Absent
                        /\ th'[t].pc \in {"unused", "new"} <=> th[t].pc \in {"unused", "new"}
                        /\ th'[t].pc \notin {"claim", "owner", "asleep"} \/ th'[t].pc = th[t].pc
                        /\ th'[t].pc \in Childless => th[t].pc \in Childless
  <2> SUFFICES ASSUME NEW t \in Tasks
               PROVE  /\ th'[t].pc \in Absent <=> th[t].pc \in Absent
                      /\ th'[t].pc \in {"unused", "new"} <=> th[t].pc \in {"unused", "new"}
                      /\ th'[t].pc \notin {"claim", "owner", "asleep"} \/ th'[t].pc = th[t].pc
                      /\ th'[t].pc \in Childless => th[t].pc \in Childless
    OBVIOUS
  <2>1. CASE t = x
    <3>1. th'[t].pc = "exit" /\ th[t].pc \in {"user", "zap"}
      BY <1>4, <2>1
    <3> QED  BY ONLY <3>1 DEF Absent, Childless
  <2>2. CASE t \in W
    <3>1. th'[t].pc = "scan" /\ th[t].pc = "asleep"
      BY <1>4, <2>2
    <3> QED  BY ONLY <3>1 DEF Absent, Childless
  <2>3. CASE t \notin W /\ t # x
    <3>1. th'[t].pc = th[t].pc
      BY <1>4, <2>3
    <3> QED  BY ONLY <3>1
  <2> QED  BY <2>1, <2>2, <2>3
<1>13. Groups'
  <2>1. \A t \in Tasks :
              /\ task'[t].hashed = task[t].hashed
              /\ Live(t) \/ th'[t].pc \notin Absent => task'[t].leader = task[t].leader
              /\ Live(t) /\ task'[t].exit_state = "dead" /\ task[t].leader = t
                    => task[t].exit_state = "dead" \/ Alone(t)
              /\ th'[t].pc = "claim" => th[t].pc = "claim" /\ th'[t].child = th[t].child
              /\ th'[t].pc \notin Absent => th[t].pc \notin Absent
              /\ th'[t].pc \in {"unused", "new"} => th[t].pc \in {"unused", "new"}
    <3> SUFFICES ASSUME NEW t \in Tasks
                 PROVE  /\ task'[t].hashed = task[t].hashed
                        /\ task'[t].leader = task[t].leader
                        /\ task'[t].exit_state = task[t].exit_state
                        /\ th'[t].pc = "claim" => th[t].pc = "claim"
                        /\ th'[t].child = th[t].child
                        /\ th'[t].pc \notin Absent => th[t].pc \notin Absent
                        /\ th'[t].pc \in {"unused", "new"} => th[t].pc \in {"unused", "new"}
      BY Zenon
    <3>1. /\ task'[t].hashed = task[t].hashed /\ task'[t].leader = task[t].leader
          /\ task'[t].exit_state = task[t].exit_state
      BY <1>2
    <3>2. th'[t].child = th[t].child
      BY <1>4
    <3>3. /\ th'[t].pc = "claim" => th[t].pc = "claim"
          /\ th'[t].pc \notin Absent => th[t].pc \notin Absent
          /\ th'[t].pc \in {"unused", "new"} => th[t].pc \in {"unused", "new"}
      BY <1>12
    <3> QED  BY ONLY <3>1, <3>2, <3>3
  <2> QED  BY <2>1, GroupsFrame
<1>14. Parents'
  <2>1. th'[init].pc \in {"user", "unshare", "scan", "asleep", "claim", "reap"}
    BY <1>4, TasksAssumption DEF Parents
  <2> QED  BY <1>9, <1>12, <2>1, ParentsFrame
<1>15. NoZombieLeft'
  BY <1>9, NoZombieFrame DEF KeepsFate, Detached
<1>16. Killed'
  <2> DEFINE l == task[x].leader
  <2>1. \A p \in Tasks : sig'[p] = IF p = l THEN s ELSE sig[p]
    BY DEF Types
  <2>2. ASSUME NEW t \in Tasks, Live(t)', sig'[task'[t].leader].exit
        PROVE  task'[t].exiting \/ task'[t].kill
    <3>1. Live(t) /\ task'[t].leader = task[t].leader /\ task[t].leader \in Tasks
      BY <1>2, <2>2 DEF Live, Groups
    <3>2. CASE sig[task[t].leader].exit
      <4>1. task[t].exiting \/ task[t].kill
        BY <3>1, <3>2 DEF Killed, NoneEscapes
      <4> QED  BY <1>2, <4>1
    <3>3. CASE ~sig[task[t].leader].exit
      <4>1. task[t].leader = l /\ s.exit
        BY <2>1, <2>2, <3>1, <3>3
      <4>2. K = {u \in Group(l) \ {x} : task[u].exit_state = "0"}
        BY <3>3, <4>1
      <4>3. t = x \/ t \in K \/ task[t].exit_state # "0"
        BY <3>1, <4>1, <4>2 DEF Group
      <4>4. task[t].exit_state # "0" => task[t].exiting
        BY <1>1, <3>1 DEF Sound, Live, Busy, Ending, Ended, Absent, Blank, ThRecord
      <4> QED  BY <1>2, <4>3, <4>4
    <3> QED  BY <3>2, <3>3
  <2>3. th[l].pc \notin {"unused", "new"}
    <3>1. Live(l) /\ l \in Tasks
      BY <1>1 DEF Groups
    <3> HIDE DEF l
    <3> QED  BY <1>1, <3>1 DEF Sound, Live, Absent, Blank
  <2>4. \A p \in Tasks : th'[p].pc \in {"unused", "new"} => ~sig'[p].exit
    BY <1>12, <2>1, <2>3 DEF Killed
  <2> QED  BY <2>2, <2>4 DEF Killed, NoneEscapes
<1>17. SharedCounted'
  BY <1>8, <1>9, SharedFrame, MakingMade
<1>18. SigCounted'
  <2>1. PICK l \in Tasks : l = task[x].leader
    BY <1>1
  <2>2. \A p \in Tasks : Led(p)' <=> Led(p)
    BY <1>8, MakerFrame, MakingMade
  <2>3. \A p \in Tasks : th'[p].pc = "new" <=> th[p].pc = "new"
    BY <1>12, <1>4
  <2>4. \A p \in Tasks : Listed(p)' = Listed(p) /\ Members(p)' = Members(p)
    <3>1. \A t \in Tasks : /\ task'[t].leader = task[t].leader /\ Live(t)' = Live(t)
                           /\ Led(t)' <=> Led(t)
                           /\ th'[t].pc \in Absent \cup {"new"}
                                 <=> th[t].pc \in Absent \cup {"new"}
      <4>1. \A t \in Tasks : task'[t].leader = task[t].leader /\ Live(t)' = Live(t)
        BY <1>2 DEF Live
      <4>2. \A t \in Tasks : th'[t].pc \in Absent \cup {"new"}
                                 <=> th[t].pc \in Absent \cup {"new"}
        BY <1>12, <2>3
      <4> HIDE DEF IInv
      <4> QED  BY ONLY <2>2, <4>1, <4>2
    <3> QED  BY ONLY <3>1 DEF Listed, Members
  <2>5. \A p \in Tasks : Staying(p)' = IF p = l THEN Staying(p) \ {x} ELSE Staying(p)
    <3>1. \A t \in Tasks : task'[t].exiting = IF t = x THEN TRUE ELSE task[t].exiting
      BY <1>2
    <3>2. \A p \in Tasks : p # l => x \notin Listed(p)
      BY <2>1 DEF Listed
    <3>3. \A p \in Tasks : Listed(p)' = Listed(p) /\ Listed(p) \in SUBSET Tasks
      BY <2>4 DEF Listed
    <3> QED  BY ONLY <3>1, <3>2, <3>3 DEF Staying
  <2>6. x \in Staying(l) /\ Staying(l) \in SUBSET Tasks
    BY <1>1, <2>1 DEF Staying, Listed, Sound, Busy, Ending
  <2>7. Cardinality(Staying(l) \ {x}) = Cardinality(Staying(l)) - 1
    BY <2>6, CountLess
  <2>8. \A p \in Tasks : sig'[p] = IF p = l THEN s ELSE sig[p]
    BY <2>1 DEF Types
  <2>9. Charged' = Charged /\ Alive' = Alive
    BY <1>2, <1>8, MakerFrame, MakingMade DEF Charged, Alive, Live
  <2>10. ASSUME NEW p \in Tasks
         PROVE  /\ sig'[p].nr = Cardinality(Listed(p)')
                /\ sig'[p].live = Cardinality(Staying(p)')
                /\ sig'[p].cnt = Cardinality(Members(p)')
    <3>1. sig[p].nr = Cardinality(Listed(p)) /\ sig[p].live = Cardinality(Staying(p))
          /\ sig[p].cnt = Cardinality(Members(p))
      BY DEF SigCounted
    <3> QED  BY <2>1, <2>4, <2>5, <2>7, <2>8, <3>1
  <2> QED  BY <2>9, <2>10 DEF SigCounted
<1>19. OwnerUsesMm'
  BY <1>2, <1>4, OwnersFrame DEF Live
<1>20. NewOwners'
  <2>1. \A t \in Tasks :
           /\ task'[t].res.mm = task[t].res.mm /\ th'[t].mm = th[t].mm
           /\ th'[t].pc = "owner" => th[t].pc = "owner" /\ th'[t].child = th[t].child
           /\ th'[t].pc \in {"unused", "new"} => th[t].pc \in {"unused", "new"}
    <3> SUFFICES ASSUME NEW t \in Tasks
                 PROVE  /\ task'[t].res.mm = task[t].res.mm /\ th'[t].mm = th[t].mm
                        /\ th'[t].pc = "owner" => th[t].pc = "owner" /\ th'[t].child = th[t].child
                        /\ th'[t].pc \in {"unused", "new"} => th[t].pc \in {"unused", "new"}
      OBVIOUS
    <3>1. /\ task'[t].res = task[t].res /\ th'[t].mm = th[t].mm /\ th'[t].child = th[t].child
      BY <1>2, <1>4
    <3>2. /\ th'[t].pc = "owner" => th[t].pc = "owner"
          /\ th'[t].pc \in {"unused", "new"} => th[t].pc \in {"unused", "new"}
      BY <1>12
    <3> QED  BY ONLY <3>1, <3>2
  <2> QED  BY <1>8, <2>1, NewOwnersFrame, MakingMade
<1>21. NoneMissed'
  <2>1. \A t \in Tasks :
              /\ th'[t].pc = "asleep" => th[t].pc = "asleep" /\ th'[t].opt = th[t].opt
              /\ Live(t) /\ task'[t].exit_state = "zombie"
                    => task[t].exit_state = "zombie" /\ task'[t].exit_signal = task[t].exit_signal
    <3> SUFFICES ASSUME NEW t \in Tasks
                 PROVE  /\ th'[t].pc = "asleep" => th[t].pc = "asleep" /\ th'[t].opt = th[t].opt
                        /\ Live(t) /\ task'[t].exit_state = "zombie"
                              => /\ task[t].exit_state = "zombie"
                                 /\ task'[t].exit_signal = task[t].exit_signal
      OBVIOUS
    <3>1. /\ task'[t].exit_state = task[t].exit_state
          /\ task'[t].exit_signal = task[t].exit_signal
      BY <1>2
    <3>2. th'[t].opt = th[t].opt
      BY <1>4
    <3>3. th'[t].pc = "asleep" => th[t].pc = "asleep"
      BY <1>12
    <3> QED  BY ONLY <3>1, <3>2, <3>3
  <2> QED  BY <1>9, <2>1, MissedFrame
<1> QED  BY <1>5, <1>7, <1>10, <1>11, <1>13, <1>14, <1>15, <1>16, <1>17, <1>18, <1>19, <1>20, <1>21

\* The beginning of do_exit keeps the invariant: the task leaves those that signal->live
\* counts.
LEMMA ExitKeeps ==
    ASSUME IInv, NEW x \in Tasks \ {init}, th[x].pc \in {"user", "zap"}, Exit(x),
           UNCHANGED <<cnt, owner, processes, nr_threads>>
    PROVE  IInv'
<1> USE DEF IInv
<1>1. task \in [Tasks -> TaskRecord] /\ th \in [Tasks -> ThRecord] /\ sig \in [Tasks -> SigRecord]
  BY DEF Types
<1>2. PICK l \in Tasks : l = task[x].leader
  <2>1. Sound(x, task[x], th[x])
    BY DEF Phases
  <2> QED  BY <2>1 DEF Sound, Busy, Groups, Live
<1>3. PICK s \in SigRecord : s = [sig[l] EXCEPT !.live = @ - 1]
  <2>1. sig[l] \in SigRecord
    BY <1>1
  <2>2. [sig[l] EXCEPT !.live = @ - 1] \in SigRecord
    BY <2>1 DEF SigRecord
  <2> QED  BY <2>2
<1>4. s.nr = sig[l].nr /\ s.live = sig[l].live - 1 /\ s.cnt = sig[l].cnt
      /\ s.exit = sig[l].exit
  <2>1. sig[l] \in SigRecord
    BY <1>1
  <2> QED  BY <1>3, <2>1 DEF SigRecord
<1>5. sig' = [sig EXCEPT ![l] = s]
  BY <1>1, <1>2, <1>3 DEF Exit
<1>6. task' = [t \in Tasks |-> IF t \in {} THEN [task[t] EXCEPT !.kill = TRUE]
                               ELSE IF t = x THEN [task[x] EXCEPT !.exiting = TRUE]
                               ELSE task[t]]
  BY <1>1 DEF Exit
<1>7. th' = Awake(At(x, "exit"), {t \in {} : th[t].pc = "asleep"})
  BY <1>1 DEF Exit, At, Awake
<1>8. PICK K \in SUBSET (Tasks \ {x}) : K = {}
  OBVIOUS
<1>9. /\ task' = [t \in Tasks |-> IF t \in K THEN [task[t] EXCEPT !.kill = TRUE]
                                  ELSE IF t = x THEN [task[x] EXCEPT !.exiting = TRUE]
                                  ELSE task[t]]
      /\ th' = Awake(At(x, "exit"), {t \in K : th[t].pc = "asleep"})
  BY <1>6, <1>7, <1>8
<1> HIDE DEF IInv
<1> QED  BY <1>2, <1>4, <1>5, <1>8, <1>9, LeavesKeeps

\* exit keeps the invariant.
LEMMA SysExitKeeps ==
    ASSUME IInv, NEW x \in Tasks, SysExit(x)
    PROVE  IInv'
BY ExitKeeps DEF SysExit

\* The first look of do_group_exit keeps the invariant.
LEMMA GroupExitKeeps ==
    ASSUME IInv, NEW x \in Tasks, GroupExit(x)
    PROVE  IInv'
<1> DEFINE h == [th[x] EXCEPT !.pc = "zap"]
<1>1. th[x].pc = "user" /\ x # init /\ UNCHANGED <<cnt, owner, processes, nr_threads>>
  BY DEF GroupExit
<1>2. CASE Exit(x)
  BY <1>1, <1>2, ExitKeeps
<1>3. CASE th' = At(x, "zap") /\ UNCHANGED <<task, sig>>
  <2>1. th[x] \in ThRecord /\ Sound(x, task[x], th[x]) /\ th \in [Tasks -> ThRecord]
        /\ th[x].todo = {}
    BY <1>1 DEF IInv, Types, Phases, Buried
  <2>2. th' = [th EXCEPT ![x] = h]
    BY <1>3, <2>1 DEF At
  <2>3. /\ h \in ThRecord /\ h.pc = "zap" /\ h.opt = th[x].opt /\ h.mm = th[x].mm
        /\ h.new = th[x].new /\ h.todo = {}
    BY <2>1 DEF ThRecord, Busy
  <2> HIDE DEF h
  <2>4. Sound(x, task[x], h)
    BY <1>1, <2>1, <2>3 DEF Sound, Busy, Ending, Ended, Absent
  <2>5. PICK g \in ThRecord : g = h
    BY <2>3
  <2> QED  BY <1>1, <1>3, <2>2, <2>3, <2>4, <2>5, LocalStep DEF Local
<1> QED  BY <1>2, <1>3 DEF GroupExit

\* The decision of do_group_exit keeps the invariant: every thread that is not exiting
\* is killed with it.
LEMMA ZapKeeps ==
    ASSUME IInv, NEW x \in Tasks, Zap(x)
    PROVE  IInv'
<1> USE DEF IInv
<1>1. /\ task \in [Tasks -> TaskRecord] /\ th \in [Tasks -> ThRecord]
      /\ sig \in [Tasks -> SigRecord] /\ Sound(x, task[x], th[x])
  BY DEF Types, Phases
<1>2. th[x].pc = "zap" /\ UNCHANGED <<cnt, owner, processes, nr_threads>>
  BY DEF Zap
<1>3. x \in Tasks \ {init} /\ Live(x)
  BY <1>1, <1>2 DEF Parents, Sound, Busy, Live
<1>4. PICK l \in Tasks : l = task[x].leader
  BY <1>3 DEF Groups
<1>5. CASE Decided(l)
  BY <1>2, <1>3, <1>4, <1>5, ExitKeeps DEF Zap
<1>6. CASE ~Decided(l)
  <2> DEFINE K == {t \in Group(l) \ {x} : task[t].exit_state = "0"}
  <2>1. PICK s \in SigRecord : s = [sig[l] EXCEPT !.exit = TRUE, !.code = x, !.live = @ - 1]
    <3>1. sig[l] \in SigRecord
      BY <1>1
    <3>2. sig[l].live - 1 \in Int /\ x \in Links
      BY <3>1 DEF SigRecord, Links
    <3>3. [sig[l] EXCEPT !.exit = TRUE, !.code = x, !.live = sig[l].live - 1] \in SigRecord
      BY <3>1, <3>2 DEF SigRecord
    <3> QED  BY <3>1, <3>3 DEF SigRecord
  <2>2. s.nr = sig[l].nr /\ s.live = sig[l].live - 1 /\ s.cnt = sig[l].cnt
    <3>1. sig[l] \in SigRecord
      BY <1>1
    <3> QED  BY <2>1, <3>1 DEF SigRecord
  <2>3. /\ task' = [t \in Tasks |-> IF t \in K THEN [task[t] EXCEPT !.kill = TRUE]
                                    ELSE IF t = x THEN [task[x] EXCEPT !.exiting = TRUE]
                                    ELSE task[t]]
        /\ sig' = [sig EXCEPT ![l].exit = TRUE, ![l].code = x, ![l].live = @ - 1]
        /\ th' = Awake(At(x, "exit"), {t \in K : th[t].pc = "asleep"})
    BY <1>4, <1>6 DEF Zap
  <2>4. sig' = [sig EXCEPT ![l] = s]
    BY <1>1, <2>1, <2>3
  <2>5. K \in SUBSET (Tasks \ {x}) /\ \A t \in K : Live(t) /\ task[t].exit_state = "0"
    BY DEF Group
  <2>6. PICK J \in SUBSET (Tasks \ {x}) : J = K
    BY <2>5
  <2> QED
    <3> HIDE DEF K
    <3>1. /\ task' = [t \in Tasks |-> IF t \in J THEN [task[t] EXCEPT !.kill = TRUE]
                                      ELSE IF t = x THEN [task[x] EXCEPT !.exiting = TRUE]
                                      ELSE task[t]]
          /\ th' = Awake(At(x, "exit"), {t \in J : th[t].pc = "asleep"})
      BY <2>3, <2>6
    <3>2. J = {t \in Group(task[x].leader) \ {x} : task[t].exit_state = "0"}
      BY <1>4, <2>6 DEF K
    <3> HIDE DEF IInv
    <3> QED  BY <1>2, <1>3, <1>4, <2>2, <2>4, <2>5, <2>6, <3>1, <3>2, LeavesKeeps
<1> QED  BY <1>5, <1>6

------------------------------------------------------------------------------
(* Steps that bury, or report a death *)

\* A step that neither makes nor frees a task, nor changes what anybody holds.
LEMMA QuietParts ==
    ASSUME IInv, KeepsMaking, KeepsHeld,
           UNCHANGED <<sig, cnt, owner, processes, nr_threads>>,
           \A t \in Tasks :
              /\ task'[t].hashed = task[t].hashed /\ task'[t].leader = task[t].leader
              /\ task'[t].vfork = task[t].vfork
              /\ task'[t].exiting = task[t].exiting /\ task'[t].kill = task[t].kill
              /\ th'[t].pc \in Absent <=> th[t].pc \in Absent
              /\ th'[t].pc \in {"unused", "new"} => th[t].pc \in {"unused", "new"}
              /\ th'[t].pc = "owner" => th[t].pc = "owner" /\ th'[t].child = th[t].child
    PROVE  Makers' /\ Killed' /\ SharedCounted' /\ SigCounted' /\ OwnerUsesMm' /\ NewOwners'
<1> USE DEF IInv
<1>1. Makers'
  BY MakersFrame
<1>2. Killed'
  BY KilledFrame DEF Groups, Live
<1>3. SharedCounted'
  BY SharedFrame, MakingMade
<1>4. SigCounted'
  BY SigFrame, MakingMade
<1>5. \A t \in Tasks : task'[t].res.mm = task[t].res.mm /\ th'[t].mm = th[t].mm
  BY DEF KeepsHeld
<1>6. OwnerUsesMm'
  BY <1>5, OwnersFrame DEF Live
<1>7. NewOwners'
  BY <1>5, NewOwnersFrame, MakingMade
<1> QED  BY <1>1, <1>2, <1>3, <1>4, <1>6, <1>7

\* wait_task_zombie keeps the invariant: the child is a zombie for one waiter only.
LEMMA ClaimKeeps ==
    ASSUME IInv, NEW x \in Tasks, Claim(x)
    PROVE  IInv'
<1> USE DEF IInv
<1>1. /\ task \in [Tasks -> TaskRecord] /\ th \in [Tasks -> ThRecord]
      /\ Sound(x, task[x], th[x])
  BY DEF Types, Phases
<1>2. th[x].pc = "claim" /\ UNCHANGED <<sig, cnt, owner, processes, nr_threads>>
  BY DEF Claim
<1>3. PICK p \in Tasks : p = th[x].child /\ Live(p) /\ task[p].leader = p /\ Alone(p)
  BY <1>2 DEF Groups
<1>4. th[x] \in ThRecord /\ th[x].todo = {}
  BY <1>1, <1>2 DEF Buried
<1>5. CASE ~Won(p)
  <2> DEFINE h == [th[x] EXCEPT !.pc = "scan", !.child = none]
  <2>1. th' = [th EXCEPT ![x].pc = "scan", ![x].child = none] /\ UNCHANGED task
    BY <1>3, <1>5 DEF Claim
  <2>2. th' = [th EXCEPT ![x] = h]
    BY <1>1, <2>1
  <2>3. /\ h \in ThRecord /\ h.pc = "scan" /\ h.opt = th[x].opt /\ h.mm = th[x].mm
        /\ h.new = th[x].new /\ h.todo = {}
    BY <1>4 DEF ThRecord, Busy, Links
  <2> HIDE DEF h
  <2>4. Sound(x, task[x], h)
    BY <1>1, <1>2, <2>3 DEF Sound, Busy, Ending, Ended, Absent
  <2>5. PICK g \in ThRecord : g = h
    BY <2>3
  <2> HIDE DEF IInv
  <2> QED  BY <1>2, <2>1, <2>2, <2>3, <2>4, <2>5, LocalStep DEF Local
<1>6. CASE Won(p)
  <2> DEFINE k == [task[p] EXCEPT !.exit_state = "dead"]
             h == [th[x] EXCEPT !.pc = "reap", !.todo = {p}, !.child = none, !.opt = none]
  <2>1. /\ task' = [task EXCEPT ![p].exit_state = "dead"]
        /\ th' = [th EXCEPT ![x].pc = "reap", ![x].todo = {p}, ![x].child = none,
                            ![x].opt = none]
    BY <1>3, <1>6 DEF Claim
  <2>2. task' = [task EXCEPT ![p] = k] /\ th' = [th EXCEPT ![x] = h]
    BY <1>1, <2>1
  <2>3. /\ h \in ThRecord /\ h.pc = "reap" /\ h.mm = th[x].mm /\ h.new = th[x].new
        /\ h.todo = {p}
    BY <1>4 DEF ThRecord, Busy, Links
  <2>4. /\ k \in TaskRecord /\ k.exit_state = "dead"
        /\ k.leader = task[p].leader /\ k.real_parent = task[p].real_parent
        /\ k.exit_signal = task[p].exit_signal /\ k.exiting = task[p].exiting
        /\ k.kill = task[p].kill /\ k.usage = task[p].usage /\ k.hashed = task[p].hashed
        /\ k.rcu = task[p].rcu /\ k.vfork = task[p].vfork /\ k.res = task[p].res
    BY <1>1 DEF TaskRecord
  <2> HIDE DEF k, h
  <2>5. /\ \A t \in Tasks \ {p} : task'[t] = task[t]
        /\ task'[p] = k
        /\ \A t \in Tasks \ {x} : th'[t] = th[t]
        /\ th'[x] = h
    BY <1>1, <2>2
  <2>6. task[p].exit_state = "zombie" /\ Sound(p, task[p], th[p])
    BY <1>6 DEF Won, Phases
  <2>7. th[p].pc \in Ended /\ p # x
    BY <1>1, <1>2, <2>6 DEF Sound, Busy, Ending, Absent, Blank, ThRecord
  <2>8. Types'
    BY <1>1, <1>2, <2>2, <2>3, <2>4 DEF Types
  <2>9. Phases'
    <3>1. Sound(x, task[x], h)
      BY <1>1, <1>2, <2>3 DEF Sound, Busy, Ending, Ended, Absent
    <3>2. Sound(p, k, th[p])
      BY <1>3, <2>4, <2>6, <2>7, ZenonT(60) DEF Sound, Busy, Ending, Ended, Absent, Live
    <3> QED  BY <2>5, <2>7, <3>1, <3>2 DEF Phases
  <2>10. KeepsMaking
    BY <1>2, <2>3, <2>5 DEF KeepsMaking, MakePcs
  <2>11. KeepsTree /\ KeepsHeld
    BY <2>3, <2>4, <2>5 DEF KeepsTree, KeepsHeld
  <2>12. \A t \in Tasks :
              /\ task'[t].hashed = task[t].hashed /\ task'[t].leader = task[t].leader
              /\ task'[t].vfork = task[t].vfork
              /\ task'[t].exiting = task[t].exiting /\ task'[t].kill = task[t].kill
              /\ task'[t].exit_signal = task[t].exit_signal
              /\ task'[t].exit_state = IF t = p THEN "dead" ELSE task[t].exit_state
    BY <2>4, <2>5
  <2>13. \A t \in Tasks : th'[t].pc = IF t = x THEN "reap" ELSE th[t].pc
    BY <2>3, <2>5
  <2>14. Makers' /\ Killed' /\ SharedCounted' /\ SigCounted' /\ OwnerUsesMm' /\ NewOwners'
    <3>1. \A t \in Tasks :
              /\ th'[t].pc \in Absent <=> th[t].pc \in Absent
              /\ th'[t].pc \in {"unused", "new"} => th[t].pc \in {"unused", "new"}
              /\ th'[t].pc = "owner" => th[t].pc = "owner" /\ th'[t].child = th[t].child
      BY <1>2, <2>5, <2>13 DEF Absent
    <3> QED  BY <1>2, <2>10, <2>11, <2>12, <3>1, QuietParts
  <2>15. Parents'
    <3>1. th'[init].pc \in {"user", "unshare", "scan", "asleep", "claim", "reap"}
      BY <2>13, TasksAssumption DEF Parents
    <3> QED  BY <2>11, <2>13, <3>1, ParentsFrame DEF Childless
  <2>16. Groups'
    BY <1>2, <1>3, <2>5, <2>12, <2>13, GroupsFrame DEF Absent
  <2>17. Buried'
    <3>1. \A t \in Tasks : th'[t].todo = IF t = x THEN {p} ELSE th[t].todo
      BY <2>3, <2>5
    <3>2. \A t \in Tasks : p \notin th[t].todo
      BY <2>6 DEF Buried
    <3>3. \A t \in Tasks : th'[t].todo # {} => th'[t].pc \in {"bury", "self", "reap"}
      BY <2>13, <3>1 DEF Buried
    <3>4. \A t, q \in Tasks : q \in th'[t].todo => Live(q)' /\ task'[q].exit_state = "dead"
      BY <1>3, <2>12, <3>1 DEF Buried, Live
    <3>5. \A t, u, q \in Tasks : q \in th'[t].todo /\ q \in th'[u].todo => t = u
      BY <3>1, <3>2 DEF Buried
    <3> QED  BY <3>3, <3>4, <3>5 DEF Buried
  <2>18. NoZombieLeft'
    BY <2>11, <2>12, NoZombieFrame DEF Detached
  <2>19. NoneMissed'
    BY <2>5, <2>11, <2>12, <2>13, MissedFrame
  <2> QED  BY <2>8, <2>9, <2>14, <2>15, <2>16, <2>17, <2>18, <2>19
<1> QED  BY <1>5, <1>6

\* x goes on to place P with D to bury, and W is woken up.
GoOn(W, x, P, D) == [Awake(th, W) EXCEPT ![x].pc = P, ![x].todo = D]

\* What that changes, field by field.
WentOn(W, x, P, D) ==
    /\ th' \in [Tasks -> ThRecord]
    /\ \A t \in Tasks :
         /\ th'[t].child = th[t].child /\ th'[t].kind = th[t].kind
         /\ th'[t].stage = th[t].stage /\ th'[t].mm = th[t].mm
         /\ th'[t].opt = th[t].opt /\ th'[t].new = th[t].new
         /\ th'[t].pc = IF t = x THEN P ELSE IF t \in W THEN "scan" ELSE th[t].pc
         /\ th'[t].todo = IF t = x THEN D ELSE th[t].todo

\* GoOn changes just that.
LEMMA AwakeAndGo ==
    ASSUME th \in [Tasks -> ThRecord], NEW W \in SUBSET Tasks, \A w \in W : th[w].pc = "asleep",
           NEW x \in Tasks \ W, NEW P \in Busy \cup Ending \cup Ended, NEW D \in SUBSET Tasks,
           th' = GoOn(W, x, P, D)
    PROVE  WentOn(W, x, P, D)
<1> DEFINE f == Awake(th, W)
           h == [th[x] EXCEPT !.pc = P, !.todo = D]
<1>1. /\ f \in [Tasks -> ThRecord]
      /\ \A t \in Tasks :
           /\ f[t].child = th[t].child /\ f[t].kind = th[t].kind
           /\ f[t].stage = th[t].stage /\ f[t].mm = th[t].mm
           /\ f[t].todo = th[t].todo /\ f[t].opt = th[t].opt /\ f[t].new = th[t].new
           /\ t \in W => f[t].pc = "scan"
           /\ t \notin W => f[t].pc = th[t].pc /\ f[t] = th[t]
  BY AwakeFields
<1> HIDE DEF f
<1>2. th' = [f EXCEPT ![x].pc = P, ![x].todo = D]
  BY DEF f, GoOn
<1>3. th' = [f EXCEPT ![x] = h]
  BY <1>1, <1>2
<1>4. /\ h \in ThRecord /\ h.child = th[x].child /\ h.kind = th[x].kind
      /\ h.stage = th[x].stage /\ h.mm = th[x].mm /\ h.opt = th[x].opt
      /\ h.new = th[x].new /\ h.pc = P /\ h.todo = D
  <2>1. th[x] \in ThRecord
    OBVIOUS
  <2> QED  BY <2>1 DEF ThRecord
<1> HIDE DEF h
<1>5. th'[x] = h /\ \A t \in Tasks \ {x} : th'[t] = f[t]
  BY <1>1, <1>3
<1>6. th' \in [Tasks -> ThRecord]
  BY <1>1, <1>3, <1>4
<1>7. ASSUME NEW t \in Tasks
      PROVE  /\ th'[t].child = th[t].child /\ th'[t].kind = th[t].kind
             /\ th'[t].stage = th[t].stage /\ th'[t].mm = th[t].mm
             /\ th'[t].opt = th[t].opt /\ th'[t].new = th[t].new
             /\ th'[t].pc = IF t = x THEN P ELSE IF t \in W THEN "scan" ELSE th[t].pc
             /\ th'[t].todo = IF t = x THEN D ELSE th[t].todo
  <2>1. CASE t = x
    <3>1. th'[t] = h
      BY <1>5, <2>1
    <3> QED  BY ONLY <1>4, <2>1, <3>1
  <2>2. CASE t # x
    <3>1. th'[t] = f[t]
      BY <1>5, <2>2
    <3> QED  BY <1>1, <2>2, <3>1
  <2> QED  BY <2>1, <2>2
<1> QED  BY <1>6, <1>7 DEF WentOn

\* Waking a task up leaves it sound.
LEMMA SoundAwake ==
    ASSUME NEW t, NEW k, NEW h, NEW g, Sound(t, k, h), h.pc = "asleep", g.pc = "scan",
           g.mm = h.mm, g.new = h.new, g.opt = h.opt
    PROVE  Sound(t, k, g)
BY DEF Sound, Busy, Ending, Ended, Absent

\* What waking tasks up and letting x go on keeps.
LEMMA GoesOn ==
    ASSUME IInv, NEW W \in SUBSET Tasks, \A w \in W : th[w].pc = "asleep",
           NEW x \in Tasks \ W, NEW P \in Busy \cup Ending \cup Ended, P \notin MakePcs,
           P \notin {"owner", "claim", "asleep"},
           th[x].pc \notin MakePcs \cup Absent,
           P \in Childless => th[x].pc \in Childless, x = init => P \in {"user", "reap"},
           \A t \in Tasks :
                /\ th'[t].child = th[t].child /\ th'[t].kind = th[t].kind
                /\ th'[t].stage = th[t].stage
                /\ th'[t].pc = IF t = x THEN P ELSE IF t \in W THEN "scan" ELSE th[t].pc
    PROVE  /\ KeepsMaking
           /\ th'[init].pc \in {"user", "unshare", "scan", "asleep", "claim", "reap"}
           /\ \A t \in Tasks :
                /\ th'[t].pc \in Childless => th[t].pc \in Childless
                /\ th'[t].pc \in Absent <=> th[t].pc \in Absent
                /\ th'[t].pc \in {"unused", "new"} <=> th[t].pc \in {"unused", "new"}
                /\ th'[t].pc \in {"owner", "claim", "asleep"} => th'[t].pc = th[t].pc /\ t \notin W
<1>1. KeepsMaking
  BY DEF KeepsMaking, MakePcs
<1>2. th'[init].pc \in {"user", "unshare", "scan", "asleep", "claim", "reap"}
  BY TasksAssumption DEF IInv, Parents
<1>3. P \notin Absent
  BY DEF Busy, Ending, Ended, Absent
<1>4. \A t \in Tasks :
                /\ th'[t].pc \in Childless => th[t].pc \in Childless
                /\ th'[t].pc \in Absent <=> th[t].pc \in Absent
                /\ th'[t].pc \in {"unused", "new"} <=> th[t].pc \in {"unused", "new"}
                /\ th'[t].pc \in {"owner", "claim", "asleep"} => th'[t].pc = th[t].pc /\ t \notin W
  BY <1>3 DEF Childless, Absent, MakePcs
<1> QED  BY <1>1, <1>2, <1>4

\* exit_notify of a task that has no children left keeps the invariant: whoever waits
\* for it is woken up, or it buries itself.
LEMMA NotifyKeeps ==
    ASSUME IInv, NEW x \in Tasks, Notify(x)
    PROVE  IInv'
<1> USE DEF IInv
<1> DEFINE Delay  == task[x].leader = x /\ ~GroupEmpty(x)
           Report == ~Detached(x) /\ ~Delay
           Signal == IF Report THEN SignalAfter(x, task[x].real_parent)
                               ELSE task[x].exit_signal
           Reap   == ~Delay /\ Signal = "detached"
           Wake1  == IF Report THEN Woken(x, task[x].real_parent) ELSE {}
<1>1. /\ task \in [Tasks -> TaskRecord] /\ th \in [Tasks -> ThRecord]
      /\ Sound(x, task[x], th[x]) /\ \A t \in Tasks : Sound(t, task[t], th[t])
  BY DEF Types, Phases
<1>2. /\ th[x].pc = "notify" /\ Readers = {}
      /\ UNCHANGED <<sig, cnt, owner, processes, nr_threads>>
  BY DEF Notify
<1>3. /\ task' = [task EXCEPT ![x].exit_signal = Signal,
                              ![x].exit_state = IF Reap THEN "dead" ELSE "zombie"]
      /\ th' = [Awake(th, Wake1) EXCEPT ![x].pc = IF Reap THEN "self" ELSE "last",
                                        ![x].todo = IF Reap THEN {x} ELSE {}]
  BY DEF Notify
<1>4. Live(x) /\ task[x].exit_state = "0" /\ task[x].exiting /\ x # init /\ task[x].usage = 2
      /\ ~task[x].rcu
  BY <1>1, <1>2 DEF Sound, Ending, Live, Parents
<1>5. PICK s \in Signals : s = Signal
  <2>1. task[x].exit_signal \in Signals
    BY <1>1 DEF TaskRecord
  <2> QED  BY <2>1 DEF SignalAfter, Signals
<1>6. PICK W \in SUBSET Tasks : W = Wake1
  BY DEF Woken
<1>7. \A w \in W : th[w].pc = "asleep"
  BY <1>6 DEF Woken
<1>8. x \in Tasks \ W
  BY <1>2, <1>7
<1>9. PICK P \in {"self", "last"}, D \in SUBSET Tasks, e \in {"dead", "zombie"} :
         /\ P = (IF Reap THEN "self" ELSE "last") /\ D = (IF Reap THEN {x} ELSE {})
         /\ e = (IF Reap THEN "dead" ELSE "zombie")
         /\ (e = "dead" => (task[x].leader = x => GroupEmpty(x)))
         /\ (e = "zombie" /\ s = "detached" => task[x].leader = x /\ ~GroupEmpty(x))
         /\ (e = "zombie" /\ (task[x].leader = x => GroupEmpty(x))
                => W = Woken(x, task[x].real_parent))
  <2>1. Reap => ~Delay
    OBVIOUS
  <2>2. ~Reap /\ Signal = "detached" => Delay
    OBVIOUS
  <2>3. ~Delay /\ ~Reap => Report
    BY DEF Detached
  <2>4. Report => Wake1 = Woken(x, task[x].real_parent)
    OBVIOUS
  <2>5. Delay <=> task[x].leader = x /\ ~GroupEmpty(x)
    OBVIOUS
  <2> HIDE DEF Delay, Report, Signal, Reap, Wake1, IInv
  <2>6. CASE Reap
    BY <1>5, <1>6, <2>1, <2>5, <2>6
  <2>7. CASE ~Reap
    <3>1. {} \in SUBSET Tasks
      OBVIOUS
    <3> QED  BY <1>5, <1>6, <2>2, <2>3, <2>4, <2>5, <2>7, <3>1
  <2> QED  BY <2>6, <2>7
<1> DEFINE k == [task[x] EXCEPT !.exit_signal = s, !.exit_state = e]
<1>10. task' = [task EXCEPT ![x] = k] /\ th' = [Awake(th, W) EXCEPT ![x].pc = P, ![x].todo = D]
  BY <1>1, <1>3, <1>5, <1>6, <1>9
<1>11. (P = "self" <=> e = "dead") /\ D = (IF e = "dead" THEN {x} ELSE {})
  BY <1>9
<1> HIDE DEF Delay, Report, Signal, Reap, Wake1
<1>12. /\ k \in TaskRecord /\ k.exit_state = e /\ k.exit_signal = s
       /\ k.leader = task[x].leader /\ k.real_parent = task[x].real_parent
       /\ k.exiting = task[x].exiting /\ k.kill = task[x].kill /\ k.usage = task[x].usage
       /\ k.hashed = task[x].hashed /\ k.rcu = task[x].rcu /\ k.vfork = task[x].vfork
       /\ k.res = task[x].res
  BY <1>1, ZenonT(60) DEF TaskRecord
<1> HIDE DEF k
<1>13. task'[x] = k /\ (\A t \in Tasks \ {x} : task'[t] = task[t])
       /\ task' \in [Tasks -> TaskRecord]
  BY <1>1, <1>10, <1>12
<1>14. P \in Busy \cup Ending \cup Ended
  BY DEF Ended
<1>15. /\ th' \in [Tasks -> ThRecord]
       /\ \A t \in Tasks :
            /\ th'[t].child = th[t].child /\ th'[t].kind = th[t].kind
            /\ th'[t].stage = th[t].stage /\ th'[t].mm = th[t].mm
            /\ th'[t].opt = th[t].opt /\ th'[t].new = th[t].new
            /\ th'[t].pc = IF t = x THEN P ELSE IF t \in W THEN "scan" ELSE th[t].pc
            /\ th'[t].todo = IF t = x THEN D ELSE th[t].todo
  <2> HIDE DEF IInv
  <2>1. th \in [Tasks -> ThRecord]
    BY <1>1
  <2>2. th' = GoOn(W, x, P, D)
    BY <1>10 DEF GoOn
  <2>3. WentOn(W, x, P, D)
    BY <1>7, <1>8, <1>14, <2>1, <2>2, AwakeAndGo
  <2> QED  BY <2>3 DEF WentOn
<1>16. /\ KeepsMaking
       /\ th'[init].pc \in {"user", "unshare", "scan", "asleep", "claim", "reap"}
       /\ \A t \in Tasks :
            /\ th'[t].pc \in Childless => th[t].pc \in Childless
            /\ th'[t].pc \in Absent <=> th[t].pc \in Absent
            /\ th'[t].pc \in {"unused", "new"} <=> th[t].pc \in {"unused", "new"}
            /\ th'[t].pc \in {"owner", "claim", "asleep"} => th'[t].pc = th[t].pc /\ t \notin W
  <2>1. P \notin MakePcs /\ P \notin {"owner", "claim", "asleep"}
        /\ th[x].pc \notin MakePcs \cup Absent /\ th[x].pc \in Childless
    BY <1>2 DEF MakePcs, Absent, Childless
  <2>2. \A t \in Tasks :
           /\ th'[t].child = th[t].child /\ th'[t].kind = th[t].kind
           /\ th'[t].stage = th[t].stage
           /\ th'[t].pc = IF t = x THEN P ELSE IF t \in W THEN "scan" ELSE th[t].pc
    BY <1>15
  <2>3. x # init
    BY <1>4
  <2> HIDE DEF IInv
  <2> QED  BY <1>7, <1>8, <1>14, <2>1, <2>2, <2>3, GoesOn
<1>17. Types'
  BY <1>1, <1>2, <1>13, <1>15 DEF Types
<1>18. Phases'
  <2> SUFFICES ASSUME NEW t \in Tasks PROVE Sound(t, task'[t], th'[t])
    BY DEF Phases
  <2>1. CASE t = x
    <3>1. /\ th'[x].mm = th[x].mm /\ th'[x].opt = th[x].opt /\ th'[x].new = th[x].new
          /\ th'[x].pc = P
      BY <1>15
    <3>2. P \in {"self", "last"} /\ e \in {"dead", "zombie"}
      OBVIOUS
    <3>3. Sound(x, k, th'[x])
      BY <1>1, <1>2, <1>4, <1>12, <3>1, <3>2
         DEF Sound, Busy, Ending, Ended, Absent, Live
    <3> QED  BY <1>13, <2>1, <3>3
  <2>2. CASE t \in W
    BY <1>1, <1>7, <1>8, <1>13, <1>15, <2>2, SoundAwake
  <2>3. CASE t # x /\ t \notin W
    <3>1. /\ th'[t].mm = th[t].mm /\ th'[t].opt = th[t].opt /\ th'[t].new = th[t].new
          /\ th'[t].pc = th[t].pc /\ task'[t] = task[t]
      BY <1>13, <1>15, <2>3
    <3> QED  BY <1>1, <3>1 DEF Sound
  <2> QED  BY <2>1, <2>2, <2>3
<1>19. KeepsTree /\ KeepsHeld
  BY <1>12, <1>13, <1>15 DEF KeepsTree, KeepsHeld
<1>20. \A t \in Tasks :
              /\ task'[t].hashed = task[t].hashed /\ task'[t].leader = task[t].leader
              /\ task'[t].vfork = task[t].vfork
              /\ task'[t].exiting = task[t].exiting /\ task'[t].kill = task[t].kill
              /\ task'[t].exit_signal = IF t = x THEN s ELSE task[t].exit_signal
              /\ task'[t].exit_state = IF t = x THEN e ELSE task[t].exit_state
  BY <1>12, <1>13
<1>21. Makers' /\ Killed' /\ SharedCounted' /\ SigCounted' /\ OwnerUsesMm' /\ NewOwners'
  <2> HIDE DEF IInv
  <2> QED  BY <1>2, <1>15, <1>16, <1>19, <1>20, QuietParts
<1>22. Parents'
  BY <1>16, <1>19, ParentsFrame
<1>23. Groups'
  <2>1. task[x].leader = x /\ e = "dead" => Alone(x)
    BY <1>9 DEF GroupEmpty, Group, Alone
  <2>2. \A t \in Tasks :
              /\ Live(t) /\ task'[t].exit_state = "dead" /\ task[t].leader = t
                    => task[t].exit_state = "dead" \/ Alone(t)
    BY <1>20, <2>1
  <2> QED  BY <1>15, <1>16, <1>20, <2>2, GroupsFrame
<1>24. Buried'
  <2>1. \A t \in Tasks : x \notin th[t].todo
    BY <1>4 DEF Buried
  <2>2. th[x].todo = {}
    BY <1>2 DEF Buried
  <2>3. \A t \in Tasks : th'[t].todo # {} => th'[t].pc \in {"bury", "self", "reap"}
    BY <1>7, <1>11, <1>15 DEF Buried
  <2>4. \A t, q \in Tasks : q \in th'[t].todo => Live(q)' /\ task'[q].exit_state = "dead"
    BY <1>4, <1>11, <1>15, <1>20, <2>1 DEF Buried, Live
  <2>5. \A t, u, q \in Tasks : q \in th'[t].todo /\ q \in th'[u].todo => t = u
    BY <1>11, <1>15, <2>1 DEF Buried
  <2> QED  BY <2>3, <2>4, <2>5 DEF Buried
<1>25. NoZombieLeft'
  <2> SUFFICES ASSUME NEW l \in Tasks, Live(l)', task'[l].leader = l,
                      task'[l].exit_state = "zombie", Detached(l)', Alone(l)'
               PROVE  FALSE
    BY DEF NoZombieLeft
  <2>1. Live(l) /\ task[l].leader = l /\ Alone(l)
    BY <1>20 DEF Live, Alone
  <2>2. CASE l = x
    <3>1. GroupEmpty(x)
      BY <2>1, <2>2 DEF GroupEmpty, Group, Alone
    <3> QED  BY <1>9, <1>20, <2>2, <3>1 DEF Detached
  <2>3. CASE l # x
    BY <1>20, <2>1, <2>3 DEF NoZombieLeft, Detached
  <2> QED  BY <2>2, <2>3
<1>26. NoneMissed'
  <2> SUFFICES ASSUME NEW y \in Tasks, NEW p \in Tasks, Missed(y, p)' PROVE FALSE
    BY DEF NoneMissed
  <2>1. /\ th[y].pc = "asleep" /\ y \notin W /\ th'[y].opt = th[y].opt
        /\ ~th[y].opt.nothread /\ p # init /\ EligiblePid(y, p)
    BY <1>15, <1>16 DEF Missed, EligibleChild, EligiblePid
  <2>2. Live(p) /\ task[p].leader = p /\ Alone(p) /\ task'[p].real_parent = task[p].real_parent
    BY <1>19, <1>20 DEF Missed, Live, Alone, KeepsTree
  <2>3. PICK q \in Tasks : q = task[p].real_parent
    BY <2>2 DEF Parents
  <2>4. Live(q) /\ SameGroup(q, y)
    BY <1>20, <2>2, <2>3 DEF Missed, Live, SameGroup
  <2>5. CASE p = x
    <3>1. e = "zombie"
      BY <1>20, <2>5 DEF Missed
    <3>2. GroupEmpty(x)
      BY <2>2, <2>5 DEF GroupEmpty, Group, Alone
    <3>3. y \in Woken(x, q)
      BY <2>1, <2>4, <2>5 DEF Woken, SameGroup
    <3> QED  BY <1>9, <2>1, <2>3, <2>5, <3>1, <3>2, <3>3
  <2>6. CASE p # x
    <3>1. task[p].exit_state = "zombie" /\ EligibleChild(y, p)
      BY <1>20, <2>1, <2>6 DEF Missed, EligibleChild, EligiblePid
    <3>2. Missed(y, p)
      BY <2>1, <2>2, <2>3, <2>4, <3>1 DEF Missed
    <3> QED  BY <3>2 DEF NoneMissed
  <2> QED  BY <2>5, <2>6
<1> QED  BY <1>17, <1>18, <1>21, <1>22, <1>23, <1>24, <1>25, <1>26

------------------------------------------------------------------------------
(* Giving references back *)

\* What can be shared, and that a structure is not 0.
LEMMA KindsOfRes == Res = {"files", "fs", "sighand", "mm"} /\ Ids \subseteq Nat \ {0}
<1>1. Cardinality(Tasks) \in Nat
  BY TasksAssumption, FS_CardinalityType
<1> QED  BY <1>1 DEF Res, Ids

\* Counting down at a place that may be outside of the domain.
LEMMA OneLess ==
    ASSUME NEW c \in [Ids -> Int], NEW a
    PROVE  /\ [c EXCEPT ![a] = @ - 1] \in [Ids -> Int]
           /\ \A i \in Ids : [c EXCEPT ![a] = @ - 1][i] = IF i = a THEN c[i] - 1 ELSE c[i]
<1>1. CASE a \in Ids
  BY <1>1
<1>2. CASE a \notin Ids
  <2>1. [c EXCEPT ![a] = @ - 1] = c
    BY <1>2
  <2> QED  BY <1>2, <2>1
<1> QED  BY <1>1, <1>2

\* The structure of kind r that p gives back when it drops the kinds R.
Ref(r, p) == IF r = "mm" THEN th[p].mm ELSE task[p].res[r]

\* Who gives the structures of the kinds R back, and is counted down in each of them,
\* keeps SharedCounted.
LEMMA SharedDrop ==
    ASSUME SharedCounted, KeepsMade, Types, NEW p \in Tasks, NEW R \in SUBSET Res,
           th[p].pc # "new", "mm" \in R => task[p].res.mm = 0,
           \A t \in Tasks \ {p} : /\ task'[t].res = task[t].res
                                  /\ th'[t].mm = th[t].mm /\ th'[t].new = th[t].new,
           \A r \in Res : task'[p].res[r] = IF r \in R THEN 0 ELSE task[p].res[r],
           th'[p].new = th[p].new,
           th'[p].mm = IF "mm" \in R THEN 0 ELSE th[p].mm,
           \A r \in Res : \A i \in Ids :
              cnt'[r][i] = IF r \in R /\ Ref(r, p) = i THEN cnt[r][i] - 1 ELSE cnt[r][i]
    PROVE  SharedCounted'
<1>1. ASSUME NEW x \in Tasks, NEW r \in Res
      PROVE  (\E y \in Tasks : /\ th'[y].pc \in {"copied", "undo"} /\ th'[y].child = x
                               /\ r \in Acquired(th'[y].stage))
             <=> (\E y \in Tasks : /\ th[y].pc \in {"copied", "undo"} /\ th[y].child = x
                                   /\ r \in Acquired(th[y].stage))
  BY DEF KeepsMade
<1>2. \A x \in Tasks : th'[x].pc = "new" <=> th[x].pc = "new"
  BY DEF KeepsMade
<1>3. ASSUME NEW r \in Res, NEW i \in Ids
      PROVE  /\ Users(r, i)' = IF r \in R /\ Ref(r, p) = i THEN Users(r, i) \ {p} ELSE Users(r, i)
             /\ Copies(r, i)' = Copies(r, i)
             /\ r \in R /\ Ref(r, p) = i => p \in Users(r, i)
  <2>1. i # 0
    BY KindsOfRes
  <2>2. ASSUME NEW t \in Tasks \ {p} PROVE t \in Users(r, i)' <=> t \in Users(r, i)
    BY <1>1, <1>2 DEF Users
  <2>3. p \in Users(r, i) <=> (task[p].res[r] = i \/ (r = "mm" /\ th[p].mm = i))
    BY DEF Users
  <2>4. p \in Users(r, i)' <=> (task'[p].res[r] = i \/ (r = "mm" /\ th'[p].mm = i))
    BY <1>2 DEF Users
  <2>5. r \in R /\ Ref(r, p) = i => p \in Users(r, i) /\ p \notin Users(r, i)'
    BY <2>1, <2>3, <2>4 DEF Ref
  <2>6. ~(r \in R /\ Ref(r, p) = i) => (p \in Users(r, i)' <=> p \in Users(r, i))
    BY <2>1, <2>3, <2>4 DEF Ref
  <2>7. Users(r, i) \subseteq Tasks /\ Users(r, i)' \subseteq Tasks
    BY DEF Users
  <2>8. Copies(r, i)' = Copies(r, i)
    BY DEF Copies
  <2>9. CASE r \in R /\ Ref(r, p) = i
    <3>1. Users(r, i)' = Users(r, i) \ {p} /\ p \in Users(r, i)
      BY ONLY <2>2, <2>5, <2>7, <2>9
    <3> QED  BY <2>8, <2>9, <3>1
  <2>10. CASE ~(r \in R /\ Ref(r, p) = i)
    <3>1. Users(r, i)' = Users(r, i)
      BY ONLY <2>2, <2>6, <2>7, <2>10
    <3> QED  BY <2>8, <2>10, <3>1
  <2> QED  BY <2>9, <2>10
<1>4. ASSUME NEW r \in Res, NEW i \in Ids
      PROVE  cnt'[r][i] = Cardinality(Users(r, i)') + Cardinality(Copies(r, i)')
  <2>1. /\ cnt[r][i] = Cardinality(Users(r, i)) + Cardinality(Copies(r, i))
        /\ Users(r, i) \in SUBSET Tasks /\ Copies(r, i) \in SUBSET Tasks
    BY DEF SharedCounted, Users, Copies
  <2>2. Cardinality(Users(r, i)) \in Nat /\ Cardinality(Copies(r, i)) \in Nat
    BY <2>1, CountType
  <2>3. CASE r \in R /\ Ref(r, p) = i
    <3>1. Cardinality(Users(r, i) \ {p}) = Cardinality(Users(r, i)) - 1
      BY <1>3, <2>1, <2>3, CountLess
    <3>2. Users(r, i)' = Users(r, i) \ {p} /\ Copies(r, i)' = Copies(r, i)
      BY <1>3, <2>3
    <3>3. cnt'[r][i] = cnt[r][i] - 1
      BY <2>3
    <3> QED  BY ONLY <2>1, <2>2, <3>1, <3>2, <3>3
  <2>4. CASE ~(r \in R /\ Ref(r, p) = i)
    BY <1>3, <2>1, <2>4
  <2> QED  BY <2>3, <2>4
<1> QED  BY <1>4 DEF SharedCounted

\* A task that goes on in the same phase of its life stays sound.
LEMMA SoundMove ==
    ASSUME NEW t, NEW k, NEW h, NEW j, NEW g, Sound(t, k, h),
           j = k \/ h.pc \notin Absent,
           g.mm = h.mm, g.new = h.new, g.opt = h.opt,
           \/ g.pc = h.pc
           \/ h.pc = "asleep" /\ g.pc = "scan"
           \/ h.pc = "bury" /\ g.pc = "notify"
           \/ h.pc = "forget" /\ g.pc \in {"notify", "bury"}
           \/ h.pc = "self" /\ g.pc = "last"
           \/ h.pc = "reap" /\ g.pc = "user",
           j.leader = k.leader, j.hashed = k.hashed, j.vfork = k.vfork, j.rcu = k.rcu,
           j.kill = k.kill, j.usage = k.usage, j.exiting = k.exiting, j.res = k.res,
           j.exit_state = k.exit_state \/ (k.exit_state = "zombie" /\ j.exit_state = "dead")
    PROVE  Sound(t, j, g)
BY DEF Sound, Busy, Ending, Ended, Absent

\* release_task keeps the invariant: a leader that waited for its last thread is
\* reported, or buried next.
LEMMA ReleaseKeeps ==
    ASSUME IInv, NEW x \in Tasks, Release(x)
    PROVE  IInv'
<1> USE DEF IInv
<1>1. /\ task \in [Tasks -> TaskRecord] /\ th \in [Tasks -> ThRecord]
      /\ sig \in [Tasks -> SigRecord] /\ cnt \in [Res -> [Ids -> Int]]
      /\ processes \in Int /\ nr_threads \in Int
      /\ \A t \in Tasks : Sound(t, task[t], th[t])
  BY DEF Types, Phases
<1>2. /\ th[x].pc \in {"bury", "self", "reap"} /\ Readers = {}
      /\ processes' = processes - 1 /\ nr_threads' = nr_threads - 1 /\ owner' = owner
  BY DEF Release, AfterRelease
\* The task that is buried, its leader, and what becomes of it
<1> DEFINE Last1(p, l)   == LastOfGroup(p, l)
           Signal(p, l) == IF Last1(p, l) THEN SignalAfter(l, task[l].real_parent)
                                          ELSE task[l].exit_signal
           Zap1(p, l)   == Last1(p, l) /\ Signal(p, l) = "detached"
           Todo(p, l)   == (th[x].todo \ {p}) \cup (IF Zap1(p, l) THEN {l} ELSE {})
           Wake1(p, l)  == IF Last1(p, l) THEN Woken(l, task[l].real_parent) ELSE {}
<1>3. PICK p \in th[x].todo :
        LET l == task[p].leader
        IN /\ task' = [task EXCEPT
                         ![l].exit_signal = Signal(p, l),
                         ![l].exit_state = IF Zap1(p, l) THEN "dead" ELSE @,
                         ![p].hashed = FALSE, ![p].rcu = TRUE,
                         ![p].res.sighand = 0]
           /\ sig' = [sig EXCEPT ![l].nr = @ - 1]
           /\ cnt' = [cnt EXCEPT !.sighand[task[p].res.sighand] = @ - 1]
           /\ th' = [Awake(th, Wake1(p, l)) EXCEPT ![x].todo = Todo(p, l),
                        ![x].pc = IF Todo(p, l) = {} THEN AfterRelease[th[x].pc]
                                                   ELSE th[x].pc]
  BY DEF Release
<1>4. /\ p \in Tasks /\ Live(p) /\ task[p].exit_state = "dead"
      /\ \A y \in Tasks : p \in th[y].todo => y = x
  BY DEF Buried, Types, ThRecord
<1>5. th[p].pc \in Ended /\ task[p].exiting /\ ~task[p].rcu
  <2>1. Sound(p, task[p], th[p]) /\ th[p] \in ThRecord
    BY <1>1, <1>4
  <2> QED  BY <1>4, <2>1 DEF Sound, Busy, Ending, Ended, Absent, Blank, Live, ThRecord
<1>6. PICK l \in Tasks : l = task[p].leader /\ Live(l) /\ task[l].leader = l
                         /\ (l = p => Alone(p))
  BY <1>4 DEF Groups
<1>7. PICK s \in Signals, z \in BOOLEAN, D \in SUBSET Tasks, W \in SUBSET Tasks,
           P \in {"bury", "self", "reap", "notify", "last", "user"} :
         /\ s = Signal(p, l) /\ z = Zap1(p, l) /\ D = Todo(p, l) /\ W = Wake1(p, l)
         /\ P = IF D = {} THEN AfterRelease[th[x].pc] ELSE th[x].pc
  <2>1. task[l].exit_signal \in Signals
    BY <1>1 DEF TaskRecord
  <2>2. Signal(p, l) \in Signals
    BY <2>1 DEF SignalAfter, Signals
  <2>3. Todo(p, l) \in SUBSET Tasks
    BY <1>1 DEF ThRecord
  <2>4. Wake1(p, l) \in SUBSET Tasks
    BY DEF Woken
  <2>5. Zap1(p, l) \in BOOLEAN
    BY DEF LastOfGroup
  <2>6. (IF Todo(p, l) = {} THEN AfterRelease[th[x].pc] ELSE th[x].pc)
           \in {"bury", "self", "reap", "notify", "last", "user"}
    BY <1>2 DEF AfterRelease
  <2> HIDE DEF Last1, Signal, Zap1, Todo, Wake1, IInv
  <2> QED  BY <2>2, <2>3, <2>4, <2>5, <2>6
<1>8. /\ th[x].pc = "bury" => P \in {"bury", "notify"}
      /\ th[x].pc = "self" => P \in {"self", "last"}
      /\ th[x].pc = "reap" => P \in {"reap", "user"}
      /\ D # {} => P = th[x].pc
  BY <1>2, <1>7 DEF AfterRelease
<1>9. D = (th[x].todo \ {p}) \cup (IF z THEN {l} ELSE {})
  BY <1>7
<1>10. \/ /\ LastOfGroup(p, l) /\ (z <=> s = "detached")
          /\ W = Woken(l, task[l].real_parent)
       \/ ~LastOfGroup(p, l) /\ ~z /\ s = task[l].exit_signal /\ W = {}
  BY <1>7 DEF LastOfGroup
<1>11. z => l # p /\ task[l].exit_state = "zombie" /\ Group(l) \ {p} = {l}
  BY <1>10 DEF LastOfGroup
<1> DEFINE e == IF z THEN "dead" ELSE task[l].exit_state
           m == [task[l] EXCEPT !.exit_signal = s, !.exit_state = e]
           f == [task EXCEPT ![l] = m]
           k == [f[p] EXCEPT !.hashed = FALSE, !.rcu = TRUE,
                             !.res = [task[p].res EXCEPT !.sighand = 0]]
<1>12. /\ task' = [task EXCEPT
                         ![l].exit_signal = s,
                         ![l].exit_state = IF z THEN "dead" ELSE @,
                         ![p].hashed = FALSE, ![p].rcu = TRUE,
                         ![p].res.sighand = 0]
       /\ sig' = [sig EXCEPT ![l].nr = @ - 1]
       /\ cnt' = [cnt EXCEPT !.sighand[task[p].res.sighand] = @ - 1]
       /\ th' = [Awake(th, W) EXCEPT ![x].todo = D, ![x].pc = P]
  BY <1>3, <1>6, <1>7
<1> HIDE DEF Last1, Signal, Zap1, Todo, Wake1
<1>13. /\ m \in TaskRecord /\ m.exit_state = e /\ m.exit_signal = s
       /\ m.leader = task[l].leader /\ m.real_parent = task[l].real_parent
       /\ m.exiting = task[l].exiting /\ m.kill = task[l].kill /\ m.usage = task[l].usage
       /\ m.hashed = task[l].hashed /\ m.rcu = task[l].rcu /\ m.vfork = task[l].vfork
       /\ m.res = task[l].res
  <2>1. task[l] \in TaskRecord
    BY <1>1
  <2> QED  BY <2>1 DEF TaskRecord
<1>14. task' = [f EXCEPT ![p] = k]
  <2>1. f = [task EXCEPT ![l].exit_signal = s, ![l].exit_state = IF z THEN "dead" ELSE @]
    BY <1>1
  <2>2. task' = [f EXCEPT ![p].hashed = FALSE, ![p].rcu = TRUE, ![p].res.sighand = 0]
    BY <1>12, <2>1
  <2>3. f \in [Tasks -> TaskRecord] /\ f[p] \in TaskRecord
    BY <1>1, <1>4, <1>13
  <2>4. f[p].res = task[p].res
    BY <1>1, <1>4, <1>13
  <2> HIDE DEF f
  <2>5. task' = [f EXCEPT ![p] = [f[p] EXCEPT !.hashed = FALSE, !.rcu = TRUE,
                                              !.res.sighand = 0]]
    BY <1>4, <2>2, <2>3
  <2>6. [f[p] EXCEPT !.hashed = FALSE, !.rcu = TRUE, !.res.sighand = 0] = k
    BY <2>3, <2>4 DEF TaskRecord
  <2> QED  BY <2>5, <2>6
<1> HIDE DEF m
<1>15. /\ f \in [Tasks -> TaskRecord] /\ f[l] = m /\ \A t \in Tasks \ {l} : f[t] = task[t]
  BY <1>1, <1>13
<1> HIDE DEF f
<1>16. /\ k \in TaskRecord /\ k.hashed = FALSE /\ k.rcu = TRUE
       /\ k.res = [task[p].res EXCEPT !.sighand = 0]
       /\ k.leader = f[p].leader /\ k.real_parent = f[p].real_parent
       /\ k.exiting = f[p].exiting /\ k.kill = f[p].kill /\ k.usage = f[p].usage
       /\ k.vfork = f[p].vfork /\ k.exit_signal = f[p].exit_signal
       /\ k.exit_state = f[p].exit_state
  <2>1. f[p] \in TaskRecord /\ task[p].res \in Held
    BY <1>1, <1>4, <1>15 DEF TaskRecord
  <2>2. [task[p].res EXCEPT !.sighand = 0] \in Held
    BY <2>1 DEF Held
  <2> QED  BY <2>1, <2>2 DEF TaskRecord
<1> HIDE DEF k
<1>17. task' \in [Tasks -> TaskRecord] /\ task'[p] = k /\ \A t \in Tasks \ {p} : task'[t] = f[t]
  BY <1>4, <1>14, <1>15, <1>16
<1>18. ASSUME NEW t \in Tasks
       PROVE  /\ f[t].leader = task[t].leader /\ f[t].real_parent = task[t].real_parent
              /\ f[t].exiting = task[t].exiting /\ f[t].kill = task[t].kill
              /\ f[t].usage = task[t].usage /\ f[t].hashed = task[t].hashed
              /\ f[t].rcu = task[t].rcu /\ f[t].vfork = task[t].vfork
              /\ f[t].res = task[t].res
              /\ f[t].exit_signal = IF t = l THEN s ELSE task[t].exit_signal
              /\ f[t].exit_state = IF t = l /\ z THEN "dead" ELSE task[t].exit_state
  <2>1. CASE t = l
    BY <1>13, <1>15, <2>1
  <2>2. CASE t # l
    BY <1>15, <2>2
  <2> QED  BY <2>1, <2>2
<1>19. ASSUME NEW t \in Tasks
       PROVE  /\ task'[t].leader = task[t].leader /\ task'[t].real_parent = task[t].real_parent
              /\ task'[t].exiting = task[t].exiting /\ task'[t].kill = task[t].kill
              /\ task'[t].usage = task[t].usage /\ task'[t].vfork = task[t].vfork
              /\ task'[t].hashed = IF t = p THEN FALSE ELSE task[t].hashed
              /\ task'[t].rcu = IF t = p THEN TRUE ELSE task[t].rcu
              /\ task'[t].res = IF t = p THEN [task[p].res EXCEPT !.sighand = 0]
                                         ELSE task[t].res
              /\ task'[t].exit_signal = IF t = l THEN s ELSE task[t].exit_signal
              /\ task'[t].exit_state = IF t = l /\ z THEN "dead" ELSE task[t].exit_state
  <2>1. CASE t = p
    BY <1>4, <1>16, <1>17, <1>18, <2>1
  <2>2. CASE t # p
    BY <1>17, <1>18, <2>2
  <2> QED  BY <2>1, <2>2
<1>20. /\ x \in Tasks \ W /\ (\A w \in W : th[w].pc = "asleep")
       /\ P \in Busy \cup Ending \cup Ended
       /\ P \notin MakePcs /\ P \notin {"owner", "claim", "asleep"}
       /\ th[x].pc \notin MakePcs \cup Absent
       /\ (P \in Childless => th[x].pc \in Childless) /\ (x = init => P \in {"user", "reap"})
  <2>1. \A w \in W : th[w].pc = "asleep"
    BY <1>10 DEF Woken
  <2>2. x = init => th[x].pc = "reap"
    BY <1>2 DEF Parents
  <2> HIDE DEF IInv
  <2> QED  BY <1>2, <1>8, <2>1, <2>2 DEF Busy, Ending, Ended, MakePcs, Absent, Childless
<1>21. /\ th' \in [Tasks -> ThRecord]
       /\ \A t \in Tasks :
            /\ th'[t].child = th[t].child /\ th'[t].kind = th[t].kind
            /\ th'[t].stage = th[t].stage /\ th'[t].mm = th[t].mm
            /\ th'[t].opt = th[t].opt /\ th'[t].new = th[t].new
            /\ th'[t].pc = IF t = x THEN P ELSE IF t \in W THEN "scan" ELSE th[t].pc
            /\ th'[t].todo = IF t = x THEN D ELSE th[t].todo
  <2> HIDE DEF IInv
  <2>1. Awake(th, W) \in [Tasks -> ThRecord]
    BY <1>1, <1>20, AwakeFields
  <2>2. th' = GoOn(W, x, P, D)
    BY <1>12, <2>1 DEF GoOn
  <2>3. th \in [Tasks -> ThRecord] /\ P \in Busy \cup Ending \cup Ended
    BY <1>1, <1>20
  <2>4. x \in Tasks \ W /\ W \in SUBSET Tasks /\ D \in SUBSET Tasks
        /\ \A w \in W : th[w].pc = "asleep"
    BY <1>1, <1>20
  <2>5. WentOn(W, x, P, D)
    BY ONLY <2>2, <2>3, <2>4, AwakeAndGo
  <2> QED  BY <2>5 DEF WentOn
<1>22. /\ KeepsMaking
       /\ th'[init].pc \in {"user", "unshare", "scan", "asleep", "claim", "reap"}
       /\ \A t \in Tasks :
            /\ th'[t].pc \in Childless => th[t].pc \in Childless
            /\ th'[t].pc \in Absent <=> th[t].pc \in Absent
            /\ th'[t].pc \in {"unused", "new"} <=> th[t].pc \in {"unused", "new"}
            /\ th'[t].pc \in {"owner", "claim", "asleep"} => th'[t].pc = th[t].pc /\ t \notin W
  <2>1. \A t \in Tasks :
           /\ th'[t].child = th[t].child /\ th'[t].kind = th[t].kind
           /\ th'[t].stage = th[t].stage
           /\ th'[t].pc = IF t = x THEN P ELSE IF t \in W THEN "scan" ELSE th[t].pc
    BY <1>21
  <2> HIDE DEF IInv
  <2> QED  BY <1>20, <2>1, GoesOn
<1>23. /\ sig' \in [Tasks -> SigRecord] /\ cnt' \in [Res -> [Ids -> Int]]
       /\ \A t \in Tasks : /\ sig'[t].live = sig[t].live /\ sig'[t].cnt = sig[t].cnt
                           /\ sig'[t].exit = sig[t].exit
                           /\ sig'[t].nr = IF t = l THEN sig[t].nr - 1 ELSE sig[t].nr
       /\ \A r \in Res : \A i \in Ids :
            cnt'[r][i] = IF r = "sighand" /\ i = task[p].res.sighand
                         THEN cnt[r][i] - 1 ELSE cnt[r][i]
  <2>1. sig' = [sig EXCEPT ![l] = [sig[l] EXCEPT !.nr = @ - 1]]
    BY <1>1, <1>12
  <2>2. LET g == [sig[l] EXCEPT !.nr = @ - 1]
        IN /\ g \in SigRecord /\ g.live = sig[l].live /\ g.cnt = sig[l].cnt
           /\ g.exit = sig[l].exit /\ g.nr = sig[l].nr - 1
    <3>1. sig[l] \in SigRecord
      BY <1>1
    <3> QED  BY <3>1 DEF SigRecord
  <2>3. /\ sig' \in [Tasks -> SigRecord]
        /\ \A t \in Tasks : /\ sig'[t].live = sig[t].live /\ sig'[t].cnt = sig[t].cnt
                            /\ sig'[t].exit = sig[t].exit
                            /\ sig'[t].nr = IF t = l THEN sig[t].nr - 1 ELSE sig[t].nr
    BY <1>1, <2>1, <2>2
  <2>4. cnt.sighand \in [Ids -> Int] /\ "sighand" \in Res
    BY <1>1 DEF Res
  <2>5. cnt' = [cnt EXCEPT !["sighand"] =
                  [cnt.sighand EXCEPT ![task[p].res.sighand] = @ - 1]]
    BY <1>1, <1>12
  <2>6. /\ cnt' \in [Res -> [Ids -> Int]]
        /\ \A r \in Res : \A i \in Ids :
             cnt'[r][i] = IF r = "sighand" /\ i = task[p].res.sighand
                          THEN cnt[r][i] - 1 ELSE cnt[r][i]
    <3> DEFINE a == task[p].res.sighand
               g == [cnt.sighand EXCEPT ![a] = @ - 1]
    <3>1. /\ g \in [Ids -> Int]
          /\ \A i \in Ids : g[i] = IF i = a THEN cnt.sighand[i] - 1 ELSE cnt.sighand[i]
      <4> HIDE DEF a, IInv
      <4> QED  BY <2>4, OneLess
    <3>2. cnt' = [cnt EXCEPT !["sighand"] = g]
      BY <2>5
    <3> HIDE DEF g, a, IInv
    <3>3. \A r \in Res : cnt'[r] = IF r = "sighand" THEN g ELSE cnt[r]
      BY ONLY <1>1, <2>4, <3>2
    <3>4. cnt' \in [Res -> [Ids -> Int]]
      BY ONLY <1>1, <2>4, <3>1, <3>2
    <3> QED  BY <3>1, <3>3, <3>4 DEF a
  <2> QED  BY <2>3, <2>6
<1>24. Types'
  BY <1>1, <1>2, <1>17, <1>21, <1>23 DEF Types
<1>25. \A t \in Tasks \ {p} : task'[t] = task[t] \/ t = l
  BY <1>15, <1>17
<1>26. Phases'
  <2> SUFFICES ASSUME NEW t \in Tasks PROVE Sound(t, task'[t], th'[t])
    BY DEF Phases
  <2>1. /\ Sound(t, task[t], th[t])
        /\ th'[t].mm = th[t].mm /\ th'[t].new = th[t].new /\ th'[t].opt = th[t].opt
    BY <1>1, <1>21
  <2>2. \/ th'[t].pc = th[t].pc
        \/ th[t].pc = "asleep" /\ th'[t].pc = "scan"
        \/ th[t].pc = "bury" /\ th'[t].pc = "notify"
        \/ th[t].pc = "self" /\ th'[t].pc = "last"
        \/ th[t].pc = "reap" /\ th'[t].pc = "user"
    BY <1>2, <1>8, <1>20, <1>21
  <2>3. CASE t = p
    <3>1. th'[p].pc \in Ended /\ (th'[p].pc = "gone" <=> th[p].pc = "gone")
      BY <1>5, <2>2, <2>3 DEF Ended
    <3>2. /\ k.hashed = FALSE /\ k.rcu = TRUE /\ k.exiting /\ k.exit_state = "dead"
          /\ k.usage = task[p].usage /\ k.vfork = task[p].vfork
      BY <1>4, <1>5, <1>11, <1>16, <1>18
    <3>3. /\ k.res.mm = task[p].res.mm /\ k.res.files = task[p].res.files
          /\ k.res.fs = task[p].res.fs /\ k.res.sighand = 0
      <4>1. task[p].res \in Held
        BY <1>1, <1>4 DEF TaskRecord
      <4>2. k.res = [task[p].res EXCEPT !.sighand = 0]
        BY <1>16
      <4> QED  BY <4>1, <4>2 DEF Held, Res
    <3>4. /\ Sound(p, task[p], th[p])
          /\ th'[p].mm = th[p].mm /\ th'[p].new = th[p].new /\ th'[p].opt = th[p].opt
          /\ task[p].hashed /\ ~task[p].rcu /\ th[p].pc \in Ended
      BY <1>4, <1>5, <2>1, <2>3 DEF Live
    <3>5. Sound(p, k, th'[p])
      BY ONLY <3>1, <3>2, <3>3, <3>4 DEF Sound, Busy, Ending, Ended, Absent
    <3> QED  BY <1>17, <2>3, <3>5
  <2>4. CASE t # p
    <3>1. /\ task'[t].leader = task[t].leader /\ task'[t].hashed = task[t].hashed
          /\ task'[t].vfork = task[t].vfork /\ task'[t].rcu = task[t].rcu
          /\ task'[t].kill = task[t].kill /\ task'[t].usage = task[t].usage
          /\ task'[t].exiting = task[t].exiting /\ task'[t].res = task[t].res
      BY <1>19, <2>4
    <3>2. \/ task'[t].exit_state = task[t].exit_state
          \/ task[t].exit_state = "zombie" /\ task'[t].exit_state = "dead"
      BY <1>11, <1>19
    <3>3. task'[t] = task[t] \/ th[t].pc \notin Absent
      BY <1>6, <1>25, <2>1, <2>4 DEF Sound, Live, Blank
    <3> QED  BY ONLY <2>1, <2>2, <3>1, <3>2, <3>3, SoundMove
  <2> QED  BY <2>3, <2>4
<1>27. \A t \in Tasks : /\ Live(t)' <=> Live(t) /\ t # p
                        /\ task'[t].exiting = task[t].exiting /\ task'[t].kill = task[t].kill
                        /\ task'[t].leader = task[t].leader
                        /\ task'[t].real_parent = task[t].real_parent
  BY <1>19 DEF Live
<1>28. Makers'
  <2> HIDE DEF IInv
  <2>1. Makers /\ Types
    BY DEF IInv
  <2> QED  BY <1>19, <1>22, <2>1, MakersFrame
<1>29. Buried'
  <2>1. \A t \in Tasks : l \in th[t].todo => ~z
    BY <1>11 DEF Buried
  <2>2. \A t \in Tasks : p \in th[t].todo => t = x
    BY <1>4
  <2>3. \A t \in Tasks : th'[t].todo # {} => th'[t].pc \in {"bury", "self", "reap"}
    BY <1>2, <1>8, <1>20, <1>21 DEF Buried
  <2>4. \A t, q \in Tasks : q \in th'[t].todo => Live(q)' /\ task'[q].exit_state = "dead"
    <3> SUFFICES ASSUME NEW t \in Tasks, NEW q \in Tasks, q \in th'[t].todo
                 PROVE  Live(q)' /\ task'[q].exit_state = "dead"
      OBVIOUS
    <3>1. (q \in th[t].todo /\ q # p) \/ (z /\ q = l)
      BY <1>9, <1>21, <2>2
    <3>2. CASE q \in th[t].todo /\ q # p
      <4>1. Live(q) /\ task[q].exit_state = "dead" /\ q # p
        BY <3>2 DEF Buried
      <4> QED  BY <1>19, <1>27, <4>1
    <3>3. CASE z /\ q = l
      BY <1>6, <1>11, <1>19, <1>27, <3>3
    <3> QED  BY <3>1, <3>2, <3>3
  <2>5. \A t, u, q \in Tasks : q \in th'[t].todo /\ q \in th'[u].todo => t = u
    BY <1>9, <1>21, <2>1 DEF Buried
  <2> QED  BY <2>3, <2>4, <2>5 DEF Buried
\* p leads nobody but himself
<1>30. \A t \in Tasks : Live(t) /\ task[t].leader = p => t = p
  BY <1>4 DEF Groups, Alone
<1>31. z => \A t \in Tasks : Live(t) /\ task[t].leader = l => t \in {l, p}
  BY <1>11 DEF Group
<1>32. Groups'
  <2>1. ASSUME NEW t \in Tasks, Live(t)'
        PROVE  task'[t].leader \in Tasks /\ Live(task[t].leader)'
               /\ task'[task'[t].leader].leader = task'[t].leader
    <3>1. PICK c \in Tasks : c = task[t].leader /\ Live(c) /\ task[c].leader = c
      BY <1>27, <2>1 DEF Groups
    <3>2. c # p
      BY <1>27, <1>30, <2>1, <3>1
    <3>3. Live(c)' /\ task'[t].leader = c /\ task'[c].leader = c
      BY <1>27, <2>1, <3>1, <3>2
    <3> QED  BY <3>3
  <2>2. \A t \in Tasks : Live(t)' =>
            /\ task'[t].leader \in Tasks
            /\ Live(task[t].leader)'
            /\ task'[task'[t].leader].leader = task'[t].leader
    BY <2>1
  <2>3. ASSUME NEW c \in Tasks, Live(c)', task'[c].leader = c, task'[c].exit_state = "dead"
        PROVE  Alone(c)'
    <3>1. CASE c = l /\ z
      BY <1>27, <1>31, <3>1 DEF Alone
    <3>2. CASE ~(c = l /\ z)
      <4>1. Alone(c)
        BY <1>19, <1>27, <2>3, <3>2 DEF Groups
      <4> QED  BY <1>27, <4>1 DEF Alone
    <3> QED  BY <3>1, <3>2
  <2>4. \A t \in Tasks : th'[t].pc # "claim"
    BY <1>2, <1>22 DEF Readers
  <2>5. \A t \in Tasks : th'[t].pc \notin Absent => task'[t].leader \in Tasks
    BY <1>22, <1>27 DEF Groups
  <2>6. \A t \in Tasks : th'[t].pc \notin Absent /\ task'[t].leader # t
                            => th'[task'[t].leader].pc \notin {"unused", "new"}
    BY <1>22, <1>27 DEF Groups
  <2>7. \A c \in Tasks : Live(c)' /\ task'[c].leader = c /\ task'[c].exit_state = "dead"
                             => Alone(c)'
    BY <2>3
  <2> QED  BY <2>2, <2>4, <2>5, <2>6, <2>7 DEF Groups
<1>33. Parents'
  <2>1. task'[init].leader = init /\ task'[init].real_parent = init
    BY <1>27, TasksAssumption DEF Parents
  <2>2. ASSUME NEW t \in Tasks, Live(t)'
        PROVE  /\ task'[t].real_parent \in Tasks
               /\ task'[t].real_parent = task'[task'[t].leader].real_parent
               /\ Live(task[t].real_parent)'
               /\ th'[task'[t].real_parent].pc \notin Childless
    <3>1. PICK q, c \in Tasks : /\ q = task[t].real_parent /\ c = task[t].leader
                               /\ q = task[c].real_parent /\ Live(q)
                               /\ th[q].pc \notin Childless
      BY <1>27, <2>2 DEF Parents, Groups
    <3>2. q # p
      BY <1>5, <3>1 DEF Ended, Childless
    <3>3. /\ Live(q)' /\ th'[q].pc \notin Childless /\ task'[t].real_parent = q
          /\ task'[t].leader = c /\ task'[c].real_parent = q
      BY <1>22, <1>27, <3>1, <3>2
    <3> QED  BY <3>1, <3>3
  <2> QED  BY <1>22, <2>1, <2>2 DEF Parents
<1>34. l # p => ~Alone(l)
  BY <1>4, <1>6 DEF Alone
<1>35. Alone(l)' /\ l # p => Group(l) \ {p} = {l}
  BY <1>6, <1>27 DEF Alone, Group
<1>36. NoZombieLeft'
  <2> SUFFICES ASSUME NEW c \in Tasks, Live(c)', task'[c].leader = c,
                      task'[c].exit_state = "zombie", Detached(c)', Alone(c)'
               PROVE  FALSE
    BY DEF NoZombieLeft
  <2>1. Live(c) /\ c # p /\ task[c].leader = c /\ task[c].exit_state = "zombie"
    BY <1>19, <1>27
  <2>2. CASE c = l
    <3>1. ~z /\ s = "detached"
      BY <1>19, <2>2 DEF Detached
    <3>2. LastOfGroup(p, l)
      BY <1>35, <2>1, <2>2 DEF LastOfGroup
    <3> QED  BY <1>10, <3>1, <3>2
  <2>3. CASE c # l
    <3>1. Alone(c)
      BY <1>6, <1>27, <2>3 DEF Alone
    <3> QED  BY <1>19, <2>1, <2>3, <3>1 DEF NoZombieLeft, Detached
  <2> QED  BY <2>2, <2>3
<1>37. Killed'
  <2>1. \A t \in Tasks :
              /\ Live(t)' => Live(t) /\ task'[t].leader = task[t].leader /\ task[t].leader \in Tasks
              /\ Live(t)' /\ (task[t].exiting \/ task[t].kill) => task'[t].exiting \/ task'[t].kill
              /\ th'[t].pc \in {"unused", "new"} => th[t].pc \in {"unused", "new"}
              /\ sig'[t].exit => sig[t].exit
    BY <1>22, <1>23, <1>27 DEF Groups
  <2> QED  BY <2>1, KilledFrame
<1>38. SharedCounted'
  <2>1. PICK R \in SUBSET Res : R = {"sighand"}
    BY DEF Res
  <2>2. \A r \in Res : task'[p].res[r] = IF r \in R THEN 0 ELSE task[p].res[r]
    <3>1. task[p].res \in Held /\ task'[p].res = [task[p].res EXCEPT !.sighand = 0]
      BY <1>1, <1>4, <1>19 DEF TaskRecord
    <3> QED  BY <2>1, <3>1 DEF Held
  <2>3. th[p].pc # "new" /\ "mm" \notin R
    BY <1>5, <2>1 DEF Ended
  <2>4. \A r \in Res : \A i \in Ids :
            cnt'[r][i] = IF r \in R /\ Ref(r, p) = i THEN cnt[r][i] - 1 ELSE cnt[r][i]
    BY <1>23, <2>1 DEF Ref
  <2>5. SharedCounted /\ Types /\ KeepsMaking
    BY <1>22
  <2>6. \A t \in Tasks \ {p} : /\ task'[t].res = task[t].res
                               /\ th'[t].mm = th[t].mm /\ th'[t].new = th[t].new
    BY <1>19, <1>21
  <2>7. th'[p].new = th[p].new /\ th'[p].mm = IF "mm" \in R THEN 0 ELSE th[p].mm
    BY <1>4, <1>21, <2>3
  <2> HIDE DEF IInv
  <2> QED  BY <1>4, <2>2, <2>3, <2>4, <2>5, <2>6, <2>7, SharedDrop, MakingMade
<1>39. SigCounted'
  <2>1. \A t \in Tasks : (Led(t)' <=> Led(t)) /\ (Begun(t)' <=> Begun(t))
    BY <1>22, MakerFrame, MakingMade
  <2>2. ~Led(p) /\ ~Begun(p)
    BY <1>5 DEF Led, Begun, Maker, Makers, Ended
  <2>3. ASSUME NEW c \in Tasks
        PROVE  /\ Listed(c)' = IF c = l THEN Listed(c) \ {p} ELSE Listed(c)
               /\ Staying(c)' = Staying(c)
               /\ c = l => p \in Listed(c)
    <3>1. p \in Listed(c) <=> c = l
      BY <1>4, <1>6 DEF Listed
    <3>2. \A t \in Tasks : t \in Listed(c)' <=> t \in Listed(c) /\ t # p
      BY <1>27, <2>1, <2>2 DEF Listed
    <3>3. Listed(c) \subseteq Tasks /\ Listed(c)' \subseteq Tasks
      BY DEF Listed
    <3>4. Listed(c)' = Listed(c) \ {p}
      BY ONLY <3>2, <3>3
    <3>5. Staying(c)' = Staying(c)
      BY <1>5, <1>27, <3>3, <3>4 DEF Staying
    <3> QED  BY <3>1, <3>4, <3>5
  <2>4. ASSUME NEW c \in Tasks PROVE Members(c)' = Members(c)
    <3>1. \A t \in Tasks : th'[t].pc \notin Absent \cup {"new"} <=> th[t].pc \notin Absent \cup {"new"}
      BY <1>22 DEF KeepsMaking, MakePcs
    <3> QED  BY <1>27, <2>1, <3>1 DEF Members
  <2>5. Charged' = Charged \ {p} /\ p \in Charged /\ Alive' = Alive \ {p} /\ p \in Alive
    BY <1>4, <1>27, <2>1, <2>2 DEF Charged, Alive
  <2>6. ASSUME NEW c \in Tasks
        PROVE  /\ sig'[c].nr = Cardinality(Listed(c)')
               /\ sig'[c].live = Cardinality(Staying(c)')
               /\ sig'[c].cnt = Cardinality(Members(c)')
    <3>1. CASE c = l
      <4>1. Cardinality(Listed(c) \ {p}) = Cardinality(Listed(c)) - 1
        <5>1. Listed(c) \in SUBSET Tasks /\ p \in Listed(c)
          BY <2>3, <3>1 DEF Listed
        <5> QED  BY <5>1, CountLess
      <4> QED  BY <1>23, <2>3, <2>4, <3>1, <4>1, ZenonT(60) DEF SigCounted
    <3>2. CASE c # l
      BY <1>23, <2>3, <2>4, <3>2 DEF SigCounted
    <3> QED  BY <3>1, <3>2
  <2>7. /\ processes' = Cardinality(Charged') /\ nr_threads' = Cardinality(Alive')
    <3>1. Charged \in SUBSET Tasks /\ Alive \in SUBSET Tasks
      BY DEF Charged, Alive
    <3>2. /\ Cardinality(Charged \ {p}) = Cardinality(Charged) - 1
          /\ Cardinality(Alive \ {p}) = Cardinality(Alive) - 1
      BY <2>5, <3>1, CountLess
    <3> QED  BY <1>2, <2>5, <3>2 DEF SigCounted
  <2> QED  BY <2>6, <2>7 DEF SigCounted
<1>40. cnt'.mm = cnt.mm /\ \A t \in Tasks : task'[t].res.mm = task[t].res.mm
  <2>1. ASSUME NEW t \in Tasks PROVE task'[t].res.mm = task[t].res.mm
    <3>1. task[t].res \in Held
      BY <1>1 DEF TaskRecord
    <3>2. [task[t].res EXCEPT !.sighand = 0].mm = task[t].res.mm
      BY <3>1 DEF Held, Res
    <3> QED  BY <1>19, <3>2
  <2>2. cnt'.mm = cnt.mm
    BY <1>1, <1>12 DEF Res
  <2> QED  BY <2>1, <2>2
<1>41. OwnerUsesMm'
  BY <1>2, <1>21, <1>27, <1>40, OwnersFrame
<1>42. NewOwners'
  BY <1>2, <1>21, <1>22, <1>40, NewOwnersFrame, MakingMade
<1>43. NoneMissed'
  <2> SUFFICES ASSUME NEW y \in Tasks, NEW c \in Tasks, Missed(y, c)' PROVE FALSE
    BY DEF NoneMissed
  <2>1. /\ th[y].pc = "asleep" /\ y \notin W /\ th'[y].opt = th[y].opt
        /\ ~th[y].opt.nothread /\ c # init /\ EligiblePid(y, c)
    BY <1>21, <1>22 DEF Missed, EligibleChild, EligiblePid
  <2>2. /\ Live(c) /\ c # p /\ task[c].leader = c
        /\ task[c].exit_state = "zombie" /\ ~(c = l /\ z)
    BY <1>19, <1>27 DEF Missed
  <2>3. PICK q \in Tasks : q = task[c].real_parent
    BY <2>2 DEF Parents
  <2>4. Live(q) /\ SameGroup(q, y)
    BY <1>27, <2>3 DEF Missed, SameGroup
  <2>5. CASE c = l
    <3>1. LastOfGroup(p, l)
      BY <1>35, <2>2, <2>5 DEF LastOfGroup, Missed
    <3>2. y \in Woken(l, q)
      BY <2>1, <2>4, <2>5 DEF Woken, SameGroup
    <3> QED  BY <1>10, <2>1, <2>3, <2>5, <3>1, <3>2
  <2>6. CASE c # l
    <3>1. Alone(c)
      BY <1>6, <1>27, <2>6 DEF Missed, Alone
    <3>2. EligibleChild(y, c)
      BY <1>19, <2>1, <2>6 DEF Missed, EligibleChild, EligiblePid
    <3>3. Missed(y, c)
      BY <2>1, <2>2, <2>3, <2>4, <3>1, <3>2 DEF Missed
    <3> QED  BY <3>3 DEF NoneMissed
  <2> QED  BY <2>5, <2>6
<1> QED  BY <1>24, <1>26, <1>28, <1>29, <1>32, <1>33, <1>36, <1>37, <1>38, <1>39, <1>41,
            <1>42, <1>43

\* forget_original_parent keeps the invariant: the heir still has its children and
\* hears of the dead, or they are buried here.
LEMMA ForgetKeeps ==
    ASSUME IInv, NEW x \in Tasks, Forget(x)
    PROVE  IInv'
<1> USE DEF IInv
<1>1. /\ task \in [Tasks -> TaskRecord] /\ th \in [Tasks -> ThRecord]
      /\ \A t \in Tasks : Sound(t, task[t], th[t])
      /\ \A t \in Tasks : task[t] \in TaskRecord /\ th[t] \in ThRecord
  BY DEF Types, Phases
<1>2. /\ th[x].pc = "forget" /\ Readers = {}
      /\ UNCHANGED <<sig, cnt, owner, processes, nr_threads>>
  BY DEF Forget
<1>3. Live(x) /\ task[x].exiting /\ x # init /\ th[x].todo = {} /\ task[x].leader \in Tasks
  <2>1. Live(x) /\ task[x].exiting
    BY <1>1, <1>2 DEF Sound, Ending, Live
  <2> QED  BY <1>2, <2>1 DEF Parents, Buried, Groups
\* The new parent, the children and those that are reported to him
<1>a. PICK heir \in IF Adopters(x) = {} THEN {init} ELSE Adopters(x) :
         LET threaded == SameGroup(heir, x)
             left     == Children(x)
             reported == {p \in left : /\ ~threaded /\ ~Detached(p)
                                       /\ task[p].exit_state = "zombie" /\ GroupEmpty(p)}
             chld(p)  == IF threaded \/ Detached(p) THEN task[p]
                         ELSE [task[p] EXCEPT !.exit_signal = "SIGCHLD"]
             signal   == IF task[heir].leader \in Ignoring THEN "detached" ELSE "SIGCHLD"
             dead     == IF signal = "detached" THEN reported ELSE {}
         IN /\ task' = [t \in Tasks |->
                  IF ~Live(t) \/ task[t].leader \notin left THEN task[t]
                  ELSE [chld(t) EXCEPT
                          !.real_parent = heir,
                          !.exit_signal = IF t \in reported THEN signal ELSE @,
                          !.exit_state = IF t \in dead THEN "dead" ELSE @]]
            /\ th' = [Awake(th, UNION {Woken(p, heir) : p \in reported})
                        EXCEPT ![x].pc = IF dead = {} THEN "notify" ELSE "bury",
                               ![x].todo = dead]
  <2> HIDE DEF IInv
  <2> QED  BY Zenon DEF Forget
<1> DEFINE Threaded == SameGroup(heir, x)
           Reported == {p \in Children(x) : /\ ~Threaded /\ ~Detached(p)
                                      /\ task[p].exit_state = "zombie" /\ GroupEmpty(p)}
           Signal   == IF task[heir].leader \in Ignoring THEN "detached" ELSE "SIGCHLD"
           Dead     == IF Signal = "detached" THEN Reported ELSE {}
<1>4. /\ task' = [t \in Tasks |->
              IF ~Live(t) \/ task[t].leader \notin Children(x) THEN task[t]
              ELSE [(IF Threaded \/ Detached(t) THEN task[t]
                     ELSE [task[t] EXCEPT !.exit_signal = "SIGCHLD"]) EXCEPT
                      !.real_parent = heir,
                      !.exit_signal = IF t \in Reported THEN Signal ELSE @,
                      !.exit_state = IF t \in Dead THEN "dead" ELSE @]]
      /\ th' = [Awake(th, UNION {Woken(p, heir) : p \in Reported})
                  EXCEPT ![x].pc = IF Dead = {} THEN "notify" ELSE "bury",
                         ![x].todo = Dead]
  <2> HIDE DEF IInv
  <2> QED  BY <1>a, ZenonT(60)
<1>5. heir \in Tasks /\ Live(heir) /\ heir # x /\ th[heir].pc \in Busy
  <2>1. CASE Adopters(x) = {}
    <3>1. heir = init /\ th[init].pc \in Busy
      BY <1>a, <2>1 DEF Parents, Busy
    <3>2. Live(init)
      BY <1>1, <3>1, TasksAssumption DEF Sound, Live
    <3> QED  BY <1>3, <3>1, <3>2, TasksAssumption
  <2>2. CASE Adopters(x) # {}
    <3>1. heir \in Tasks /\ Live(heir) /\ heir # x /\ ~task[heir].exiting
      BY <1>a, <2>2 DEF Adopters, Group, Exiting
    <3>2. Sound(heir, task[heir], th[heir]) /\ th[heir] \in ThRecord
      BY <1>1, <3>1
    <3>3. th[heir].pc \in Busy
      BY ONLY <3>1, <3>2 DEF Sound, Live, Busy, Ending, Ended, Absent, Blank, ThRecord
    <3> QED  BY <3>1, <3>3
  <2> QED  BY <2>1, <2>2
<1>6. PICK b \in BOOLEAN, L \in SUBSET Tasks, R \in SUBSET Tasks, D \in SUBSET Tasks,
           W \in SUBSET Tasks, s \in {"detached", "SIGCHLD"}, P \in {"notify", "bury"} :
         /\ b = SameGroup(heir, x) /\ L = Children(x) /\ R = Reported
         /\ D = Dead /\ W = UNION {Woken(p, heir) : p \in R} /\ s = Signal
         /\ P = IF D = {} THEN "notify" ELSE "bury"
  <2>1. SameGroup(heir, x) \in BOOLEAN
    BY DEF SameGroup
  <2>2. Children(x) \in SUBSET Tasks
    BY DEF Children
  <2>3. Reported \in SUBSET Tasks /\ Dead \in SUBSET Tasks
    BY <2>2
  <2>4. UNION {Woken(p, heir) : p \in Reported} \in SUBSET Tasks
    BY DEF Woken
  <2>5. Signal \in {"detached", "SIGCHLD"}
    OBVIOUS
  <2> HIDE DEF Threaded, Reported, Signal, Dead, IInv
  <2>6. (IF Dead = {} THEN "notify" ELSE "bury") \in {"notify", "bury"}
    OBVIOUS
  <2> QED  BY <2>1, <2>2, <2>3, <2>4, <2>5, <2>6
<1>7. \A p \in Tasks : p \in L <=> /\ p # init /\ Live(p) /\ task[p].leader = p
                                   /\ task[p].real_parent = x
  BY <1>6 DEF Children
<1>8. \A p \in Tasks : p \in R <=> /\ p \in L /\ ~b /\ ~Detached(p)
                                   /\ task[p].exit_state = "zombie" /\ Alone(p)
  <2>1. \A p \in Tasks : p \in R <=> /\ p \in L /\ ~b /\ ~Detached(p)
                                   /\ task[p].exit_state = "zombie" /\ GroupEmpty(p)
    BY <1>6
  <2>2. \A p \in L : GroupEmpty(p) <=> Alone(p)
    BY <1>7 DEF GroupEmpty, Group, Alone
  <2> QED  BY <2>1, <2>2
<1>9. D = IF s = "detached" THEN R ELSE {}
  BY <1>6
<1>10. \A w \in Tasks : w \in W <=> \E p \in R : w \in Woken(p, heir)
  BY <1>6
<1> DEFINE In(t)   == Live(t) /\ task[t].leader \in L
           sgn(t)  == IF t \in R THEN s ELSE IF b \/ Detached(t) THEN task[t].exit_signal
                                              ELSE "SIGCHLD"
           st(t)   == IF t \in D THEN "dead" ELSE task[t].exit_state
           moved(t) == [task[t] EXCEPT !.real_parent = heir, !.exit_signal = sgn(t),
                                       !.exit_state = st(t)]
<1>11. ASSUME NEW t \in Tasks
       PROVE  task'[t] = IF In(t) THEN moved(t) ELSE task[t]
  <2>1. task'[t] = IF ~Live(t) \/ task[t].leader \notin L THEN task[t]
                   ELSE [(IF b \/ Detached(t) THEN task[t]
                          ELSE [task[t] EXCEPT !.exit_signal = "SIGCHLD"]) EXCEPT
                           !.real_parent = heir,
                           !.exit_signal = IF t \in R THEN s ELSE @,
                           !.exit_state = IF t \in D THEN "dead" ELSE @]
    BY <1>4, <1>6
  <2>2. task[t] \in TaskRecord
    BY <1>1
  <2>3. CASE ~In(t)
    BY <2>1, <2>3
  <2>4. CASE In(t) /\ (b \/ Detached(t))
    <3>1. task'[t] = [task[t] EXCEPT
                           !.real_parent = heir,
                           !.exit_signal = IF t \in R THEN s ELSE @,
                           !.exit_state = IF t \in D THEN "dead" ELSE @]
      BY <2>1, <2>4
    <3> HIDE DEF IInv
    <3> QED  BY <2>2, <2>4, <3>1 DEF TaskRecord
  <2>5. CASE In(t) /\ ~(b \/ Detached(t))
    <3>1. task'[t] = [[task[t] EXCEPT !.exit_signal = "SIGCHLD"] EXCEPT
                           !.real_parent = heir,
                           !.exit_signal = IF t \in R THEN s ELSE @,
                           !.exit_state = IF t \in D THEN "dead" ELSE @]
      BY <2>1, <2>5
    <3> DEFINE g == [task[t] EXCEPT !.exit_signal = "SIGCHLD"]
    <3>2. /\ g \in TaskRecord /\ g.exit_signal = "SIGCHLD" /\ g.exit_state = task[t].exit_state
          /\ \A e \in {"detached", "SIGCHLD"}, d \in {"0", "zombie", "dead"} :
               [g EXCEPT !.real_parent = heir, !.exit_signal = e, !.exit_state = d]
               = [task[t] EXCEPT !.real_parent = heir, !.exit_signal = e, !.exit_state = d]
      <4> HIDE DEF IInv
      <4> QED  BY ONLY <2>2 DEF TaskRecord, Signals
    <3> HIDE DEF g
    <3>3. st(t) \in {"0", "zombie", "dead"} /\ sgn(t) \in {"detached", "SIGCHLD"}
          /\ sgn(t) = IF t \in R THEN s ELSE "SIGCHLD"
      BY <2>2, <2>5 DEF TaskRecord
    <3>4. task'[t] = [g EXCEPT !.real_parent = heir,
                               !.exit_signal = IF t \in R THEN s ELSE g.exit_signal,
                               !.exit_state = IF t \in D THEN "dead" ELSE g.exit_state]
      BY <3>1, <3>2 DEF g, TaskRecord
    <3>5. task'[t] = [g EXCEPT !.real_parent = heir, !.exit_signal = sgn(t), !.exit_state = st(t)]
      BY <3>2, <3>3, <3>4
    <3> HIDE DEF st, sgn
    <3>6. task'[t] = moved(t)
      BY <3>2, <3>3, <3>5
    <3> QED  BY <2>5, <3>6
  <2> QED  BY <2>3, <2>4, <2>5
<1>12. th' = GoOn(W, x, P, D)
  <2>1. th' = [Awake(th, W) EXCEPT ![x].pc = P, ![x].todo = D]
    BY <1>4, <1>6
  <2> QED  BY <2>1 DEF GoOn
<1> HIDE DEF Threaded, Reported, Signal, Dead
<1>13. \A t \in Tasks : s \in Signals /\ sgn(t) \in Signals /\ (t \in D => task[t].exit_state = "zombie")
  <2>1. \A t \in Tasks : task[t].exit_signal \in Signals
    BY <1>1 DEF TaskRecord
  <2>2. s \in Signals /\ "SIGCHLD" \in Signals
    BY DEF Signals
  <2>3. \A t \in Tasks : t \in D => t \in R /\ task[t].exit_state = "zombie"
    BY <1>8, <1>9
  <2> QED  BY <2>1, <2>2, <2>3
<1>14. ASSUME NEW t \in Tasks
       PROVE  /\ task'[t] \in TaskRecord
              /\ task'[t].leader = task[t].leader /\ task'[t].hashed = task[t].hashed
              /\ task'[t].exiting = task[t].exiting /\ task'[t].kill = task[t].kill
              /\ task'[t].usage = task[t].usage /\ task'[t].rcu = task[t].rcu
              /\ task'[t].vfork = task[t].vfork /\ task'[t].res = task[t].res
              /\ task'[t].real_parent = IF In(t) THEN heir ELSE task[t].real_parent
              /\ task'[t].exit_signal = IF In(t) THEN sgn(t) ELSE task[t].exit_signal
              /\ task'[t].exit_state = IF In(t) THEN st(t) ELSE task[t].exit_state
  <2>1. task[t] \in TaskRecord /\ heir \in Links /\ sgn(t) \in Signals
        /\ st(t) \in {"0", "zombie", "dead"}
    BY <1>1, <1>5, <1>13 DEF TaskRecord, Links
  <2>2. CASE ~In(t)
    BY <1>11, <2>1, <2>2
  <2>3. CASE In(t)
    <3>1. task'[t] = moved(t)
      BY <1>11, <2>3
    <3>2. /\ moved(t) \in TaskRecord
          /\ moved(t).leader = task[t].leader /\ moved(t).hashed = task[t].hashed
          /\ moved(t).exiting = task[t].exiting /\ moved(t).kill = task[t].kill
          /\ moved(t).usage = task[t].usage /\ moved(t).rcu = task[t].rcu
          /\ moved(t).vfork = task[t].vfork /\ moved(t).res = task[t].res
          /\ moved(t).real_parent = heir /\ moved(t).exit_signal = sgn(t)
          /\ moved(t).exit_state = st(t)
      <4> HIDE DEF sgn, st, IInv
      <4> QED  BY ONLY <2>1 DEF TaskRecord
    <3> QED  BY <2>3, <3>1, <3>2
  <2> QED  BY <2>2, <2>3
<1> HIDE DEF moved
<1>15. x \in Tasks \ W /\ \A w \in W : th[w].pc = "asleep"
  BY <1>2, <1>10 DEF Woken
<1>16. /\ th' \in [Tasks -> ThRecord]
       /\ \A t \in Tasks :
            /\ th'[t].child = th[t].child /\ th'[t].kind = th[t].kind
            /\ th'[t].stage = th[t].stage /\ th'[t].mm = th[t].mm
            /\ th'[t].opt = th[t].opt /\ th'[t].new = th[t].new
            /\ th'[t].pc = IF t = x THEN P ELSE IF t \in W THEN "scan" ELSE th[t].pc
            /\ th'[t].todo = IF t = x THEN D ELSE th[t].todo
  <2>1. P \in Busy \cup Ending \cup Ended
    BY DEF Ending
  <2>2. th \in [Tasks -> ThRecord]
    BY <1>1
  <2>3. th' = GoOn(W, x, P, D) /\ W \in SUBSET Tasks /\ D \in SUBSET Tasks
    BY <1>12
  <2> HIDE DEF IInv
  <2>4. WentOn(W, x, P, D)
    BY ONLY <1>15, <2>1, <2>2, <2>3, AwakeAndGo
  <2> QED  BY <2>4 DEF WentOn
<1>17. /\ KeepsMaking /\ KeepsHeld
       /\ th'[init].pc \in {"user", "unshare", "scan", "asleep", "claim", "reap"}
       /\ \A t \in Tasks :
            /\ th'[t].pc \in Childless => th[t].pc \in Childless \/ t = x
            /\ th'[t].pc \in Absent <=> th[t].pc \in Absent
            /\ th'[t].pc \in {"unused", "new"} <=> th[t].pc \in {"unused", "new"}
            /\ th'[t].pc \in {"owner", "claim", "asleep"} => th'[t].pc = th[t].pc /\ t \notin W
  <2>1. KeepsMaking
    BY <1>2, <1>15, <1>16 DEF KeepsMaking, MakePcs
  <2>2. KeepsHeld
    BY <1>14, <1>16 DEF KeepsHeld
  <2>3. th'[init].pc \in {"user", "unshare", "scan", "asleep", "claim", "reap"}
    BY <1>3, <1>15, <1>16, TasksAssumption DEF Parents
  <2>4. \A t \in Tasks :
            /\ th'[t].pc \in Childless => th[t].pc \in Childless \/ t = x
            /\ th'[t].pc \in Absent <=> th[t].pc \in Absent
            /\ th'[t].pc \in {"unused", "new"} <=> th[t].pc \in {"unused", "new"}
            /\ th'[t].pc \in {"owner", "claim", "asleep"} => th'[t].pc = th[t].pc /\ t \notin W
    BY <1>2, <1>15, <1>16 DEF Childless, Absent
  <2> QED  BY <2>1, <2>2, <2>3, <2>4
<1>18. Types'
  <2>1. task' \in [Tasks -> TaskRecord]
    <3>1. \E g : task' = [t \in Tasks |-> g[t]]
      <4> DEFINE g == [t \in Tasks |-> IF In(t) THEN moved(t) ELSE task[t]]
      <4>1. task' = [t \in Tasks |-> task'[t]]
        BY <1>4
      <4> QED  BY <4>1
    <3> QED  BY <1>14, <3>1
  <2> QED  BY <1>2, <1>16, <2>1 DEF Types
<1>19. Phases'
  <2> SUFFICES ASSUME NEW t \in Tasks PROVE Sound(t, task'[t], th'[t])
    BY DEF Phases
  <2>1. /\ Sound(t, task[t], th[t])
        /\ th'[t].mm = th[t].mm /\ th'[t].new = th[t].new /\ th'[t].opt = th[t].opt
    BY <1>1, <1>16
  <2>2. \/ th'[t].pc = th[t].pc
        \/ th[t].pc = "asleep" /\ th'[t].pc = "scan"
        \/ th[t].pc = "forget" /\ th'[t].pc \in {"notify", "bury"}
    BY <1>2, <1>15, <1>16
  <2>3. /\ task'[t].leader = task[t].leader /\ task'[t].hashed = task[t].hashed
        /\ task'[t].vfork = task[t].vfork /\ task'[t].rcu = task[t].rcu
        /\ task'[t].kill = task[t].kill /\ task'[t].usage = task[t].usage
        /\ task'[t].exiting = task[t].exiting /\ task'[t].res = task[t].res
    BY <1>14
  <2>4. \/ task'[t].exit_state = task[t].exit_state
        \/ task[t].exit_state = "zombie" /\ task'[t].exit_state = "dead"
    BY <1>13, <1>14
  <2>5. task'[t] = task[t] \/ th[t].pc \notin Absent
    <3>1. CASE In(t)
      BY <2>1, <3>1 DEF Sound, Live, Blank
    <3>2. CASE ~In(t)
      BY <1>11, <3>2
    <3> QED  BY <3>1, <3>2
  <2> QED  BY ONLY <2>1, <2>2, <2>3, <2>4, <2>5, SoundMove
<1>20. \A t \in Tasks :
              /\ task'[t].hashed = task[t].hashed /\ task'[t].leader = task[t].leader
              /\ task'[t].vfork = task[t].vfork /\ (Live(t)' <=> Live(t))
              /\ task'[t].exiting = task[t].exiting /\ task'[t].kill = task[t].kill
              /\ Alone(t)' <=> Alone(t)
  <2>1. \A t \in Tasks : task'[t].hashed = task[t].hashed /\ task'[t].leader = task[t].leader
    BY <1>14
  <2>2. \A t \in Tasks : Live(t)' <=> Live(t)
    BY <2>1 DEF Live
  <2>3. \A t \in Tasks : Alone(t)' <=> Alone(t)
    BY <2>1, <2>2 DEF Alone
  <2> QED  BY <1>14, <2>1, <2>2, <2>3
<1>21. Makers' /\ Killed' /\ SharedCounted' /\ SigCounted' /\ OwnerUsesMm' /\ NewOwners'
  <2> HIDE DEF IInv
  <2> QED  BY <1>2, <1>16, <1>17, <1>20, QuietParts
<1>22. \A t \in D : Alone(t) /\ Live(t) /\ task[t].leader = t /\ task[t].exit_state = "zombie"
                    /\ task'[t].exit_state = "dead"
  BY <1>7, <1>8, <1>9, <1>14
<1>23. Buried'
  <2>1. \A t, q \in Tasks : q \in D => q \notin th[t].todo
    BY <1>22 DEF Buried
  <2>2. \A t \in Tasks : th'[t].todo # {} => th'[t].pc \in {"bury", "self", "reap"}
    <3>1. D # {} => P = "bury"
      BY <1>6
    <3> QED  BY <1>15, <1>16, <3>1 DEF Buried
  <2>3. \A t, q \in Tasks : q \in th'[t].todo => Live(q)' /\ task'[q].exit_state = "dead"
    <3> SUFFICES ASSUME NEW t \in Tasks, NEW q \in Tasks, q \in th'[t].todo
                 PROVE  Live(q)' /\ task'[q].exit_state = "dead"
      OBVIOUS
    <3>1. CASE t = x
      BY <1>16, <1>20, <1>22, <3>1
    <3>2. CASE t # x
      <4>1. Live(q) /\ task[q].exit_state = "dead"
        BY <1>16, <3>2 DEF Buried
      <4> QED  BY <1>14, <1>20, <4>1
    <3> QED  BY <3>1, <3>2
  <2>4. \A t, u, q \in Tasks : q \in th'[t].todo /\ q \in th'[u].todo => t = u
    BY <1>16, <2>1 DEF Buried
  <2> QED  BY <2>2, <2>3, <2>4 DEF Buried
<1>24. Groups'
  <2>1. \A t \in Tasks :
              /\ Live(t) /\ task'[t].exit_state = "dead" /\ task[t].leader = t
                    => task[t].exit_state = "dead" \/ Alone(t)
    BY <1>14, <1>22
  <2> QED  BY <1>16, <1>17, <1>20, <2>1, GroupsFrame
<1>25. ASSUME NEW t \in Tasks, Live(t)
       PROVE  \/ In(t) /\ In(task[t].leader) /\ task[t].leader \in Tasks
              \/ /\ ~In(t) /\ ~In(task[t].leader) /\ task[t].leader \in Tasks
                 /\ task[t].real_parent # x
  <2>1. PICK c \in Tasks : c = task[t].leader /\ Live(c) /\ task[c].leader = c
    BY <1>25 DEF Groups
  <2>2. task[t].real_parent = task[c].real_parent
    BY <1>25, <2>1 DEF Parents
  <2>3. In(t) <=> In(c)
    BY <1>25, <2>1
  <2>4. c \notin L => task[c].real_parent # x
    BY <1>3, <1>7, <2>1 DEF Parents
  <2> QED  BY <1>25, <2>1, <2>2, <2>3, <2>4
<1>26. Parents'
  <2>1. task'[init].leader = init /\ task'[init].real_parent = init
    <3>1. task[init].leader = init /\ task[init].real_parent = init /\ init \in Tasks
      BY TasksAssumption DEF Parents
    <3>2. ~In(init)
      BY <1>7, <3>1
    <3> QED  BY <1>14, <3>1, <3>2
  <2>2. ASSUME NEW t \in Tasks, Live(t)'
        PROVE  /\ task'[t].real_parent \in Tasks
               /\ task'[t].real_parent = task'[task'[t].leader].real_parent
               /\ Live(task[t].real_parent)'
               /\ th'[task'[t].real_parent].pc \notin Childless
    <3>1. Live(t)
      BY <1>20, <2>2
    <3>2. PICK c, q \in Tasks : /\ c = task[t].leader /\ q = task[t].real_parent
                               /\ task[c].real_parent = q /\ Live(q)
                               /\ th[q].pc \notin Childless
      BY <3>1 DEF Groups, Parents
    <3>3. CASE In(t) /\ In(c)
      <4>1. task'[t].real_parent = heir /\ task'[c].real_parent = heir /\ task'[t].leader = c
        BY <1>14, <3>2, <3>3
      <4>2. Live(heir)' /\ th'[heir].pc \notin Childless
        BY <1>5, <1>17, <1>20 DEF Busy, Childless
      <4> QED  BY <1>5, <4>1, <4>2
    <3>4. CASE ~In(t) /\ ~In(c) /\ q # x
      <4>1. task'[t].real_parent = q /\ task'[c].real_parent = q /\ task'[t].leader = c
        BY <1>14, <3>2, <3>4
      <4>2. Live(q)' /\ th'[q].pc \notin Childless
        BY <1>17, <1>20, <3>2, <3>4
      <4> QED  BY <3>2, <4>1, <4>2
    <3> QED  BY <1>25, <3>1, <3>2, <3>3, <3>4
  <2> QED  BY <1>17, <2>1, <2>2 DEF Parents
<1>27. NoZombieLeft'
  <2> SUFFICES ASSUME NEW c \in Tasks, Live(c)', task'[c].leader = c,
                      task'[c].exit_state = "zombie", Detached(c)', Alone(c)'
               PROVE  FALSE
    BY DEF NoZombieLeft
  <2>1. Live(c) /\ task[c].leader = c /\ Alone(c)
    BY <1>20
  <2>2. CASE ~In(c)
    BY <1>14, <2>1, <2>2 DEF NoZombieLeft, Detached
  <2>3. CASE In(c)
    <3>1. c \in L /\ c \notin D /\ task[c].exit_state = "zombie" /\ sgn(c) = "detached"
      BY <1>14, <2>1, <2>3 DEF Detached
    <3>2. ~Detached(c)
      BY <2>1, <3>1 DEF NoZombieLeft
    <3> QED  BY <1>8, <1>9, <2>1, <3>1, <3>2 DEF Detached
  <2> QED  BY <2>2, <2>3
<1>28. NoneMissed'
  <2> SUFFICES ASSUME NEW y \in Tasks, NEW c \in Tasks, Missed(y, c)' PROVE FALSE
    BY DEF NoneMissed
  <2>1. /\ th[y].pc = "asleep" /\ y \notin W /\ th'[y].opt = th[y].opt
        /\ ~th[y].opt.nothread /\ c # init /\ EligiblePid(y, c)
    BY <1>16, <1>17 DEF Missed, EligibleChild, EligiblePid
  <2>2. Live(c) /\ task[c].leader = c /\ Alone(c) /\ task'[c].exit_state = "zombie"
    BY <1>20 DEF Missed
  <2>3. PICK q \in Tasks : q = task[c].real_parent /\ Live(q)
    BY <2>2 DEF Parents
  <2>4. CASE ~In(c)
    <3>1. SameGroup(q, y) /\ task[c].exit_state = "zombie" /\ EligibleChild(y, c)
      BY <1>14, <2>1, <2>3, <2>4 DEF Missed, SameGroup, EligibleChild, EligiblePid
    <3>2. Missed(y, c)
      BY <2>1, <2>2, <2>3, <3>1 DEF Missed
    <3> QED  BY <3>2 DEF NoneMissed
  <2>5. CASE In(c)
    <3>1. c \in L /\ c \notin D /\ task[c].exit_state = "zombie" /\ q = x
      BY <1>7, <1>14, <2>2, <2>3, <2>5
    <3>2. SameGroup(heir, y)
      BY <1>5, <1>14, <2>5 DEF Missed, SameGroup
    <3>3. ~Detached(c)
      BY <2>2, <3>1 DEF NoZombieLeft
    <3>4. CASE b
      <4>1. SameGroup(q, y)
        BY <1>6, <3>1, <3>2, <3>4 DEF SameGroup
      <4>2. task'[c].exit_signal = task[c].exit_signal
        BY <1>8, <1>14, <2>5, <3>4
      <4>3. Missed(y, c)
        BY <2>1, <2>2, <2>3, <3>1, <4>1, <4>2 DEF Missed, EligibleChild, EligiblePid
      <4> QED  BY <4>3 DEF NoneMissed
    <3>5. CASE ~b
      <4>1. c \in R
        BY <1>8, <2>2, <3>1, <3>3, <3>5
      <4>2. y \in Woken(c, heir)
        BY <2>1, <3>2 DEF Woken, SameGroup
      <4> QED  BY <1>10, <2>1, <4>1, <4>2
    <3> QED  BY <3>4, <3>5
  <2> QED  BY <2>4, <2>5
<1> QED  BY <1>18, <1>19, <1>21, <1>23, <1>24, <1>26, <1>27, <1>28
------------------------------------------------------------------------------
(* exit_mm *)

\* The beginning of exit_mm keeps the invariant: the mm goes from the task into the
\* local that mmput drops, and a parent in vfork goes on.
LEMMA ExitMmKeeps ==
    ASSUME IInv, NEW x \in Tasks, ExitMm(x)
    PROVE  IInv'
<1> USE DEF IInv
<1>1. /\ task \in [Tasks -> TaskRecord] /\ th \in [Tasks -> ThRecord]
      /\ \A t \in Tasks : Sound(t, task[t], th[t])
      /\ \A t \in Tasks : task[t] \in TaskRecord /\ th[t] \in ThRecord
  BY DEF Types, Phases
<1>2. /\ th[x].pc = "exit" /\ x # init
      /\ UNCHANGED <<sig, cnt, owner, processes, nr_threads>>
  BY DEF ExitMm, Parents
<1>3. task[x].res \in Held /\ th[x].mm = 0
  BY <1>1, <1>2 DEF TaskRecord, Sound
<1>4. PICK v \in Links, m \in Ids \cup {0} : v = task[x].vfork /\ m = task[x].res.mm
  BY <1>1, <1>3 DEF TaskRecord, Held, Res
<1>5. v # none => v \in Tasks /\ th[v].pc = "vfork" /\ th[v].child = x /\ v # x
  BY <1>2, <1>4 DEF Makers, Links
<1> DEFINE k == [task[x] EXCEPT !.res = [task[x].res EXCEPT !.mm = 0], !.vfork = none]
           g == [th[x] EXCEPT !.pc = "exitmm", !.mm = m]
           w == [th[v] EXCEPT !.pc = "mcc"]
<1>6. task' = [task EXCEPT ![x] = k]
  <2>1. task' = [task EXCEPT ![x].res.mm = 0, ![x].vfork = none]
    BY DEF ExitMm
  <2>2. [task[x] EXCEPT !.res.mm = 0, !.vfork = none] = k
    <3>1. task[x] \in TaskRecord
      BY <1>1
    <3> QED  BY <3>1 DEF TaskRecord
  <2>3. task' = [task EXCEPT ![x] = [task[x] EXCEPT !.res.mm = 0, !.vfork = none]]
    <3>1. task[x] \in TaskRecord
      BY <1>1
    <3> QED  BY <1>1, <2>1, <3>1 DEF TaskRecord
  <2> QED  BY <2>2, <2>3
<1>7. \A t \in Tasks : th'[t] = IF t = x THEN g ELSE IF t = v THEN w ELSE th[t]
  <2>1. th' = [MmRelease(x) EXCEPT ![x].pc = "exitmm", ![x].mm = m]
    BY <1>4 DEF ExitMm
  <2>2. \A t \in Tasks : MmRelease(x)[t] = IF t = v THEN w ELSE th[t]
    BY <1>4 DEF MmRelease
  <2>3. MmRelease(x)[x] = th[x]
    BY <1>5, <2>2, TasksAssumption
  <2>4. \E f : MmRelease(x) = [t \in Tasks |-> f[t]]
    <3>1. MmRelease(x) = [t \in Tasks |-> MmRelease(x)[t]]
      BY DEF MmRelease
    <3> QED  BY <3>1
  <2>5. th' = [MmRelease(x) EXCEPT ![x] = [MmRelease(x)[x] EXCEPT !.pc = "exitmm", !.mm = m]]
    <3>1. MmRelease(x)[x] \in ThRecord
      BY <1>1, <2>3
    <3> QED  BY <2>1, <2>4, <3>1 DEF ThRecord
  <2> HIDE DEF w
  <2> QED  BY <2>2, <2>3, <2>4, <2>5
<1>8. /\ k \in TaskRecord /\ k.leader = task[x].leader /\ k.real_parent = task[x].real_parent
      /\ k.exit_signal = task[x].exit_signal /\ k.exit_state = task[x].exit_state
      /\ k.exiting = task[x].exiting /\ k.kill = task[x].kill /\ k.usage = task[x].usage
      /\ k.hashed = task[x].hashed /\ k.rcu = task[x].rcu /\ k.vfork = none
      /\ k.res = [task[x].res EXCEPT !.mm = 0]
  <2>1. task[x] \in TaskRecord /\ [task[x].res EXCEPT !.mm = 0] \in Held /\ none \in Links
    BY <1>1, <1>3 DEF Held, Links
  <2> QED  BY <2>1 DEF TaskRecord
<1>9. /\ g \in ThRecord /\ g.child = th[x].child /\ g.kind = th[x].kind
      /\ g.stage = th[x].stage /\ g.mm = m /\ g.todo = th[x].todo
      /\ g.opt = th[x].opt /\ g.new = th[x].new /\ g.pc = "exitmm"
  <2>1. th[x] \in ThRecord
    BY <1>1
  <2> QED  BY <2>1 DEF ThRecord, Ending
<1>10. v # none =>
       /\ w \in ThRecord /\ w.child = th[v].child /\ w.kind = th[v].kind
       /\ w.stage = th[v].stage /\ w.mm = th[v].mm /\ w.todo = th[v].todo
       /\ w.opt = th[v].opt /\ w.new = th[v].new /\ w.pc = "mcc"
  <2>1. v # none => th[v] \in ThRecord
    BY <1>1, <1>5
  <2> QED  BY <2>1 DEF ThRecord, Busy
<1> HIDE DEF k, g, w
<1>11. ASSUME NEW t \in Tasks
       PROVE  /\ th'[t] \in ThRecord /\ th'[t].child = th[t].child /\ th'[t].kind = th[t].kind
              /\ th'[t].stage = th[t].stage /\ th'[t].todo = th[t].todo
              /\ th'[t].opt = th[t].opt /\ th'[t].new = th[t].new
              /\ th'[t].mm = IF t = x THEN m ELSE th[t].mm
              /\ th'[t].pc = IF t = x THEN "exitmm" ELSE IF t = v THEN "mcc" ELSE th[t].pc
  <2>1. CASE t = x
    BY <1>7, <1>9, <2>1
  <2>2. CASE t = v /\ t # x
    <3>1. v # none
      BY <2>2, TasksAssumption
    <3> QED  BY <1>7, <1>10, <2>2, <3>1
  <2>3. CASE t # x /\ t # v
    BY <1>1, <1>7, <2>3
  <2> QED  BY <2>1, <2>2, <2>3
<1>12. ASSUME NEW t \in Tasks
       PROVE  /\ task'[t] \in TaskRecord
              /\ task'[t].leader = task[t].leader /\ task'[t].real_parent = task[t].real_parent
              /\ task'[t].exit_signal = task[t].exit_signal
              /\ task'[t].exit_state = task[t].exit_state
              /\ task'[t].exiting = task[t].exiting /\ task'[t].kill = task[t].kill
              /\ task'[t].usage = task[t].usage /\ task'[t].hashed = task[t].hashed
              /\ task'[t].rcu = task[t].rcu
              /\ task'[t].vfork = IF t = x THEN none ELSE task[t].vfork
              /\ task'[t].res = IF t = x THEN [task[x].res EXCEPT !.mm = 0] ELSE task[t].res
              /\ t # x => task'[t] = task[t]
  <2>1. task'[t] = IF t = x THEN k ELSE task[t]
    BY <1>1, <1>6
  <2>2. CASE t = x
    BY <1>8, <2>1, <2>2
  <2>3. CASE t # x
    BY <1>1, <2>1, <2>3
  <2> QED  BY <2>2, <2>3
<1>13. Types'
  <2>1. task' \in [Tasks -> TaskRecord]
    BY <1>1, <1>6, <1>8
  <2>2. th' \in [Tasks -> ThRecord]
    <3>1. th' = [t \in Tasks |-> th'[t]]
      BY DEF ExitMm, MmRelease
    <3> HIDE DEF IInv
    <3> QED  BY <1>11, <3>1
  <2> QED  BY <1>2, <2>1, <2>2 DEF Types
<1>14. \A t \in Tasks : v = t => t # x /\ th[t].pc = "vfork"
  BY <1>5, TasksAssumption
<1>15. Phases'
  <2> SUFFICES ASSUME NEW t \in Tasks PROVE Sound(t, task'[t], th'[t])
    BY DEF Phases
  <2>1. Sound(t, task[t], th[t])
    BY <1>1
  <2>2. CASE t = x
    <3>1. /\ k.res.mm = 0 /\ k.res.files = task[x].res.files /\ k.res.fs = task[x].res.fs
          /\ k.res.sighand = task[x].res.sighand
      BY <1>3, <1>8 DEF Held, Res
    <3>2. task'[x] = k /\ th'[x] = g /\ Sound(x, task[x], th[x])
      BY <1>1, <1>6, <1>7, <2>1, <2>2
    <3>3. Sound(x, k, g)
      BY ONLY <1>2, <1>8, <1>9, <3>1, <3>2 DEF Sound, Busy, Ending, Ended, Absent
    <3> QED  BY <2>2, <3>2, <3>3
  <2>3. CASE t # x
    <3>1. /\ task'[t] = task[t] /\ th'[t].mm = th[t].mm /\ th'[t].new = th[t].new
          /\ th'[t].opt = th[t].opt
          /\ th'[t].pc = th[t].pc \/ (th[t].pc = "vfork" /\ th'[t].pc = "mcc")
      BY <1>11, <1>12, <1>14, <2>3
    <3> QED  BY <2>1, <3>1 DEF Sound, Busy, Ending, Ended, Absent
  <2> QED  BY <2>2, <2>3
<1>16. /\ KeepsMade /\ KeepsTree
       /\ \A t \in Tasks :
            /\ th'[t].pc = IF t = x THEN "exitmm" ELSE IF t = v THEN "mcc" ELSE th[t].pc
            /\ th'[t].pc \in Childless <=> th[t].pc \in Childless
            /\ th'[t].pc \in Absent <=> th[t].pc \in Absent
            /\ th'[t].pc \in {"unused", "new"} <=> th[t].pc \in {"unused", "new"}
            /\ th'[t].pc \in {"owner", "claim", "asleep"} => th'[t].pc = th[t].pc
            /\ th'[t].pc = th[t].pc \/ th[t].pc \notin {"bury", "self", "reap"}
  <2>1. KeepsMade
    BY <1>2, <1>11, <1>14 DEF KeepsMade
  <2>2. KeepsTree
    BY <1>12 DEF KeepsTree
  <2>3. \A t \in Tasks :
            th'[t].pc = IF t = x THEN "exitmm" ELSE IF t = v THEN "mcc" ELSE th[t].pc
    BY <1>11
  <2> HIDE DEF IInv
  <2>4. \A t \in Tasks :
            /\ th'[t].pc \in Childless <=> th[t].pc \in Childless
            /\ th'[t].pc \in Absent <=> th[t].pc \in Absent
            /\ th'[t].pc \in {"unused", "new"} <=> th[t].pc \in {"unused", "new"}
            /\ th'[t].pc \in {"owner", "claim", "asleep"} => th'[t].pc = th[t].pc
            /\ th'[t].pc = th[t].pc \/ th[t].pc \notin {"bury", "self", "reap"}
    BY <1>2, <1>14, <2>3 DEF Childless, Absent
  <2> QED  BY <2>1, <2>2, <2>3, <2>4
<1>17. Makers'
  <2>1. \A y, p \in Tasks : Making(y, p)' <=> Making(y, p)
    BY <1>2, <1>11, <1>14 DEF Making
  <2>2. \A y \in Tasks : th'[y].pc \in {"copied", "undo", "publ"}
          => /\ th'[y].child \in Tasks
             /\ th'[th'[y].child].pc = IF th'[y].pc = "publ" THEN "fresh" ELSE "new"
    <3> SUFFICES ASSUME NEW y \in Tasks, th'[y].pc \in {"copied", "undo", "publ"}
                 PROVE  /\ th'[y].child \in Tasks
                        /\ th'[th'[y].child].pc = IF th'[y].pc = "publ" THEN "fresh" ELSE "new"
      OBVIOUS
    <3>1. th[y].pc = th'[y].pc /\ th'[y].child = th[y].child
      BY <1>2, <1>11, <1>14
    <3>2. PICK c \in Tasks : /\ c = th[y].child
                             /\ th[c].pc = IF th[y].pc = "publ" THEN "fresh" ELSE "new"
      BY <3>1 DEF Makers
    <3>3. th'[c].pc = th[c].pc
      BY <1>2, <1>14, <1>16, <3>2
    <3> QED  BY <3>1, <3>2, <3>3
  <2>3. \A y \in Tasks : th'[y].pc = "copied" => th'[y].stage = 8
    BY <1>2, <1>11, <1>14 DEF Makers
  <2>4. \A p \in Tasks : th'[p].pc = "new" => \E y \in Tasks : Making(y, p)'
    BY <1>16, <2>1 DEF Makers
  <2>5. \A c \in Tasks : task'[c].vfork # none
          => th'[task'[c].vfork].pc = "vfork" /\ th'[task'[c].vfork].child = c
    <3> SUFFICES ASSUME NEW c \in Tasks, task'[c].vfork # none
                 PROVE  th'[task'[c].vfork].pc = "vfork" /\ th'[task'[c].vfork].child = c
      OBVIOUS
    <3>1. c # x /\ task'[c].vfork = task[c].vfork
      BY <1>12
    <3>2. PICK u \in Tasks : u = task[c].vfork /\ th[u].pc = "vfork" /\ th[u].child = c
      BY <1>1, <3>1 DEF Makers, TaskRecord, Links
    <3>3. u # x /\ u # v
      BY <1>2, <1>5, <3>1, <3>2, TasksAssumption
    <3> QED  BY <1>11, <3>1, <3>2, <3>3
  <2> QED  BY <2>1, <2>2, <2>3, <2>4, <2>5 DEF Makers
<1>18. Buried'
  BY <1>11, <1>12, <1>16, BuriedFrame DEF Live
<1>19. Groups'
  <2>1. Groups /\ \A t \in Tasks : th'[t].pc \in {"unused", "new"} => th[t].pc \in {"unused", "new"}
    BY <1>16
  <2> HIDE DEF IInv
  <2> QED  BY <1>11, <1>12, <1>16, <2>1, GroupsFrame
<1>20. Parents'
  <2>1. th'[init].pc = th[init].pc
    BY <1>2, <1>14, <1>16, TasksAssumption DEF Parents
  <2> QED  BY <1>16, <2>1, ParentsFrame DEF Parents
<1>21. NoZombieLeft'
  BY <1>12, <1>16, NoZombieFrame DEF Detached
<1>22. Killed'
  <2>1. \A t \in Tasks :
              /\ Live(t)' => Live(t) /\ task'[t].leader = task[t].leader /\ task[t].leader \in Tasks
              /\ Live(t)' /\ (task[t].exiting \/ task[t].kill) => task'[t].exiting \/ task'[t].kill
              /\ th'[t].pc \in {"unused", "new"} => th[t].pc \in {"unused", "new"}
              /\ sig'[t].exit => sig[t].exit
    BY <1>2, <1>12, <1>16 DEF Groups, Live
  <2> QED  BY <2>1, KilledFrame
<1>23. SharedCounted'
  <2>1. ASSUME NEW t \in Tasks, NEW r \in Res
        PROVE  (\E y \in Tasks : /\ th'[y].pc \in {"copied", "undo"} /\ th'[y].child = t
                                 /\ r \in Acquired(th'[y].stage))
               <=> (\E y \in Tasks : /\ th[y].pc \in {"copied", "undo"} /\ th[y].child = t
                                     /\ r \in Acquired(th[y].stage))
    BY <1>16 DEF KeepsMade
  <2>2. ASSUME NEW r \in Res, NEW i \in Ids
        PROVE  Users(r, i)' = Users(r, i) /\ Copies(r, i)' = Copies(r, i)
    <3>1. ASSUME NEW t \in Tasks
          PROVE  (task'[t].res[r] = i \/ (r = "mm" /\ th'[t].mm = i))
                 <=> (task[t].res[r] = i \/ (r = "mm" /\ th[t].mm = i))
      <4>1. i # 0
        BY KindsOfRes
      <4>2. CASE t = x
        <5>1. task'[x].res[r] = IF r = "mm" THEN 0 ELSE task[x].res[r]
          BY <1>3, <1>12 DEF Held
        <5>2. th'[x].mm = m
          BY <1>11
        <5> QED  BY <1>3, <1>4, <4>1, <4>2, <5>1, <5>2
      <4>3. CASE t # x
        BY <1>11, <1>12, <4>3
      <4> QED  BY <4>2, <4>3
    <3>2. \A t \in Tasks : th'[t].pc = "new" <=> th[t].pc = "new"
      BY <1>16 DEF KeepsMade
    <3>3. ASSUME NEW t \in Tasks PROVE t \in Users(r, i)' <=> t \in Users(r, i)
      <4>1. CASE t = x
        <5>1. th[x].pc # "new" /\ th'[x].pc # "new"
          BY <1>2, <1>11
        <5> QED  BY <3>1, <4>1, <5>1 DEF Users
      <4>2. CASE t # x
        <5>1. task'[t].res = task[t].res /\ th'[t].mm = th[t].mm
          BY <1>11, <1>12, <4>2
        <5> QED  BY <2>1, <3>2, <5>1 DEF Users
      <4> QED  BY <4>1, <4>2
    <3>4. Users(r, i) \subseteq Tasks /\ Users(r, i)' \subseteq Tasks
      BY DEF Users
    <3>5. Users(r, i)' = Users(r, i)
      BY ONLY <3>3, <3>4
    <3>6. Copies(r, i)' = Copies(r, i)
      BY <1>11 DEF Copies
    <3> QED  BY <3>5, <3>6
  <2> QED  BY <1>2, <2>2 DEF SharedCounted
<1>24. SigCounted'
  <2>1. SigCounted /\ KeepsMade
    BY <1>16
  <2>2. \A t \in Tasks : /\ task'[t].hashed = task[t].hashed
                         /\ task'[t].leader = task[t].leader
                         /\ task'[t].exiting = task[t].exiting
                         /\ th'[t].pc \in Absent <=> th[t].pc \in Absent
                         /\ sig'[t].nr = sig[t].nr /\ sig'[t].live = sig[t].live
                         /\ sig'[t].cnt = sig[t].cnt
    BY <1>2, <1>12, <1>16
  <2> HIDE DEF IInv
  <2> QED  BY <1>2, <2>1, <2>2, SigFrame
<1>25. \A t \in Tasks : task'[t].res.mm = IF t = x THEN 0 ELSE task[t].res.mm
  BY <1>3, <1>12 DEF Held, Res
<1>26. OwnerUsesMm'
  <2> SUFFICES ASSUME NEW i \in Ids, cnt.mm[i] > 0
               PROVE  IF owner[i] = none THEN ~\E t \in Tasks : Live(t)' /\ task'[t].res.mm = i
                      ELSE task'[owner[i]].res.mm = i \/ th'[owner[i]].mm = i
    BY <1>2 DEF OwnerUsesMm
  <2>1. i # 0
    BY KindsOfRes
  <2>2. IF owner[i] = none THEN ~\E t \in Tasks : Live(t) /\ task[t].res.mm = i
        ELSE task[owner[i]].res.mm = i \/ th[owner[i]].mm = i
    BY DEF OwnerUsesMm
  <2>3. CASE owner[i] = none
    BY <1>12, <1>25, <2>1, <2>2, <2>3 DEF Live
  <2>4. CASE owner[i] # none
    <3>1. PICK o \in Tasks : o = owner[i] /\ (task[o].res.mm = i \/ th[o].mm = i)
      BY <2>2, <2>4 DEF Types, Links
    <3>2. task'[o].res.mm = i \/ th'[o].mm = i
      BY <1>3, <1>4, <1>11, <1>25, <2>1, <3>1
    <3> QED  BY <2>4, <3>1, <3>2
  <2> QED  BY <2>3, <2>4
<1>27. NewOwners'
  <2>1. ASSUME NEW y \in Tasks, NEW p \in Tasks, Maker(y, p)'
        PROVE  LET i == task'[p].res.mm
               IN IF OwnMm(y)'
                  THEN /\ i \in Ids /\ owner'[i] = p
                       /\ \A t \in Tasks \ {p} : task'[t].res.mm # i /\ th'[t].mm # i
                  ELSE /\ i = task'[y].res.mm
                       /\ \A j \in Ids : cnt'.mm[j] > 0 => owner'[j] # p
    <3>1. Maker(y, p) /\ (OwnMm(y)' <=> OwnMm(y))
      BY <1>16, <2>1, MakerFrame DEF OwnMm
    <3>2. y # x /\ p # x
      BY <1>2, <3>1 DEF Maker, Makers
    <3>3. task'[p].res.mm = task[p].res.mm /\ task'[y].res.mm = task[y].res.mm
      BY <1>25, <3>2
    <3>4. CASE OwnMm(y)
      <4>1. PICK i \in Ids : /\ i = task[p].res.mm /\ owner[i] = p
                             /\ \A t \in Tasks \ {p} : task[t].res.mm # i /\ th[t].mm # i
        BY <3>1, <3>4 DEF NewOwners
      <4>2. \A t \in Tasks \ {p} : task'[t].res.mm # i /\ th'[t].mm # i
        BY <1>4, <1>11, <1>25, <3>2, <4>1, KindsOfRes
      <4> QED  BY <1>2, <3>1, <3>3, <3>4, <4>1, <4>2
    <3>5. CASE ~OwnMm(y)
      BY <1>2, <3>1, <3>3, <3>5 DEF NewOwners
    <3> QED  BY <3>4, <3>5
  <2>2. \A t \in Tasks : th'[t].pc = "owner"
          => th'[t].child \in Tasks /\ th'[th'[t].child].pc \notin {"unused", "new"}
    BY <1>11, <1>16 DEF NewOwners
  <2> QED  BY <2>1, <2>2 DEF NewOwners
<1>28. NoneMissed'
  <2>1. NoneMissed /\ Parents /\ Phases /\ KeepsTree
    BY <1>16
  <2> HIDE DEF IInv
  <2> QED  BY <1>11, <1>12, <1>16, <2>1, MissedFrame
<1> QED  BY <1>13, <1>15, <1>17, <1>18, <1>19, <1>20, <1>21, <1>22, <1>23, <1>24, <1>26,
            <1>27, <1>28
\* mmput, exit_files and exit_fs, when own agrees with the owners but for the mm that
\* x puts, and that one is left to somebody who uses it, or to nobody.
LEMMA PutKeeps ==
    ASSUME IInv, NEW x \in Tasks, th[x].pc \in {"exitmm", "owner"},
           NEW own \in [Ids -> Links], Put(x, own), UNCHANGED <<sig, processes, nr_threads>>,
           \A i \in Ids : i # th[x].mm => own[i] = owner[i],
           \A i \in Ids : i = th[x].mm /\ cnt.mm[i] > 1 =>
              /\ \/ own[i] = none /\ ~\E t \in Tasks : Live(t) /\ task[t].res.mm = i
                 \/ /\ own[i] \in Tasks
                    /\ task[own[i]].res.mm = i \/ (own[i] # x /\ th[own[i]].mm = i)
              /\ \/ own[i] = owner[i] \/ own[i] = none
                 \/ own[i] \in Tasks /\ th[own[i]].pc \notin {"unused", "new"}
    PROVE  IInv'
<1> USE DEF IInv
<1>1. /\ task \in [Tasks -> TaskRecord] /\ th \in [Tasks -> ThRecord]
      /\ \A t \in Tasks : Sound(t, task[t], th[t])
      /\ cnt \in [Res -> [Ids -> Int]]
      /\ task[x] \in TaskRecord /\ th[x] \in ThRecord /\ task[x].res \in Held
  BY DEF Types, Phases, TaskRecord
<1>2. x # init /\ task[x].res.mm = 0 /\ th[x].todo = {}
  BY <1>1 DEF Sound, Busy, Parents, Buried
<1>3. PICK m \in Ids \cup {0} : m = th[x].mm
  BY <1>1 DEF ThRecord
<1> DEFINE k == [task[x] EXCEPT !.res = [task[x].res EXCEPT !.files = 0, !.fs = 0]]
           g == [th[x] EXCEPT !.pc = "forget", !.mm = 0, !.child = none]
<1>4. task' = [task EXCEPT ![x] = k] /\ th' = [th EXCEPT ![x] = g]
  <2>1. /\ task' = [task EXCEPT ![x].res.files = 0, ![x].res.fs = 0]
        /\ th' = [th EXCEPT ![x].pc = "forget", ![x].mm = 0, ![x].child = none]
    BY DEF Put
  <2>2. task' = [task EXCEPT ![x] = [task[x] EXCEPT !.res.files = 0, !.res.fs = 0]]
    <3> HIDE DEF IInv
    <3> QED  BY <1>1, <2>1 DEF TaskRecord
  <2>3. [task[x] EXCEPT !.res.files = 0, !.res.fs = 0] = k
    <3> HIDE DEF IInv
    <3> QED  BY <1>1 DEF TaskRecord, Held
  <2>4. th' = [th EXCEPT ![x] = g]
    BY <1>1, <2>1
  <2> QED  BY <2>2, <2>3, <2>4
<1>5. /\ k \in TaskRecord /\ k.leader = task[x].leader /\ k.real_parent = task[x].real_parent
      /\ k.exit_signal = task[x].exit_signal /\ k.exit_state = task[x].exit_state
      /\ k.exiting = task[x].exiting /\ k.kill = task[x].kill /\ k.usage = task[x].usage
      /\ k.hashed = task[x].hashed /\ k.rcu = task[x].rcu /\ k.vfork = task[x].vfork
      /\ k.res.files = 0 /\ k.res.fs = 0 /\ k.res.mm = 0
      /\ k.res.sighand = task[x].res.sighand
  <2>1. [task[x].res EXCEPT !.files = 0, !.fs = 0] \in Held
    BY <1>1 DEF Held
  <2>2. k \in TaskRecord /\ k.res = [task[x].res EXCEPT !.files = 0, !.fs = 0]
        /\ k.leader = task[x].leader /\ k.real_parent = task[x].real_parent
        /\ k.exit_signal = task[x].exit_signal /\ k.exit_state = task[x].exit_state
        /\ k.exiting = task[x].exiting /\ k.kill = task[x].kill /\ k.usage = task[x].usage
        /\ k.hashed = task[x].hashed /\ k.rcu = task[x].rcu /\ k.vfork = task[x].vfork
    <3> HIDE DEF IInv
    <3> QED  BY <1>1, <2>1 DEF TaskRecord
  <2> HIDE DEF k
  <2> QED  BY <1>1, <1>2, <2>2 DEF Held, Res
<1>6. /\ g \in ThRecord /\ g.kind = th[x].kind /\ g.stage = th[x].stage /\ g.mm = 0
      /\ g.todo = th[x].todo /\ g.opt = th[x].opt /\ g.new = th[x].new /\ g.pc = "forget"
  <2> HIDE DEF IInv
  <2> QED  BY <1>1 DEF ThRecord, Ending, Links
<1> HIDE DEF k, g
<1>7. /\ task'[x] = k /\ th'[x] = g
      /\ \A t \in Tasks \ {x} : task'[t] = task[t] /\ th'[t] = th[t]
  BY <1>1, <1>4
<1>8. /\ cnt' \in [Res -> [Ids -> Int]]
      /\ \A r \in Res : \A i \in Ids :
            cnt'[r][i] = IF r \in {"files", "fs", "mm"} /\ Ref(r, x) = i
                         THEN cnt[r][i] - 1 ELSE cnt[r][i]
  <2>1. cnt' = [r \in Res |->
                    CASE r = "mm" -> [cnt.mm EXCEPT ![th[x].mm] = @ - 1]
                      [] r \in {"files", "fs"} -> [cnt[r] EXCEPT ![task[x].res[r]] = @ - 1]
                      [] OTHER -> cnt[r]]
    BY DEF Put
  <2>2. ASSUME NEW r \in Res
        PROVE  cnt'[r] = IF r \in {"files", "fs", "mm"} THEN [cnt[r] EXCEPT ![Ref(r, x)] = @ - 1]
                                                        ELSE cnt[r]
    <3>1. CASE r = "mm"
      <4>1. cnt'[r] = [cnt.mm EXCEPT ![th[x].mm] = @ - 1]
        BY <2>1, <3>1
      <4> QED  BY <3>1, <4>1 DEF Ref
    <3>2. CASE r \in {"files", "fs"}
      <4>1. cnt'[r] = [cnt[r] EXCEPT ![task[x].res[r]] = @ - 1]
        BY <2>1, <3>2
      <4> QED  BY <3>2, <4>1 DEF Ref
    <3>3. CASE r \notin {"files", "fs", "mm"}
      BY <2>1, <3>3
    <3> QED  BY <3>1, <3>2, <3>3
  <2>3. \A r \in Res : cnt[r] \in [Ids -> Int]
    BY <1>1
  <2>4. ASSUME NEW r \in Res
        PROVE  /\ cnt'[r] \in [Ids -> Int]
               /\ \A i \in Ids : cnt'[r][i] = IF r \in {"files", "fs", "mm"} /\ Ref(r, x) = i
                                              THEN cnt[r][i] - 1 ELSE cnt[r][i]
    <3> HIDE DEF IInv
    <3>1. /\ [cnt[r] EXCEPT ![Ref(r, x)] = @ - 1] \in [Ids -> Int]
          /\ \A i \in Ids : [cnt[r] EXCEPT ![Ref(r, x)] = @ - 1][i]
                            = IF i = Ref(r, x) THEN cnt[r][i] - 1 ELSE cnt[r][i]
      BY <2>3, OneLess
    <3> QED  BY <2>2, <2>3, <3>1
  <2>5. cnt' = [r \in Res |-> cnt'[r]]
    BY <2>1
  <2> HIDE DEF IInv
  <2> QED  BY ONLY <2>4, <2>5
<1>9. /\ owner' \in [Ids -> Links]
      /\ \A i \in Ids : owner'[i] = own[i] \/ owner'[i] = none
      /\ \A i \in Ids : i # m => owner'[i] = owner[i]
      /\ \A i \in Ids : cnt.mm[i] > 1 => owner'[i] = own[i]
  <2>1. owner' = IF cnt.mm[m] = 1 THEN [own EXCEPT ![m] = none] ELSE own
    BY <1>3 DEF Put, MmPut
  <2>2. CASE cnt.mm[m] = 1
    <3>1. owner' = [own EXCEPT ![m] = none]
      BY <2>1, <2>2
    <3>2. none \in Links
      BY DEF Links
    <3> HIDE DEF IInv
    <3>3. owner' \in [Ids -> Links] /\ \A i \in Ids : owner'[i] = IF i = m THEN none ELSE own[i]
      BY <3>1, <3>2
    <3>4. \A i \in Ids : i # m => own[i] = owner[i]
      BY <1>3
    <3> QED  BY <2>2, <3>3, <3>4
  <2>3. CASE cnt.mm[m] # 1
    BY <1>3, <2>1, <2>3
  <2> QED  BY <2>2, <2>3
<1>10. Types'
  <2>1. task' \in [Tasks -> TaskRecord] /\ th' \in [Tasks -> ThRecord]
    BY <1>1, <1>4, <1>5, <1>6
  <2> QED  BY <1>8, <1>9, <2>1 DEF Types
<1>11. Phases'
  <2>1. Sound(x, k, g)
    <3>1. Sound(x, task[x], th[x]) /\ th[x].pc \in {"exitmm", "owner"}
      BY <1>1
    <3> QED  BY ONLY <1>5, <1>6, <3>1 DEF Sound, Busy, Ending, Ended, Absent
  <2> QED  BY <1>1, <1>7, <2>1 DEF Phases
<1>12. /\ KeepsMaking /\ KeepsMade /\ KeepsTree
       /\ \A t \in Tasks : th'[t].pc = IF t = x THEN "forget" ELSE th[t].pc
       /\ \A t \in Tasks :
            /\ th'[t].pc \in Childless <=> th[t].pc \in Childless
            /\ th'[t].pc \in Absent <=> th[t].pc \in Absent
            /\ th'[t].pc \in {"unused", "new"} <=> th[t].pc \in {"unused", "new"}
            /\ th'[t].pc \in {"owner", "claim", "asleep"} => th'[t] = th[t]
  <2>1. \A t \in Tasks : th'[t].pc = IF t = x THEN "forget" ELSE th[t].pc
    BY <1>6, <1>7
  <2>2. KeepsMaking
    BY <1>7, <2>1 DEF KeepsMaking, MakePcs
  <2>3. KeepsTree
    BY <1>5, <1>7 DEF KeepsTree
  <2> QED  BY <1>7, <2>1, <2>2, <2>3, MakingMade DEF Childless, Absent
<1>13. \A t \in Tasks :
          /\ task'[t].leader = task[t].leader /\ task'[t].hashed = task[t].hashed
          /\ task'[t].exit_signal = task[t].exit_signal
          /\ task'[t].exit_state = task[t].exit_state
          /\ task'[t].exiting = task[t].exiting /\ task'[t].kill = task[t].kill
          /\ task'[t].vfork = task[t].vfork /\ task'[t].res.mm = task[t].res.mm
          /\ th'[t].todo = th[t].todo
  BY <1>2, <1>5, <1>6, <1>7, ZenonT(60)
<1>14. Makers'
  <2>1. Makers /\ Types /\ KeepsMaking
    BY <1>12
  <2> HIDE DEF IInv
  <2> QED  BY <1>13, <2>1, MakersFrame
<1>15. Buried'
  BY <1>12, <1>13, BuriedFrame DEF Live
<1>16. Groups'
  BY <1>12, <1>13, GroupsFrame
<1>17. Parents'
  <2>1. th'[init].pc = th[init].pc
    BY <1>2, <1>12, TasksAssumption
  <2> QED  BY <1>12, <2>1, ParentsFrame DEF Parents
<1>18. NoZombieLeft'
  BY <1>12, <1>13, NoZombieFrame DEF Detached
<1>19. Killed'
  <2>1. \A t \in Tasks :
              /\ Live(t)' => Live(t) /\ task'[t].leader = task[t].leader /\ task[t].leader \in Tasks
              /\ Live(t)' /\ (task[t].exiting \/ task[t].kill) => task'[t].exiting \/ task'[t].kill
              /\ th'[t].pc \in {"unused", "new"} => th[t].pc \in {"unused", "new"}
              /\ sig'[t].exit => sig[t].exit
    BY <1>12, <1>13 DEF Groups, Live
  <2> QED  BY <2>1, KilledFrame
<1>20. SharedCounted'
  <2>1. PICK R \in SUBSET Res : R = {"files", "fs", "mm"}
    BY DEF Res
  <2>2. \A r \in Res : task'[x].res[r] = IF r \in R THEN 0 ELSE task[x].res[r]
    BY <1>5, <1>7, <2>1 DEF Res
  <2>3. th[x].pc # "new" /\ task[x].res.mm = 0
    BY <1>2
  <2>4. \A r \in Res : \A i \in Ids :
            cnt'[r][i] = IF r \in R /\ Ref(r, x) = i THEN cnt[r][i] - 1 ELSE cnt[r][i]
    BY <1>8, <2>1
  <2>5. SharedCounted /\ Types /\ KeepsMade
    BY <1>12
  <2>6. \A t \in Tasks \ {x} : /\ task'[t].res = task[t].res
                               /\ th'[t].mm = th[t].mm /\ th'[t].new = th[t].new
    BY <1>7
  <2>7. th'[x].new = th[x].new /\ th'[x].mm = IF "mm" \in R THEN 0 ELSE th[x].mm
    BY <1>6, <1>7, <2>1
  <2> HIDE DEF IInv
  <2> QED  BY <2>2, <2>3, <2>4, <2>5, <2>6, <2>7, SharedDrop
<1>21. SigCounted'
  <2>1. SigCounted /\ KeepsMade
    BY <1>12
  <2>2. \A t \in Tasks : /\ task'[t].hashed = task[t].hashed
                         /\ task'[t].leader = task[t].leader
                         /\ task'[t].exiting = task[t].exiting
                         /\ th'[t].pc \in Absent <=> th[t].pc \in Absent
                         /\ sig'[t].nr = sig[t].nr /\ sig'[t].live = sig[t].live
                         /\ sig'[t].cnt = sig[t].cnt
    BY <1>12, <1>13
  <2> HIDE DEF IInv
  <2> QED  BY <2>1, <2>2, SigFrame
<1>22. \A i \in Ids : /\ cnt'.mm[i] = IF i = m THEN cnt.mm[i] - 1 ELSE cnt.mm[i]
                      /\ cnt.mm[i] \in Int
  <2>1. "mm" \in Res /\ Ref("mm", x) = m
    BY <1>3 DEF Res, Ref
  <2> QED  BY <1>1, <1>8, <2>1
<1>23. \A t \in Tasks : th'[t].mm = IF t = x THEN 0 ELSE th[t].mm
  BY <1>6, <1>7
<1>24. OwnerUsesMm'
  <2> SUFFICES ASSUME NEW i \in Ids, cnt'.mm[i] > 0
               PROVE  IF owner'[i] = none THEN ~\E t \in Tasks : Live(t)' /\ task'[t].res.mm = i
                      ELSE task'[owner'[i]].res.mm = i \/ th'[owner'[i]].mm = i
    BY DEF OwnerUsesMm
  <2>1. i # 0
    BY KindsOfRes
  <2>2. CASE i # m
    <3>1. owner'[i] = owner[i] /\ cnt.mm[i] > 0
      BY <1>9, <1>22, <2>2
    <3>2. IF owner[i] = none THEN ~\E t \in Tasks : Live(t) /\ task[t].res.mm = i
          ELSE task[owner[i]].res.mm = i \/ th[owner[i]].mm = i
      BY <3>1 DEF OwnerUsesMm
    <3>3. owner[i] # none => owner[i] \in Tasks
      BY DEF Types, Links
    <3> QED  BY <1>3, <1>13, <1>23, <2>2, <3>1, <3>2, <3>3 DEF Live
  <2>3. CASE i = m
    <3>1. cnt.mm[i] > 1
      BY <1>22, <2>3
    <3>2. owner'[i] = own[i]
      BY <1>9, <3>1
    <3>3. \/ own[i] = none /\ ~\E t \in Tasks : Live(t) /\ task[t].res.mm = i
          \/ own[i] \in Tasks /\ (task[own[i]].res.mm = i \/ (own[i] # x /\ th[own[i]].mm = i))
      BY <1>3, <2>3, <3>1
    <3> QED  BY <1>13, <1>23, <3>2, <3>3, TasksAssumption DEF Live
  <2> QED  BY <2>2, <2>3
<1>25. NewOwners'
  <2>1. ASSUME NEW y \in Tasks, NEW p \in Tasks, Maker(y, p)'
        PROVE  LET i == task'[p].res.mm
               IN IF OwnMm(y)'
                  THEN /\ i \in Ids /\ owner'[i] = p
                       /\ \A t \in Tasks \ {p} : task'[t].res.mm # i /\ th'[t].mm # i
                  ELSE /\ i = task'[y].res.mm
                       /\ \A j \in Ids : cnt'.mm[j] > 0 => owner'[j] # p
    <3>1. Maker(y, p) /\ (OwnMm(y)' <=> OwnMm(y))
      BY <1>12, <2>1, MakerFrame DEF OwnMm
    <3>2. y # x /\ p # x /\ th[p].pc = "new"
      BY <3>1 DEF Maker, Makers
    <3>3. task'[p].res.mm = task[p].res.mm /\ task'[y].res.mm = task[y].res.mm
      BY <1>13
    <3>4. CASE OwnMm(y)
      <4>1. PICK i \in Ids : /\ i = task[p].res.mm /\ owner[i] = p
                             /\ \A t \in Tasks \ {p} : task[t].res.mm # i /\ th[t].mm # i
        BY <3>1, <3>4 DEF NewOwners
      <4>2. \A t \in Tasks \ {p} : task'[t].res.mm # i /\ th'[t].mm # i
        BY <1>13, <1>23, <4>1, KindsOfRes
      <4>3. i # m
        BY <1>3, <3>2, <4>1
      <4> QED  BY <1>9, <3>1, <3>3, <3>4, <4>1, <4>2, <4>3
    <3>5. CASE ~OwnMm(y)
      <4>1. task[p].res.mm = task[y].res.mm /\ \A j \in Ids : cnt.mm[j] > 0 => owner[j] # p
        BY <3>1, <3>5 DEF NewOwners
      <4>2. ASSUME NEW j \in Ids, cnt'.mm[j] > 0 PROVE owner'[j] # p
        <5>1. CASE j # m
          BY <1>9, <1>22, <4>1, <4>2, <5>1
        <5>2. CASE j = m
          <6>1. cnt.mm[j] > 1 /\ owner'[j] = own[j]
            BY <1>9, <1>22, <4>2, <5>2
          <6>2. \/ own[j] = owner[j] \/ own[j] = none
                \/ own[j] \in Tasks /\ th[own[j]].pc \notin {"unused", "new"}
            BY <1>3, <5>2, <6>1
          <6>3. owner[j] # p
            BY <1>22, <4>1, <6>1
          <6> QED  BY <3>2, <6>1, <6>2, <6>3, TasksAssumption
        <5> QED  BY <5>1, <5>2
      <4> QED  BY <3>1, <3>3, <3>5, <4>1, <4>2
    <3> QED  BY <3>4, <3>5
  <2>2. \A t \in Tasks : th'[t].pc = "owner"
          => th'[t].child \in Tasks /\ th'[th'[t].child].pc \notin {"unused", "new"}
    BY <1>12 DEF NewOwners
  <2> QED  BY <2>1, <2>2 DEF NewOwners
<1>26. NoneMissed'
  <2>1. NoneMissed /\ Parents /\ Phases /\ KeepsTree
    BY <1>12
  <2> HIDE DEF IInv
  <2> QED  BY <1>12, <1>13, <2>1, MissedFrame
<1> QED  BY <1>10, <1>11, <1>14, <1>15, <1>16, <1>17, <1>18, <1>19, <1>20, <1>21, <1>24,
            <1>25, <1>26

\* The search for a new owner keeps the invariant, whether or not it finds one.
LEMMA FindOwnerKeeps ==
    ASSUME IInv, NEW x \in Tasks, FindOwner(x)
    PROVE  IInv'
<1> DEFINE mm == th[x].mm
<1>1. /\ th[x].pc = "exitmm" /\ UNCHANGED <<sig, processes, nr_threads>>
      /\ th \in [Tasks -> ThRecord] /\ th[x] \in ThRecord /\ mm \in Ids \cup {0}
      /\ Sound(x, task[x], th[x]) /\ x # init /\ th[x].todo = {}
      /\ owner \in [Ids -> Links] /\ none \in Links
  BY DEF FindOwner, IInv, Types, Phases, Parents, Buried, ThRecord, Links
<1>2. \A i \in Ids : cnt.mm[i] \in Int
  BY DEF IInv, Types, Res
<1>3. CASE cnt.mm[mm] <= 1 \/ owner[mm] # x
  <2>1. Put(x, owner)
    BY <1>3 DEF FindOwner
  <2>2. \A i \in Ids : i = th[x].mm /\ cnt.mm[i] > 1 =>
              /\ \/ owner[i] = none /\ ~\E t \in Tasks : Live(t) /\ task[t].res.mm = i
                 \/ /\ owner[i] \in Tasks
                    /\ task[owner[i]].res.mm = i \/ (owner[i] # x /\ th[owner[i]].mm = i)
    <3> SUFFICES ASSUME NEW i \in Ids, i = mm, cnt.mm[i] > 1
                 PROVE  \/ owner[i] = none /\ ~\E t \in Tasks : Live(t) /\ task[t].res.mm = i
                        \/ /\ owner[i] \in Tasks
                           /\ task[owner[i]].res.mm = i \/ (owner[i] # x /\ th[owner[i]].mm = i)
      OBVIOUS
    <3>1. cnt.mm[i] > 0 /\ owner[i] # x
      BY <1>2, <1>3
    <3>2. IF owner[i] = none THEN ~\E t \in Tasks : Live(t) /\ task[t].res.mm = i
          ELSE task[owner[i]].res.mm = i \/ th[owner[i]].mm = i
      BY <3>1 DEF IInv, OwnerUsesMm
    <3>3. owner[i] # none => owner[i] \in Tasks
      BY <1>1 DEF Links
    <3> QED  BY <3>1, <3>2, <3>3
  <2> QED  BY <1>1, <2>1, <2>2, PutKeeps
<1>4. CASE ~(cnt.mm[mm] <= 1 \/ owner[mm] # x) /\ Heirs(x, mm) = {}
  <2> DEFINE own == [owner EXCEPT ![mm] = none]
  <2>1. Put(x, own)
    BY <1>4 DEF FindOwner
  <2>2. ~\E t \in Tasks : Live(t) /\ task[t].res.mm = mm
    BY <1>4 DEF Heirs
  <2>3. own \in [Ids -> Links] /\ \A i \in Ids : own[i] = IF i = mm THEN none ELSE owner[i]
    BY <1>1
  <2> HIDE DEF own
  <2> QED  BY <1>1, <2>1, <2>2, <2>3, PutKeeps
<1>5. CASE ~(cnt.mm[mm] <= 1 \/ owner[mm] # x) /\ Heirs(x, mm) # {}
  <2>1. PICK c \in Heirs(x, mm) : th' = [th EXCEPT ![x].pc = "owner", ![x].child = c]
    BY <1>5 DEF FindOwner
  <2>2. UNCHANGED <<task, sig, cnt, owner, processes, nr_threads>>
    BY <1>1, <1>5 DEF FindOwner
  <2>3. c \in Tasks /\ Live(c)
    BY <2>1 DEF Heirs, Children
  <2>4. th[c].pc \notin {"unused", "new"}
    BY <2>3 DEF IInv, Phases, Sound, Absent, Blank, Live
  <2> DEFINE h == [th[x] EXCEPT !.pc = "owner", !.child = c]
  <2>5. th' = [th EXCEPT ![x] = h]
    BY <1>1, <2>1
  <2>6. /\ h \in ThRecord /\ h.pc = "owner" /\ h.child = c /\ h.opt = th[x].opt
        /\ h.mm = th[x].mm /\ h.new = th[x].new /\ h.todo = {}
    BY <1>1, <2>3 DEF ThRecord, Ending, Links
  <2> HIDE DEF h
  <2>7. Sound(x, task[x], h)
    BY <1>1, <2>6 DEF Sound, Busy, Ending, Ended, Absent
  <2> QED  BY <1>1, <2>2, <2>3, <2>4, <2>5, <2>6, <2>7, LocalStep DEF Local
<1> QED  BY <1>3, <1>4, <1>5

\* Making the heir the owner keeps the invariant, because his mm is looked at again.
LEMMA SetOwnerKeeps ==
    ASSUME IInv, NEW x \in Tasks, SetOwner(x)
    PROVE  IInv'
<1>1. /\ th[x].pc = "owner" /\ UNCHANGED <<sig, processes, nr_threads>>
      /\ th \in [Tasks -> ThRecord] /\ th[x] \in ThRecord /\ th[x].mm \in Ids \cup {0}
      /\ Sound(x, task[x], th[x]) /\ x # init /\ th[x].todo = {}
      /\ owner \in [Ids -> Links] /\ none \in Links
  BY DEF SetOwner, IInv, Types, Phases, Parents, Buried, ThRecord, Links
<1>2. PICK c \in Tasks, mm \in Ids \cup {0} :
         c = th[x].child /\ mm = th[x].mm /\ th[c].pc \notin {"unused", "new"}
  BY <1>1 DEF IInv, NewOwners
<1>3. CASE StillUses(c, mm)
  <2> DEFINE own == [owner EXCEPT ![mm] = c]
  <2>1. Put(x, own)
    BY <1>2, <1>3 DEF SetOwner
  <2>2. own \in [Ids -> Links] /\ \A i \in Ids : own[i] = IF i = mm THEN c ELSE owner[i]
    BY <1>1, <1>2 DEF Links
  <2>3. task[c].res.mm = mm
    BY <1>3 DEF StillUses
  <2> HIDE DEF own
  <2> QED  BY <1>1, <1>2, <2>1, <2>2, <2>3, PutKeeps
<1>4. CASE ~StillUses(c, mm)
  <2> DEFINE h == [th[x] EXCEPT !.pc = "exitmm", !.child = none]
  <2>1. th' = [th EXCEPT ![x].pc = "exitmm", ![x].child = none]
        /\ UNCHANGED <<task, sig, cnt, owner, processes, nr_threads>>
    BY <1>1, <1>2, <1>4 DEF SetOwner
  <2>2. th' = [th EXCEPT ![x] = h]
    BY <1>1, <2>1
  <2>3. /\ h \in ThRecord /\ h.pc = "exitmm" /\ h.opt = th[x].opt
        /\ h.mm = th[x].mm /\ h.new = th[x].new /\ h.todo = {}
    BY <1>1 DEF ThRecord, Ending
  <2> HIDE DEF h
  <2>4. Sound(x, task[x], h)
    BY <1>1, <2>3 DEF Sound, Busy, Ending, Ended, Absent
  <2> QED  BY <1>1, <2>1, <2>2, <2>3, <2>4, LocalStep DEF Local
<1> QED  BY <1>3, <1>4
------------------------------------------------------------------------------
(* The end of a task structure *)

\* One of two references to a dead task is dropped.
LEMMA DropKeeps ==
    ASSUME IInv, NEW p \in Tasks, th[p].pc \in Ended, NEW k \in TaskRecord, NEW h \in ThRecord,
           task' = [task EXCEPT ![p] = k], th' = [th EXCEPT ![p] = h],
           k.leader = task[p].leader, k.real_parent = task[p].real_parent,
           k.exit_signal = task[p].exit_signal, k.exit_state = task[p].exit_state,
           k.exiting = task[p].exiting, k.kill = task[p].kill, k.hashed = task[p].hashed,
           k.vfork = task[p].vfork, k.res = task[p].res,
           h.child = th[p].child, h.kind = th[p].kind, h.stage = th[p].stage,
           h.mm = th[p].mm, h.todo = th[p].todo, h.opt = th[p].opt, h.new = th[p].new,
           h.pc = th[p].pc \/ (th[p].pc = "last" /\ h.pc = "gone"),
           Sound(p, k, h), UNCHANGED <<sig, cnt, owner, processes, nr_threads>>
    PROVE  IInv'
<1> USE DEF IInv
<1>1. /\ task'[p] = k /\ th'[p] = h
      /\ \A t \in Tasks \ {p} : task'[t] = task[t] /\ th'[t] = th[t]
      /\ task' \in [Tasks -> TaskRecord] /\ th' \in [Tasks -> ThRecord]
  BY DEF Types
<1>2. Types' /\ Phases'
  BY <1>1 DEF Types, Phases
<1>3. \A t \in Tasks :
          /\ task'[t].leader = task[t].leader /\ task'[t].hashed = task[t].hashed
          /\ task'[t].real_parent = task[t].real_parent
          /\ task'[t].exit_signal = task[t].exit_signal
          /\ task'[t].exit_state = task[t].exit_state
          /\ task'[t].exiting = task[t].exiting /\ task'[t].kill = task[t].kill
          /\ task'[t].vfork = task[t].vfork /\ task'[t].res = task[t].res
          /\ th'[t].child = th[t].child /\ th'[t].kind = th[t].kind
          /\ th'[t].stage = th[t].stage /\ th'[t].mm = th[t].mm
          /\ th'[t].todo = th[t].todo /\ th'[t].opt = th[t].opt /\ th'[t].new = th[t].new
          /\ th'[t].pc = th[t].pc \/ (th[t].pc = "last" /\ th'[t].pc = "gone")
  BY <1>1
<1>4. /\ KeepsMaking /\ KeepsTree /\ KeepsHeld
      /\ \A t \in Tasks :
            /\ th'[t].pc \in Childless <=> th[t].pc \in Childless
            /\ th'[t].pc \in Absent <=> th[t].pc \in Absent
            /\ th'[t].pc \in {"unused", "new"} <=> th[t].pc \in {"unused", "new"}
            /\ th'[t].pc \in {"owner", "claim", "asleep"} => th'[t].pc = th[t].pc
  BY <1>3 DEF KeepsMaking, MakePcs, KeepsTree, KeepsHeld, Childless, Absent
<1>5. Makers' /\ Killed' /\ SharedCounted' /\ SigCounted' /\ OwnerUsesMm' /\ NewOwners'
  <2>1. \A t \in Tasks :
              /\ task'[t].hashed = task[t].hashed /\ task'[t].leader = task[t].leader
              /\ task'[t].vfork = task[t].vfork
              /\ task'[t].exiting = task[t].exiting /\ task'[t].kill = task[t].kill
              /\ th'[t].pc \in Absent <=> th[t].pc \in Absent
              /\ th'[t].pc \in {"unused", "new"} => th[t].pc \in {"unused", "new"}
              /\ th'[t].pc = "owner" => th[t].pc = "owner" /\ th'[t].child = th[t].child
    BY <1>3, <1>4
  <2> HIDE DEF IInv
  <2> QED  BY <1>4, <2>1, QuietParts
<1>6. Buried'
  BY <1>3, BuriedFrame DEF Live
<1>7. Groups'
  BY <1>3, <1>4, GroupsFrame
<1>8. Parents'
  <2>1. th'[init].pc = th[init].pc
    BY <1>1, TasksAssumption DEF Ended, Parents
  <2> QED  BY <1>4, <2>1, ParentsFrame DEF Parents
<1>9. NoZombieLeft'
  BY <1>3, <1>4, NoZombieFrame DEF Detached
<1>10. NoneMissed'
  BY <1>3, <1>4, MissedFrame
<1> QED  BY <1>2, <1>5, <1>6, <1>7, <1>8, <1>9, <1>10

\* The structure of p is freed, and its signal_struct with the last thread.
LEMMA FreeKeeps ==
    ASSUME IInv, NEW p \in Tasks, th[p].pc \in {"last", "gone"}, ~Live(p),
           NEW f \in [Tasks -> ThRecord], \A t \in Tasks \ {p} : f[t] = th[t],
           task' = [task EXCEPT ![p] = Blank],
           th' = [f EXCEPT ![p] = [Idle EXCEPT !.pc = "freed"]],
           sig' = IF sig[task[p].leader].cnt = 1
                  THEN [sig EXCEPT ![task[p].leader] = [nr |-> 0, live |-> 0, cnt |-> 0,
                                                        exit |-> FALSE, code |-> none]]
                  ELSE [sig EXCEPT ![task[p].leader].cnt = @ - 1],
           UNCHANGED <<cnt, owner, processes, nr_threads>>
    PROVE  IInv'
<1> USE DEF IInv
<1>1. /\ task \in [Tasks -> TaskRecord] /\ th \in [Tasks -> ThRecord]
      /\ sig \in [Tasks -> SigRecord] /\ \A t \in Tasks : Sound(t, task[t], th[t])
      /\ task[p] \in TaskRecord /\ th[p] \in ThRecord /\ task[p].leader \in Tasks
  BY DEF Types, Phases, Groups, Absent
<1> DEFINE g == [Idle EXCEPT !.pc = "freed"]
<1>2. /\ Blank \in TaskRecord /\ Blank.hashed = FALSE /\ Blank.leader = none
      /\ Blank.exit_state = "0" /\ Blank.vfork = none /\ Blank.exiting = FALSE
      /\ (\A r \in Res : Blank.res[r] = 0) /\ Blank.res.mm = 0
  BY DEF Blank, TaskRecord, Links, Held, Signals, Res
<1>3. /\ g \in ThRecord /\ g.pc = "freed" /\ g.todo = {} /\ g.mm = 0
      /\ g.new.files = 0 /\ g.new.fs = 0 /\ g.new = [r \in {"files", "fs"} |-> 0]
  BY DEF Idle, ThRecord, Absent, Links
<1> HIDE DEF g
<1>4. /\ task'[p] = Blank /\ th'[p] = g
      /\ \A t \in Tasks \ {p} : task'[t] = task[t] /\ th'[t] = th[t]
      /\ task' \in [Tasks -> TaskRecord] /\ th' \in [Tasks -> ThRecord]
  BY <1>1, <1>2, <1>3 DEF g
<1>5. /\ task[p].exiting /\ task[p].hashed = FALSE /\ th[p].mm = 0
      /\ (\A r \in Res : task[p].res[r] = 0) /\ th[p].new = [r \in {"files", "fs"} |-> 0]
      /\ th[p].todo = {} /\ p # init
  <2>1. Sound(p, task[p], th[p]) /\ th[p].pc \in {"last", "gone"} /\ ~task[p].hashed
        /\ task[p] \in TaskRecord
    BY <1>1 DEF Live
  <2>2. /\ task[p].exiting /\ task[p].hashed = FALSE /\ th[p].mm = 0
        /\ task[p].res.files = 0 /\ task[p].res.fs = 0 /\ task[p].res.mm = 0
        /\ task[p].res.sighand = 0 /\ th[p].new.files = 0 /\ th[p].new.fs = 0
    BY ONLY <2>1 DEF Sound, Busy, Ending, Ended, Absent, TaskRecord
  <2>3. th[p].new = [r \in {"files", "fs"} |-> 0]
    BY <1>1, <2>2 DEF ThRecord
  <2> QED  BY <2>2, <2>3 DEF Res, Buried, Parents
<1>6. ~Live(p)' /\ \A t \in Tasks \ {p} : (Live(t)' <=> Live(t)) /\ task'[t] = task[t]
  BY <1>2, <1>4 DEF Live
<1>7. \A t \in Tasks : th'[t].pc = IF t = p THEN "freed" ELSE th[t].pc
  BY <1>3, <1>4
\* Who lives has p neither for a leader nor for a parent
<1>8. \A t \in Tasks : Live(t) => t # p /\ task[t].leader # p /\ task[t].real_parent # p
  BY DEF Groups, Parents
<1>9. \A l \in Tasks : Alone(l)' <=> Alone(l)
  BY <1>4, <1>6 DEF Alone
<1>10. KeepsMaking /\ KeepsMade /\ KeepsTree /\ KeepsHeld
  <2>1. KeepsMaking
    BY <1>4, <1>7 DEF KeepsMaking, MakePcs
  <2>2. KeepsTree
    BY <1>2, <1>4, <1>5, <1>6 DEF KeepsTree, Live
  <2>3. KeepsHeld
    <3>1. task'[p].res = task[p].res
      BY <1>1, <1>2, <1>4, <1>5 DEF TaskRecord, Held
    <3> QED  BY <1>3, <1>4, <1>5, <3>1 DEF KeepsHeld
  <2> QED  BY <2>1, <2>2, <2>3, MakingMade
<1>11. PICK l \in Tasks : l = task[p].leader
  BY <1>1
<1> DEFINE s == IF sig[l].cnt = 1
                THEN [nr |-> 0, live |-> 0, cnt |-> 0, exit |-> FALSE, code |-> none]
                ELSE [sig[l] EXCEPT !.cnt = @ - 1]
<1>12. /\ s \in SigRecord /\ (s.exit => sig[l].exit) /\ s.cnt = sig[l].cnt - 1
       /\ sig[l].cnt # 1 => s.nr = sig[l].nr /\ s.live = sig[l].live
       /\ sig[l].cnt = 1 => s.nr = 0 /\ s.live = 0
  <2>1. sig[l] \in SigRecord /\ none \in Links
    BY <1>1 DEF Links
  <2> HIDE DEF IInv
  <2> QED  BY <2>1 DEF SigRecord
<1>13. sig' = [sig EXCEPT ![l] = s]
  <2> HIDE DEF IInv
  <2>1. CASE sig[l].cnt = 1
    BY <1>1, <1>11, <2>1
  <2>2. CASE sig[l].cnt # 1
    <3>1. sig' = [sig EXCEPT ![l].cnt = @ - 1]
      BY <1>11, <2>2
    <3> QED  BY <1>1, <2>2, <3>1
  <2> QED  BY <2>1, <2>2
<1> HIDE DEF s
<1>14. /\ sig' \in [Tasks -> SigRecord] /\ sig'[l] = s
       /\ \A t \in Tasks \ {l} : sig'[t] = sig[t]
  BY <1>1, <1>12, <1>13, <1>11
<1>15. Types'
  BY <1>4, <1>14 DEF Types
<1>16. Phases'
  <2>1. Sound(p, Blank, g)
    BY <1>2, <1>3 DEF Sound, Busy, Ending, Ended, Absent, Res
  <2> QED  BY <1>1, <1>4, <2>1 DEF Phases
<1>17. Makers'
  <2>1. \A c \in Tasks : task'[c].vfork \in {task[c].vfork, none}
    BY <1>2, <1>4
  <2>2. Makers /\ Types
    OBVIOUS
  <2> HIDE DEF IInv
  <2> QED  BY <1>10, <2>1, <2>2, MakersFrame
<1>18. Buried'
  <2>1. \A t \in Tasks : th'[t].todo = th[t].todo
    BY <1>3, <1>4, <1>5
  <2>2. \A t \in Tasks : Live(t) => task'[t].exit_state = task[t].exit_state /\ task'[t].hashed
    BY <1>4, <1>8 DEF Live
  <2> QED  BY <1>7, <2>1, <2>2, BuriedFrame
<1>19. Groups'
  <2>1. \A t \in Tasks : Live(t)' =>
            /\ task'[t].leader \in Tasks
            /\ Live(task[t].leader)'
            /\ task'[task'[t].leader].leader = task'[t].leader
    BY <1>4, <1>6, <1>8 DEF Groups
  <2>2. \A c \in Tasks : Live(c)' /\ task'[c].leader = c /\ task'[c].exit_state = "dead"
                             => Alone(c)'
    BY <1>4, <1>6, <1>9 DEF Groups
  <2>3. \A y, c \in Tasks : th'[y].pc = "claim" /\ th'[y].child = c
                             => Live(c)' /\ task'[c].leader = c /\ Alone(c)'
    <3> SUFFICES ASSUME NEW y \in Tasks, NEW c \in Tasks, th'[y].pc = "claim", th'[y].child = c
                 PROVE  Live(c)' /\ task'[c].leader = c /\ Alone(c)'
      OBVIOUS
    <3>1. y # p /\ th[y].pc = "claim" /\ th[y].child = c
      BY <1>4, <1>7
    <3>2. Live(c) /\ task[c].leader = c /\ Alone(c)
      BY <3>1 DEF Groups
    <3> QED  BY <1>6, <1>9, <3>2
  <2>4. \A y \in Tasks : th'[y].pc = "claim" => th'[y].child \in Tasks
    BY <1>4, <1>7 DEF Groups
  <2>5. \A t \in Tasks : th'[t].pc \notin Absent => task'[t].leader \in Tasks
    BY <1>4, <1>7 DEF Groups, Absent
  <2>6. \A t \in Tasks : th'[t].pc \notin Absent /\ task'[t].leader # t
                             => th'[task'[t].leader].pc \notin {"unused", "new"}
    BY <1>4, <1>7 DEF Groups, Absent
  <2> QED  BY <2>1, <2>2, <2>3, <2>4, <2>5, <2>6 DEF Groups
<1>20. Parents'
  <2>1. th'[init].pc = th[init].pc /\ task'[init] = task[init]
    BY <1>4, <1>5, <1>7, TasksAssumption
  <2>2. \A t \in Tasks : Live(t)' =>
            /\ task'[t].real_parent \in Tasks
            /\ task'[t].real_parent = task'[task'[t].leader].real_parent
            /\ Live(task[t].real_parent)'
            /\ th'[task'[t].real_parent].pc \notin Childless
    BY <1>4, <1>6, <1>7, <1>8 DEF Parents, Groups
  <2>3. \A t \in Tasks : Live(t)' => task'[t] = task[t]
    BY <1>4, <1>6
  <2> QED  BY <2>1, <2>2, <2>3 DEF Parents
<1>21. NoZombieLeft'
  BY <1>4, <1>6, <1>9 DEF NoZombieLeft, Detached
<1>22. Killed'
  <2>1. \A t \in Tasks : sig'[t].exit => sig[t].exit
    BY <1>12, <1>11, <1>14
  <2>2. \A t \in Tasks :
              /\ Live(t)' => Live(t) /\ task'[t].leader = task[t].leader /\ task[t].leader \in Tasks
              /\ Live(t)' /\ (task[t].exiting \/ task[t].kill) => task'[t].exiting \/ task'[t].kill
              /\ th'[t].pc \in {"unused", "new"} => th[t].pc \in {"unused", "new"}
    BY <1>4, <1>6, <1>7 DEF Groups
  <2> QED  BY <2>1, <2>2, KilledFrame
<1>23. SharedCounted'
  BY <1>10, SharedFrame
<1>24. SigCounted'
  <2>1. \A t \in Tasks : (Led(t)' <=> Led(t)) /\ (Begun(t)' <=> Begun(t))
    BY <1>10, MakerFrame
  <2>2. ~Led(p) /\ ~Begun(p)
    BY DEF Led, Begun, Maker, Makers
  <2>3. ASSUME NEW c \in Tasks
        PROVE  /\ Listed(c)' = Listed(c) /\ Staying(c)' = Staying(c)
               /\ Members(c)' = IF c = l THEN Members(c) \ {p} ELSE Members(c)
               /\ c = l => p \in Members(c) /\ p \notin Listed(c)
               /\ Listed(c) \subseteq Members(c)
    <3>1. \A t \in Tasks : t \in Listed(c)' <=> t \in Listed(c)
      BY <1>4, <1>6, <2>1, <2>2 DEF Listed
    <3>2. Listed(c) \subseteq Tasks /\ Listed(c)' \subseteq Tasks
      BY DEF Listed
    <3>3. Listed(c)' = Listed(c)
      BY ONLY <3>1, <3>2
    <3>4. p \notin Listed(c)
      BY <2>2 DEF Listed
    <3>5. Staying(c)' = Staying(c)
      BY <1>4, <3>2, <3>3, <3>4 DEF Staying
    <3>6. \A t \in Tasks : t \in Members(c)' <=> t \in Members(c) /\ t # p
      BY <1>4, <1>7, <2>1, <2>2 DEF Members, Absent
    <3>7. Members(c) \subseteq Tasks /\ Members(c)' \subseteq Tasks
      BY DEF Members
    <3>8. Members(c)' = Members(c) \ {p}
      BY ONLY <3>6, <3>7
    <3>9. p \in Members(c) <=> c = l
      BY <1>11, <2>2 DEF Members, Absent
    <3>10. Listed(c) \subseteq Members(c)
      BY <1>1 DEF Listed, Members, Sound, Absent, Blank, Live
    <3> QED  BY <3>3, <3>4, <3>5, <3>8, <3>9, <3>10
  <2>4. Charged' = Charged /\ Alive' = Alive
    BY <1>6, <2>1, <2>2 DEF Charged, Alive
  <2>5. /\ Members(l) \in SUBSET Tasks /\ p \in Members(l)
        /\ Cardinality(Members(l) \ {p}) = Cardinality(Members(l)) - 1
        /\ Cardinality(Members(l) \ {p}) \in Nat
    <3>1. Members(l) \in SUBSET Tasks /\ p \in Members(l)
      BY <1>11, <2>3 DEF Members
    <3> QED  BY <3>1, CountLess, CountType
  <2>6. sig[l].cnt = 1 => Listed(l) = {} /\ Staying(l) = {}
    <3> SUFFICES ASSUME sig[l].cnt = 1 PROVE Listed(l) = {} /\ Staying(l) = {}
      OBVIOUS
    <3>1. Cardinality(Members(l) \ {p}) = 0
      BY <1>11, <2>5 DEF SigCounted
    <3>2. IsFiniteSet(Members(l) \ {p})
      BY <2>5, TasksAssumption, FS_Subset
    <3>3. Members(l) \ {p} = {}
      BY <3>1, <3>2, FS_EmptySet
    <3>4. Listed(l) = {}
      BY <1>11, <2>3, <3>3
    <3> QED  BY <3>4 DEF Staying
  <2>7. ASSUME NEW c \in Tasks
        PROVE  /\ sig'[c].nr = Cardinality(Listed(c)')
               /\ sig'[c].live = Cardinality(Staying(c)')
               /\ sig'[c].cnt = Cardinality(Members(c)')
    <3>1. CASE c # l
      <4>1. /\ sig[c].nr = Cardinality(Listed(c)) /\ sig[c].live = Cardinality(Staying(c))
            /\ sig[c].cnt = Cardinality(Members(c))
        BY DEF SigCounted
      <4>2. /\ Listed(c)' = Listed(c) /\ Staying(c)' = Staying(c) /\ Members(c)' = Members(c)
        BY <2>3, <3>1
      <4>3. sig'[c] = sig[c]
        BY <1>14, <3>1
      <4> QED  BY ONLY <4>1, <4>2, <4>3
    <3>2. CASE c = l
      <4>1. /\ sig[l].nr = Cardinality(Listed(l)) /\ sig[l].live = Cardinality(Staying(l))
            /\ sig[l].cnt = Cardinality(Members(l))
        BY <1>11 DEF SigCounted
      <4>2. sig'[l].cnt = Cardinality(Members(l)')
        BY <1>12, <1>11, <1>14, <2>3, <2>5, <4>1
      <4>3. sig'[l].nr = Cardinality(Listed(l)) /\ sig'[l].live = Cardinality(Staying(l))
        <5>1. CASE sig[l].cnt = 1
          BY <1>12, <1>14, <2>6, <5>1, FS_EmptySet
        <5>2. CASE sig[l].cnt # 1
          BY <1>12, <1>14, <4>1, <5>2
        <5> QED  BY <5>1, <5>2
      <4> QED  BY <1>11, <2>3, <3>2, <4>2, <4>3
    <3> QED  BY <3>1, <3>2
  <2> QED  BY <2>4, <2>7 DEF SigCounted
<1>25. \A t \in Tasks : task'[t].res.mm = task[t].res.mm /\ th'[t].mm = th[t].mm
  BY <1>10 DEF KeepsHeld
<1>26. OwnerUsesMm'
  BY <1>6, <1>25, OwnersFrame
<1>27. NewOwners'
  <2>1. \A t \in Tasks :
              /\ th'[t].pc = "owner" => th[t].pc = "owner" /\ th'[t].child = th[t].child
              /\ th'[t].pc \in {"unused", "new"} => th[t].pc \in {"unused", "new"}
    BY <1>4, <1>7
  <2> QED  BY <1>10, <1>25, <2>1, NewOwnersFrame
<1>28. NoneMissed'
  <2>1. \A t \in Tasks :
              /\ th'[t].pc = "asleep" => th[t].pc = "asleep" /\ th'[t].opt = th[t].opt
              /\ Live(t) /\ task'[t].exit_state = "zombie"
                    => task[t].exit_state = "zombie" /\ task'[t].exit_signal = task[t].exit_signal
    BY <1>4, <1>6, <1>7
  <2> QED  BY <1>10, <2>1, MissedFrame
<1> QED  BY <1>15, <1>16, <1>17, <1>18, <1>19, <1>20, <1>21, <1>22, <1>23, <1>24, <1>26,
            <1>27, <1>28

\* The last schedule of a dead task keeps the invariant.
LEMMA LastKeeps ==
    ASSUME IInv, NEW x \in Tasks, Last(x)
    PROVE  IInv'
<1>1. /\ th[x].pc = "last" /\ UNCHANGED <<cnt, owner, processes, nr_threads>>
      /\ th \in [Tasks -> ThRecord] /\ task \in [Tasks -> TaskRecord]
      /\ th[x] \in ThRecord /\ task[x] \in TaskRecord /\ Sound(x, task[x], th[x])
  BY DEF Last, IInv, Types, Phases
<1>2. /\ task[x].usage = 1 + (IF Live(x) \/ task[x].rcu THEN 1 ELSE 0)
      /\ task[x].exiting /\ task[x].exit_state # "0" /\ ~(Live(x) /\ task[x].rcu)
  BY <1>1 DEF Sound, Ended, Live
<1> DEFINE h == [th[x] EXCEPT !.pc = "gone"]
<1>3. /\ h \in ThRecord /\ h.child = th[x].child /\ h.kind = th[x].kind
      /\ h.stage = th[x].stage /\ h.mm = th[x].mm /\ h.todo = th[x].todo
      /\ h.opt = th[x].opt /\ h.new = th[x].new /\ h.pc = "gone"
  BY <1>1 DEF ThRecord, Ended
<1>4. At(x, "gone") = [th EXCEPT ![x] = h]
  BY <1>1 DEF At
<1> HIDE DEF h
<1>5. At(x, "gone") # th
  BY <1>1, <1>3, <1>4
<1>6. CASE task[x].usage > 1
  <2>9. PICK n \in 0..2 : n = task[x].usage - 1
    BY <1>2
  <2> DEFINE k == [task[x] EXCEPT !.usage = n]
  <2>1. task' = [task EXCEPT ![x].usage = @ - 1, ![x].rcu = @] /\ th' = At(x, "gone")
        /\ UNCHANGED sig
    BY <1>5, <1>6 DEF Last, PutTask
  <2>2. task' = [task EXCEPT ![x] = [task[x] EXCEPT !.usage = n, !.rcu = @]]
    BY <1>1, <2>1, <2>9
  <2>3. [task[x] EXCEPT !.usage = n, !.rcu = @] = k
    BY <1>1 DEF TaskRecord
  <2>4. /\ k \in TaskRecord /\ k.leader = task[x].leader /\ k.real_parent = task[x].real_parent
        /\ k.exit_signal = task[x].exit_signal /\ k.exit_state = task[x].exit_state
        /\ k.exiting = task[x].exiting /\ k.kill = task[x].kill /\ k.hashed = task[x].hashed
        /\ k.vfork = task[x].vfork /\ k.res = task[x].res /\ k.rcu = task[x].rcu
        /\ k.usage = n
    BY ONLY <1>1 DEF TaskRecord
  <2> HIDE DEF k
  <2>5. Sound(x, k, h)
    BY <1>1, <1>2, <1>3, <1>6, <2>4, <2>9 DEF Sound, Busy, Ending, Ended, Absent, Live
  <2>6. th[x].pc \in Ended
    BY <1>1 DEF Ended
  <2> QED  BY <1>1, <1>3, <1>4, <2>1, <2>2, <2>3, <2>4, <2>5, <2>6, DropKeeps
<1>7. CASE ~(task[x].usage > 1)
  <2>1. ~Live(x)
    BY <1>2, <1>7
  <2> DEFINE f == At(x, "gone")
  <2>2. f \in [Tasks -> ThRecord] /\ \A t \in Tasks \ {x} : f[t] = th[t]
    BY <1>1, <1>3, <1>4
  <2>3. /\ task' = [task EXCEPT ![x] = Blank]
        /\ th' = [f EXCEPT ![x] = [Idle EXCEPT !.pc = "freed"]]
        /\ sig' = IF sig[task[x].leader].cnt = 1
                  THEN [sig EXCEPT ![task[x].leader] = [nr |-> 0, live |-> 0, cnt |-> 0,
                                                        exit |-> FALSE, code |-> none]]
                  ELSE [sig EXCEPT ![task[x].leader].cnt = @ - 1]
    BY <1>7 DEF Last, PutTask
  <2> HIDE DEF f
  <2> QED  BY <1>1, <2>1, <2>2, <2>3, FreeKeeps
<1> QED  BY <1>6, <1>7

\* The reference delayed_put_task_struct drops keeps the invariant.
LEMMA RcuKeeps ==
    ASSUME IInv, NEW p \in Tasks, Rcu(p)
    PROVE  IInv'
<1>1. /\ task[p].rcu /\ UNCHANGED <<cnt, owner, processes, nr_threads>>
      /\ th \in [Tasks -> ThRecord] /\ task \in [Tasks -> TaskRecord]
      /\ th[p] \in ThRecord /\ task[p] \in TaskRecord /\ Sound(p, task[p], th[p])
  BY DEF Rcu, IInv, Types, Phases
<1>2. th[p].pc \in Ended
  BY <1>1 DEF Sound, Busy, Ending, Ended, Absent, Blank, ThRecord
<1>3. /\ task[p].usage = (IF th[p].pc = "gone" THEN 0 ELSE 1) + 1
      /\ task[p].exiting /\ task[p].exit_state # "0" /\ ~Live(p)
  BY <1>1, <1>2 DEF Sound, Ended, Live
<1>4. CASE task[p].usage > 1
  <2>9. PICK n \in 0..2 : n = task[p].usage - 1
    BY <1>3
  <2> DEFINE k == [task[p] EXCEPT !.usage = n, !.rcu = FALSE]
  <2>1. task' = [task EXCEPT ![p].usage = @ - 1, ![p].rcu = FALSE] /\ th' = th
        /\ UNCHANGED sig
    BY <1>4 DEF Rcu, PutTask
  <2>2. task' = [task EXCEPT ![p] = k]
    BY <1>1, <2>1, <2>9
  <2>3. /\ k \in TaskRecord /\ k.leader = task[p].leader /\ k.real_parent = task[p].real_parent
        /\ k.exit_signal = task[p].exit_signal /\ k.exit_state = task[p].exit_state
        /\ k.exiting = task[p].exiting /\ k.kill = task[p].kill /\ k.hashed = task[p].hashed
        /\ k.vfork = task[p].vfork /\ k.res = task[p].res /\ k.rcu = FALSE
        /\ k.usage = n
    BY ONLY <1>1 DEF TaskRecord
  <2> HIDE DEF k
  <2>4. Sound(p, k, th[p])
    BY <1>1, <1>2, <1>3, <1>4, <2>3, <2>9 DEF Sound, Busy, Ending, Ended, Absent, Live
  <2>5. th' = [th EXCEPT ![p] = th[p]]
    BY <1>1, <2>1
  <2> QED  BY <1>1, <1>2, <2>1, <2>2, <2>3, <2>4, <2>5, DropKeeps
<1>5. CASE ~(task[p].usage > 1)
  <2>1. th[p].pc = "gone"
    BY <1>3, <1>5
  <2>2. /\ task' = [task EXCEPT ![p] = Blank]
        /\ th' = [th EXCEPT ![p] = [Idle EXCEPT !.pc = "freed"]]
        /\ sig' = IF sig[task[p].leader].cnt = 1
                  THEN [sig EXCEPT ![task[p].leader] = [nr |-> 0, live |-> 0, cnt |-> 0,
                                                        exit |-> FALSE, code |-> none]]
                  ELSE [sig EXCEPT ![task[p].leader].cnt = @ - 1]
    BY <1>5 DEF Rcu, PutTask
  <2> QED  BY <1>1, <1>3, <2>1, <2>2, FreeKeeps
<1> QED  BY <1>4, <1>5
------------------------------------------------------------------------------
(* The structures the slab allocator returns *)

\* Who holds two references at once, holds them here
Spare(r, t) == IF r = "mm" THEN th[t].mm
               ELSE IF r = "sighand" THEN 0 ELSE th[t].new[r]

\* The count of a structure is 0 exactly when nobody has it.
LEMMA NotUsed ==
    ASSUME SharedCounted, NEW r \in Res, NEW i \in Ids
    PROVE  /\ cnt[r][i] \in Nat
           /\ cnt[r][i] = 0 <=> Users(r, i) = {} /\ Copies(r, i) = {}
<1>1. Users(r, i) \in SUBSET Tasks /\ Copies(r, i) \in SUBSET Tasks
  BY DEF Users, Copies
<1>2. IsFiniteSet(Users(r, i)) /\ IsFiniteSet(Copies(r, i))
  BY <1>1, TasksAssumption, FS_Subset
<1>3. /\ Cardinality(Users(r, i)) \in Nat /\ Cardinality(Copies(r, i)) \in Nat
      /\ Cardinality(Users(r, i)) = 0 <=> Users(r, i) = {}
      /\ Cardinality(Copies(r, i)) = 0 <=> Copies(r, i) = {}
  BY <1>2, FS_CardinalityType, FS_EmptySet
<1>4. cnt[r][i] = Cardinality(Users(r, i)) + Cardinality(Copies(r, i))
  BY DEF SharedCounted
<1> QED  BY <1>3, <1>4

\* A task can have to do with two structures of a kind: its own and a copy.
LEMMA TwoOfThem == IsFiniteSet({1, 2}) /\ Cardinality({1, 2}) = 2
<1>1. ASSUME NEW a, NEW b, a # b PROVE IsFiniteSet({a, b}) /\ Cardinality({a, b}) = 2
  <2>1. IsFiniteSet({a}) /\ Cardinality({a}) = 1
    BY FS_Singleton
  <2>2. /\ IsFiniteSet({a} \cup {b})
        /\ Cardinality({a} \cup {b}) = IF b \in {a} THEN Cardinality({a}) ELSE Cardinality({a})+1
    BY <2>1, FS_AddElement, Zenon
  <2>3. {a} \cup {b} = {a, b}
    OBVIOUS
  <2>4. b \notin {a}
    BY <1>1
  <2>5. Cardinality({a} \cup {b}) = 1 + 1
    BY <2>1, <2>2, <2>4
  <2> QED  BY <2>2, <2>3, <2>5
<1> QED  BY <1>1, 1 # 2

\* There are two structures for each task, and one that is not about to drop
\* or to put in place another holds only one: one is left for it.
LEMMA FreshExists ==
    ASSUME IInv, NEW x \in Tasks, th[x].pc = "user", NEW r \in Res
    PROVE  /\ Fresh(r) \in Ids /\ cnt[r][Fresh(r)] = 0
           /\ Users(r, Fresh(r)) = {} /\ Copies(r, Fresh(r)) = {}
<1>1. /\ SharedCounted /\ task \in [Tasks -> TaskRecord] /\ th \in [Tasks -> ThRecord]
      /\ Sound(x, task[x], th[x])
  BY DEF IInv, Types, Phases
<1>2. \E i \in Ids : cnt[r][i] = 0
  <2> SUFFICES ASSUME \A i \in Ids : cnt[r][i] # 0 PROVE FALSE
    OBVIOUS
  <2> DEFINE n == Cardinality(Tasks)
             S == Tasks \X {1, 2}
             T == 0..2 * n
             f == [s \in S |-> IF s[2] = 1 THEN task[s[1]].res[r] ELSE Spare(r, s[1])]
  <2>1. n \in Nat /\ IsFiniteSet(Tasks) /\ Ids = 1..2 * n /\ Ids \cup {0} = T
    <3>1. n \in Nat /\ IsFiniteSet(Tasks)
      BY TasksAssumption, FS_CardinalityType
    <3> QED  BY <3>1 DEF Ids
  <2>2. IsFiniteSet({1, 2}) /\ Cardinality({1, 2}) = 2
    BY TwoOfThem
  <2>3. IsFiniteSet(S) /\ Cardinality(S) = n * 2
    BY <2>1, <2>2, FS_Product
  <2>4. Cardinality(T) = 2 * n + 1
    BY <2>1, FS_Interval
  <2>5. ASSUME NEW t \in Tasks PROVE task[t].res[r] \in T /\ Spare(r, t) \in T
    <3>1. task[t].res \in Held /\ th[t].mm \in Ids \cup {0}
          /\ th[t].new \in [{"files", "fs"} -> Ids \cup {0}]
      BY <1>1 DEF TaskRecord, ThRecord
    <3> QED  BY <2>1, <3>1 DEF Held, Spare, Res
  <2>6. f \in [S -> T]
    BY <2>5
  <2>7. ASSUME NEW i \in T PROVE \E s \in S : f[s] = i
    <3>1. CASE i = 0
      <4>1. Spare(r, x) = 0
        BY <1>1 DEF Sound, Spare, Res
      <4>2. <<x, 2>> \in S /\ f[<<x, 2>>] = Spare(r, x)
        OBVIOUS
      <4> QED  BY <3>1, <4>1, <4>2
    <3>2. CASE i # 0
      <4>1. i \in Ids
        BY <2>1, <3>2
      <4>2. PICK t \in Tasks : t \in Users(r, i) \/ t \in Copies(r, i)
        BY <1>1, <4>1, NotUsed DEF Users, Copies
      <4>3. task[t].res[r] = i \/ Spare(r, t) = i
        BY <4>2 DEF Users, Copies, Spare
      <4>4. /\ <<t, 1>> \in S /\ f[<<t, 1>>] = task[t].res[r]
            /\ <<t, 2>> \in S /\ f[<<t, 2>>] = Spare(r, t)
        OBVIOUS
      <4> QED  BY <4>3, <4>4
    <3> QED  BY <3>1, <3>2
  <2>8. f \in Surjection(S, T)
    BY <2>6, <2>7 DEF Surjection
  <2>9. Cardinality(T) <= Cardinality(S)
    BY <2>3, <2>8, FS_Surjection
  <2> HIDE DEF n, S, T
  <2> QED  BY <2>1, <2>3, <2>4, <2>9
<1>3. Fresh(r) \in Ids /\ cnt[r][Fresh(r)] = 0
  BY <1>2 DEF Fresh
<1> QED  BY <1>1, <1>3, NotUsed
------------------------------------------------------------------------------
(* unshare *)

\* A task that keeps its structure of kind r, and whose making goes on, stays a user
\* of it.
LEMMA UsersFrame ==
    ASSUME KeepsMade, NEW r \in Res, NEW i \in Ids, NEW x \in Tasks,
           task'[x].res[r] = task[x].res[r], r = "mm" => th'[x].mm = th[x].mm
    PROVE  x \in Users(r, i)' <=> x \in Users(r, i)
<1>1. (\E y \in Tasks : /\ th'[y].pc \in {"copied", "undo"} /\ th'[y].child = x
                        /\ r \in Acquired(th'[y].stage))
      <=> (\E y \in Tasks : /\ th[y].pc \in {"copied", "undo"} /\ th[y].child = x
                            /\ r \in Acquired(th[y].stage))
  BY DEF KeepsMade
<1>2. th'[x].pc = "new" <=> th[x].pc = "new"
  BY DEF KeepsMade
<1> QED  BY <1>1, <1>2 DEF Users

\* What unshare does to x disturbs only the counts of files and fs.
LEMMA UnshareParts ==
    ASSUME IInv, NEW x \in Tasks, th[x].pc \in {"user", "unshare"},
           NEW k \in TaskRecord, NEW h \in ThRecord, h.pc \in {"user", "unshare"},
           task' = [task EXCEPT ![x] = k], th' = [th EXCEPT ![x] = h],
           k.leader = task[x].leader, k.real_parent = task[x].real_parent,
           k.exit_signal = task[x].exit_signal, k.exit_state = task[x].exit_state,
           k.exiting = task[x].exiting, k.kill = task[x].kill, k.hashed = task[x].hashed,
           k.vfork = task[x].vfork, k.res.mm = task[x].res.mm,
           h.mm = th[x].mm, h.todo = {}, Sound(x, k, h),
           cnt' \in [Res -> [Ids -> Int]], cnt'.mm = cnt.mm,
           UNCHANGED <<sig, owner, processes, nr_threads>>,
           KeepsMade => SharedCounted'
    PROVE  IInv'
<1> USE DEF IInv
<1>1. /\ task' \in [Tasks -> TaskRecord] /\ th' \in [Tasks -> ThRecord]
      /\ task'[x] = k /\ th'[x] = h
      /\ \A t \in Tasks \ {x} : task'[t] = task[t] /\ th'[t] = th[t]
      /\ th[x].todo = {}
  BY DEF Types, Buried
<1>2. Types' /\ Phases'
  BY <1>1 DEF Types, Phases
<1>3. \A t \in Tasks :
          /\ task'[t].leader = task[t].leader /\ task'[t].hashed = task[t].hashed
          /\ task'[t].real_parent = task[t].real_parent
          /\ task'[t].exit_signal = task[t].exit_signal
          /\ task'[t].exit_state = task[t].exit_state
          /\ task'[t].exiting = task[t].exiting /\ task'[t].kill = task[t].kill
          /\ task'[t].vfork = task[t].vfork /\ task'[t].res.mm = task[t].res.mm
          /\ th'[t].mm = th[t].mm /\ th'[t].todo = th[t].todo
          /\ th'[t] = th[t] \/ (/\ th[t].pc \in {"user", "unshare"}
                                /\ th'[t].pc \in {"user", "unshare"})
  BY <1>1
<1>4. /\ KeepsMaking /\ KeepsMade /\ KeepsTree
      /\ \A t \in Tasks :
            /\ th'[t].pc \in Childless <=> th[t].pc \in Childless
            /\ th'[t].pc \in Absent <=> th[t].pc \in Absent
            /\ th'[t].pc \in {"unused", "new"} <=> th[t].pc \in {"unused", "new"}
            /\ th'[t].pc \in {"owner", "claim", "asleep"} => th'[t] = th[t]
            /\ th'[t].pc = th[t].pc \/ th[t].pc \notin {"bury", "self", "reap"}
  BY <1>3, MakingMade DEF KeepsMaking, MakePcs, KeepsTree, Childless, Absent
<1>5. Makers'
  <2>1. Makers /\ Types
    OBVIOUS
  <2> HIDE DEF IInv
  <2> QED  BY <1>3, <1>4, <2>1, MakersFrame
<1>6. Buried'
  BY <1>3, <1>4, BuriedFrame DEF Live
<1>7. Groups'
  BY <1>3, <1>4, GroupsFrame
<1>8. Parents'
  <2>1. th'[init].pc \in {"user", "unshare", "scan", "asleep", "claim", "reap"}
    BY <1>3, TasksAssumption DEF Parents
  <2> QED  BY <1>4, <2>1, ParentsFrame
<1>9. NoZombieLeft'
  BY <1>3, <1>4, NoZombieFrame DEF Detached
<1>10. Killed'
  <2>1. \A t \in Tasks :
              /\ Live(t)' => Live(t) /\ task'[t].leader = task[t].leader /\ task[t].leader \in Tasks
              /\ Live(t)' /\ (task[t].exiting \/ task[t].kill) => task'[t].exiting \/ task'[t].kill
              /\ th'[t].pc \in {"unused", "new"} => th[t].pc \in {"unused", "new"}
              /\ sig'[t].exit => sig[t].exit
    BY <1>3, <1>4 DEF Groups, Live
  <2> QED  BY <2>1, KilledFrame
<1>11. SigCounted'
  <2>1. SigCounted
    OBVIOUS
  <2> HIDE DEF IInv
  <2> QED  BY <1>3, <1>4, <2>1, SigFrame
<1>12. OwnerUsesMm'
  BY <1>3, OwnersFrame DEF Live
<1>13. NewOwners'
  BY <1>3, <1>4, NewOwnersFrame
<1>14. NoneMissed'
  <2>1. NoneMissed /\ Parents /\ Phases
    OBVIOUS
  <2> HIDE DEF IInv
  <2> QED  BY <1>3, <1>4, <2>1, MissedFrame
<1>15. SharedCounted'
  BY <1>4
<1> QED  BY <1>2, <1>5, <1>6, <1>7, <1>8, <1>9, <1>10, <1>11, <1>12, <1>13, <1>14, <1>15

\* The copies unshare makes keep the invariant: they are counted for it alone.
LEMMA UnshareCopyKeeps ==
    ASSUME IInv, NEW x \in Tasks, NEW rs \in SUBSET {"files", "fs"}, UnshareCopy(x, rs)
    PROVE  IInv'
<1>1. /\ th[x].pc = "user" /\ UNCHANGED <<task, sig, owner, processes, nr_threads>>
      /\ task \in [Tasks -> TaskRecord] /\ th \in [Tasks -> ThRecord]
      /\ th[x] \in ThRecord /\ task[x] \in TaskRecord /\ Sound(x, task[x], th[x])
      /\ cnt \in [Res -> [Ids -> Int]] /\ SharedCounted
  BY DEF UnshareCopy, IInv, Types, Phases
<1> DEFINE new == [r \in {"files", "fs"} |->
                     IF r \in rs /\ cnt[r][task[x].res[r]] > 1 THEN Fresh(r) ELSE 0]
<1>2. /\ cnt' = [r \in Res |-> IF r \in DOMAIN new /\ new[r] # 0
                               THEN [cnt[r] EXCEPT ![new[r]] = 1] ELSE cnt[r]]
      /\ th' = [th EXCEPT ![x].pc = "unshare", ![x].new = new]
  BY DEF UnshareCopy
<1>3. PICK n \in [{"files", "fs"} -> Ids \cup {0}] : n = new
  <2>1. \A r \in {"files", "fs"} : new[r] \in Ids \cup {0}
    BY <1>1, FreshExists DEF Res
  <2> QED  BY <2>1
<1>4. \A r \in {"files", "fs"} : n[r] # 0 =>
          n[r] \in Ids /\ Users(r, n[r]) = {} /\ Copies(r, n[r]) = {}
  <2>1. \A r \in {"files", "fs"} : new[r] # 0 => new[r] = Fresh(r)
    OBVIOUS
  <2> HIDE DEF new
  <2> QED  BY <1>1, <1>3, <2>1, FreshExists DEF Res
<1>5. /\ cnt' = [r \in Res |-> IF r \in {"files", "fs"} /\ n[r] # 0
                               THEN [cnt[r] EXCEPT ![n[r]] = 1] ELSE cnt[r]]
      /\ th' = [th EXCEPT ![x].pc = "unshare", ![x].new = n]
  <2>1. DOMAIN new = {"files", "fs"}
    OBVIOUS
  <2> HIDE DEF new
  <2> QED  BY <1>2, <1>3, <2>1
<1> DEFINE h == [th[x] EXCEPT !.pc = "unshare", !.new = n]
<1>6. th' = [th EXCEPT ![x] = h]
  BY <1>1, <1>5
<1>7. /\ h \in ThRecord /\ h.pc = "unshare" /\ h.new = n /\ h.mm = th[x].mm
      /\ h.todo = th[x].todo /\ h.opt = th[x].opt
  BY <1>1 DEF ThRecord, Busy
<1> HIDE DEF h, new
<1>8. /\ h.todo = {} /\ th[x].new.files = 0 /\ th[x].new.fs = 0
      /\ Sound(x, task[x], h)
  <2>1. th[x].todo = {}
    BY <1>1 DEF IInv, Buried
  <2> QED  BY <1>1, <1>7, <2>1 DEF Sound, Busy, Ending, Ended, Absent
<1>9. \A r \in Res : \A i \in Ids :
         cnt'[r][i] = IF r \in {"files", "fs"} /\ n[r] = i THEN 1 ELSE cnt[r][i]
  <2> SUFFICES ASSUME NEW r \in Res, NEW i \in Ids
               PROVE  cnt'[r][i] = IF r \in {"files", "fs"} /\ n[r] = i THEN 1 ELSE cnt[r][i]
    OBVIOUS
  <2>1. i # 0 /\ cnt[r] \in [Ids -> Int]
    BY <1>1, KindsOfRes
  <2>2. CASE r \in {"files", "fs"} /\ n[r] # 0
    <3>1. cnt'[r] = [cnt[r] EXCEPT ![n[r]] = 1]
      BY <1>5, <2>2
    <3> QED  BY <2>1, <2>2, <3>1
  <2>3. CASE ~(r \in {"files", "fs"} /\ n[r] # 0)
    BY <1>5, <2>1, <2>3
  <2> QED  BY <2>2, <2>3
<1>10. cnt' \in [Res -> [Ids -> Int]] /\ cnt'.mm = cnt.mm
  <2>1. \A r \in Res : cnt'[r] \in [Ids -> Int]
    <3> SUFFICES ASSUME NEW r \in Res PROVE cnt'[r] \in [Ids -> Int]
      OBVIOUS
    <3>1. cnt[r] \in [Ids -> Int]
      BY <1>1
    <3>2. CASE r \in {"files", "fs"} /\ n[r] # 0
      <4>1. PICK a \in Ids : a = n[r]
        BY <1>4, <3>2
      <4>2. cnt'[r] = [cnt[r] EXCEPT ![a] = 1]
        BY <1>5, <3>2, <4>1
      <4> QED  BY <3>1, <4>2
    <3>3. CASE ~(r \in {"files", "fs"} /\ n[r] # 0)
      BY <1>5, <3>1, <3>3
    <3> QED  BY <3>2, <3>3
  <2>2. cnt'.mm = cnt.mm
    BY <1>5 DEF Res
  <2>3. cnt' = [r \in Res |-> cnt'[r]]
    BY <1>5
  <2> QED  BY ONLY <2>1, <2>2, <2>3
<1>11. ASSUME KeepsMade PROVE SharedCounted'
  <2>1. ASSUME NEW r \in Res, NEW i \in Ids
        PROVE  cnt'[r][i] = Cardinality(Users(r, i)') + Cardinality(Copies(r, i)')
    <3>1. i # 0
      BY KindsOfRes
    <3>2. Users(r, i)' = Users(r, i)
      <4>1. \A t \in Tasks : t \in Users(r, i)' <=> t \in Users(r, i)
        BY <1>1, <1>6, <1>7, <1>11, UsersFrame
      <4> QED  BY <4>1 DEF Users
    <3>3. Copies(r, i)' = IF r \in {"files", "fs"} /\ n[r] = i THEN Copies(r, i) \cup {x}
                                                              ELSE Copies(r, i)
      <4>1. th'[x] = h /\ \A t \in Tasks \ {x} : th'[t] = th[t]
        BY <1>1, <1>6
      <4>2. x \notin Copies(r, i)
        BY <1>8, <3>1 DEF Copies, Res
      <4>3. x \in Copies(r, i)' <=> r \in {"files", "fs"} /\ n[r] = i
        BY <1>7, <4>1 DEF Copies, Res
      <4>4. \A t \in Tasks \ {x} : t \in Copies(r, i)' <=> t \in Copies(r, i)
        BY <4>1 DEF Copies
      <4>5. Copies(r, i) \subseteq Tasks /\ Copies(r, i)' \subseteq Tasks
        BY DEF Copies
      <4>6. CASE r \in {"files", "fs"} /\ n[r] = i
        BY <4>3, <4>4, <4>5, <4>6
      <4>7. CASE ~(r \in {"files", "fs"} /\ n[r] = i)
        BY ONLY <4>2, <4>3, <4>4, <4>5, <4>7
      <4> QED  BY <4>6, <4>7
    <3>4. cnt[r][i] = Cardinality(Users(r, i)) + Cardinality(Copies(r, i))
      BY <1>1 DEF SharedCounted
    <3>5. CASE r \in {"files", "fs"} /\ n[r] = i
      <4>1. Users(r, i) = {} /\ Copies(r, i) = {}
        BY <1>4, <3>1, <3>5
      <4>2. Cardinality({}) = 0 /\ Cardinality({} \cup {x}) = 1
        BY FS_EmptySet, CountMore
      <4> QED  BY <1>9, <3>2, <3>3, <3>5, <4>1, <4>2
    <3>6. CASE ~(r \in {"files", "fs"} /\ n[r] = i)
      BY <1>9, <3>2, <3>3, <3>4, <3>6
    <3> QED  BY <3>5, <3>6
  <2> QED  BY <2>1 DEF SharedCounted
<1>12. task' = [task EXCEPT ![x] = task[x]]
  BY <1>1
<1> QED  BY <1>1, <1>6, <1>7, <1>8, <1>10, <1>11, <1>12, UnshareParts

\* Who puts a copy in place gives the old structure back.
LEMMA SwapShared ==
    ASSUME SharedCounted, KeepsMade, NEW x \in Tasks, NEW r \in Res, NEW new \in Ids \cup {0},
           r # "mm", r # "sighand", th[x].new[r] = new, th'[x].new[r] = 0,
           th[x].pc # "new",
           \A t \in Tasks \ {x} : task'[t].res = task[t].res /\ th'[t].new = th[t].new,
           task'[x].res[r] = IF new # 0 THEN new ELSE task[x].res[r],
           NEW i \in Ids, cnt[r][i] \in Int,
           cnt'[r][i] = IF new # 0 /\ task[x].res[r] = i THEN cnt[r][i] - 1 ELSE cnt[r][i]
    PROVE  cnt'[r][i] = Cardinality(Users(r, i)') + Cardinality(Copies(r, i)')
<1>1. i # 0
  BY KindsOfRes
<1>2. cnt[r][i] = Cardinality(Users(r, i)) + Cardinality(Copies(r, i))
  BY DEF SharedCounted
<1>3. PICK U, V, C, D \in SUBSET Tasks : /\ U = Users(r, i) /\ V = Users(r, i)'
                                         /\ C = Copies(r, i) /\ D = Copies(r, i)'
  BY DEF Users, Copies
<1>4. \A t \in Tasks \ {x} : (t \in U <=> t \in V) /\ (t \in C <=> t \in D)
  <2>1. \A t \in Tasks \ {x} : t \in Users(r, i)' <=> t \in Users(r, i)
    BY UsersFrame
  <2>2. \A t \in Tasks \ {x} : t \in Copies(r, i)' <=> t \in Copies(r, i)
    BY DEF Copies
  <2> QED  BY <1>3, <2>1, <2>2
<1>5. /\ x \in U <=> task[x].res[r] = i
      /\ x \in V <=> task'[x].res[r] = i
      /\ x \in C <=> new = i
      /\ x \notin D
  <2>1. th'[x].pc # "new"
    BY DEF KeepsMade
  <2>2. x \in Users(r, i) <=> task[x].res[r] = i
    BY DEF Users
  <2>3. x \in Users(r, i)' <=> task'[x].res[r] = i
    BY <2>1 DEF Users
  <2>4. (x \in Copies(r, i) <=> new = i) /\ x \notin Copies(r, i)'
    BY <1>1 DEF Copies
  <2> QED  BY <1>3, <2>2, <2>3, <2>4
<1>11. U \subseteq Tasks /\ V \subseteq Tasks /\ C \subseteq Tasks /\ D \subseteq Tasks
  BY <1>3
<1>6. Cardinality(C) \in Nat /\ Cardinality(U) \in Nat /\ Cardinality(V) \in Nat
  BY CountType
<1>7. CASE new = i /\ task[x].res[r] = i
  <2>3. (x \in U <=> x \in V) /\ x \in C /\ x \notin D
    BY <1>1, <1>5, <1>7
  <2>4. V = U
    BY ONLY <1>4, <1>11, <2>3
  <2>5. D = C \ {x}
    BY ONLY <1>4, <1>11, <2>3
  <2>1. V = U /\ D = C \ {x} /\ x \in C
    BY <2>3, <2>4, <2>5
  <2>2. Cardinality(D) = Cardinality(C) - 1
    BY <2>1, CountLess
  <2> QED  BY <1>1, <1>2, <1>3, <1>6, <1>7, <2>1, <2>2
<1>8. CASE new = i /\ task[x].res[r] # i
  <2>1. V = U \cup {x} /\ x \notin U /\ D = C \ {x} /\ x \in C
    BY <1>1, <1>4, <1>5, <1>8
  <2>2. Cardinality(D) = Cardinality(C) - 1 /\ Cardinality(V) = Cardinality(U) + 1
    BY <2>1, CountLess, CountMore
  <2> QED  BY <1>1, <1>2, <1>3, <1>6, <1>8, <2>2
<1>9. CASE new # i /\ new # 0 /\ task[x].res[r] = i
  <2>3. x \in U /\ x \notin V /\ x \notin C /\ x \notin D
    BY <1>1, <1>5, <1>9
  <2>4. V = U \ {x}
    BY ONLY <1>4, <1>11, <2>3
  <2>5. D = C
    BY ONLY <1>4, <1>11, <2>3
  <2>1. V = U \ {x} /\ x \in U /\ D = C
    BY <2>3, <2>4, <2>5
  <2>2. Cardinality(V) = Cardinality(U) - 1
    BY <2>1, CountLess
  <2> QED  BY <1>1, <1>2, <1>3, <1>6, <1>9, <2>1, <2>2
<1>10. CASE new # i /\ (new = 0 \/ task[x].res[r] # i)
  <2>3. (x \in U <=> x \in V) /\ x \notin C /\ x \notin D
    BY <1>1, <1>5, <1>10
  <2>4. V = U
    BY ONLY <1>4, <1>11, <2>3
  <2>5. D = C
    BY ONLY <1>4, <1>11, <2>3
  <2>1. V = U /\ D = C
    BY <2>4, <2>5
  <2> QED  BY <1>1, <1>2, <1>3, <1>10, <2>1
<1> QED  BY <1>7, <1>8, <1>9, <1>10

\* The end of unshare keeps the invariant: the copies become the task's own, and what
\* it shared loses a user.
LEMMA UnshareSwapKeeps ==
    ASSUME IInv, NEW x \in Tasks, UnshareSwap(x)
    PROVE  IInv'
<1>1. /\ th[x].pc = "unshare" /\ UNCHANGED <<sig, owner, processes, nr_threads>>
      /\ th' = [th EXCEPT ![x] = Idle]
      /\ task \in [Tasks -> TaskRecord] /\ th \in [Tasks -> ThRecord]
      /\ th[x] \in ThRecord /\ task[x] \in TaskRecord /\ Sound(x, task[x], th[x])
      /\ cnt \in [Res -> [Ids -> Int]] /\ SharedCounted
  BY DEF UnshareSwap, IInv, Types, Phases
<1>2. PICK n \in [{"files", "fs"} -> Ids \cup {0}] : n = th[x].new
  BY <1>1 DEF ThRecord
<1>3. PICK R \in SUBSET {"files", "fs"} : R = {r \in {"files", "fs"} : n[r] # 0}
  OBVIOUS
<1>4. R = {r \in DOMAIN th[x].new : th[x].new[r] # 0}
  BY <1>2, <1>3
<1>5. /\ task' = [task EXCEPT ![x].res = [r \in Res |-> IF r \in R THEN n[r] ELSE @[r]]]
      /\ cnt' = [r \in Res |-> IF r \in R THEN [cnt[r] EXCEPT ![task[x].res[r]] = @ - 1]
                               ELSE cnt[r]]
  BY <1>2, <1>4 DEF UnshareSwap
<1>6. PICK held \in Held :
        held = [r \in Res |-> IF r \in R THEN n[r] ELSE task[x].res[r]]
  <2>1. task[x].res \in Held
    BY <1>1 DEF TaskRecord
  <2> QED  BY <1>2, <2>1 DEF Held
<1> DEFINE k == [task[x] EXCEPT !.res = held]
<1>7. task' = [task EXCEPT ![x] = k]
  BY <1>1, <1>5, <1>6
<1>8. /\ k \in TaskRecord /\ k.leader = task[x].leader /\ k.real_parent = task[x].real_parent
      /\ k.exit_signal = task[x].exit_signal /\ k.exit_state = task[x].exit_state
      /\ k.exiting = task[x].exiting /\ k.kill = task[x].kill /\ k.usage = task[x].usage
      /\ k.hashed = task[x].hashed /\ k.rcu = task[x].rcu /\ k.vfork = task[x].vfork
      /\ k.res = held
  BY ONLY <1>1, <1>6 DEF TaskRecord
<1> HIDE DEF k
<1>9. held.mm = task[x].res.mm /\ held.sighand = task[x].res.sighand
  BY <1>6 DEF Res
<1>10. /\ Idle \in ThRecord /\ Idle.pc = "user" /\ Idle.todo = {} /\ Idle.mm = 0
       /\ Idle.new.files = 0 /\ Idle.new.fs = 0
  BY DEF Idle, ThRecord, Busy, Links
<1>11. th[x].mm = 0
  BY <1>1 DEF Sound
<1>12. Sound(x, k, Idle)
  BY <1>1, <1>8, <1>9, <1>10 DEF Sound, Busy, Ending, Ended, Absent
<1>13. \A r \in Res : cnt[r] \in [Ids -> Int]
  BY <1>1
<1>14. ASSUME NEW r \in Res
       PROVE  /\ cnt'[r] \in [Ids -> Int]
              /\ \A i \in Ids : cnt'[r][i] = IF r \in R /\ task[x].res[r] = i
                                             THEN cnt[r][i] - 1 ELSE cnt[r][i]
  <2>1. cnt'[r] = IF r \in R THEN [cnt[r] EXCEPT ![task[x].res[r]] = @ - 1] ELSE cnt[r]
    BY <1>5
  <2>2. /\ [cnt[r] EXCEPT ![task[x].res[r]] = @ - 1] \in [Ids -> Int]
        /\ \A i \in Ids : [cnt[r] EXCEPT ![task[x].res[r]] = @ - 1][i]
                            = IF i = task[x].res[r] THEN cnt[r][i] - 1 ELSE cnt[r][i]
    BY <1>13, OneLess
  <2> QED  BY <1>13, <2>1, <2>2
<1>15. cnt' \in [Res -> [Ids -> Int]] /\ cnt'.mm = cnt.mm
  <2>1. cnt' = [r \in Res |-> cnt'[r]]
    BY <1>5
  <2>2. cnt'.mm = cnt.mm
    BY <1>5 DEF Res
  <2>3. \A r \in Res : cnt'[r] \in [Ids -> Int]
    BY <1>14
  <2> QED  BY ONLY <2>1, <2>2, <2>3
<1>16. /\ task'[x] = k /\ th'[x] = Idle
       /\ \A t \in Tasks \ {x} : task'[t] = task[t] /\ th'[t] = th[t]
  BY <1>1, <1>7
<1>17. ASSUME KeepsMade PROVE SharedCounted'
  <2>1. ASSUME NEW r \in Res, NEW i \in Ids
        PROVE  cnt'[r][i] = Cardinality(Users(r, i)') + Cardinality(Copies(r, i)')
    <3>1. cnt[r][i] \in Int
      BY <1>13
    <3>2. CASE r \in {"files", "fs"}
      <4>1. n[r] \in Ids \cup {0} /\ r # "mm" /\ r # "sighand" /\ th[x].new[r] = n[r]
            /\ th'[x].new[r] = 0
        BY <1>2, <1>10, <1>16, <3>2
      <4>2. task'[x].res[r] = IF n[r] # 0 THEN n[r] ELSE task[x].res[r]
        BY <1>3, <1>6, <1>8, <1>16, <3>2
      <4>3. cnt'[r][i] = IF n[r] # 0 /\ task[x].res[r] = i THEN cnt[r][i] - 1 ELSE cnt[r][i]
        BY <1>3, <1>14, <3>2
      <4>4. th[x].pc # "new"
        BY <1>1
      <4>5. \A t \in Tasks \ {x} : task'[t].res = task[t].res /\ th'[t].new = th[t].new
        BY <1>16
      <4> QED  BY <1>1, <1>17, <3>1, <4>1, <4>2, <4>3, <4>4, <4>5, SwapShared
    <3>3. CASE r \in {"mm", "sighand"}
      <4>1. Users(r, i)' = Users(r, i)
        <5>1. \A t \in Tasks : task'[t].res[r] = task[t].res[r] /\ th'[t].mm = th[t].mm
          BY <1>8, <1>9, <1>10, <1>11, <1>16, <3>3
        <5>2. \A t \in Tasks : t \in Users(r, i)' <=> t \in Users(r, i)
          BY <1>17, <5>1, UsersFrame
        <5> QED  BY <5>2 DEF Users
      <4>2. Copies(r, i)' = Copies(r, i)
        BY <3>3 DEF Copies
      <4>3. cnt'[r][i] = cnt[r][i]
        BY <1>14, <3>3
      <4> QED  BY <1>1, <4>1, <4>2, <4>3 DEF SharedCounted
    <3> QED  BY <3>2, <3>3 DEF Res
  <2> QED  BY <2>1 DEF SharedCounted
<1> QED  BY <1>1, <1>7, <1>8, <1>9, <1>10, <1>11, <1>12, <1>15, <1>17, UnshareParts
------------------------------------------------------------------------------
(* do_fork wakes the child *)

\* wake_up_new_task and the wait of a vfork keep the invariant.
LEMMA WakeKeeps ==
    ASSUME IInv, NEW x \in Tasks, Wake(x)
    PROVE  IInv'
<1>1. /\ th[x].pc = "publ" /\ UNCHANGED <<sig, cnt, owner, processes, nr_threads>>
      /\ task \in [Tasks -> TaskRecord] /\ th \in [Tasks -> ThRecord]
      /\ \A t \in Tasks : Sound(t, task[t], th[t])
      /\ Makers /\ SharedCounted /\ SigCounted /\ Types
  BY DEF Wake, IInv, Types, Phases
<1>2. PICK p \in Tasks, v \in {"vfork", "mcc"} :
         /\ p = th[x].child /\ th[p].pc = "fresh" /\ p # x
         /\ v = IF "VFORK" \in th[x].kind THEN "vfork" ELSE "mcc"
  BY <1>1 DEF Makers
<1>3. /\ x # init /\ p # init /\ th[x].todo = {} /\ th[p].todo = {}
  BY <1>1, <1>2, TasksAssumption DEF IInv, Parents, Buried
<1> DEFINE g == [th[p] EXCEPT !.pc = "user"]
           h == [th[x] EXCEPT !.pc = v]
           k == [task[p] EXCEPT !.vfork = IF v = "vfork" THEN x ELSE @]
<1>4. /\ th[x] \in ThRecord /\ th[p] \in ThRecord /\ task[p] \in TaskRecord
      /\ Sound(x, task[x], th[x]) /\ Sound(p, task[p], th[p])
  BY <1>1
<1>5. th' = [th EXCEPT ![p] = g, ![x] = h]
  <2>1. th' = [th EXCEPT ![p].pc = "user", ![x].pc = v]
    BY <1>2 DEF Wake
  <2> QED  BY <1>1, <1>2, <2>1
<1>6. task' = [task EXCEPT ![p] = k]
  <2>1. task' = IF v = "vfork" THEN [task EXCEPT ![p].vfork = x] ELSE task
    BY <1>2 DEF Wake
  <2>2. CASE v = "vfork"
    BY <1>1, <2>1, <2>2
  <2>3. CASE v # "vfork"
    <3>1. k = task[p]
      BY <1>4, <2>3 DEF TaskRecord
    <3> QED  BY <1>1, <2>1, <2>3, <3>1
  <2> QED  BY <2>2, <2>3
<1>7. /\ g \in ThRecord /\ g.pc = "user" /\ g.child = th[p].child /\ g.kind = th[p].kind
      /\ g.stage = th[p].stage /\ g.mm = th[p].mm /\ g.todo = th[p].todo
      /\ g.opt = th[p].opt /\ g.new = th[p].new
  BY ONLY <1>4 DEF ThRecord, Busy
<1>8. /\ h \in ThRecord /\ h.pc = v /\ h.child = p /\ h.kind = th[x].kind
      /\ h.stage = th[x].stage /\ h.mm = th[x].mm /\ h.todo = th[x].todo
      /\ h.opt = th[x].opt /\ h.new = th[x].new
  BY ONLY <1>4, <1>2 DEF ThRecord, Busy
<1>9. /\ k \in TaskRecord /\ k.leader = task[p].leader /\ k.real_parent = task[p].real_parent
      /\ k.exit_signal = task[p].exit_signal /\ k.exit_state = task[p].exit_state
      /\ k.exiting = task[p].exiting /\ k.kill = task[p].kill /\ k.usage = task[p].usage
      /\ k.hashed = task[p].hashed /\ k.rcu = task[p].rcu /\ k.res = task[p].res
      /\ k.vfork = IF v = "vfork" THEN x ELSE task[p].vfork
  BY ONLY <1>4, x \in Tasks DEF TaskRecord, Links
<1> HIDE DEF g, h, k
<1>10. /\ task'[p] = k /\ th'[p] = g /\ th'[x] = h
       /\ \A t \in Tasks \ {p} : task'[t] = task[t]
       /\ \A t \in Tasks \ {p, x} : th'[t] = th[t]
       /\ task' \in [Tasks -> TaskRecord] /\ th' \in [Tasks -> ThRecord]
  BY <1>1, <1>2, <1>5, <1>6, <1>7, <1>8, <1>9
<1>11. \A t \in Tasks :
          /\ task'[t].leader = task[t].leader /\ task'[t].hashed = task[t].hashed
          /\ task'[t].real_parent = task[t].real_parent
          /\ task'[t].exit_signal = task[t].exit_signal
          /\ task'[t].exit_state = task[t].exit_state
          /\ task'[t].exiting = task[t].exiting /\ task'[t].kill = task[t].kill
          /\ task'[t].res = task[t].res
          /\ task'[t].vfork = IF t = p /\ v = "vfork" THEN x ELSE task[t].vfork
          /\ th'[t].child = th[t].child /\ th'[t].kind = th[t].kind
          /\ th'[t].stage = th[t].stage /\ th'[t].mm = th[t].mm
          /\ th'[t].todo = th[t].todo /\ th'[t].opt = th[t].opt /\ th'[t].new = th[t].new
          /\ th'[t].pc = IF t = p THEN "user" ELSE IF t = x THEN v ELSE th[t].pc
  BY <1>2, <1>7, <1>8, <1>9, <1>10
<1>12. /\ KeepsMade /\ KeepsTree /\ KeepsHeld
       /\ \A t \in Tasks :
            /\ th'[t].pc \in Childless <=> th[t].pc \in Childless
            /\ th'[t].pc \in Absent <=> th[t].pc \in Absent
            /\ th'[t].pc \in {"unused", "new"} <=> th[t].pc \in {"unused", "new"}
            /\ th'[t].pc \in {"owner", "claim", "asleep"} => th'[t].pc = th[t].pc
            /\ th'[t].pc = th[t].pc \/ th[t].pc \notin {"bury", "self", "reap"}
  BY <1>1, <1>2, <1>11 DEF KeepsMade, KeepsTree, KeepsHeld, Childless, Absent
<1>13. Types'
  BY <1>1, <1>10 DEF Types
<1>14. Phases'
  <2>1. Sound(p, k, g)
    BY <1>2, <1>4, <1>7, <1>9 DEF Sound, Busy, Ending, Ended, Absent
  <2>2. Sound(x, task[x], h)
    BY <1>1, <1>4, <1>8 DEF Sound, Busy, Ending, Ended, Absent
  <2> QED  BY <1>1, <1>2, <1>10, <2>1, <2>2 DEF Phases
<1>15. Makers'
  <2>1. \A y \in Tasks : th'[y].pc \in {"copied", "undo", "publ"}
            => y # x /\ y # p /\ th'[y].pc = th[y].pc /\ th'[y].child = th[y].child
               /\ th'[y].stage = th[y].stage
    BY <1>2, <1>11
  <2>2. \A y \in Tasks : y # x /\ th[y].pc \in {"copied", "undo", "publ"}
            => th[y].child # p
    BY <1>1, <1>2 DEF Makers, Making
  <2>3. \A y \in Tasks : th'[y].pc \in {"copied", "undo", "publ"}
          => /\ th'[y].child \in Tasks
             /\ th'[th'[y].child].pc = IF th'[y].pc = "publ" THEN "fresh" ELSE "new"
    <3> SUFFICES ASSUME NEW y \in Tasks, th'[y].pc \in {"copied", "undo", "publ"}
                 PROVE  /\ th'[y].child \in Tasks
                        /\ th'[th'[y].child].pc = IF th'[y].pc = "publ" THEN "fresh" ELSE "new"
      OBVIOUS
    <3>1. PICK c \in Tasks : c = th[y].child /\ c # p
             /\ th[c].pc = IF th[y].pc = "publ" THEN "fresh" ELSE "new"
      BY <1>1, <2>1, <2>2 DEF Makers
    <3>2. c # x
      BY <1>1, <3>1
    <3> QED  BY <1>11, <2>1, <3>1, <3>2
  <2>4. \A y \in Tasks : th'[y].pc = "copied" => th'[y].stage = 8
    BY <1>1, <2>1 DEF Makers
  <2>5. \A y, z, c \in Tasks : Making(y, c)' /\ Making(z, c)' => y = z
    BY <1>1, <2>1 DEF Makers, Making
  <2>6. ASSUME NEW c \in Tasks, th'[c].pc = "new" PROVE \E y \in Tasks : Making(y, c)'
    <3>1. th[c].pc = "new"
      BY <1>12, <2>6 DEF KeepsMade
    <3>2. PICK y \in Tasks : Making(y, c)
      BY <1>1, <3>1 DEF Makers
    <3>3. y # x /\ y # p
      BY <1>1, <1>2, <3>1, <3>2 DEF Making
    <3> QED  BY <1>11, <3>2, <3>3 DEF Making
  <2>7. ASSUME NEW c \in Tasks, task'[c].vfork # none
        PROVE  th'[task'[c].vfork].pc = "vfork" /\ th'[task'[c].vfork].child = c
    <3>1. CASE c = p /\ v = "vfork"
      BY <1>2, <1>11, <3>1
    <3>2. CASE ~(c = p /\ v = "vfork")
      <4>1. PICK q \in Tasks : q = task[c].vfork /\ task'[c].vfork = q
        BY <1>1, <1>11, <2>7, <3>2 DEF TaskRecord, Links
      <4>2. th[q].pc = "vfork" /\ th[q].child = c
        BY <1>1, <2>7, <4>1 DEF Makers
      <4> QED  BY <1>1, <1>2, <1>11, <4>1, <4>2
    <3> QED  BY <3>1, <3>2
  <2> QED  BY <2>3, <2>4, <2>5, <2>6, <2>7 DEF Makers
<1> USE DEF IInv
<1>16. Buried'
  BY <1>11, <1>12, BuriedFrame DEF Live
<1>17. Groups'
  BY <1>11, <1>12, GroupsFrame
<1>18. Parents'
  <2>1. th'[init].pc = th[init].pc
    BY <1>3, <1>11, TasksAssumption
  <2> QED  BY <1>12, <2>1, ParentsFrame DEF Parents
<1>19. NoZombieLeft'
  BY <1>11, <1>12, NoZombieFrame DEF Detached
<1>20. Killed'
  <2>1. \A t \in Tasks :
              /\ Live(t)' => Live(t) /\ task'[t].leader = task[t].leader /\ task[t].leader \in Tasks
              /\ Live(t)' /\ (task[t].exiting \/ task[t].kill) => task'[t].exiting \/ task'[t].kill
              /\ th'[t].pc \in {"unused", "new"} => th[t].pc \in {"unused", "new"}
              /\ sig'[t].exit => sig[t].exit
    BY <1>1, <1>11, <1>12 DEF Groups, Live
  <2> QED  BY <2>1, KilledFrame
<1>21. SharedCounted'
  BY <1>1, <1>12, SharedFrame
<1>22. SigCounted'
  <2> HIDE DEF IInv
  <2> QED  BY <1>1, <1>11, <1>12, SigFrame
<1>23. OwnerUsesMm'
  BY <1>1, <1>11, OwnersFrame DEF Live
<1>24. NewOwners'
  BY <1>1, <1>11, <1>12, NewOwnersFrame
<1>25. NoneMissed'
  <2>1. NoneMissed /\ Parents /\ Phases
    OBVIOUS
  <2> HIDE DEF IInv
  <2> QED  BY <1>11, <1>12, <2>1, MissedFrame
<1> QED  BY <1>13, <1>14, <1>15, <1>16, <1>17, <1>18, <1>19, <1>20, <1>21, <1>22, <1>23, <1>24, <1>25
------------------------------------------------------------------------------
(* The end of copy_process *)

\* A signal is pending: x is to undo what it made.
LEMMA RefusedKeeps ==
    ASSUME IInv, NEW x \in Tasks, th[x].pc = "copied", th' = At(x, "undo"),
           UNCHANGED <<task, sig, cnt, owner, processes, nr_threads>>
    PROVE  IInv'
<1>1. /\ task \in [Tasks -> TaskRecord] /\ th \in [Tasks -> ThRecord]
      /\ \A t \in Tasks : Sound(t, task[t], th[t])
      /\ Makers /\ SharedCounted /\ SigCounted /\ Types /\ x # init
      /\ th[x] \in ThRecord
  BY DEF IInv, Types, Phases, Parents
<1> DEFINE h == [th[x] EXCEPT !.pc = "undo"]
<1>2. th' = [th EXCEPT ![x] = h]
  BY <1>1 DEF At
<1>3. /\ h \in ThRecord /\ h.pc = "undo" /\ h.child = th[x].child /\ h.kind = th[x].kind
      /\ h.stage = th[x].stage /\ h.mm = th[x].mm /\ h.todo = th[x].todo
      /\ h.opt = th[x].opt /\ h.new = th[x].new
  BY ONLY <1>1 DEF ThRecord, Busy
<1> HIDE DEF h
<1>4. /\ th' \in [Tasks -> ThRecord] /\ th'[x] = h
      /\ \A t \in Tasks \ {x} : th'[t] = th[t]
  BY <1>1, <1>2, <1>3
<1>5. \A t \in Tasks :
          /\ th'[t].child = th[t].child /\ th'[t].kind = th[t].kind
          /\ th'[t].stage = th[t].stage /\ th'[t].mm = th[t].mm
          /\ th'[t].todo = th[t].todo /\ th'[t].opt = th[t].opt /\ th'[t].new = th[t].new
          /\ th'[t].pc = IF t = x THEN "undo" ELSE th[t].pc
  BY <1>3, <1>4
<1>6. /\ KeepsMade /\ KeepsTree /\ KeepsHeld
      /\ \A t \in Tasks :
            /\ th'[t].pc \in Childless <=> th[t].pc \in Childless
            /\ th'[t].pc \in Absent <=> th[t].pc \in Absent
            /\ th'[t].pc \in {"unused", "new"} <=> th[t].pc \in {"unused", "new"}
            /\ th'[t].pc \in {"owner", "claim", "asleep"} => th'[t].pc = th[t].pc
            /\ th'[t].pc = th[t].pc \/ th[t].pc \notin {"bury", "self", "reap"}
  BY <1>5 DEF KeepsMade, KeepsTree, KeepsHeld, Childless, Absent
<1>7. Types'
  BY <1>1, <1>4 DEF Types
<1>8. Phases'
  <2>1. Sound(x, task[x], h)
    BY <1>1, <1>3 DEF Sound, Busy, Ending, Ended, Absent
  <2> QED  BY <1>1, <1>4, <2>1 DEF Phases
<1>9. Makers'
  <2>1. \A y, c \in Tasks : Making(y, c)' <=> Making(y, c)
    BY <1>5 DEF Making
  <2>2. \A y \in Tasks : th'[y].pc \in {"copied", "undo", "publ"}
          => /\ th'[y].child \in Tasks
             /\ th'[th'[y].child].pc = IF th'[y].pc = "publ" THEN "fresh" ELSE "new"
    BY <1>1, <1>5 DEF Makers
  <2>3. \A y \in Tasks : th'[y].pc = "copied" => th'[y].stage = 8
    BY <1>1, <1>5 DEF Makers
  <2>4. \A c \in Tasks : task'[c].vfork # none
          => th'[task'[c].vfork].pc = "vfork" /\ th'[task'[c].vfork].child = c
    <3> SUFFICES ASSUME NEW c \in Tasks, task[c].vfork # none
                 PROVE  th'[task[c].vfork].pc = "vfork" /\ th'[task[c].vfork].child = c
      OBVIOUS
    <3>1. PICK q \in Tasks : q = task[c].vfork
      BY <1>1 DEF TaskRecord, Links
    <3>2. th[q].pc = "vfork" /\ th[q].child = c
      BY <1>1, <3>1 DEF Makers
    <3> QED  BY <1>5, <3>1, <3>2
  <2>5. \A c \in Tasks : th'[c].pc = "new" => \E y \in Tasks : Making(y, c)'
    BY <1>1, <1>6, <2>1 DEF Makers, KeepsMade
  <2>6. \A y, z, c \in Tasks : Making(y, c)' /\ Making(z, c)' => y = z
    BY <1>1, <2>1 DEF Makers
  <2> QED  BY <2>2, <2>3, <2>4, <2>5, <2>6 DEF Makers
<1> USE DEF IInv
<1>10. Buried'
  BY <1>5, <1>6, BuriedFrame DEF Live
<1>11. Groups'
  BY <1>5, <1>6, GroupsFrame
<1>12. Parents'
  <2>1. th'[init].pc = th[init].pc
    BY <1>1, <1>5, TasksAssumption
  <2> QED  BY <1>6, <2>1, ParentsFrame DEF Parents
<1>13. NoZombieLeft'
  BY <1>6, NoZombieFrame DEF Detached
<1>14. Killed'
  BY <1>6, KilledFrame DEF Groups, Live
<1>15. SharedCounted'
  BY <1>1, <1>6, SharedFrame
<1>16. SigCounted'
  <2> HIDE DEF IInv
  <2> QED  BY <1>1, <1>5, <1>6, SigFrame
<1>17. OwnerUsesMm'
  BY <1>1, <1>5, OwnersFrame DEF Live
<1>18. NewOwners'
  BY <1>5, <1>6, NewOwnersFrame
<1>19. NoneMissed'
  <2>1. NoneMissed /\ Parents /\ Phases
    OBVIOUS
  <2> HIDE DEF IInv
  <2> QED  BY <1>5, <1>6, <2>1, MissedFrame
<1> QED  BY <1>7, <1>8, <1>9, <1>10, <1>11, <1>12, <1>13, <1>14, <1>15, <1>16, <1>17, <1>18, <1>19

\* A task that becomes visible keeps the invariant: its maker is not to die, so that
\* its group is not exiting.
LEMMA JoinKeeps ==
    ASSUME IInv, NEW x \in Tasks, Publish(x), MayJoin(x)
    PROVE  IInv'
<1> USE DEF IInv
<1>1. /\ th[x].pc = "copied" /\ Readers = {} /\ UNCHANGED <<cnt, owner, processes>>
      /\ task \in [Tasks -> TaskRecord] /\ th \in [Tasks -> ThRecord]
      /\ sig \in [Tasks -> SigRecord] /\ nr_threads \in Int /\ nr_threads' = nr_threads + 1
      /\ \A t \in Tasks : Sound(t, task[t], th[t])
  BY DEF Publish, Types, Phases
<1>2. PICK p, l \in Tasks :
         /\ p = th[x].child /\ th[p].pc = "new" /\ p # x /\ th[x].stage = 8
         /\ l = task[x].leader /\ Live(l) /\ task[l].leader = l /\ Live(x)
         /\ \A y \in Tasks : Making(y, p) => y = x
         /\ ~task[x].kill /\ ~task[x].exiting /\ task[x].exit_state = "0"
  <2>1. /\ th[x].child \in Tasks /\ th[th[x].child].pc = "new" /\ th[x].stage = 8
        /\ \A y \in Tasks : Making(y, th[x].child) => y = x
    BY <1>1 DEF Makers, Making
  <2>2. Live(x) /\ ~task[x].exiting /\ task[x].exit_state = "0"
    BY <1>1 DEF Sound, Busy, Ending, Live
  <2>3. task[x].leader \in Tasks /\ Live(task[x].leader)
        /\ task[task[x].leader].leader = task[x].leader
    BY <2>2 DEF Groups
  <2>4. ~task[x].kill
    BY DEF MayJoin
  <2> QED  BY <1>1, <2>1, <2>2, <2>3, <2>4
<1>3. /\ task[p].leader = p /\ ~Live(p) /\ task[p].vfork = none /\ ~task[p].kill
      /\ ~task[p].exiting /\ task[p].exit_state = "0" /\ p # l
      /\ th[l].pc \notin {"unused", "new"}
      /\ x # init /\ p # init /\ th[x].todo = {} /\ th[p].todo = {}
  <2>1. Sound(p, task[p], th[p]) /\ Sound(l, task[l], th[l])
    BY <1>1
  <2>2. /\ task[p].leader = p /\ ~Live(p) /\ task[p].vfork = none /\ ~task[p].kill
        /\ ~task[p].exiting /\ task[p].exit_state = "0"
    BY <1>2, <2>1 DEF Sound, Ending, Live
  <2>3. th[l].pc \notin {"unused", "new"}
    <3>1. th[l].pc \in Absent => task[l] = Blank
      BY <2>1 DEF Sound
    <3>2. th[l].pc = "new" => ~task[l].hashed
      BY <2>1 DEF Sound
    <3>3. task[l].hashed /\ ~Blank.hashed
      BY <1>2 DEF Live, Blank
    <3> QED  BY ONLY <3>1, <3>2, <3>3 DEF Absent
  <2> QED  BY <1>1, <1>2, <2>2, <2>3 DEF Parents, Buried
<1>4. PICK Q \in Tasks :
         /\ Q = IF {"PARENT", "THREAD"} \cap th[x].kind # {} THEN task[x].real_parent ELSE x
         /\ Live(Q) /\ th[Q].pc \notin Childless /\ Q # p
         /\ "THREAD" \in th[x].kind => Q = task[l].real_parent
  <2>1. /\ task[x].real_parent \in Tasks /\ task[x].real_parent = task[l].real_parent
        /\ Live(task[x].real_parent) /\ th[task[x].real_parent].pc \notin Childless
    BY <1>2 DEF Parents
  <2>2. th[x].pc \notin Childless
    BY <1>1 DEF Childless
  <2> QED  BY <1>2, <1>3, <2>1, <2>2
<1>5. PICK L \in Tasks : L = IF "THREAD" \in th[x].kind THEN l ELSE p
  OBVIOUS
<1> DEFINE k == [task[p] EXCEPT !.hashed = TRUE, !.leader = L, !.real_parent = Q]
           g == [th[p] EXCEPT !.pc = "fresh"]
           h == [th[x] EXCEPT !.pc = "publ"]
<1>6. /\ task' = [task EXCEPT ![p].hashed = TRUE, ![p].leader = L, ![p].real_parent = Q]
      /\ th' = [th EXCEPT ![x].pc = "publ", ![p].pc = "fresh"]
      /\ sig' = IF "THREAD" \in th[x].kind
                THEN [sig EXCEPT ![l].nr = @ + 1, ![l].live = @ + 1, ![l].cnt = @ + 1]
                ELSE sig
  BY <1>2, <1>4, <1>5 DEF Publish
<1>7. task' = [task EXCEPT ![p] = k] /\ th' = [th EXCEPT ![x] = h, ![p] = g]
  BY <1>1, <1>2, <1>6
<1>8. /\ th[x] \in ThRecord /\ th[p] \in ThRecord /\ task[p] \in TaskRecord
      /\ sig[l] \in SigRecord /\ L \in Links /\ Q \in Links
  BY <1>1 DEF Links
<1>9. /\ k \in TaskRecord /\ k.leader = L /\ k.real_parent = Q
      /\ k.exit_signal = task[p].exit_signal /\ k.exit_state = task[p].exit_state
      /\ k.exiting = task[p].exiting /\ k.kill = task[p].kill /\ k.usage = task[p].usage
      /\ k.hashed = TRUE /\ k.rcu = task[p].rcu /\ k.res = task[p].res
      /\ k.vfork = task[p].vfork
  BY ONLY <1>8 DEF TaskRecord
<1>10. /\ g \in ThRecord /\ g.pc = "fresh" /\ g.child = th[p].child /\ g.kind = th[p].kind
       /\ g.stage = th[p].stage /\ g.mm = th[p].mm /\ g.todo = th[p].todo
       /\ g.opt = th[p].opt /\ g.new = th[p].new
  BY ONLY <1>8 DEF ThRecord, Busy
<1>11. /\ h \in ThRecord /\ h.pc = "publ" /\ h.child = th[x].child /\ h.kind = th[x].kind
       /\ h.stage = th[x].stage /\ h.mm = th[x].mm /\ h.todo = th[x].todo
       /\ h.opt = th[x].opt /\ h.new = th[x].new
  BY ONLY <1>8 DEF ThRecord, Busy
<1> HIDE DEF g, h, k
<1>12. /\ task'[p] = k /\ th'[p] = g /\ th'[x] = h
       /\ \A t \in Tasks \ {p} : task'[t] = task[t]
       /\ \A t \in Tasks \ {p, x} : th'[t] = th[t]
       /\ task' \in [Tasks -> TaskRecord] /\ th' \in [Tasks -> ThRecord]
  BY <1>1, <1>2, <1>7, <1>9, <1>10, <1>11
<1>13. \A t \in Tasks :
          /\ th'[t].child = th[t].child /\ th'[t].kind = th[t].kind
          /\ th'[t].stage = th[t].stage /\ th'[t].mm = th[t].mm
          /\ th'[t].todo = th[t].todo /\ th'[t].opt = th[t].opt /\ th'[t].new = th[t].new
          /\ th'[t].pc = IF t = p THEN "fresh" ELSE IF t = x THEN "publ" ELSE th[t].pc
  BY <1>2, <1>10, <1>11, <1>12
<1>14. \A t \in Tasks :
          /\ task'[t].leader = IF t = p THEN L ELSE task[t].leader
          /\ task'[t].real_parent = IF t = p THEN Q ELSE task[t].real_parent
          /\ Live(t)' <=> t = p \/ Live(t)
          /\ task'[t].exit_signal = task[t].exit_signal
          /\ task'[t].exit_state = task[t].exit_state
          /\ task'[t].exiting = task[t].exiting /\ task'[t].kill = task[t].kill
          /\ task'[t].res = task[t].res /\ task'[t].vfork = task[t].vfork
  BY <1>9, <1>12 DEF Live
<1>34. PICK a, b, d \in Int : a = sig[l].nr + 1 /\ b = sig[l].live + 1 /\ d = sig[l].cnt + 1
  <2>1. sig[l].nr \in Int /\ sig[l].live \in Int /\ sig[l].cnt \in Int
    BY <1>8 DEF SigRecord
  <2> HIDE DEF IInv
  <2> QED  BY <2>1
<1> DEFINE s == [sig[l] EXCEPT !.nr = a, !.live = b, !.cnt = d]
<1>15. /\ s \in SigRecord /\ s.nr = a /\ s.live = b /\ s.cnt = d /\ s.exit = sig[l].exit
  BY ONLY <1>8, a \in Int, b \in Int, d \in Int DEF SigRecord
<1>16. sig' = IF "THREAD" \in th[x].kind THEN [sig EXCEPT ![l] = s] ELSE sig
  <2>1. [sig EXCEPT ![l].nr = @ + 1, ![l].live = @ + 1, ![l].cnt = @ + 1]
           = [sig EXCEPT ![l] = s]
    BY ONLY <1>1, <1>34, l \in Tasks
  <2> QED  BY <1>6, <2>1
<1> HIDE DEF s
<1>17. /\ sig' \in [Tasks -> SigRecord]
       /\ \A t \in Tasks : sig'[t].exit = sig[t].exit
       /\ \A t \in Tasks : IF t = l /\ "THREAD" \in th[x].kind
                           THEN /\ sig'[t].nr = sig[t].nr + 1
                                /\ sig'[t].live = sig[t].live + 1
                                /\ sig'[t].cnt = sig[t].cnt + 1
                           ELSE sig'[t] = sig[t]
  BY <1>1, <1>15, <1>16, <1>34
<1>18. Types'
  BY <1>1, <1>12, <1>17 DEF Types
<1>19. Phases'
  <2>1. Sound(p, k, g)
    BY <1>1, <1>2, <1>9, <1>10, SMTT(60) DEF Sound, Busy, Ending, Ended, Absent
  <2>2. Sound(x, task[x], h)
    BY <1>1, <1>11 DEF Sound, Busy, Ending, Ended, Absent
  <2> QED  BY <1>1, <1>2, <1>12, <2>1, <2>2 DEF Phases
\* Nobody else makes p, and x makes nobody else
<1>20. /\ \A y \in Tasks \ {x} : th[y].pc \in {"copied", "undo", "publ"} => th[y].child # p
       /\ \A y, c \in Tasks : c # p => (Making(y, c)' <=> Making(y, c))
       /\ \A y, c \in Tasks : c # p => (Maker(y, c)' <=> Maker(y, c))
       /\ \A y \in Tasks : ~Maker(y, p)' /\ (Making(y, p)' <=> y = x)
       /\ Maker(x, p) /\ \A y \in Tasks : Maker(y, p) => y = x
  <2>1. \A y \in Tasks \ {x} : th[y].pc \in {"copied", "undo", "publ"} => th[y].child # p
    BY <1>2 DEF Making
  <2>2. \A y \in Tasks : th'[y].pc \in {"copied", "undo", "publ"}
                         => y = x \/ (th'[y].pc = th[y].pc /\ y # p)
    BY <1>13
  <2> QED  BY <1>1, <1>2, <1>13, <2>1, <2>2 DEF Making, Maker
<1>21. Makers'
  <2>1. ASSUME NEW y \in Tasks, th'[y].pc \in {"copied", "undo", "publ"}
        PROVE  /\ th'[y].child \in Tasks
               /\ th'[th'[y].child].pc = IF th'[y].pc = "publ" THEN "fresh" ELSE "new"
    <3>1. CASE y = x
      BY <1>2, <1>13, <3>1
    <3>2. CASE y # x
      <4>1. th'[y].pc = th[y].pc /\ th[y].child # p
        BY <1>13, <1>20, <2>1, <3>2
      <4>2. PICK c \in Tasks : c = th[y].child /\ c # p
               /\ th[c].pc = IF th[y].pc = "publ" THEN "fresh" ELSE "new"
        BY <2>1, <4>1 DEF Makers
      <4>3. c # x
        BY <1>1, <4>2
      <4> QED  BY <1>13, <4>1, <4>2, <4>3
    <3> QED  BY <3>1, <3>2
  <2>2. \A y \in Tasks : th'[y].pc = "copied" => th'[y].stage = 8
    BY <1>13 DEF Makers
  <2>3. \A y, z, c \in Tasks : Making(y, c)' /\ Making(z, c)' => y = z
    BY <1>20 DEF Makers
  <2>4. ASSUME NEW c \in Tasks, th'[c].pc = "new" PROVE \E y \in Tasks : Making(y, c)'
    <3>1. th[c].pc = "new" /\ c # p
      BY <1>13, <2>4
    <3>2. PICK y \in Tasks : Making(y, c)
      BY <3>1 DEF Makers
    <3> QED  BY <1>20, <3>1, <3>2
  <2>5. ASSUME NEW c \in Tasks, task'[c].vfork # none
        PROVE  th'[task'[c].vfork].pc = "vfork" /\ th'[task'[c].vfork].child = c
    <3>1. PICK q \in Tasks : q = task[c].vfork /\ task'[c].vfork = q
      BY <1>1, <1>14, <2>5 DEF TaskRecord, Links
    <3>2. th[q].pc = "vfork" /\ th[q].child = c
      BY <2>5, <3>1, <1>14 DEF Makers
    <3> QED  BY <1>1, <1>2, <1>13, <3>1, <3>2
  <2> QED  BY <2>1, <2>2, <2>3, <2>4, <2>5 DEF Makers
<1>22. Buried'
  BY <1>1, <1>2, <1>13, <1>14, BuriedFrame DEF Live
<1>23. /\ \A c \in Tasks : Live(c) /\ task[c].leader = c /\ task[c].exit_state = "dead"
                           => c # L
       /\ \A c \in Tasks : c # L => (Alone(c)' <=> Alone(c))
       /\ \A c \in Tasks : Live(c) /\ Alone(c)' => Alone(c)
       /\ \A t \in Tasks : Live(t) => t # p /\ task[t].leader # p /\ task[t].real_parent # p
  <2>1. \A c \in Tasks : c # L => (Alone(c)' <=> Alone(c))
    BY <1>3, <1>14 DEF Alone
  <2>2. \A t \in Tasks : Live(t) => t # p /\ task[t].leader # p /\ task[t].real_parent # p
    BY <1>3 DEF Groups, Parents
  <2>3. \A c \in Tasks : Live(c) /\ Alone(c)' => Alone(c)
    BY <1>14, <2>2 DEF Alone
  <2>4. ASSUME NEW c \in Tasks, Live(c), task[c].leader = c, task[c].exit_state = "dead"
        PROVE  c # L
    <3>1. Alone(c)
      BY <2>4 DEF Groups
    <3>2. c # l
      BY <1>2, <2>4, <3>1 DEF Alone
    <3> QED  BY <1>5, <2>2, <2>4, <3>2
  <2> QED  BY <2>1, <2>2, <2>3, <2>4
<1>24. \A y \in Tasks : th'[y].pc \notin {"claim", "owner"}
  BY <1>1, <1>13 DEF Readers
<1>25. Groups'
  <2>1. \A t \in Tasks : Live(t)' =>
            /\ task'[t].leader \in Tasks
            /\ Live(task[t].leader)'
            /\ task'[task'[t].leader].leader = task'[t].leader
    <3> SUFFICES ASSUME NEW t \in Tasks, Live(t)'
                 PROVE  /\ task'[t].leader \in Tasks
                        /\ Live(task[t].leader)'
                        /\ task'[task'[t].leader].leader = task'[t].leader
      OBVIOUS
    <3>1. CASE t = p
      BY <1>2, <1>3, <1>5, <1>12, <1>14, <3>1 DEF Live
    <3>2. CASE t # p
      <4>1. PICK c \in Tasks : c = task[t].leader /\ Live(c) /\ task[c].leader = c /\ c # p
        BY <1>14, <1>23, <3>2 DEF Groups
      <4> QED  BY <1>12, <1>14, <3>2, <4>1
    <3> QED  BY <3>1, <3>2
  <2>2. \A c \in Tasks : Live(c)' /\ task'[c].leader = c /\ task'[c].exit_state = "dead"
                             => Alone(c)'
    <3> SUFFICES ASSUME NEW c \in Tasks, Live(c)', task'[c].leader = c,
                        task'[c].exit_state = "dead"
                 PROVE  Alone(c)'
      OBVIOUS
    <3>1. c # p /\ Live(c) /\ task[c].leader = c /\ task[c].exit_state = "dead"
      BY <1>3, <1>14
    <3> QED  BY <1>23, <3>1 DEF Groups
  <2>3. \A y \in Tasks : th'[y].pc = "claim" => th'[y].child \in Tasks
    BY <1>24
  <2>4. \A y, c \in Tasks : th'[y].pc = "claim" /\ th'[y].child = c
                             => Live(c)' /\ task'[c].leader = c /\ Alone(c)'
    BY <1>24
  <2>5. ASSUME NEW t \in Tasks, th'[t].pc \notin Absent PROVE task'[t].leader \in Tasks
    <3>1. CASE t = p
      BY <1>14, <3>1
    <3>2. CASE t # p
      <4>1. th[t].pc \notin Absent
        BY <1>1, <1>13, <2>5, <3>2 DEF Absent
      <4> QED  BY <1>14, <3>2, <4>1 DEF Groups
    <3> QED  BY <3>1, <3>2
  <2>6. ASSUME NEW t \in Tasks, th'[t].pc \notin Absent, task'[t].leader # t
        PROVE  th'[task'[t].leader].pc \notin {"unused", "new"}
    <3>1. CASE t = p
      BY <1>3, <1>5, <1>13, <1>14, <2>6, <3>1
    <3>2. CASE t # p
      <4>1. th[t].pc \notin Absent /\ task[t].leader # t
        BY <1>1, <1>13, <1>14, <2>6, <3>2 DEF Absent
      <4>2. task[t].leader \in Tasks /\ th[task[t].leader].pc \notin {"unused", "new"}
        BY <4>1 DEF Groups
      <4> QED  BY <1>13, <1>14, <3>2, <4>2
    <3> QED  BY <3>1, <3>2
  <2> QED  BY <2>1, <2>2, <2>3, <2>4, <2>5, <2>6 DEF Groups
<1>26. Parents'
  <2>1. /\ th'[init].pc \in {"user", "unshare", "scan", "asleep", "claim", "reap"}
        /\ task'[init].leader = init /\ task'[init].real_parent = init
    BY <1>3, <1>12, <1>13, TasksAssumption DEF Parents
  <2>2. ASSUME NEW t \in Tasks, Live(t)'
        PROVE  /\ task'[t].real_parent \in Tasks
               /\ task'[t].real_parent = task'[task'[t].leader].real_parent
               /\ Live(task[t].real_parent)'
               /\ th'[task'[t].real_parent].pc \notin Childless
    <3>1. CASE t = p
      <4>1. task'[t].real_parent = Q /\ task'[t].leader = L
        BY <1>14, <3>1
      <4>2. task'[L].real_parent = Q
        BY <1>3, <1>4, <1>5, <1>14
      <4>3. th'[Q].pc \notin Childless /\ Live(Q)'
        BY <1>4, <1>13, <1>14 DEF Childless
      <4> QED  BY <4>1, <4>2, <4>3, <1>12 DEF Live
    <3>2. CASE t # p
      <4>1. PICK q, c \in Tasks : /\ q = task[t].real_parent /\ c = task[t].leader
                                  /\ q = task[c].real_parent /\ Live(q)
                                  /\ th[q].pc \notin Childless /\ c # p /\ q # p
        BY <1>14, <1>23, <2>2, <3>2 DEF Parents, Groups
      <4>2. th'[q].pc \notin Childless /\ Live(q)'
        BY <1>13, <1>14, <4>1 DEF Childless
      <4>3. task'[t].real_parent = q /\ task'[t].leader = c /\ task'[c].real_parent = q
        BY <1>14, <3>2, <4>1
      <4> QED  BY <4>1, <4>2, <4>3
    <3> QED  BY <3>1, <3>2
  <2> QED  BY <2>1, <2>2 DEF Parents
<1>27. NoZombieLeft'
  <2> SUFFICES ASSUME NEW c \in Tasks, Live(c)', task'[c].leader = c,
                      task'[c].exit_state = "zombie", Detached(c)', Alone(c)'
               PROVE  FALSE
    BY DEF NoZombieLeft
  <2>1. c # p /\ Live(c) /\ task[c].leader = c /\ task[c].exit_state = "zombie" /\ Detached(c)
    BY <1>3, <1>14 DEF Detached
  <2> QED  BY <1>23, <2>1 DEF NoZombieLeft
<1>28. Killed'
  <2>1. ASSUME NEW t \in Tasks, Live(t)', sig'[task'[t].leader].exit
        PROVE  task'[t].exiting \/ task'[t].kill
    <3>1. CASE t = p
      <4>1. sig[L].exit
        BY <1>14, <1>17, <2>1, <3>1
      <4>2. ~sig[p].exit
        BY <1>2 DEF Killed
      <4>3. ~sig[l].exit
        BY <1>2 DEF Killed, NoneEscapes
      <4> QED  BY <1>5, <4>1, <4>2, <4>3
    <3>2. CASE t # p
      <4>1. Live(t) /\ task'[t].leader = task[t].leader /\ task[t].leader \in Tasks
        BY <1>14, <2>1, <3>2 DEF Groups
      <4> QED  BY <1>14, <1>17, <2>1, <4>1 DEF Killed, NoneEscapes
    <3> QED  BY <3>1, <3>2
  <2>2. \A t \in Tasks : th'[t].pc \in {"unused", "new"} => ~sig'[t].exit
    BY <1>13, <1>17 DEF Killed
  <2>3. NoneEscapes'
    BY <2>1 DEF NoneEscapes
  <2> QED  BY <2>2, <2>3 DEF Killed
<1>29. SharedCounted'
  <2>1. ASSUME NEW r \in Res, NEW i \in Ids
        PROVE  Users(r, i)' = Users(r, i) /\ Copies(r, i)' = Copies(r, i)
    <3>1. ASSUME NEW t \in Tasks PROVE t \in Users(r, i)' <=> t \in Users(r, i)
      <4>1. th'[t].mm = th[t].mm /\ task'[t].res = task[t].res
        BY <1>13, <1>14
      <4>2. CASE t = p
        <5>1. r \in Acquired(th[x].stage) /\ th[x].pc = "copied" /\ th[x].child = p
          BY <1>1, <1>2 DEF Acquired, Stage, Res
        <5>2. th'[t].pc # "new"
          BY <1>13, <4>2
        <5> QED  BY <4>1, <4>2, <5>1, <5>2 DEF Users
      <4>3. CASE t # p
        <5>1. th'[t].pc = "new" <=> th[t].pc = "new"
          BY <1>1, <1>13, <4>3
        <5>2. \A y \in Tasks :
                /\ Maker(y, t)' <=> Maker(y, t)
                /\ th'[y].stage = th[y].stage
          BY <1>13, <1>20, <4>3
        <5>3. (\E y \in Tasks : /\ th'[y].pc \in {"copied", "undo"} /\ th'[y].child = t
                                /\ r \in Acquired(th'[y].stage))
              <=> (\E y \in Tasks : /\ th[y].pc \in {"copied", "undo"} /\ th[y].child = t
                                    /\ r \in Acquired(th[y].stage))
          BY <5>2 DEF Maker
        <5> QED  BY <4>1, <5>1, <5>3 DEF Users
      <4> QED  BY <4>2, <4>3
    <3>2. Users(r, i)' = Users(r, i)
      BY <3>1 DEF Users
    <3>3. Copies(r, i)' = Copies(r, i)
      BY <1>13 DEF Copies
    <3> QED  BY <3>2, <3>3
  <2> QED  BY <1>1, <2>1 DEF SharedCounted
<1>30. OwnerUsesMm'
  <2> SUFFICES ASSUME NEW i \in Ids, cnt.mm[i] > 0
               PROVE  IF owner[i] = none THEN ~\E t \in Tasks : Live(t)' /\ task'[t].res.mm = i
                      ELSE task'[owner[i]].res.mm = i \/ th'[owner[i]].mm = i
    BY <1>1 DEF OwnerUsesMm
  <2>1. IF owner[i] = none THEN ~\E t \in Tasks : Live(t) /\ task[t].res.mm = i
        ELSE task[owner[i]].res.mm = i \/ th[owner[i]].mm = i
    BY DEF OwnerUsesMm
  <2>2. CASE owner[i] = none
    <3>1. task[p].res.mm # i
      <4>1. CASE OwnMm(x)
        BY <1>20, <2>2, <4>1, TasksAssumption DEF NewOwners
      <4>2. CASE ~OwnMm(x)
        BY <1>2, <1>20, <2>1, <2>2, <4>2 DEF NewOwners
      <4> QED  BY <4>1, <4>2
    <3> QED  BY <1>14, <2>1, <2>2, <3>1
  <2>3. CASE owner[i] # none
    <3>1. owner[i] \in Tasks
      BY <2>3 DEF Types, Links
    <3> QED  BY <1>13, <1>14, <2>1, <2>3, <3>1
  <2> QED  BY <2>2, <2>3
<1>31. NewOwners'
  <2>1. ASSUME NEW y \in Tasks, NEW c \in Tasks, Maker(y, c)'
        PROVE  Maker(y, c) /\ (OwnMm(y)' <=> OwnMm(y))
    BY <1>13, <1>20, <2>1 DEF OwnMm
  <2>2. \A t \in Tasks : task'[t].res.mm = task[t].res.mm /\ th'[t].mm = th[t].mm
    BY <1>13, <1>14
  <2>3. \A y, c \in Tasks : Maker(y, c)' =>
          LET i == task'[c].res.mm
          IN IF OwnMm(y)'
             THEN /\ i \in Ids /\ owner'[i] = c
                  /\ \A t \in Tasks \ {c} : task'[t].res.mm # i /\ th'[t].mm # i
             ELSE /\ i = task'[y].res.mm
                  /\ \A j \in Ids : cnt'.mm[j] > 0 => owner'[j] # c
    BY <1>1, <2>1, <2>2 DEF NewOwners
  <2> QED  BY <1>24, <2>3 DEF NewOwners
<1>32. NoneMissed'
  <2> SUFFICES ASSUME NEW y \in Tasks, NEW c \in Tasks, Missed(y, c)' PROVE FALSE
    BY DEF NoneMissed
  <2>1. /\ th'[y].pc = "asleep" /\ ~th'[y].opt.nothread /\ c # init
        /\ Live(c)' /\ task'[c].leader = c /\ Alone(c)' /\ task'[c].exit_state = "zombie"
        /\ Live(task[c].real_parent)' /\ SameGroup(task[c].real_parent, y)'
        /\ EligibleChild(y, c)'
    BY DEF Missed
  <2>2. y # p /\ y # x /\ th[y].pc = "asleep" /\ th'[y].opt = th[y].opt /\ c # p
    BY <1>3, <1>13, <1>14, <2>1
  <2>3. Live(c) /\ task[c].leader = c /\ task[c].exit_state = "zombie" /\ Alone(c)
    BY <1>14, <1>23, <2>1, <2>2
  <2>4. PICK q \in Tasks : q = task[c].real_parent /\ task'[c].real_parent = q /\ Live(q) /\ q # p
    BY <1>14, <1>23, <2>2, <2>3 DEF Parents
  <2>5. SameGroup(q, y)
    BY <1>14, <2>1, <2>2, <2>4 DEF SameGroup
  <2>6. EligibleChild(y, c)
    BY <1>14, <2>1, <2>2 DEF EligibleChild, EligiblePid
  <2>7. Missed(y, c)
    BY <2>1, <2>2, <2>3, <2>4, <2>5, <2>6 DEF Missed
  <2> QED  BY <2>7 DEF NoneMissed
<1>33. SigCounted'
  <2>1. \A c \in Tasks : c # p => (Led(c)' <=> Led(c)) /\ (Begun(c)' <=> Begun(c))
    BY <1>13, <1>20 DEF Led, Begun
  <2>2. ~Led(p)' /\ (Led(p) <=> "THREAD" \notin th[x].kind) /\ Begun(p)
    BY <1>2, <1>20 DEF Led, Begun, Stage
  <2>3. ASSUME NEW c \in Tasks
        PROVE  IF c = l /\ "THREAD" \in th[x].kind
               THEN /\ Listed(c)' = Listed(c) \cup {p} /\ p \notin Listed(c)
                    /\ Staying(c)' = Staying(c) \cup {p} /\ p \notin Staying(c)
                    /\ Members(c)' = Members(c) \cup {p} /\ p \notin Members(c)
               ELSE /\ Listed(c)' = Listed(c) /\ Staying(c)' = Staying(c)
                    /\ Members(c)' = Members(c)
    <3>1. PICK A, B, C, D, E, F \in SUBSET Tasks :
             /\ A = Listed(c) /\ B = Listed(c)' /\ C = Staying(c) /\ D = Staying(c)'
             /\ E = Members(c) /\ F = Members(c)'
      BY DEF Listed, Staying, Members
    <3>2. /\ A \subseteq Tasks /\ B \subseteq Tasks /\ C \subseteq Tasks
          /\ D \subseteq Tasks /\ E \subseteq Tasks /\ F \subseteq Tasks
      BY <3>1
    <3>3. \A t \in Tasks \ {p} : /\ t \in A <=> t \in B
                                 /\ t \in C <=> t \in D
                                 /\ t \in E <=> t \in F
      <4>1. \A t \in Tasks \ {p} : t \in Listed(c) <=> t \in Listed(c)'
        BY <1>14, <2>1 DEF Listed
      <4>2. \A t \in Tasks \ {p} : t \in Staying(c) <=> t \in Staying(c)'
        BY <1>14, <4>1 DEF Staying
      <4>3. \A t \in Tasks \ {p} : t \in Members(c) <=> t \in Members(c)'
        BY <1>1, <1>13, <1>14, <2>1 DEF Members, Absent
      <4> QED  BY <3>1, <4>1, <4>2, <4>3
    <3>4. /\ p \in A <=> (c = p /\ "THREAD" \notin th[x].kind)
          /\ p \in C <=> (c = p /\ "THREAD" \notin th[x].kind)
          /\ p \in E <=> (c = p /\ "THREAD" \notin th[x].kind)
      <4>1. p \in Listed(c) <=> (c = p /\ "THREAD" \notin th[x].kind)
        BY <1>3, <2>2 DEF Listed
      <4>2. p \in Staying(c) <=> (c = p /\ "THREAD" \notin th[x].kind)
        BY <1>3, <4>1 DEF Staying
      <4>3. p \in Members(c) <=> (c = p /\ "THREAD" \notin th[x].kind)
        BY <1>2, <1>3, <2>2 DEF Members
      <4> QED  BY <3>1, <4>1, <4>2, <4>3
    <3>5. (p \in B <=> c = L) /\ (p \in D <=> c = L) /\ (p \in F <=> c = L)
      <4>1. p \in Listed(c)' <=> c = L
        BY <1>14 DEF Listed
      <4>2. p \in Staying(c)' <=> c = L
        BY <1>3, <1>14, <4>1 DEF Staying
      <4>3. p \in Members(c)' <=> c = L
        BY <1>13, <1>14 DEF Members, Absent
      <4> QED  BY <3>1, <4>1, <4>2, <4>3
    <3>6. CASE c = l /\ "THREAD" \in th[x].kind
      <4>1. p \notin A /\ p \notin C /\ p \notin E /\ p \in B /\ p \in D /\ p \in F
        BY <1>5, <3>4, <3>5, <3>6
      <4>2. B = A \cup {p} /\ D = C \cup {p} /\ F = E \cup {p}
        BY ONLY <3>2, <3>3, <4>1, p \in Tasks
      <4> QED  BY <3>1, <3>6, <4>1, <4>2
    <3>7. CASE ~(c = l /\ "THREAD" \in th[x].kind)
      <4>1. (p \in A <=> p \in B) /\ (p \in C <=> p \in D) /\ (p \in E <=> p \in F)
        BY <1>3, <1>5, <3>4, <3>5, <3>7
      <4>2. B = A /\ D = C /\ F = E
        BY ONLY <3>2, <3>3, <4>1, p \in Tasks
      <4> QED  BY <3>1, <3>7, <4>2
    <3> QED  BY <3>6, <3>7
  <2>4. ASSUME NEW c \in Tasks
        PROVE  /\ sig'[c].nr = Cardinality(Listed(c)')
               /\ sig'[c].live = Cardinality(Staying(c)')
               /\ sig'[c].cnt = Cardinality(Members(c)')
    <3>1. /\ sig[c].nr = Cardinality(Listed(c)) /\ sig[c].live = Cardinality(Staying(c))
          /\ sig[c].cnt = Cardinality(Members(c))
      BY DEF SigCounted
    <3>2. CASE c = l /\ "THREAD" \in th[x].kind
      <4>1. /\ Listed(c) \in SUBSET Tasks /\ Staying(c) \in SUBSET Tasks
            /\ Members(c) \in SUBSET Tasks
        BY DEF Listed, Staying, Members
      <4>2. p \notin Listed(c) /\ p \notin Staying(c) /\ p \notin Members(c)
        BY <2>3, <3>2
      <4>3. /\ Cardinality(Listed(c) \cup {p}) = Cardinality(Listed(c)) + 1
            /\ Cardinality(Staying(c) \cup {p}) = Cardinality(Staying(c)) + 1
            /\ Cardinality(Members(c) \cup {p}) = Cardinality(Members(c)) + 1
        BY <4>1, <4>2, CountMore
      <4> QED  BY <1>17, <2>3, <3>1, <3>2, <4>3
    <3>3. CASE ~(c = l /\ "THREAD" \in th[x].kind)
      BY <1>17, <2>3, <3>1, <3>3
    <3> QED  BY <3>2, <3>3
  <2>5. Charged' = Charged
    <3>1. \A t \in Tasks : t \in Charged' <=> t \in Charged
      BY <1>14, <2>1, <2>2 DEF Charged
    <3> QED  BY <3>1 DEF Charged
  <2>6. Alive' = Alive \cup {p} /\ p \notin Alive /\ Alive \in SUBSET Tasks
    BY <1>3, <1>14 DEF Alive
  <2>7. Cardinality(Alive') = Cardinality(Alive) + 1
    BY <2>6, CountMore
  <2> QED  BY <1>1, <2>4, <2>5, <2>7 DEF SigCounted
<1> QED  BY <1>18, <1>19, <1>21, <1>22, <1>25, <1>26, <1>27, <1>28, <1>29, <1>30, <1>31,
            <1>32, <1>33

\* The end of copy_process keeps the invariant, whether or not the task becomes visible.
LEMMA PublishKeeps ==
    ASSUME IInv, NEW x \in Tasks, Publish(x)
    PROVE  IInv'
<1>1. CASE MayJoin(x)
  BY <1>1, JoinKeeps
<1>2. CASE ~MayJoin(x)
  BY <1>2, RefusedKeeps DEF Publish
<1> QED  BY <1>1, <1>2
------------------------------------------------------------------------------
(* The beginning of copy_process *)

\* Counting up at a place that may be outside of the domain.
LEMMA OneMore ==
    ASSUME NEW c \in [Ids -> Int], NEW a
    PROVE  /\ [c EXCEPT ![a] = @ + 1] \in [Ids -> Int]
           /\ \A i \in Ids : [c EXCEPT ![a] = @ + 1][i] = IF i = a THEN c[i] + 1 ELSE c[i]
<1>1. CASE a \in Ids
  BY <1>1
<1>2. CASE a \notin Ids
  <2>1. [c EXCEPT ![a] = @ + 1] = c
    BY <1>2
  <2> QED  BY <1>2, <2>1
<1> QED  BY <1>1, <1>2

\* The task structure the slab allocator returns is unused.
LEMMA UnusedTask ==
    ASSUME NEW p \in Tasks, p = Unused
    PROVE  th[p].pc = "unused"
<1>1. CASE \E q \in Tasks : th[q].pc = "unused"
  <2>1. \E q \in Tasks \cup {none} : q # none /\ th[q].pc = "unused"
    BY <1>1, TasksAssumption
  <2> QED  BY <1>1, <2>1 DEF Unused
<1>2. CASE ~\E q \in Tasks : th[q].pc = "unused"
  <2>1. Unused = none
    BY <1>2 DEF Unused
  <2> QED  BY <2>1, TasksAssumption
<1> QED  BY <1>1, <1>2

\* Whoever has structure i for his mm is counted for it, or will be when his
\* maker has come so far; the maker is counted then.
LEMMA MmCounted ==
    ASSUME IInv, NEW i \in Ids, Users("mm", i) = {}, NEW t \in Tasks
    PROVE  task[t].res.mm # i /\ th[t].mm # i
<1> USE DEF IInv
<1>1. th[t].mm # i
  BY DEF Users
<1>2. ASSUME task[t].res.mm = i PROVE FALSE
  <2>1. th[t].pc = "new"
    BY <1>2 DEF Users
  <2>2. PICK y \in Tasks : Making(y, t)
    BY <2>1 DEF Makers
  <2>3. Maker(y, t) /\ th[y].pc # "new"
    BY <2>1, <2>2 DEF Makers, Making, Maker
  <2>4. "mm" \notin Acquired(th[y].stage)
    BY <1>2, <2>3 DEF Users, Maker
  <2>5. ~OwnMm(y)
    BY <2>4 DEF OwnMm, Acquired, Res, Stage, Types, ThRecord
  <2>6. task[y].res.mm = i
    BY <1>2, <2>3, <2>5 DEF NewOwners
  <2> QED  BY <2>3, <2>6 DEF Users
<1> QED  BY <1>1, <1>2

\* The beginning of copy_process keeps the invariant, whatever is shared and at whatever
\* stage it stops.
LEMMA CopyKeeps ==
    ASSUME IInv, NEW x \in Tasks, NEW p \in Tasks, NEW kind \in Kinds, NEW n \in 0..8,
           Copy(x, p, kind, n)
    PROVE  IInv'
<1> USE DEF IInv
<1>1. /\ th[x].pc = "user" /\ ~task[x].kill /\ x # init /\ p = Unused
      /\ processes' = processes + (IF n >= Stage.user THEN 1 ELSE 0)
      /\ UNCHANGED nr_threads
      /\ task \in [Tasks -> TaskRecord] /\ th \in [Tasks -> ThRecord]
      /\ sig \in [Tasks -> SigRecord] /\ cnt \in [Res -> [Ids -> Int]]
      /\ owner \in [Ids -> Links] /\ processes \in Int
      /\ \A t \in Tasks : Sound(t, task[t], th[t])
  BY DEF Copy, Types, Phases
<1>2. /\ th[p].pc = "unused" /\ task[p] = Blank /\ x # p /\ p # init
      /\ th[p].mm = 0 /\ th[p].todo = {} /\ th[p].new.files = 0 /\ th[p].new.fs = 0
      /\ th[x].todo = {}
  <2>1. th[p].pc = "unused"
    BY <1>1, UnusedTask
  <2>2. Sound(p, task[p], th[p])
    BY <1>1
  <2>3. /\ task[p] = Blank /\ th[p].mm = 0 /\ th[p].new.files = 0 /\ th[p].new.fs = 0
    BY ONLY <2>1, <2>2 DEF Sound, Absent
  <2> QED  BY <1>1, <2>1, <2>3 DEF Buried, Parents
<1>3. /\ Blank.leader = none /\ Blank.hashed = FALSE /\ Blank.vfork = none
      /\ Blank.exiting = FALSE /\ Blank.exit_state = "0" /\ Blank.kill = FALSE
      /\ Blank.rcu = FALSE /\ \A r \in Res : Blank.res[r] = 0
  BY DEF Blank, Res
<1>4. PICK F \in SUBSET CloneFlags : F = kind.flags
  BY TasksAssumption
<1>5. PICK e \in Signals : e = IF "THREAD" \in F THEN "detached" ELSE kind.sig
  BY TasksAssumption DEF Signals
<1>6. \A r \in Res : /\ Fresh(r) \in Ids /\ cnt[r][Fresh(r)] = 0
                     /\ Users(r, Fresh(r)) = {} /\ Copies(r, Fresh(r)) = {}
  BY <1>1, FreshExists
<1>7. PICK held \in Held :
         held = [r \in Res |-> IF r \in Acquired(n) /\ ~Shared(r, F)
                               THEN Fresh(r) ELSE task[x].res[r]]
  <2>1. task[x].res \in Held
    BY <1>1 DEF TaskRecord
  <2> QED  BY <1>6, <2>1 DEF Held
<1>8. /\ task' = [task EXCEPT ![p] = [Blank EXCEPT !.leader = p, !.usage = 2, !.res = held,
                                                   !.exit_signal = e]]
      /\ cnt' = [r \in Res |-> IF r \in Acquired(n)
                               THEN [cnt[r] EXCEPT ![held[r]] = @ + 1] ELSE cnt[r]]
      /\ owner' = IF n >= Stage.mm /\ ~Shared("mm", F) THEN [owner EXCEPT ![held.mm] = p]
                                                       ELSE owner
      /\ sig' = IF n >= Stage.signal /\ "THREAD" \notin F
                THEN [sig EXCEPT ![p] = [nr |-> 1, live |-> 1, cnt |-> 1,
                                         exit |-> FALSE, code |-> none]]
                ELSE sig
      /\ th' = [th EXCEPT ![x].pc = IF n = 8 THEN "copied" ELSE "undo",
                          ![x].child = p, ![x].kind = F, ![x].stage = n,
                          ![p].pc = "new"]
  BY <1>4, <1>5, <1>7 DEF Copy
<1> DEFINE k == [Blank EXCEPT !.leader = p, !.usage = 2, !.res = held, !.exit_signal = e]
           g == [th[p] EXCEPT !.pc = "new"]
           w == IF n = 8 THEN "copied" ELSE "undo"
           h == [th[x] EXCEPT !.pc = w, !.child = p, !.kind = F, !.stage = n]
<1>9. /\ k \in TaskRecord /\ k.leader = p /\ k.usage = 2 /\ k.res = held
      /\ k.exit_signal = e /\ k.hashed = FALSE /\ k.vfork = none /\ k.exiting = FALSE
      /\ k.exit_state = "0" /\ k.kill = FALSE /\ k.rcu = FALSE
  <2>1. e \in Signals /\ held \in Held /\ p \in Tasks
    OBVIOUS
  <2>2. PICK b \in TaskRecord : b = Blank
    <3>1. Blank \in TaskRecord
      BY DEF Blank, TaskRecord, Links, Held, Signals, Res
    <3> QED  BY <3>1
  <2>3. k = [b EXCEPT !.leader = p, !.usage = 2, !.res = held, !.exit_signal = e]
    BY <2>2
  <2> HIDE DEF k
  <2>4. PICK u \in 0..2 : u = 2
    OBVIOUS
  <2>5. PICK b1 \in TaskRecord : b1 = [b EXCEPT !.leader = p, !.usage = u]
    BY ONLY <2>1, <2>4, b \in TaskRecord DEF TaskRecord, Links
  <2>6. PICK b2 \in TaskRecord : b2 = [b1 EXCEPT !.res = held, !.exit_signal = e]
    BY ONLY <2>1, <2>5 DEF TaskRecord
  <2>7. k = b2
    BY ONLY <2>3, <2>4, <2>5, <2>6, b \in TaskRecord DEF TaskRecord
  <2>8. /\ b2.leader = b1.leader /\ b2.usage = b1.usage /\ b2.res = held
        /\ b2.exit_signal = e /\ b2.hashed = b1.hashed /\ b2.vfork = b1.vfork
        /\ b2.exiting = b1.exiting /\ b2.exit_state = b1.exit_state /\ b2.kill = b1.kill
        /\ b2.rcu = b1.rcu
    BY ONLY <2>5, <2>6 DEF TaskRecord
  <2>9. /\ b1.leader = p /\ b1.usage = 2 /\ b1.hashed = b.hashed /\ b1.vfork = b.vfork
        /\ b1.exiting = b.exiting /\ b1.exit_state = b.exit_state /\ b1.kill = b.kill
        /\ b1.rcu = b.rcu
    BY ONLY <2>4, <2>5, b \in TaskRecord DEF TaskRecord
  <2> QED  BY <1>3, <2>2, <2>6, <2>7, <2>8, <2>9
<1>10. th[x] \in ThRecord /\ th[p] \in ThRecord
  BY <1>1
<1>11. /\ g \in ThRecord /\ g.pc = "new" /\ g.child = th[p].child /\ g.kind = th[p].kind
       /\ g.stage = th[p].stage /\ g.mm = th[p].mm /\ g.todo = th[p].todo
       /\ g.opt = th[p].opt /\ g.new = th[p].new
  BY ONLY <1>10 DEF ThRecord
<1>12. /\ h \in ThRecord /\ h.pc = w /\ h.child = p /\ h.kind = F
       /\ h.stage = n /\ h.mm = th[x].mm /\ h.todo = th[x].todo
       /\ h.opt = th[x].opt /\ h.new = th[x].new
  <2>1. p \in Links /\ F \in SUBSET CloneFlags /\ n \in 0..8 /\ w \in Busy
    BY DEF Links, Busy
  <2> HIDE DEF w
  <2> QED  BY ONLY <1>10, <2>1 DEF ThRecord
<1>13. th' = [th EXCEPT ![x] = h, ![p] = g] /\ task' = [task EXCEPT ![p] = k]
  BY <1>1, <1>2, <1>8
<1> HIDE DEF g, h, k
<1>14. /\ task'[p] = k /\ th'[p] = g /\ th'[x] = h
       /\ \A t \in Tasks \ {p} : task'[t] = task[t]
       /\ \A t \in Tasks \ {p, x} : th'[t] = th[t]
       /\ task' \in [Tasks -> TaskRecord] /\ th' \in [Tasks -> ThRecord]
  BY <1>1, <1>2, <1>9, <1>11, <1>12, <1>13
<1>15. w \in {"copied", "undo"} /\ (w = "copied" => n = 8)
  OBVIOUS
<1> HIDE DEF w
<1>16. \A t \in Tasks :
          /\ th'[t].child = IF t = x THEN p ELSE th[t].child
          /\ th'[t].kind = IF t = x THEN F ELSE th[t].kind
          /\ th'[t].stage = IF t = x THEN n ELSE th[t].stage
          /\ th'[t].mm = th[t].mm
          /\ th'[t].todo = th[t].todo /\ th'[t].opt = th[t].opt /\ th'[t].new = th[t].new
          /\ th'[t].pc = IF t = p THEN "new" ELSE IF t = x THEN w ELSE th[t].pc
  BY <1>2, <1>11, <1>12, <1>14, ZenonT(60)
<1>17. \A t \in Tasks :
          /\ task'[t].leader = IF t = p THEN p ELSE task[t].leader
          /\ task'[t].hashed = task[t].hashed /\ (Live(t)' <=> Live(t))
          /\ t # p => task'[t].real_parent = task[t].real_parent
          /\ t # p => task'[t].exit_signal = task[t].exit_signal
          /\ task'[t].exit_state = task[t].exit_state
          /\ task'[t].exiting = task[t].exiting /\ task'[t].kill = task[t].kill
          /\ t # p => task'[t].res = task[t].res
          /\ task'[t].vfork = task[t].vfork
  BY <1>2, <1>3, <1>9, <1>14, ZenonT(60) DEF Live
<1>18. task'[p].res = held /\ ~Live(p)
  BY <1>2, <1>3, <1>9, <1>14 DEF Live
<1>19. PICK own \in BOOLEAN, led \in BOOLEAN, Got \in SUBSET Res :
          /\ own <=> n >= Stage.mm /\ "VM" \notin F
          /\ led <=> n >= Stage.signal /\ "THREAD" \notin F
          /\ Got = Acquired(n)
  BY DEF Acquired
<1>20. /\ "mm" \in Got <=> n >= Stage.mm
       /\ own => held.mm \in Ids /\ "mm" \in Got /\ Users("mm", held.mm) = {}
       /\ ~own => held.mm = task[x].res.mm
  <2>1. "mm" \in Got <=> n >= Stage.mm
    BY <1>19 DEF Acquired, Res, Stage
  <2>2. Shared("mm", F) <=> "VM" \in F
    BY DEF Shared, FlagOf
  <2>3. held.mm = IF own THEN Fresh("mm") ELSE task[x].res.mm
    BY <1>7, <1>19, <2>1, <2>2 DEF Res
  <2> QED  BY <1>6, <1>19, <2>1, <2>3 DEF Res
<1>21. owner' = IF own THEN [owner EXCEPT ![held.mm] = p] ELSE owner
  BY <1>8, <1>19 DEF Shared, FlagOf
<1>22. /\ owner' \in [Ids -> Links]
       /\ \A i \in Ids : owner'[i] = IF own /\ i = held.mm THEN p ELSE owner[i]
  <2>1. p \in Links
    BY DEF Links
  <2> HIDE DEF IInv
  <2> QED  BY <1>1, <1>20, <1>21, <2>1
<1>23. /\ cnt' \in [Res -> [Ids -> Int]]
       /\ \A r \in Res : \A i \in Ids :
             cnt'[r][i] = IF r \in Got /\ held[r] = i THEN cnt[r][i] + 1 ELSE cnt[r][i]
  <2>1. cnt' = [r \in Res |-> IF r \in Got THEN [cnt[r] EXCEPT ![held[r]] = @ + 1] ELSE cnt[r]]
    BY <1>8, <1>19
  <2>2. \A r \in Res : cnt[r] \in [Ids -> Int]
    BY <1>1
  <2>3. ASSUME NEW r \in Res
        PROVE  /\ cnt'[r] \in [Ids -> Int]
               /\ \A i \in Ids : cnt'[r][i] = IF r \in Got /\ held[r] = i
                                              THEN cnt[r][i] + 1 ELSE cnt[r][i]
    <3>1. cnt'[r] = IF r \in Got THEN [cnt[r] EXCEPT ![held[r]] = @ + 1] ELSE cnt[r]
      BY <2>1
    <3>2. /\ [cnt[r] EXCEPT ![held[r]] = @ + 1] \in [Ids -> Int]
          /\ \A i \in Ids : [cnt[r] EXCEPT ![held[r]] = @ + 1][i]
                            = IF i = held[r] THEN cnt[r][i] + 1 ELSE cnt[r][i]
      BY <2>2, OneMore
    <3> QED  BY <2>2, <3>1, <3>2
  <2>4. cnt' = [r \in Res |-> cnt'[r]]
    BY <2>1
  <2> QED  BY ONLY <2>3, <2>4
<1> DEFINE s == [nr |-> 1, live |-> 1, cnt |-> 1, exit |-> FALSE, code |-> none]
<1>24. /\ sig' \in [Tasks -> SigRecord]
       /\ \A t \in Tasks : IF led /\ t = p
                           THEN /\ sig'[t].nr = 1 /\ sig'[t].live = 1 /\ sig'[t].cnt = 1
                                /\ ~sig'[t].exit
                           ELSE sig'[t] = sig[t]
  <2>1. sig' = IF led THEN [sig EXCEPT ![p] = s] ELSE sig
    BY <1>8, <1>19
  <2>2. s \in SigRecord /\ s.nr = 1 /\ s.live = 1 /\ s.cnt = 1 /\ ~s.exit
    BY DEF SigRecord, Links
  <2> HIDE DEF s, IInv
  <2> QED  BY <1>1, <2>1, <2>2
<1>25. Types'
  BY <1>1, <1>14, <1>22, <1>23, <1>24 DEF Types
<1>26. Phases'
  <2>1. Sound(p, k, g)
    BY <1>2, <1>9, <1>11 DEF Sound, Busy, Ending, Ended, Absent
  <2>2. Sound(x, task[x], h)
    BY <1>1, <1>12, <1>15 DEF Sound, Busy, Ending, Ended, Absent
  <2> QED  BY <1>1, <1>2, <1>14, <2>1, <2>2 DEF Phases
\* Nobody made p before, and x made nobody
<1>27. /\ \A y \in Tasks : th[y].pc \in {"copied", "undo", "publ"} => th[y].child # p
       /\ \A y, c \in Tasks : c # p => (Making(y, c)' <=> Making(y, c))
       /\ \A y, c \in Tasks : c # p => (Maker(y, c)' <=> Maker(y, c))
       /\ \A y \in Tasks : (Making(y, p)' <=> y = x) /\ (Maker(y, p)' <=> y = x)
       /\ \A y \in Tasks : ~Maker(y, p)
  <2>1. \A y \in Tasks : th[y].pc \in {"copied", "undo", "publ"} => th[y].child # p
    BY <1>2 DEF Makers
  <2>2. \A y \in Tasks : th'[y].pc \in {"copied", "undo", "publ"}
                         => y = x \/ (th'[y].pc = th[y].pc /\ y # p)
    BY <1>16
  <2>3. \A y \in Tasks : th[y].pc \in {"copied", "undo", "publ"} => y # x /\ y # p
    BY <1>1, <1>2
  <2> QED  BY <1>2, <1>15, <1>16, <2>1, <2>2, <2>3 DEF Making, Maker
<1>28. Makers'
  <2>1. ASSUME NEW y \in Tasks, th'[y].pc \in {"copied", "undo", "publ"}
        PROVE  /\ th'[y].child \in Tasks
               /\ th'[th'[y].child].pc = IF th'[y].pc = "publ" THEN "fresh" ELSE "new"
    <3>1. CASE y = x
      BY <1>2, <1>15, <1>16, <3>1
    <3>2. CASE y # x
      <4>1. th'[y].pc = th[y].pc /\ y # p
        BY <1>16, <2>1, <3>2
      <4>2. PICK c \in Tasks : c = th[y].child /\ c # p
               /\ th[c].pc = IF th[y].pc = "publ" THEN "fresh" ELSE "new"
        BY <1>27, <2>1, <4>1 DEF Makers
      <4>3. c # x
        BY <1>1, <4>2
      <4> QED  BY <1>16, <3>2, <4>1, <4>2, <4>3
    <3> QED  BY <3>1, <3>2
  <2>2. \A y \in Tasks : th'[y].pc = "copied" => th'[y].stage = 8
    BY <1>15, <1>16 DEF Makers
  <2>3. \A y, z, c \in Tasks : Making(y, c)' /\ Making(z, c)' => y = z
    BY <1>27 DEF Makers
  <2>4. ASSUME NEW c \in Tasks, th'[c].pc = "new" PROVE \E y \in Tasks : Making(y, c)'
    <3>1. CASE c = p
      BY <1>27, <3>1
    <3>2. CASE c # p
      <4>1. th[c].pc = "new"
        BY <1>15, <1>16, <2>4, <3>2
      <4>2. PICK y \in Tasks : Making(y, c)
        BY <4>1 DEF Makers
      <4> QED  BY <1>27, <3>2, <4>2
    <3> QED  BY <3>1, <3>2
  <2>5. ASSUME NEW c \in Tasks, task'[c].vfork # none
        PROVE  th'[task'[c].vfork].pc = "vfork" /\ th'[task'[c].vfork].child = c
    <3>1. PICK q \in Tasks : q = task[c].vfork /\ task'[c].vfork = q
      BY <1>1, <1>17, <2>5 DEF TaskRecord, Links
    <3>2. th[q].pc = "vfork" /\ th[q].child = c
      BY <1>17, <2>5, <3>1 DEF Makers
    <3> QED  BY <1>1, <1>2, <1>16, <3>1, <3>2
  <2> QED  BY <2>1, <2>2, <2>3, <2>4, <2>5 DEF Makers
<1>29. Buried'
  <2>1. \A t \in Tasks : th'[t].pc = th[t].pc \/ th[t].pc \notin {"bury", "self", "reap"}
    BY <1>1, <1>2, <1>16
  <2> QED  BY <1>16, <1>17, <2>1, BuriedFrame DEF Live
<1>30. /\ \A c \in Tasks : Alone(c)' <=> Alone(c)
       /\ \A t \in Tasks : Live(t) => t # p /\ task[t].leader # p /\ task[t].real_parent # p
       /\ KeepsTree
  <2>1. \A t \in Tasks : Live(t) => t # p /\ task[t].leader # p /\ task[t].real_parent # p
    BY <1>18 DEF Groups, Parents
  <2>2. \A c \in Tasks : Alone(c)' <=> Alone(c)
    BY <1>17, <2>1 DEF Alone
  <2> QED  BY <1>17, <2>1, <2>2 DEF KeepsTree
<1>31. Groups'
  <2>1. \A t \in Tasks : Live(t)' =>
            /\ task'[t].leader \in Tasks
            /\ Live(task[t].leader)'
            /\ task'[task'[t].leader].leader = task'[t].leader
    <3> SUFFICES ASSUME NEW t \in Tasks, Live(t)'
                 PROVE  /\ task'[t].leader \in Tasks
                        /\ Live(task[t].leader)'
                        /\ task'[task'[t].leader].leader = task'[t].leader
      OBVIOUS
    <3>1. PICK c \in Tasks : /\ c = task[t].leader /\ Live(c) /\ task[c].leader = c
                             /\ c # p /\ t # p
      BY <1>17, <1>30 DEF Groups
    <3> QED  BY <1>14, <1>17, <3>1
  <2>2. \A c \in Tasks : Live(c)' /\ task'[c].leader = c /\ task'[c].exit_state = "dead"
                             => Alone(c)'
    BY <1>17, <1>30 DEF Groups
  <2>3. \A y \in Tasks : th'[y].pc = "claim" => th[y].pc = "claim" /\ th'[y].child = th[y].child
    BY <1>1, <1>15, <1>16
  <2>4. \A y \in Tasks : th'[y].pc = "claim" => th'[y].child \in Tasks
    BY <2>3 DEF Groups
  <2>5. \A y, c \in Tasks : th'[y].pc = "claim" /\ th'[y].child = c
                             => Live(c)' /\ task'[c].leader = c /\ Alone(c)'
    <3> SUFFICES ASSUME NEW y \in Tasks, NEW c \in Tasks, th'[y].pc = "claim", th'[y].child = c
                 PROVE  Live(c)' /\ task'[c].leader = c /\ Alone(c)'
      OBVIOUS
    <3>1. Live(c) /\ task[c].leader = c /\ Alone(c)
      BY <2>3 DEF Groups
    <3> QED  BY <1>17, <1>30, <3>1
  <2>6. ASSUME NEW t \in Tasks, th'[t].pc \notin Absent
        PROVE  /\ task'[t].leader \in Tasks
               /\ task'[t].leader # t => th'[task'[t].leader].pc \notin {"unused", "new"}
    <3>1. CASE t = p
      BY <1>17, <3>1
    <3>2. CASE t # p
      <4>1. th[t].pc \notin Absent
        BY <1>1, <1>16, <2>6, <3>2 DEF Absent
      <4>2. PICK c \in Tasks : c = task[t].leader /\ task'[t].leader = c
               /\ (c # t => th[c].pc \notin {"unused", "new"})
        BY <1>17, <3>2, <4>1 DEF Groups
      <4>3. c # t => c # p
        BY <1>2, <4>2
      <4> QED  BY <1>15, <1>16, <4>2, <4>3
    <3> QED  BY <3>1, <3>2
  <2> QED  BY <2>1, <2>2, <2>4, <2>5, <2>6 DEF Groups
<1>32. Parents'
  <2>1. \A t \in Tasks : th'[t].pc \in Childless => th[t].pc \in Childless
    BY <1>15, <1>16 DEF Childless
  <2>2. th'[init].pc = th[init].pc
    BY <1>1, <1>2, <1>16, TasksAssumption
  <2> QED  BY <1>30, <2>1, <2>2, ParentsFrame DEF Parents
<1>33. NoZombieLeft'
  BY <1>17, <1>30, NoZombieFrame DEF Detached
<1>34. Killed'
  <2>1. \A t \in Tasks :
              /\ Live(t)' => Live(t) /\ task'[t].leader = task[t].leader /\ task[t].leader \in Tasks
              /\ Live(t)' /\ (task[t].exiting \/ task[t].kill) => task'[t].exiting \/ task'[t].kill
              /\ th'[t].pc \in {"unused", "new"} => th[t].pc \in {"unused", "new"}
              /\ sig'[t].exit => sig[t].exit
    BY <1>2, <1>15, <1>16, <1>17, <1>24, <1>30 DEF Groups
  <2> QED  BY <2>1, KilledFrame
<1>35. NoneMissed'
  <2>1. \A t \in Tasks :
              /\ th'[t].pc = "asleep" => th[t].pc = "asleep" /\ th'[t].opt = th[t].opt
              /\ Live(t) /\ task'[t].exit_state = "zombie"
                    => task[t].exit_state = "zombie" /\ task'[t].exit_signal = task[t].exit_signal
    BY <1>15, <1>16, <1>17, <1>30
  <2>2. NoneMissed /\ Parents /\ Phases /\ KeepsTree
    BY <1>30
  <2> HIDE DEF IInv
  <2> QED  BY <2>1, <2>2, MissedFrame
<1>36. SharedCounted'
  <2>1. ASSUME NEW r \in Res, NEW i \in Ids
        PROVE  /\ Users(r, i)' = IF r \in Got /\ held[r] = i THEN Users(r, i) \cup {p}
                                                            ELSE Users(r, i)
               /\ p \notin Users(r, i) /\ Copies(r, i)' = Copies(r, i)
    <3>1. i # 0
      BY KindsOfRes
    <3>2. p \notin Users(r, i)
      BY <1>2, <1>3, <3>1 DEF Users
    <3>3. p \in Users(r, i)' <=> r \in Got /\ held[r] = i
      <4>1. th'[p].pc = "new" /\ task'[p].res[r] = held[r] /\ th'[p].mm # i
        BY <1>2, <1>16, <1>18, <3>1
      <4>2. (\E y \in Tasks : /\ th'[y].pc \in {"copied", "undo"} /\ th'[y].child = p
                              /\ r \in Acquired(th'[y].stage)) <=> r \in Got
        <5>1. \A y \in Tasks : th'[y].pc \in {"copied", "undo"} /\ th'[y].child = p <=> y = x
          BY <1>27 DEF Maker
        <5>2. th'[x].stage = n
          BY <1>16
        <5> QED  BY <1>19, <5>1, <5>2
      <4> QED  BY <4>1, <4>2 DEF Users
    <3>4. ASSUME NEW t \in Tasks \ {p} PROVE t \in Users(r, i)' <=> t \in Users(r, i)
      <4>1. /\ th'[t].mm = th[t].mm /\ task'[t].res = task[t].res
            /\ th'[t].pc = "new" <=> th[t].pc = "new"
        BY <1>1, <1>15, <1>16, <1>17
      <4>2. (\E y \in Tasks : /\ th'[y].pc \in {"copied", "undo"} /\ th'[y].child = t
                              /\ r \in Acquired(th'[y].stage))
            <=> (\E y \in Tasks : /\ th[y].pc \in {"copied", "undo"} /\ th[y].child = t
                                  /\ r \in Acquired(th[y].stage))
        <5>1. \A y \in Tasks : Maker(y, t)' <=> Maker(y, t)
          BY <1>27
        <5>2. \A y \in Tasks : Maker(y, t) => th'[y].stage = th[y].stage
          BY <1>1, <1>16 DEF Maker
        <5> QED  BY <5>1, <5>2 DEF Maker
      <4> QED  BY <4>1, <4>2 DEF Users
    <3>5. Copies(r, i)' = Copies(r, i)
      BY <1>16 DEF Copies
    <3>6. Users(r, i)' \subseteq Tasks /\ Users(r, i) \subseteq Tasks
      BY DEF Users
    <3>7. CASE r \in Got /\ held[r] = i
      <4>1. Users(r, i)' = Users(r, i) \cup {p}
        BY ONLY <3>3, <3>4, <3>6, <3>7, p \in Tasks
      <4> QED  BY <3>2, <3>5, <3>7, <4>1
    <3>8. CASE ~(r \in Got /\ held[r] = i)
      <4>1. Users(r, i)' = Users(r, i)
        BY ONLY <3>2, <3>3, <3>4, <3>6, <3>8
      <4> QED  BY <3>2, <3>5, <3>8, <4>1
    <3> QED  BY <3>7, <3>8
  <2>2. ASSUME NEW r \in Res, NEW i \in Ids
        PROVE  cnt'[r][i] = Cardinality(Users(r, i)') + Cardinality(Copies(r, i)')
    <3>1. /\ cnt[r][i] = Cardinality(Users(r, i)) + Cardinality(Copies(r, i))
          /\ Users(r, i) \in SUBSET Tasks /\ Copies(r, i) \in SUBSET Tasks
      BY DEF SharedCounted, Users, Copies
    <3>2. /\ Cardinality(Users(r, i)) \in Nat /\ Cardinality(Copies(r, i)) \in Nat
          /\ Cardinality(Users(r, i) \cup {p}) = Cardinality(Users(r, i)) + 1
      BY <2>1, <3>1, CountMore, CountType
    <3>3. CASE r \in Got /\ held[r] = i
      <4>1. Users(r, i)' = Users(r, i) \cup {p} /\ Copies(r, i)' = Copies(r, i)
        BY <2>1, <3>3
      <4>2. cnt'[r][i] = cnt[r][i] + 1
        BY <1>23, <3>3
      <4> QED  BY ONLY <3>1, <3>2, <4>1, <4>2
    <3>4. CASE ~(r \in Got /\ held[r] = i)
      BY <1>23, <2>1, <3>1, <3>4
    <3> QED  BY <3>3, <3>4
  <2> QED  BY <2>2 DEF SharedCounted
<1>37. SigCounted'
  <2>1. \A c \in Tasks : c # p => (Led(c)' <=> Led(c)) /\ (Begun(c)' <=> Begun(c))
    <3>1. \A y, c \in Tasks : Maker(y, c) => th'[y].stage = th[y].stage /\ th'[y].kind = th[y].kind
      BY <1>1, <1>16 DEF Maker
    <3> QED  BY <1>27, <3>1 DEF Led, Begun
  <2>2. ~Led(p) /\ ~Begun(p) /\ (Led(p)' <=> led) /\ (Begun(p)' <=> n >= Stage.user)
    BY <1>16, <1>19, <1>27 DEF Led, Begun
  <2>3. ASSUME NEW c \in Tasks
        PROVE  IF c = p /\ led
               THEN Listed(c)' = {p} /\ Staying(c)' = {p} /\ Members(c)' = {p}
               ELSE /\ Listed(c)' = Listed(c) /\ Staying(c)' = Staying(c)
                    /\ Members(c)' = Members(c)
    <3>1. PICK A, B, C, D, E, G \in SUBSET Tasks :
             /\ A = Listed(c) /\ B = Listed(c)' /\ C = Staying(c) /\ D = Staying(c)'
             /\ E = Members(c) /\ G = Members(c)'
      BY DEF Listed, Staying, Members
    <3>2. /\ A \subseteq Tasks /\ B \subseteq Tasks /\ C \subseteq Tasks
          /\ D \subseteq Tasks /\ E \subseteq Tasks /\ G \subseteq Tasks
      BY <3>1
    <3>3. \A t \in Tasks \ {p} : /\ t \in A <=> t \in B
                                 /\ t \in C <=> t \in D
                                 /\ t \in E <=> t \in G
      <4>1. \A t \in Tasks \ {p} : t \in Listed(c) <=> t \in Listed(c)'
        BY <1>17, <2>1 DEF Listed
      <4>2. \A t \in Tasks \ {p} : t \in Staying(c) <=> t \in Staying(c)'
        BY <1>17, <4>1 DEF Staying
      <4>3. \A t \in Tasks \ {p} : t \in Members(c) <=> t \in Members(c)'
        BY <1>1, <1>15, <1>16, <1>17, <2>1 DEF Members, Absent
      <4> QED  BY <3>1, <4>1, <4>2, <4>3
    <3>4. p \notin A /\ p \notin C /\ p \notin E
      <4>1. p \notin Listed(c)
        BY <1>18, <2>2 DEF Listed
      <4>2. p \notin Staying(c) /\ p \notin Members(c)
        BY <1>2, <2>2, <4>1 DEF Staying, Members, Absent
      <4> QED  BY <3>1, <4>1, <4>2
    <3>5. (p \in B <=> c = p /\ led) /\ (p \in D <=> c = p /\ led) /\ (p \in G <=> c = p /\ led)
      <4>1. p \in Listed(c)' <=> c = p /\ led
        BY <1>17, <1>18, <2>2 DEF Listed
      <4>2. p \in Staying(c)' <=> c = p /\ led
        BY <1>2, <1>3, <1>17, <4>1 DEF Staying
      <4>3. p \in Members(c)' <=> c = p /\ led
        BY <1>16, <1>17, <2>2 DEF Members
      <4> QED  BY <3>1, <4>1, <4>2, <4>3
    <3>6. CASE c = p /\ led
      <4>1. A = {} /\ C = {} /\ E = {}
        <5>1. ASSUME NEW t \in Tasks, task[t].leader = p, t # p
              PROVE  ~Live(t) /\ ~Led(t) /\ th[t].pc \in Absent \cup {"new"}
          <6>1. ~Live(t)
            BY <1>30, <5>1
          <6>2. th[t].pc # "new"
            BY <1>1, <5>1 DEF Sound
          <6>3. ~Led(t)
            BY <6>2 DEF Led, Maker, Makers
          <6>4. th[t].pc \in Absent
            BY <1>2, <5>1 DEF Groups
          <6> QED  BY <6>1, <6>3, <6>4
        <5>2. Listed(p) \subseteq {p} /\ Members(p) \subseteq {p}
          BY <5>1 DEF Listed, Members
        <5>3. Staying(p) \subseteq {p}
          BY <5>2 DEF Staying
        <5> QED  BY <3>1, <3>4, <3>6, <5>2, <5>3
      <4>2. p \in B /\ p \in D /\ p \in G
        BY <3>5, <3>6
      <4>3. B = {p} /\ D = {p} /\ G = {p}
        BY ONLY <3>2, <3>3, <4>1, <4>2
      <4> QED  BY <3>1, <3>6, <4>3
    <3>7. CASE ~(c = p /\ led)
      <4>1. p \notin B /\ p \notin D /\ p \notin G
        BY <3>5, <3>7
      <4>2. B = A /\ D = C /\ G = E
        BY ONLY <3>2, <3>3, <3>4, <4>1
      <4> QED  BY <3>1, <3>7, <4>2
    <3> QED  BY <3>6, <3>7
  <2>4. ASSUME NEW c \in Tasks
        PROVE  /\ sig'[c].nr = Cardinality(Listed(c)')
               /\ sig'[c].live = Cardinality(Staying(c)')
               /\ sig'[c].cnt = Cardinality(Members(c)')
    <3>1. /\ sig[c].nr = Cardinality(Listed(c)) /\ sig[c].live = Cardinality(Staying(c))
          /\ sig[c].cnt = Cardinality(Members(c))
      BY DEF SigCounted
    <3>2. CASE c = p /\ led
      <4>1. Cardinality({p}) = 1
        BY FS_Singleton
      <4> QED  BY <1>24, <2>3, <3>2, <4>1
    <3>3. CASE ~(c = p /\ led)
      BY <1>24, <2>3, <3>1, <3>3
    <3> QED  BY <3>2, <3>3
  <2>5. Alive' = Alive
    BY <1>17 DEF Alive
  <2>6. /\ Charged' = IF n >= Stage.user THEN Charged \cup {p} ELSE Charged
        /\ p \notin Charged /\ Charged \in SUBSET Tasks
    <3>1. \A t \in Tasks \ {p} : t \in Charged' <=> t \in Charged
      BY <1>17, <2>1 DEF Charged
    <3>2. p \notin Charged /\ (p \in Charged' <=> n >= Stage.user)
      BY <1>17, <1>18, <2>2 DEF Charged
    <3>3. Charged \subseteq Tasks /\ Charged' \subseteq Tasks
      BY DEF Charged
    <3>4. CASE n >= Stage.user
      <4>1. Charged' = Charged \cup {p}
        BY ONLY <3>1, <3>2, <3>3, <3>4, p \in Tasks
      <4> QED  BY <3>2, <3>3, <3>4, <4>1
    <3>5. CASE ~(n >= Stage.user)
      <4>1. Charged' = Charged
        BY ONLY <3>1, <3>2, <3>3, <3>5
      <4> QED  BY <3>2, <3>3, <3>5, <4>1
    <3> QED  BY <3>4, <3>5
  <2>7. Cardinality(Charged \cup {p}) = Cardinality(Charged) + 1
    BY <2>6, CountMore
  <2>8. processes' = Cardinality(Charged')
    <3>1. processes = Cardinality(Charged)
      BY DEF SigCounted
    <3>2. CASE n >= Stage.user
      BY <1>1, <2>6, <2>7, <3>1, <3>2
    <3>3. CASE ~(n >= Stage.user)
      BY <1>1, <2>6, <3>1, <3>3
    <3> QED  BY <3>2, <3>3
  <2>9. nr_threads' = Cardinality(Alive')
    BY <1>1, <2>5 DEF SigCounted
  <2> QED  BY <2>4, <2>8, <2>9 DEF SigCounted
\* Only who has an mm makes another user of it
<1>38. \A i \in Ids : cnt'.mm[i] > 0 => cnt.mm[i] > 0 \/ (own /\ i = held.mm)
  <2> SUFFICES ASSUME NEW i \in Ids, cnt'.mm[i] > 0, ~(own /\ i = held.mm)
               PROVE  cnt.mm[i] > 0
    OBVIOUS
  <2>1. "mm" \in Res /\ cnt.mm[i] \in Nat
    BY NotUsed DEF Res
  <2>2. CASE held.mm = i
    <3>1. task[x].res.mm = i
      BY <1>20, <2>2
    <3>2. x \in Users("mm", i)
      BY <1>1, <3>1 DEF Users
    <3>3. cnt.mm[i] # 0
      BY <2>1, <3>2, NotUsed
    <3> QED  BY <2>1, <3>3
  <2>3. CASE held.mm # i
    <3>1. cnt'.mm[i] = cnt.mm[i]
      BY <1>23, <2>1, <2>3
    <3> QED  BY <3>1
  <2> QED  BY <2>2, <2>3
\* Nobody had p for the owner of his mm
<1>39. \A i \in Ids : cnt.mm[i] > 0 => owner[i] # p
  <2> SUFFICES ASSUME NEW i \in Ids, cnt.mm[i] > 0, owner[i] = p PROVE FALSE
    OBVIOUS
  <2>1. task[p].res.mm = i \/ th[p].mm = i
    BY TasksAssumption DEF OwnerUsesMm
  <2>2. i # 0
    BY KindsOfRes
  <2> QED  BY <1>2, <1>3, <2>1, <2>2 DEF Res
<1>40. OwnerUsesMm'
  <2> SUFFICES ASSUME NEW i \in Ids, cnt'.mm[i] > 0
               PROVE  IF owner'[i] = none THEN ~\E t \in Tasks : Live(t)' /\ task'[t].res.mm = i
                      ELSE task'[owner'[i]].res.mm = i \/ th'[owner'[i]].mm = i
    BY DEF OwnerUsesMm
  <2>1. CASE own /\ i = held.mm
    BY <1>18, <1>22, <2>1, TasksAssumption
  <2>2. CASE ~(own /\ i = held.mm)
    <3>1. cnt.mm[i] > 0 /\ owner'[i] = owner[i] /\ owner[i] # p
      BY <1>22, <1>38, <1>39, <2>2
    <3>2. IF owner[i] = none THEN ~\E t \in Tasks : Live(t) /\ task[t].res.mm = i
          ELSE task[owner[i]].res.mm = i \/ th[owner[i]].mm = i
      BY <3>1 DEF OwnerUsesMm
    <3>3. CASE owner[i] = none
      BY <1>17, <1>18, <3>1, <3>2, <3>3
    <3>4. CASE owner[i] # none
      <4>1. owner[i] \in Tasks
        BY <1>1, <3>4 DEF Links
      <4> QED  BY <1>16, <1>17, <3>1, <3>2, <3>4, <4>1
    <3> QED  BY <3>3, <3>4
  <2> QED  BY <2>1, <2>2
<1>41. NewOwners'
  <2>1. \A t \in Tasks \ {p} : task'[t].res.mm = task[t].res.mm
    BY <1>17
  <2>2. OwnMm(x)' <=> own
    BY <1>16, <1>19 DEF OwnMm
  <2>3. ASSUME NEW y \in Tasks, NEW c \in Tasks, Maker(y, c)'
        PROVE  LET i == task'[c].res.mm
               IN IF OwnMm(y)'
                  THEN /\ i \in Ids /\ owner'[i] = c
                       /\ \A t \in Tasks \ {c} : task'[t].res.mm # i /\ th'[t].mm # i
                  ELSE /\ i = task'[y].res.mm
                       /\ \A j \in Ids : cnt'.mm[j] > 0 => owner'[j] # c
    <3>1. CASE c = p
      <4>1. y = x
        BY <1>27, <2>3, <3>1
      <4>2. CASE own
        <5>1. \A t \in Tasks : task[t].res.mm # held.mm /\ th[t].mm # held.mm
          BY <1>20, <4>2, MmCounted
        <5>2. \A t \in Tasks \ {p} : task'[t].res.mm # held.mm /\ th'[t].mm # held.mm
          BY <1>16, <2>1, <5>1
        <5> QED  BY <1>18, <1>20, <1>22, <2>2, <3>1, <4>1, <4>2, <5>2
      <4>3. CASE ~own
        <5>1. \A j \in Ids : cnt'.mm[j] > 0 => owner'[j] # p
          BY <1>22, <1>38, <1>39, <4>3
        <5>2. held.mm = task'[x].res.mm
          BY <1>2, <1>20, <2>1, <4>3
        <5> QED  BY <1>18, <2>2, <3>1, <4>1, <4>3, <5>1, <5>2
      <4> QED  BY <4>2, <4>3
    <3>2. CASE c # p
      <4>1. Maker(y, c) /\ y # x /\ y # p
        BY <1>1, <1>2, <1>27, <2>3, <3>2 DEF Maker
      <4>2. (OwnMm(y)' <=> OwnMm(y)) /\ c # x
        BY <1>1, <1>16, <4>1 DEF OwnMm, Maker, Makers
      <4>3. CASE OwnMm(y)
        <5>1. PICK i \in Ids : /\ i = task[c].res.mm /\ owner[i] = c
                               /\ \A t \in Tasks \ {c} : task[t].res.mm # i /\ th[t].mm # i
          BY <4>1, <4>3 DEF NewOwners
        <5>2. ~(own /\ i = held.mm)
          BY <1>20, <5>1, MmCounted
        <5>3. held.mm # i
          BY <1>20, <4>2, <5>1, <5>2
        <5>4. \A t \in Tasks \ {c} : task'[t].res.mm # i /\ th'[t].mm # i
          BY <1>16, <1>18, <2>1, <5>1, <5>3
        <5> QED  BY <1>22, <2>1, <3>2, <4>2, <4>3, <5>1, <5>2, <5>4
      <4>4. CASE ~OwnMm(y)
        <5>1. task[c].res.mm = task[y].res.mm /\ \A j \in Ids : cnt.mm[j] > 0 => owner[j] # c
          BY <4>1, <4>4 DEF NewOwners
        <5>2. \A j \in Ids : cnt'.mm[j] > 0 => owner'[j] # c
          BY <1>22, <1>38, <3>2, <5>1
        <5> QED  BY <2>1, <3>2, <4>1, <4>2, <4>4, <5>1, <5>2
      <4> QED  BY <4>3, <4>4
    <3> QED  BY <3>1, <3>2
  <2>4. ASSUME NEW y \in Tasks, th'[y].pc = "owner"
        PROVE  th'[y].child \in Tasks /\ th'[th'[y].child].pc \notin {"unused", "new"}
    <3>1. th[y].pc = "owner" /\ th'[y].child = th[y].child
      BY <1>1, <1>15, <1>16, <2>4
    <3>2. PICK c \in Tasks : c = th[y].child /\ th[c].pc \notin {"unused", "new"}
      BY <3>1 DEF NewOwners
    <3> QED  BY <1>2, <1>15, <1>16, <3>1, <3>2
  <2> QED  BY <2>3, <2>4 DEF NewOwners
<1> QED  BY <1>25, <1>26, <1>28, <1>29, <1>31, <1>32, <1>33, <1>34, <1>35, <1>36, <1>37,
            <1>40, <1>41
------------------------------------------------------------------------------
(* The error path of copy_process *)

\* Giving back what the new task had acquired leaves the invariant: the counts
\* of what it shared go down by one, and what was its own is free again.
LEMMA UndoKeeps ==
    ASSUME IInv, NEW x \in Tasks, Undo(x)
    PROVE  IInv'
<1> USE DEF IInv
<1>1. /\ th[x].pc = "undo" /\ UNCHANGED nr_threads
      /\ task \in [Tasks -> TaskRecord] /\ th \in [Tasks -> ThRecord]
      /\ sig \in [Tasks -> SigRecord] /\ cnt \in [Res -> [Ids -> Int]]
      /\ owner \in [Ids -> Links] /\ processes \in Int
      /\ \A t \in Tasks : Sound(t, task[t], th[t])
  BY DEF Undo, Types, Phases
<1>2. PICK p \in Tasks, n \in 0..8, F \in SUBSET CloneFlags :
         p = th[x].child /\ n = th[x].stage /\ F = th[x].kind /\ th[p].pc = "new"
  <2>1. th[x] \in ThRecord
    BY <1>1
  <2>2. th[x].child \in Tasks /\ th[th[x].child].pc = "new"
    BY <1>1 DEF Makers
  <2>3. th[x].stage \in 0..8 /\ th[x].kind \in SUBSET CloneFlags
    BY ONLY <2>1 DEF ThRecord
  <2> QED  BY <2>2, <2>3
<1>3. /\ Blank.leader = none /\ Blank.hashed = FALSE /\ Blank.vfork = none
      /\ Blank.exiting = FALSE /\ Blank.exit_state = "0" /\ Blank.kill = FALSE
      /\ Blank.rcu = FALSE /\ \A r \in Res : Blank.res[r] = 0
  BY DEF Blank, Res
<1>4. PICK b \in TaskRecord : b = Blank
  <2>1. Blank \in TaskRecord
    BY DEF Blank, TaskRecord, Links, Held, Signals, Res
  <2> QED  BY <2>1
<1>5. PICK h \in ThRecord : /\ h = Idle /\ h.pc = "user" /\ h.mm = 0 /\ h.todo = {}
                            /\ h.new.files = 0 /\ h.new.fs = 0
  <2>1. Idle \in ThRecord
    BY DEF Idle, ThRecord, Links, Busy
  <2>2. /\ Idle.pc = "user" /\ Idle.mm = 0 /\ Idle.todo = {}
        /\ Idle.new.files = 0 /\ Idle.new.fs = 0
    BY DEF Idle
  <2> QED  BY <2>1, <2>2
<1>6. /\ x # p /\ x # init /\ p # init /\ th[x].mm = 0 /\ th[p].mm = 0
      /\ th[x].todo = {} /\ th[p].todo = {}
      /\ th[x].new.files = 0 /\ th[x].new.fs = 0 /\ th[p].new.files = 0 /\ th[p].new.fs = 0
      /\ task[p].leader = p /\ ~Live(p) /\ task[p].hashed = FALSE
      /\ task[p].exiting = FALSE /\ task[p].exit_state = "0" /\ task[p].kill = FALSE
  <2>1. Sound(p, task[p], th[p]) /\ Sound(x, task[x], th[x])
    BY <1>1
  <2>2. /\ th[x].mm = 0 /\ th[p].mm = 0
        /\ th[x].new.files = 0 /\ th[x].new.fs = 0 /\ th[p].new.files = 0 /\ th[p].new.fs = 0
        /\ task[p].leader = p /\ ~task[p].hashed /\ ~task[p].exiting
        /\ task[p].exit_state = "0" /\ ~task[p].kill
    BY ONLY <1>1, <1>2, <2>1 DEF Sound, Ending
  <2>3. task[p] \in TaskRecord
    BY <1>1
  <2>4. {task[p].hashed, task[p].exiting, task[p].kill} \subseteq BOOLEAN
    BY ONLY <2>3 DEF TaskRecord
  <2> QED  BY <1>1, <1>2, <2>2, <2>4 DEF Buried, Parents, Live
<1>7. PICK own \in BOOLEAN, led \in BOOLEAN, Got \in SUBSET Res :
          /\ own <=> n >= Stage.mm /\ "VM" \notin F
          /\ led <=> n >= Stage.signal /\ "THREAD" \notin F
          /\ Got = Acquired(n)
  BY DEF Acquired
<1>8. PICK held \in Held : held = task[p].res
  <2>1. task[p] \in TaskRecord
    BY <1>1
  <2>2. task[p].res \in Held
    BY ONLY <2>1 DEF TaskRecord
  <2> QED  BY <2>2
<1> DEFINE s == [nr |-> 0, live |-> 0, cnt |-> 0, exit |-> FALSE, code |-> none]
<1>9. /\ cnt' = [r \in Res |-> IF r \in Got THEN [cnt[r] EXCEPT ![held[r]] = @ - 1]
                                            ELSE cnt[r]]
      /\ owner' = IF n >= Stage.mm /\ cnt'.mm[held.mm] = 0
                  THEN [owner EXCEPT ![held.mm] = none] ELSE owner
      /\ sig' = IF led THEN [sig EXCEPT ![p] = s] ELSE sig
      /\ processes' = processes - (IF n >= Stage.user THEN 1 ELSE 0)
      /\ task' = [task EXCEPT ![p] = b]
      /\ th' = [th EXCEPT ![p].pc = "unused", ![x] = h]
  BY <1>2, <1>4, <1>5, <1>7, <1>8 DEF Undo, Undone
<1> DEFINE g == [th[p] EXCEPT !.pc = "unused"]
<1>10. /\ g \in ThRecord /\ g.pc = "unused" /\ g.child = th[p].child /\ g.kind = th[p].kind
       /\ g.stage = th[p].stage /\ g.mm = th[p].mm /\ g.todo = th[p].todo
       /\ g.opt = th[p].opt /\ g.new = th[p].new
  <2>1. th[p] \in ThRecord
    BY <1>1
  <2> QED  BY ONLY <2>1 DEF ThRecord, Absent
<1>11. th' = [th EXCEPT ![x] = h, ![p] = g]
  BY <1>1, <1>6, <1>9
<1> HIDE DEF g, s
<1>12. /\ task'[p] = b /\ th'[p] = g /\ th'[x] = h
       /\ \A t \in Tasks \ {p} : task'[t] = task[t]
       /\ \A t \in Tasks \ {p, x} : th'[t] = th[t]
       /\ task' \in [Tasks -> TaskRecord] /\ th' \in [Tasks -> ThRecord]
  BY <1>1, <1>6, <1>9, <1>10, <1>11, ZenonT(60)
<1>13. \A t \in Tasks :
          /\ t # x => /\ th'[t].child = th[t].child /\ th'[t].kind = th[t].kind
                      /\ th'[t].stage = th[t].stage /\ th'[t].opt = th[t].opt
          /\ th'[t].mm = th[t].mm /\ th'[t].todo = th[t].todo
          /\ th'[t].new.files = th[t].new.files /\ th'[t].new.fs = th[t].new.fs
          /\ th'[t].pc = IF t = p THEN "unused" ELSE IF t = x THEN "user" ELSE th[t].pc
  BY <1>5, <1>6, <1>10, <1>12, ZenonT(60)
<1>14. \A t \in Tasks :
          /\ t # p => task'[t] = task[t]
          /\ task'[t].leader = IF t = p THEN none ELSE task[t].leader
          /\ task'[t].hashed = task[t].hashed /\ (Live(t)' <=> Live(t))
          /\ task'[t].exit_state = task[t].exit_state
          /\ task'[t].exiting = task[t].exiting /\ task'[t].kill = task[t].kill
          /\ task'[t].vfork \in {task[t].vfork, none}
  BY <1>3, <1>4, <1>6, <1>12 DEF Live
<1>15. /\ \A r \in Res : task'[p].res[r] = 0
       /\ task'[p].res.mm = 0 /\ task'[p].vfork = none
  BY <1>3, <1>4, <1>12 DEF Res
<1>16. /\ cnt' \in [Res -> [Ids -> Int]]
       /\ \A r \in Res : \A i \in Ids :
             cnt'[r][i] = IF r \in Got /\ held[r] = i THEN cnt[r][i] - 1 ELSE cnt[r][i]
  <2>1. \A r \in Res : cnt[r] \in [Ids -> Int]
    BY <1>1
  <2>2. ASSUME NEW r \in Res
        PROVE  /\ cnt'[r] \in [Ids -> Int]
               /\ \A i \in Ids : cnt'[r][i] = IF r \in Got /\ held[r] = i
                                              THEN cnt[r][i] - 1 ELSE cnt[r][i]
    <3>1. cnt'[r] = IF r \in Got THEN [cnt[r] EXCEPT ![held[r]] = @ - 1] ELSE cnt[r]
      BY <1>9
    <3>2. /\ [cnt[r] EXCEPT ![held[r]] = @ - 1] \in [Ids -> Int]
          /\ \A i \in Ids : [cnt[r] EXCEPT ![held[r]] = @ - 1][i]
                            = IF i = held[r] THEN cnt[r][i] - 1 ELSE cnt[r][i]
      BY <2>1, OneLess
    <3> QED  BY <2>1, <3>1, <3>2
  <2>3. cnt' = [r \in Res |-> cnt'[r]]
    BY <1>9
  <2> QED  BY ONLY <2>2, <2>3
<1>17. /\ owner' \in [Ids -> Links]
       /\ \A i \in Ids : cnt'.mm[i] > 0 \/ i # held.mm => owner'[i] = owner[i]
  <2>1. none \in Links
    BY DEF Links
  <2>2. CASE n >= Stage.mm /\ cnt'.mm[held.mm] = 0
    <3>1. owner' = [owner EXCEPT ![held.mm] = none]
      BY <1>9, <2>2
    <3>2. \A i \in Ids : cnt'.mm[i] > 0 => i # held.mm
      BY <2>2
    <3> HIDE DEF IInv
    <3> QED  BY <1>1, <2>1, <3>1, <3>2
  <2>3. CASE ~(n >= Stage.mm /\ cnt'.mm[held.mm] = 0)
    BY <1>1, <1>9, <2>3
  <2> QED  BY <2>2, <2>3
<1>18. /\ sig' \in [Tasks -> SigRecord]
       /\ \A t \in Tasks : IF led /\ t = p
                           THEN /\ sig'[t].nr = 0 /\ sig'[t].live = 0 /\ sig'[t].cnt = 0
                                /\ ~sig'[t].exit
                           ELSE sig'[t] = sig[t]
  <2>1. s \in SigRecord /\ s.nr = 0 /\ s.live = 0 /\ s.cnt = 0 /\ ~s.exit
    BY DEF SigRecord, Links, s
  <2> HIDE DEF IInv
  <2> QED  BY <1>1, <1>9, <2>1
<1>19. Types'
  <2>1. processes' \in Int /\ nr_threads' \in Int
    BY <1>1, <1>9 DEF Types
  <2> QED  BY <1>12, <1>16, <1>17, <1>18, <2>1 DEF Types
<1>20. Phases'
  <2>1. Sound(p, b, g)
    <3>1. b.res.files = 0 /\ b.res.fs = 0 /\ b.res.sighand = 0 /\ b.res.mm = 0
      BY <1>3, <1>4 DEF Res
    <3>2. g.pc = "unused" /\ g.mm = 0 /\ g.new.files = 0 /\ g.new.fs = 0
      BY <1>6, <1>10
    <3> QED  BY ONLY <1>3, <1>4, <3>1, <3>2 DEF Sound, Busy, Ending, Ended, Absent
  <2>2. Sound(x, task[x], h)
    BY <1>1, <1>5 DEF Sound, Busy, Ending, Ended, Absent
  <2> QED  BY <1>1, <1>6, <1>12, <2>1, <2>2 DEF Phases
\* x made p alone, and makes nobody any more
<1>21. /\ \A y, c \in Tasks : Making(y, c)' <=> Making(y, c) /\ y # x
       /\ \A y, c \in Tasks : Maker(y, c)' <=> Maker(y, c) /\ y # x
       /\ \A y \in Tasks : (Making(y, p) <=> y = x) /\ (Maker(y, p) <=> y = x)
       /\ \A c \in Tasks : (Making(x, c) <=> c = p) /\ (Maker(x, c) <=> c = p)
  <2>1. \A c \in Tasks : (Making(x, c) <=> c = p) /\ (Maker(x, c) <=> c = p)
    BY <1>1, <1>2 DEF Making, Maker
  <2>2. \A y \in Tasks : Making(y, p) => y = x
    BY <2>1 DEF Makers
  <2>3. \A y, c \in Tasks : Maker(y, c) => Making(y, c)
    BY DEF Maker, Making
  <2>4. \A y \in Tasks : th'[y].pc \in {"copied", "undo", "publ"} => y # x /\ y # p
    BY <1>6, <1>13
  <2>5. \A y \in Tasks : th[y].pc \in {"copied", "undo", "publ"} => y # p
    BY <1>2
  <2> QED  BY <1>13, <2>1, <2>2, <2>3, <2>4, <2>5 DEF Making, Maker
<1>22. Makers'
  <2>1. ASSUME NEW y \in Tasks, th'[y].pc \in {"copied", "undo", "publ"}
        PROVE  /\ th'[y].child \in Tasks
               /\ th'[th'[y].child].pc = IF th'[y].pc = "publ" THEN "fresh" ELSE "new"
    <3>1. y # x /\ y # p /\ th'[y].pc = th[y].pc /\ th'[y].child = th[y].child
      BY <1>6, <1>13, <2>1
    <3>2. PICK c \in Tasks : c = th[y].child
             /\ th[c].pc = IF th[y].pc = "publ" THEN "fresh" ELSE "new"
      BY <2>1, <3>1 DEF Makers
    <3>3. Making(y, c)
      BY <2>1, <3>1, <3>2 DEF Making
    <3>4. c # p /\ c # x
      BY <1>1, <1>21, <3>1, <3>2, <3>3
    <3> QED  BY <1>13, <3>1, <3>2, <3>4
  <2>2. \A y \in Tasks : th'[y].pc = "copied" => th'[y].stage = 8
    BY <1>13 DEF Makers
  <2>3. \A y, z, c \in Tasks : Making(y, c)' /\ Making(z, c)' => y = z
    BY <1>21 DEF Makers
  <2>4. ASSUME NEW c \in Tasks, th'[c].pc = "new" PROVE \E y \in Tasks : Making(y, c)'
    <3>1. c # p /\ th[c].pc = "new"
      BY <1>13, <2>4
    <3>2. PICK y \in Tasks : Making(y, c)
      BY <3>1 DEF Makers
    <3> QED  BY <1>21, <3>1, <3>2
  <2>5. ASSUME NEW c \in Tasks, task'[c].vfork # none
        PROVE  th'[task'[c].vfork].pc = "vfork" /\ th'[task'[c].vfork].child = c
    <3>1. c # p /\ task'[c].vfork = task[c].vfork /\ task[c].vfork # none
      BY <1>14, <1>15, <2>5
    <3>2. PICK q \in Tasks : q = task[c].vfork
      <4>1. task[c] \in TaskRecord
        BY <1>1
      <4> QED  BY <3>1, <4>1 DEF TaskRecord, Links
    <3>3. th[q].pc = "vfork" /\ th[q].child = c
      BY <3>1, <3>2 DEF Makers
    <3>4. q # x /\ q # p
      BY <1>1, <1>2, <3>3
    <3> QED  BY <1>13, <3>1, <3>2, <3>3, <3>4
  <2> QED  BY <2>1, <2>2, <2>3, <2>4, <2>5 DEF Makers
<1>23. Buried'
  <2>1. \A t \in Tasks : th'[t].pc = th[t].pc \/ th[t].pc \notin {"bury", "self", "reap"}
    BY <1>1, <1>2, <1>13
  <2> QED  BY <1>13, <1>14, <2>1, BuriedFrame DEF Live
<1>24. /\ KeepsTree
       /\ \A t \in Tasks :
             /\ th'[t].pc = "claim" => th[t].pc = "claim" /\ th'[t].child = th[t].child
             /\ th'[t].pc = "asleep" => th[t].pc = "asleep" /\ th'[t].opt = th[t].opt
             /\ th'[t].pc = "owner" => th[t].pc = "owner" /\ th'[t].child = th[t].child
             /\ th'[t].pc \notin Absent => t # p /\ th[t].pc \notin Absent
             /\ th'[t].pc \in Absent \cup {"new"} <=> th[t].pc \in Absent \cup {"new"}
             /\ th'[t].pc \in {"unused", "new"} => th[t].pc \in {"unused", "new"}
             /\ th'[t].pc \in Childless => th[t].pc \in Childless
             /\ th'[t].pc \in Childless => t # x /\ t # p
  BY <1>1, <1>2, <1>6, <1>13, <1>14 DEF KeepsTree, Absent, Childless
<1>25. Groups' /\ Parents' /\ NoZombieLeft' /\ NoneMissed'
  <2>1. /\ th'[init].pc = th[init].pc
        /\ \A t \in Tasks : Live(t) => t # p /\ task'[t] = task[t]
    BY <1>6, <1>13, <1>14, TasksAssumption
  <2>2. Groups'
    <3>1. \A t \in Tasks :
              /\ task'[t].hashed = task[t].hashed
              /\ Live(t) \/ th'[t].pc \notin Absent => task'[t].leader = task[t].leader
              /\ Live(t) /\ task'[t].exit_state = "dead" /\ task[t].leader = t
                    => task[t].exit_state = "dead" \/ Alone(t)
              /\ th'[t].pc = "claim" => th[t].pc = "claim" /\ th'[t].child = th[t].child
              /\ th'[t].pc \notin Absent => th[t].pc \notin Absent
              /\ th'[t].pc \in {"unused", "new"} => th[t].pc \in {"unused", "new"}
      BY <1>14, <1>24, <2>1
    <3> HIDE DEF IInv
    <3> QED  BY <3>1, GroupsFrame DEF IInv
  <2>3. Parents'
    BY <1>24, <2>1, ParentsFrame DEF Parents
  <2>4. NoZombieLeft'
    BY <1>14, <1>24, <2>1, NoZombieFrame DEF Detached
  <2>5. NoneMissed'
    BY <1>14, <1>24, <2>1, MissedFrame
  <2> QED  BY <2>2, <2>3, <2>4, <2>5
<1>26. Killed'
  <2>1. \A t \in Tasks :
              /\ Live(t)' => Live(t) /\ task'[t].leader = task[t].leader /\ task[t].leader \in Tasks
              /\ Live(t)' /\ (task[t].exiting \/ task[t].kill) => task'[t].exiting \/ task'[t].kill
              /\ th'[t].pc \in {"unused", "new"} => th[t].pc \in {"unused", "new"}
              /\ sig'[t].exit => sig[t].exit
    BY <1>6, <1>14, <1>18, <1>24 DEF Groups
  <2> QED  BY <2>1, KilledFrame
<1>27. ASSUME NEW r \in Res, NEW i \in Ids
       PROVE  /\ Users(r, i)' = Users(r, i) \ {p} /\ Copies(r, i)' = Copies(r, i)
              /\ p \in Users(r, i) <=> r \in Got /\ held[r] = i
  <2>1. i # 0
    BY KindsOfRes
  <2>2. p \notin Users(r, i)'
    BY <1>6, <1>13, <1>15, <2>1 DEF Users
  <2>3. p \in Users(r, i) <=> r \in Got /\ held[r] = i
    <3>1. (\E y \in Tasks : /\ th[y].pc \in {"copied", "undo"} /\ th[y].child = p
                            /\ r \in Acquired(th[y].stage)) <=> r \in Got
      <4>1. \A y \in Tasks : th[y].pc \in {"copied", "undo"} /\ th[y].child = p <=> y = x
        BY <1>21 DEF Maker
      <4> QED  BY <1>2, <1>7, <4>1
    <3> QED  BY <1>2, <1>6, <1>8, <2>1, <3>1 DEF Users
  <2>4. ASSUME NEW t \in Tasks \ {p} PROVE t \in Users(r, i)' <=> t \in Users(r, i)
    <3>1. /\ th'[t].mm = th[t].mm /\ task'[t].res = task[t].res
          /\ th'[t].pc = "new" <=> th[t].pc = "new"
      BY <1>1, <1>13, <1>14
    <3>2. (\E y \in Tasks : /\ th'[y].pc \in {"copied", "undo"} /\ th'[y].child = t
                            /\ r \in Acquired(th'[y].stage))
          <=> (\E y \in Tasks : /\ th[y].pc \in {"copied", "undo"} /\ th[y].child = t
                                /\ r \in Acquired(th[y].stage))
      <4>1. \A y \in Tasks : Maker(y, t)' <=> Maker(y, t)
        BY <1>21
      <4>2. \A y \in Tasks : Maker(y, t) => th'[y].stage = th[y].stage
        BY <1>13, <1>21
      <4> QED  BY <4>1, <4>2 DEF Maker
    <3> QED  BY <3>1, <3>2 DEF Users
  <2>5. Copies(r, i)' = Copies(r, i)
    BY <1>13, KindsOfRes DEF Copies
  <2>6. Users(r, i)' \subseteq Tasks /\ Users(r, i) \subseteq Tasks
    BY DEF Users
  <2>7. Users(r, i)' = Users(r, i) \ {p}
    BY ONLY <2>2, <2>4, <2>6
  <2> QED  BY <2>3, <2>5, <2>7
<1>28. SharedCounted'
  <2>1. ASSUME NEW r \in Res, NEW i \in Ids
        PROVE  cnt'[r][i] = Cardinality(Users(r, i)') + Cardinality(Copies(r, i)')
    <3>1. PICK U, V \in SUBSET Tasks, C \in SUBSET Tasks :
             /\ U = Users(r, i) /\ V = Users(r, i)' /\ C = Copies(r, i) /\ C = Copies(r, i)'
             /\ V = U \ {p} /\ (p \in U <=> r \in Got /\ held[r] = i)
      <4>1. /\ Users(r, i) \in SUBSET Tasks /\ Users(r, i)' \in SUBSET Tasks
            /\ Copies(r, i) \in SUBSET Tasks
        BY DEF Users, Copies
      <4> QED  BY <1>27, <4>1
    <3>2. cnt[r][i] = Cardinality(U) + Cardinality(C)
      BY <3>1 DEF SharedCounted
    <3>3. Cardinality(U) \in Nat /\ Cardinality(C) \in Nat
      BY CountType
    <3>4. cnt'[r][i] = IF p \in U THEN cnt[r][i] - 1 ELSE cnt[r][i]
      BY <1>16, <3>1
    <3>5. Cardinality(V) = IF p \in U THEN Cardinality(U) - 1 ELSE Cardinality(U)
      <4>1. CASE p \in U
        BY <3>1, <4>1, CountLess
      <4>2. CASE p \notin U
        <5>1. V = U
          BY <3>1, <4>2
        <5> QED  BY <4>2, <5>1
      <4> QED  BY <4>1, <4>2
    <3>6. cnt'[r][i] = Cardinality(V) + Cardinality(C)
      BY ONLY <3>2, <3>3, <3>4, <3>5
    <3> QED  BY <3>1, <3>6
  <2> QED  BY <2>1 DEF SharedCounted
<1>29. SigCounted'
  <2>1. \A c \in Tasks : c # p => (Led(c)' <=> Led(c)) /\ (Begun(c)' <=> Begun(c))
    <3>1. \A y, c \in Tasks : Maker(y, c) /\ y # x
              => th'[y].stage = th[y].stage /\ th'[y].kind = th[y].kind
      BY <1>13
    <3> QED  BY <1>21, <3>1 DEF Led, Begun
  <2>2. ~Led(p)' /\ ~Begun(p)' /\ (Led(p) <=> led) /\ (Begun(p) <=> n >= Stage.user)
    BY <1>2, <1>7, <1>21 DEF Led, Begun
  <2>3. ASSUME NEW c \in Tasks
        PROVE  IF c = p /\ led
               THEN Listed(c)' = {} /\ Staying(c)' = {} /\ Members(c)' = {}
               ELSE /\ Listed(c)' = Listed(c) /\ Staying(c)' = Staying(c)
                    /\ Members(c)' = Members(c)
    <3>1. PICK A, B, C, D, E, G \in SUBSET Tasks :
             /\ A = Listed(c) /\ B = Listed(c)' /\ C = Staying(c) /\ D = Staying(c)'
             /\ E = Members(c) /\ G = Members(c)'
      BY DEF Listed, Staying, Members
    <3>2. /\ A \subseteq Tasks /\ B \subseteq Tasks /\ C \subseteq Tasks
          /\ D \subseteq Tasks /\ E \subseteq Tasks /\ G \subseteq Tasks
      BY <3>1
    <3>3. \A t \in Tasks \ {p} : /\ t \in A <=> t \in B
                                 /\ t \in C <=> t \in D
                                 /\ t \in E <=> t \in G
      <4>1. \A t \in Tasks \ {p} : t \in Listed(c) <=> t \in Listed(c)'
        BY <1>14, <2>1 DEF Listed
      <4>2. \A t \in Tasks \ {p} : t \in Staying(c) <=> t \in Staying(c)'
        BY <1>14, <4>1 DEF Staying
      <4>3. \A t \in Tasks \ {p} : t \in Members(c) <=> t \in Members(c)'
        BY <1>14, <1>24, <2>1 DEF Members
      <4> QED  BY <3>1, <4>1, <4>2, <4>3
    <3>4. p \notin B /\ p \notin D /\ p \notin G
      <4>1. p \notin Listed(c)'
        BY <1>6, <1>14, <2>2 DEF Listed
      <4>2. p \notin Staying(c)' /\ p \notin Members(c)'
        BY <1>13, <2>2, <4>1 DEF Staying, Members, Absent
      <4> QED  BY <3>1, <4>1, <4>2
    <3>5. (p \in A => c = p /\ led) /\ (p \in C => c = p /\ led) /\ (p \in E => c = p /\ led)
      <4>1. p \in Listed(c) => c = p /\ led
        BY <1>6, <2>2 DEF Listed
      <4>2. p \in Staying(c) => c = p /\ led
        BY <4>1 DEF Staying
      <4>3. p \in Members(c) => c = p /\ led
        BY <1>2, <1>6, <2>2 DEF Members
      <4> QED  BY <3>1, <4>1, <4>2, <4>3
    <3>6. CASE c = p /\ led
      <4>1. A \subseteq {p} /\ C \subseteq {p} /\ E \subseteq {p}
        <5>1. ASSUME NEW t \in Tasks, task[t].leader = p, t # p
              PROVE  ~Live(t) /\ ~Led(t) /\ th[t].pc \in Absent \cup {"new"}
          <6>1. ~Live(t)
            BY <1>6, <5>1 DEF Groups
          <6>2. th[t].pc # "new"
            BY <1>1, <5>1 DEF Sound
          <6>3. ~Led(t)
            BY <6>2 DEF Led, Maker, Makers
          <6>4. th[t].pc \in Absent
            BY <1>2, <5>1 DEF Groups
          <6> QED  BY <6>1, <6>3, <6>4
        <5>2. Listed(p) \subseteq {p} /\ Members(p) \subseteq {p}
          BY <5>1 DEF Listed, Members
        <5>3. Staying(p) \subseteq {p}
          BY <5>2 DEF Staying
        <5> QED  BY <3>1, <3>6, <5>2, <5>3
      <4>2. B = {} /\ D = {} /\ G = {}
        BY ONLY <3>2, <3>3, <3>4, <4>1
      <4> QED  BY <3>1, <3>6, <4>2
    <3>7. CASE ~(c = p /\ led)
      <4>1. p \notin A /\ p \notin C /\ p \notin E
        BY <3>5, <3>7
      <4>2. B = A /\ D = C /\ G = E
        BY ONLY <3>2, <3>3, <3>4, <4>1
      <4> QED  BY <3>1, <3>7, <4>2
    <3> QED  BY <3>6, <3>7
  <2>4. ASSUME NEW c \in Tasks
        PROVE  /\ sig'[c].nr = Cardinality(Listed(c)')
               /\ sig'[c].live = Cardinality(Staying(c)')
               /\ sig'[c].cnt = Cardinality(Members(c)')
    <3>1. /\ sig[c].nr = Cardinality(Listed(c)) /\ sig[c].live = Cardinality(Staying(c))
          /\ sig[c].cnt = Cardinality(Members(c))
      BY DEF SigCounted
    <3>2. CASE c = p /\ led
      <4>1. Cardinality({}) = 0
        BY FS_EmptySet
      <4> QED  BY <1>18, <2>3, <3>2, <4>1
    <3>3. CASE ~(c = p /\ led)
      BY <1>18, <2>3, <3>1, <3>3
    <3> QED  BY <3>2, <3>3
  <2>5. Alive' = Alive
    BY <1>14 DEF Alive
  <2>6. /\ Charged' = Charged \ {p} /\ Charged \in SUBSET Tasks
        /\ p \in Charged <=> n >= Stage.user
    <3>1. \A t \in Tasks \ {p} : t \in Charged' <=> t \in Charged
      BY <1>14, <2>1 DEF Charged
    <3>2. p \notin Charged' /\ (p \in Charged <=> n >= Stage.user)
      BY <1>6, <1>14, <2>2 DEF Charged
    <3>3. Charged \subseteq Tasks /\ Charged' \subseteq Tasks
      BY DEF Charged
    <3>4. Charged' = Charged \ {p}
      BY ONLY <3>1, <3>2, <3>3
    <3> QED  BY <3>2, <3>3, <3>4
  <2>7. processes' = Cardinality(Charged')
    <3>1. processes = Cardinality(Charged)
      BY DEF SigCounted
    <3>2. CASE n >= Stage.user
      <4>1. Cardinality(Charged \ {p}) = Cardinality(Charged) - 1
        BY <2>6, <3>2, CountLess
      <4> QED  BY <1>9, <2>6, <3>1, <3>2, <4>1
    <3>3. CASE ~(n >= Stage.user)
      <4>1. Charged' = Charged
        BY <2>6, <3>3
      <4>2. processes' = processes - 0
        BY <1>9, <3>3
      <4> QED  BY <1>1, <3>1, <4>1, <4>2
    <3> QED  BY <3>2, <3>3
  <2>8. nr_threads' = Cardinality(Alive')
    BY <1>1, <2>5 DEF SigCounted
  <2> QED  BY <2>4, <2>7, <2>8 DEF SigCounted
\* An mm that has a user still has had one before, and its owner is not p
<1>30. \A i \in Ids : cnt'.mm[i] > 0 => cnt.mm[i] > 0 /\ owner'[i] = owner[i]
  <2>1. "mm" \in Res
    BY KindsOfRes
  <2>2. \A i \in Ids : cnt'.mm[i] = cnt.mm[i] \/ cnt'.mm[i] = cnt.mm[i] - 1
    BY <1>16, <2>1
  <2>3. \A i \in Ids : cnt.mm[i] \in Int
    BY <1>1, <2>1
  <2> QED  BY <1>17, <2>2, <2>3
<1>31. \A i \in Ids : cnt'.mm[i] > 0 => owner[i] # p
  <2> SUFFICES ASSUME NEW i \in Ids, cnt'.mm[i] > 0, owner[i] = p PROVE FALSE
    OBVIOUS
  <2>1. cnt.mm[i] > 0 /\ i # 0 /\ "mm" \in Res
    BY <1>30, KindsOfRes
  <2>2. held.mm = i
    <3>1. p # none
      BY TasksAssumption
    <3>2. task[p].res.mm = i \/ th[p].mm = i
      BY <2>1, <3>1 DEF OwnerUsesMm
    <3> QED  BY <1>6, <1>8, <2>1, <3>2
  <2>3. Maker(x, p) /\ (OwnMm(x) <=> own)
    BY <1>2, <1>7, <1>21 DEF OwnMm
  <2>4. own
    BY <2>1, <2>3 DEF NewOwners
  <2>5. \A t \in Tasks \ {p} : task[t].res.mm # i /\ th[t].mm # i
    BY <1>8, <2>2, <2>3, <2>4 DEF NewOwners
  <2>6. Users("mm", i) \subseteq {p}
    BY <2>5 DEF Users
  <2>7. Users("mm", i)' = {} /\ Copies("mm", i)' = {}
    BY <1>27, <2>1, <2>6 DEF Copies
  <2>8. cnt'.mm[i] = 0
    <3>1. cnt'["mm"][i] = Cardinality(Users("mm", i)') + Cardinality(Copies("mm", i)')
      BY <1>28, <2>1 DEF SharedCounted
    <3>2. Cardinality({}) = 0
      BY FS_EmptySet
    <3>3. cnt'["mm"][i] = 0 + 0
      BY <2>7, <3>1, <3>2
    <3> QED  BY <3>3
  <2> QED  BY <2>8
<1>32. OwnerUsesMm'
  <2> SUFFICES ASSUME NEW i \in Ids, cnt'.mm[i] > 0
               PROVE  IF owner'[i] = none THEN ~\E t \in Tasks : Live(t)' /\ task'[t].res.mm = i
                      ELSE task'[owner'[i]].res.mm = i \/ th'[owner'[i]].mm = i
    BY DEF OwnerUsesMm
  <2>1. cnt.mm[i] > 0 /\ owner'[i] = owner[i] /\ owner[i] # p
    BY <1>30, <1>31
  <2>2. IF owner[i] = none THEN ~\E t \in Tasks : Live(t) /\ task[t].res.mm = i
        ELSE task[owner[i]].res.mm = i \/ th[owner[i]].mm = i
    BY <2>1 DEF OwnerUsesMm
  <2>3. CASE owner[i] = none
    BY <1>6, <1>14, <2>1, <2>2, <2>3
  <2>4. CASE owner[i] # none
    <3>1. owner[i] \in Tasks
      BY <1>1, <2>4 DEF Links
    <3> QED  BY <1>13, <1>14, <2>1, <2>2, <2>4, <3>1
  <2> QED  BY <2>3, <2>4
<1>33. NewOwners'
  <2>1. ASSUME NEW y \in Tasks, NEW c \in Tasks, Maker(y, c)'
        PROVE  LET i == task'[c].res.mm
               IN IF OwnMm(y)'
                  THEN /\ i \in Ids /\ owner'[i] = c
                       /\ \A t \in Tasks \ {c} : task'[t].res.mm # i /\ th'[t].mm # i
                  ELSE /\ i = task'[y].res.mm
                       /\ \A j \in Ids : cnt'.mm[j] > 0 => owner'[j] # c
    <3>1. Maker(y, c) /\ y # x /\ c # p
      BY <1>21, <2>1
    <3>2. y # p
      BY <1>2, <3>1 DEF Maker
    <3>3. OwnMm(y)' <=> OwnMm(y)
      BY <1>13, <3>1 DEF OwnMm
    <3>4. CASE OwnMm(y)
      <4>1. PICK i \in Ids : /\ i = task[c].res.mm /\ owner[i] = c
                             /\ \A t \in Tasks \ {c} : task[t].res.mm # i /\ th[t].mm # i
        BY <3>1, <3>4 DEF NewOwners
      <4>2. held.mm # i
        BY <1>8, <3>1, <4>1
      <4>3. owner'[i] = c /\ task'[c].res.mm = i
        BY <1>14, <1>17, <3>1, <4>1, <4>2
      <4>4. i # 0
        BY KindsOfRes
      <4>5. \A t \in Tasks \ {c} : task'[t].res.mm # i /\ th'[t].mm # i
        BY <1>13, <1>14, <1>15, <4>1, <4>4
      <4> QED  BY <3>3, <3>4, <4>3, <4>5
    <3>5. CASE ~OwnMm(y)
      <4>1. task[c].res.mm = task[y].res.mm /\ \A j \in Ids : cnt.mm[j] > 0 => owner[j] # c
        BY <3>1, <3>5 DEF NewOwners
      <4>2. \A j \in Ids : cnt'.mm[j] > 0 => owner'[j] # c
        BY <1>30, <4>1
      <4> QED  BY <1>14, <3>1, <3>2, <3>3, <3>5, <4>1, <4>2
    <3> QED  BY <3>4, <3>5
  <2>2. ASSUME NEW y \in Tasks, th'[y].pc = "owner"
        PROVE  th'[y].child \in Tasks /\ th'[th'[y].child].pc \notin {"unused", "new"}
    <3>1. th[y].pc = "owner" /\ th'[y].child = th[y].child
      BY <1>24, <2>2
    <3>2. PICK c \in Tasks : c = th[y].child /\ th[c].pc \notin {"unused", "new"}
      BY <3>1 DEF NewOwners
    <3> QED  BY <1>2, <1>13, <3>1, <3>2
  <2> QED  BY <2>1, <2>2 DEF NewOwners
<1> QED  BY <1>19, <1>20, <1>22, <1>23, <1>25, <1>26, <1>28, <1>29, <1>32, <1>33
------------------------------------------------------------------------------
(* Theorems *)

\* In the beginning init and first have everything to themselves.
LEMMA InitIInv == Init => IInv
<1> SUFFICES ASSUME Init PROVE IInv
  OBVIOUS
<1>1. init \in Tasks /\ first \in Tasks /\ init # first /\ none \notin Tasks
  BY TasksAssumption
<1>2. 1 \in Ids /\ 2 \in Ids /\ Ids \subseteq Nat \ {0}
  <2>1. {init, first} \subseteq Tasks /\ IsFiniteSet(Tasks)
    BY TasksAssumption
  <2>2. Cardinality(Tasks) \in Nat /\ Cardinality({init, first}) \in Nat
        /\ Cardinality({init, first}) <= Cardinality(Tasks)
    BY <2>1, FS_Subset, FS_CardinalityType
  <2>3. Cardinality({init, first}) = 2
    <3>1. {init, first} = {init} \cup {first}
      OBVIOUS
    <3>2. Cardinality({init}) = 1 /\ IsFiniteSet({init})
      BY FS_Singleton
    <3>3. first \notin {init}
      BY <1>1
    <3> QED  BY <3>1, <3>2, <3>3, FS_AddElement
  <2> QED  BY <2>2, <2>3 DEF Ids
<1> DEFINE S == {init, first}
\* The two tasks there are, and the others
<1>3. \A x \in Tasks :
         /\ x \in S => /\ task[x].leader = x /\ task[x].real_parent = init
                       /\ task[x].usage = 2 /\ task[x].hashed = TRUE
                       /\ \A r \in Res : task[x].res[r] = IF x = init THEN 1 ELSE 2
                       /\ th[x].pc = "user"
         /\ x \notin S => /\ task[x] = Blank /\ task[x].hashed = FALSE
                          /\ task[x].leader = none
                          /\ \A r \in Res : task[x].res[r] = 0
                          /\ th[x].pc = "unused"
         /\ task[x].exit_signal = "SIGCHLD" /\ task[x].exit_state = "0"
         /\ task[x].exiting = FALSE /\ task[x].kill = FALSE /\ task[x].rcu = FALSE
         /\ task[x].vfork = none
         /\ th[x].mm = 0 /\ th[x].todo = {} /\ th[x].new.files = 0 /\ th[x].new.fs = 0
  <2> SUFFICES ASSUME NEW x \in Tasks
               PROVE  /\ x \in S =>
                            /\ task[x].leader = x /\ task[x].real_parent = init
                            /\ task[x].usage = 2 /\ task[x].hashed = TRUE
                            /\ \A r \in Res : task[x].res[r] = IF x = init THEN 1 ELSE 2
                            /\ th[x].pc = "user"
                      /\ x \notin S => /\ task[x] = Blank /\ task[x].hashed = FALSE
                                       /\ task[x].leader = none
                                       /\ \A r \in Res : task[x].res[r] = 0
                                       /\ th[x].pc = "unused"
                      /\ task[x].exit_signal = "SIGCHLD" /\ task[x].exit_state = "0"
                      /\ task[x].exiting = FALSE /\ task[x].kill = FALSE
                      /\ task[x].rcu = FALSE /\ task[x].vfork = none
                      /\ th[x].mm = 0 /\ th[x].todo = {} /\ th[x].new.files = 0
                      /\ th[x].new.fs = 0
    OBVIOUS
  <2>1. task[x] = IF x \in S THEN [Blank EXCEPT !.leader = x, !.real_parent = init,
                                                !.usage = 2, !.hashed = TRUE,
                                                !.res = [r \in Res |-> IF x = init THEN 1 ELSE 2]]
                  ELSE Blank
    BY DEF Init
  <2>2. th[x] = IF x \in S THEN Idle ELSE [Idle EXCEPT !.pc = "unused"]
    BY DEF Init
  <2>3. CASE x \in S
    <3>1. /\ task[x] = [Blank EXCEPT !.leader = x, !.real_parent = init, !.usage = 2,
                                     !.hashed = TRUE,
                                     !.res = [r \in Res |-> IF x = init THEN 1 ELSE 2]]
          /\ th[x] = Idle
      BY <2>1, <2>2, <2>3
    <3> QED  BY <2>3, <3>1 DEF Blank, Idle
  <2>4. CASE x \notin S
    <3>1. task[x] = Blank /\ th[x] = [Idle EXCEPT !.pc = "unused"]
      BY <2>1, <2>2, <2>4
    <3> QED  BY <2>4, <3>1 DEF Blank, Idle
  <2> QED  BY <2>3, <2>4
<1>4. \A x \in Tasks : Live(x) <=> x \in S
  BY <1>3 DEF Live
<1>5. \A x, c \in Tasks : ~Making(x, c) /\ ~Maker(x, c) /\ ~Led(c) /\ ~Begun(c)
  BY <1>3 DEF Making, Maker, Led, Begun
<1>6. Types
  <2>1. ASSUME NEW x \in Tasks PROVE task[x] \in TaskRecord /\ th[x] \in ThRecord
    <3>1. Blank \in TaskRecord /\ Idle \in ThRecord
      BY DEF Blank, Idle, TaskRecord, ThRecord, Links, Held, Signals, Res, Busy
    <3>2. PICK held \in Held : held = [r \in Res |-> IF x = init THEN 1 ELSE 2]
      BY <1>2 DEF Held
    <3>3. PICK u \in 0..2 : u = 2
      OBVIOUS
    <3>4. x \in Links /\ init \in Links
      BY <1>1 DEF Links
    <3>5. [Blank EXCEPT !.leader = x, !.real_parent = init, !.usage = u, !.hashed = TRUE,
                        !.res = held] \in TaskRecord
      BY ONLY <3>1, <3>4, held \in Held, u \in 0..2 DEF TaskRecord
    <3>6. [Idle EXCEPT !.pc = "unused"] \in ThRecord
      BY ONLY <3>1 DEF ThRecord, Absent
    <3> QED  BY <3>1, <3>2, <3>3, <3>5, <3>6 DEF Init
  <2>2. ASSUME NEW x \in Tasks PROVE sig[x] \in SigRecord
    <3>1. PICK m \in Int : sig[x] = [nr |-> m, live |-> m, cnt |-> m, exit |-> FALSE,
                                     code |-> none]
      <4>1. sig = [t \in Tasks |-> LET m == IF t \in {init, first} THEN 1 ELSE 0
                                   IN [nr |-> m, live |-> m, cnt |-> m, exit |-> FALSE,
                                       code |-> none]]
        BY DEF Init
      <4>2. (IF x \in {init, first} THEN 1 ELSE 0) \in Int
        OBVIOUS
      <4> QED  BY <4>1, <4>2
    <3> QED  BY ONLY <3>1, m \in Int DEF SigRecord, Links
  <2>3. cnt \in [Res -> [Ids -> Int]]
    <3>1. cnt = [r \in Res |-> [i \in Ids |-> IF i \in {1, 2} THEN 1 ELSE 0]]
      BY DEF Init
    <3> QED  BY ONLY <3>1
  <2>4. owner \in [Ids -> Links]
    BY <1>1 DEF Init, Links
  <2>5. /\ task = [x \in Tasks |-> task[x]] /\ th = [x \in Tasks |-> th[x]]
        /\ sig = [x \in Tasks |-> sig[x]]
    BY DEF Init
  <2>6. task \in [Tasks -> TaskRecord] /\ th \in [Tasks -> ThRecord] /\ sig \in [Tasks -> SigRecord]
    BY ONLY <2>1, <2>2, <2>5
  <2>7. processes = 2 /\ nr_threads = 2
    BY DEF Init
  <2> QED  BY <2>3, <2>4, <2>6, <2>7 DEF Types
<1>7. Phases
  <2> SUFFICES ASSUME NEW t \in Tasks PROVE Sound(t, task[t], th[t])
    BY DEF Phases
  <2>1. CASE t \in S
    BY <1>3, <2>1 DEF Sound, Busy, Ending, Ended, Absent
  <2>2. CASE t \notin S
    <3>1. /\ task[t].res.files = 0 /\ task[t].res.fs = 0 /\ task[t].res.mm = 0
          /\ task[t].res.sighand = 0
      BY <1>3, <2>2 DEF Res
    <3> QED  BY <1>3, <2>2, <3>1 DEF Sound, Busy, Ending, Ended, Absent
  <2> QED  BY <2>1, <2>2
<1>8. Makers /\ Buried /\ Groups /\ Parents /\ NoZombieLeft
  <2>1. Makers
    BY <1>3, <1>5 DEF Makers
  <2>2. Buried
    BY <1>3 DEF Buried
  <2>3. Groups
    BY <1>1, <1>3, <1>4 DEF Groups, Absent
  <2>4. Parents
    BY <1>1, <1>3, <1>4 DEF Parents, Childless
  <2>5. NoZombieLeft
    BY <1>3 DEF NoZombieLeft
  <2> QED  BY <2>1, <2>2, <2>3, <2>4, <2>5
<1>9. Killed /\ NewOwners /\ NoneMissed
  <2>1. \A x \in Tasks : ~sig[x].exit
    BY DEF Init
  <2>2. Killed
    BY <1>1, <1>3, <1>4, <2>1 DEF Killed, NoneEscapes
  <2>3. NewOwners
    BY <1>3, <1>5 DEF NewOwners
  <2>4. NoneMissed
    BY <1>3 DEF NoneMissed, Missed
  <2> QED  BY <2>2, <2>3, <2>4
<1>10. SharedCounted
  <2> SUFFICES ASSUME NEW r \in Res, NEW i \in Ids
               PROVE  cnt[r][i] = Cardinality(Users(r, i)) + Cardinality(Copies(r, i))
    BY DEF SharedCounted
  <2>1. i # 0
    BY <1>2
  <2>2. Copies(r, i) = {}
    BY <1>3, <2>1, KindsOfRes DEF Copies
  <2>3. \A x \in Tasks : x \in Users(r, i) <=> task[x].res[r] = i
    BY <1>3, <2>1 DEF Users
  <2>4. \A x \in Tasks : task[x].res[r] = IF x = init THEN 1 ELSE IF x = first THEN 2 ELSE 0
    BY <1>1, <1>3
  <2>5. Users(r, i) = IF i = 1 THEN {init} ELSE IF i = 2 THEN {first} ELSE {}
    <3>1. Users(r, i) \subseteq Tasks
      BY DEF Users
    <3> QED  BY <1>1, <2>1, <2>3, <2>4, <3>1
  <2>6. cnt[r][i] = IF i \in {1, 2} THEN 1 ELSE 0
    BY DEF Init
  <2>7. Cardinality({}) = 0 /\ Cardinality({init}) = 1 /\ Cardinality({first}) = 1
    BY FS_EmptySet, FS_Singleton
  <2> QED  BY <2>2, <2>5, <2>6, <2>7
<1>11. SigCounted
  <2>1. ASSUME NEW l \in Tasks
        PROVE  /\ Listed(l) = IF l \in S THEN {l} ELSE {}
               /\ Staying(l) = IF l \in S THEN {l} ELSE {}
               /\ Members(l) = IF l \in S THEN {l} ELSE {}
    <3>1. Listed(l) = IF l \in S THEN {l} ELSE {}
      BY <1>1, <1>3, <1>4, <1>5 DEF Listed
    <3>2. Staying(l) = Listed(l)
      BY <1>3 DEF Staying, Listed
    <3>3. Members(l) = IF l \in S THEN {l} ELSE {}
      BY <1>1, <1>3, <1>5 DEF Members, Absent
    <3> QED  BY <3>1, <3>2, <3>3
  <2>2. \A l \in Tasks : LET n == IF l \in S THEN 1 ELSE 0
                         IN sig[l].nr = n /\ sig[l].live = n /\ sig[l].cnt = n
    BY DEF Init
  <2>3. Cardinality({}) = 0 /\ \A l \in Tasks : Cardinality({l}) = 1
    BY FS_EmptySet, FS_Singleton
  <2>4. Charged = S /\ Alive = S
    BY <1>1, <1>4, <1>5 DEF Charged, Alive
  <2>5. Cardinality(S) = 2
    <3>1. S = {init} \cup {first} /\ first \notin {init}
      BY <1>1
    <3>2. Cardinality({init}) = 1 /\ IsFiniteSet({init})
      BY FS_Singleton
    <3> HIDE DEF S
    <3> QED  BY <3>1, <3>2, FS_AddElement
  <2>6. \A l \in Tasks : /\ sig[l].nr = Cardinality(Listed(l))
                         /\ sig[l].live = Cardinality(Staying(l))
                         /\ sig[l].cnt = Cardinality(Members(l))
    BY <2>1, <2>2, <2>3
  <2>7. processes = 2 /\ nr_threads = 2
    BY DEF Init
  <2> QED  BY <2>4, <2>5, <2>6, <2>7 DEF SigCounted
<1>12. OwnerUsesMm
  <2> SUFFICES ASSUME NEW i \in Ids, cnt.mm[i] > 0
               PROVE  IF owner[i] = none THEN ~\E x \in Tasks : Live(x) /\ task[x].res.mm = i
                      ELSE task[owner[i]].res.mm = i \/ th[owner[i]].mm = i
    BY DEF OwnerUsesMm
  <2>1. i \in {1, 2}
    <3>1. cnt = [r \in Res |-> [j \in Ids |-> IF j \in {1, 2} THEN 1 ELSE 0]]
      BY DEF Init
    <3>2. cnt["mm"][i] = IF i \in {1, 2} THEN 1 ELSE 0
      BY ONLY <3>1, KindsOfRes
    <3>3. cnt["mm"][i] > 0
      OBVIOUS
    <3> QED  BY ONLY <3>2, <3>3
  <2>2. owner[i] = IF i = 1 THEN init ELSE first
    BY <2>1 DEF Init
  <2>3. task[init].res.mm = 1 /\ task[first].res.mm = 2
    BY <1>1, <1>3, KindsOfRes
  <2> QED  BY <1>1, <2>1, <2>2, <2>3
<1> QED  BY <1>6, <1>7, <1>8, <1>9, <1>10, <1>11, <1>12 DEF IInv

\* Every step keeps the invariant.
LEMMA NextIInv == IInv /\ [Next]_vars => IInv'
<1> SUFFICES ASSUME IInv, [Next]_vars PROVE IInv'
  OBVIOUS
<1>1. ASSUME NEW x \in Tasks, NEW p \in Tasks, NEW kind \in Kinds, NEW n \in Fails \cup {8},
             Copy(x, p, kind, n)
      PROVE  IInv'
  <2>1. n \in 0..8
    BY TasksAssumption
  <2> QED  BY <1>1, <2>1, CopyKeeps
<1>2. ASSUME NEW u \in Unshares, UnshareCopy(u[1], u[2]) PROVE IInv'
  <2>1. u[1] \in Tasks /\ u[2] \in SUBSET {"files", "fs"}
    BY TasksAssumption
  <2> QED  BY <1>2, <2>1, UnshareCopyKeeps
<1>3. ASSUME NEW x \in Tasks, Kernel(x) PROVE IInv'
  <2>1. CASE Undo(x)
    BY <2>1, UndoKeeps
  <2>2. CASE Publish(x)
    BY <2>2, PublishKeeps
  <2>3. CASE Wake(x)
    BY <2>3, WakeKeeps
  <2>4. CASE ClearMcc(x)
    BY <2>4, ClearMccKeeps
  <2>5. CASE UnshareSwap(x)
    BY <2>5, UnshareSwapKeeps
  <2>6. CASE Zap(x)
    BY <2>6, ZapKeeps
  <2>7. CASE ExitMm(x)
    BY <2>7, ExitMmKeeps
  <2>8. CASE FindOwner(x)
    BY <2>8, FindOwnerKeeps
  <2>9. CASE SetOwner(x)
    BY <2>9, SetOwnerKeeps
  <2>10. CASE Forget(x)
    BY <2>10, ForgetKeeps
  <2>11. CASE Notify(x)
    BY <2>11, NotifyKeeps
  <2>12. CASE Release(x)
    BY <2>12, ReleaseKeeps
  <2>13. CASE Last(x)
    BY <2>13, LastKeeps
  <2>14. CASE Scan(x)
    BY <2>14, ScanKeeps
  <2>15. CASE Claim(x)
    BY <2>15, ClaimKeeps
  <2> QED  BY <1>3, <2>1, <2>2, <2>3, <2>4, <2>5, <2>6, <2>7, <2>8, <2>9, <2>10, <2>11,
              <2>12, <2>13, <2>14, <2>15 DEF Kernel
<1>4. ASSUME NEW x \in Tasks, SysExit(x) PROVE IInv'
  BY <1>4, SysExitKeeps
<1>5. ASSUME NEW x \in Tasks, GroupExit(x) PROVE IInv'
  BY <1>5, GroupExitKeeps
<1>6. ASSUME NEW x \in Tasks, NEW opt \in Opts, Wait(x, opt) PROVE IInv'
  BY <1>6, WaitKeeps
<1>7. ASSUME NEW p \in Tasks, Rcu(p) PROVE IInv'
  BY <1>7, RcuKeeps
<1>8. CASE UNCHANGED vars
  <2>1. UNCHANGED <<task, th, sig, cnt, owner, processes, nr_threads>>
    BY <1>8 DEF vars
  <2>2. Types' /\ Phases' /\ Makers' /\ Buried' /\ Groups' /\ Parents'
    BY <2>1 DEF IInv, Types, Phases, Makers, Making, Buried, Live, Groups, Alone, Parents
  <2>3. NoZombieLeft' /\ Killed' /\ OwnerUsesMm'
    BY <2>1 DEF IInv, NoZombieLeft, Live, Alone, Detached, Killed, NoneEscapes, OwnerUsesMm
  <2>4. SharedCounted'
    BY <2>1 DEF IInv, SharedCounted, Users, Copies
  <2>5. SigCounted'
    <3>1. \A c \in Tasks : (Led(c)' <=> Led(c)) /\ (Begun(c)' <=> Begun(c))
      BY <2>1 DEF Led, Begun, Maker
    <3>2. \A l \in Tasks : Listed(l)' = Listed(l)
      BY <2>1, <3>1 DEF Listed, Live
    <3>3. \A l \in Tasks : Staying(l)' = Staying(l) /\ Members(l)' = Members(l)
      BY <2>1, <3>1, <3>2 DEF Staying, Members
    <3>4. Charged' = Charged /\ Alive' = Alive
      BY <2>1, <3>1 DEF Charged, Alive, Live
    <3>5. SigCounted
      BY DEF IInv
    <3> QED  BY ONLY <2>1, <3>2, <3>3, <3>4, <3>5 DEF SigCounted
  <2>6. NewOwners'
    BY <2>1 DEF IInv, NewOwners, Maker, OwnMm
  <2>7. NoneMissed'
    BY <2>1 DEF IInv, NoneMissed, Missed, Live, Alone, SameGroup, EligibleChild, EligiblePid
  <2> QED  BY <2>2, <2>3, <2>4, <2>5, <2>6, <2>7 DEF IInv
<1> QED  BY <1>1, <1>2, <1>3, <1>4, <1>5, <1>6, <1>7, <1>8 DEF Next

\* In every reachable state the invariant holds.
LEMMA IInvHolds == Spec => []IInv
BY InitIInv, NextIInv, PTL DEF Spec

\* Every structure tasks share is counted once for each of them, however their
\* clones fail (copy_process), their unshares and their exits (exit_mm, exit_files,
\* exit_fs, exit_sighand) interleave.
THEOREM SharedTheorem == Spec => []SharedCounted
<1>1. IInv => SharedCounted
  BY DEF IInv
<1> QED  BY <1>1, IInvHolds, PTL

\* The owner of an address space uses it or is about to leave it, and an address
\* space without an owner has no live user (mm_update_next_owner).
THEOREM OwnerTheorem == Spec => []OwnerUsesMm
<1>1. IInv => OwnerUsesMm
  BY DEF IInv
<1> QED  BY <1>1, IInvHolds, PTL

\* What the counts count is finite, so that none of them is negative.
LEMMA TypesSound == IInv => TypeOK
<1> SUFFICES ASSUME IInv PROVE TypeOK
  OBVIOUS
<1> USE DEF IInv
<1>1. ASSUME NEW x \in Tasks
      PROVE  /\ task[x] \in TaskRecord /\ th[x] \in ThRecord /\ sig[x] \in SigRecord
             /\ sig[x].nr \in Nat /\ sig[x].live \in Nat /\ sig[x].cnt \in Nat
  <2>1. /\ Listed(x) \in SUBSET Tasks /\ Staying(x) \in SUBSET Tasks
        /\ Members(x) \in SUBSET Tasks
    BY DEF Listed, Staying, Members
  <2>2. /\ Cardinality(Listed(x)) \in Nat /\ Cardinality(Staying(x)) \in Nat
        /\ Cardinality(Members(x)) \in Nat
    BY <2>1, CountType
  <2>3. /\ sig[x].nr = Cardinality(Listed(x)) /\ sig[x].live = Cardinality(Staying(x))
        /\ sig[x].cnt = Cardinality(Members(x))
    BY DEF SigCounted
  <2>4. task[x] \in TaskRecord /\ th[x] \in ThRecord /\ sig[x] \in SigRecord
    BY DEF Types
  <2> QED  BY <2>2, <2>3, <2>4
<1>2. ASSUME NEW x \in Tasks
      PROVE  /\ task[x].leader \in Tasks \cup {none}
             /\ task[x].real_parent \in Tasks \cup {none}
             /\ task[x].exit_signal \in Signals
             /\ task[x].exit_state \in {"0", "zombie", "dead"}
             /\ {task[x].exiting, task[x].kill, task[x].hashed, task[x].rcu} \subseteq BOOLEAN
             /\ task[x].usage \in 0..2 /\ task[x].vfork \in Tasks \cup {none}
             /\ task[x].res \in Held
  BY ONLY <1>1, x \in Tasks DEF TaskRecord, Links
<1>3. ASSUME NEW x \in Tasks
      PROVE  /\ th[x].todo \subseteq Tasks /\ th[x].child \in Tasks \cup {none}
             /\ sig[x].exit \in BOOLEAN /\ sig[x].code \in Tasks \cup {none}
  BY ONLY <1>1, x \in Tasks DEF ThRecord, SigRecord, Links
<1>4. cnt \in [Res -> [Ids -> Nat]]
  <2>1. \A r \in Res : \A i \in Ids : cnt[r][i] \in Nat
    BY NotUsed
  <2>2. cnt \in [Res -> [Ids -> Int]]
    BY DEF Types
  <2> QED  BY ONLY <2>1, <2>2
<1>5. owner \in [Ids -> Tasks \cup {none}]
  BY DEF Types, Links
<1>6. processes \in Nat /\ nr_threads \in Nat
  <2>1. Charged \in SUBSET Tasks /\ Alive \in SUBSET Tasks
    BY DEF Charged, Alive
  <2>2. Cardinality(Charged) \in Nat /\ Cardinality(Alive) \in Nat
    BY <2>1, CountType
  <2> QED  BY <2>2 DEF SigCounted
<1>7. \A x \in Tasks : \A r \in Res : task[x].res[r] \in Ids \cup {0}
  BY <1>2 DEF Held
<1> QED  BY <1>1, <1>2, <1>3, <1>4, <1>5, <1>6, <1>7 DEF TypeOK

\* Who has not died has a parent that can still bury him, only one task buries him,
\* and leaders go last (forget_original_parent, wait_task_zombie, release_task).
THEOREM BurialTheorem == Spec => []BurialSound
<1>1. ASSUME IInv PROVE BurialSound
  <2> USE <1>1 DEF IInv
  <2>1. TypeOK
    BY TypesSound
  <2>2. ParentsAlive
    <3> SUFFICES ASSUME NEW p \in Tasks, Live(p)
                 PROVE  LET q == task[task[p].leader].real_parent
                        IN /\ Live(q)
                           /\ th[q].pc \notin {"notify", "self", "bury", "last", "gone", "freed"}
      BY DEF ParentsAlive
    <3>1. PICK q \in Tasks : /\ q = task[p].real_parent
                             /\ q = task[task[p].leader].real_parent
                             /\ Live(q) /\ th[q].pc \notin Childless
      BY DEF Parents
    <3> QED  BY <3>1 DEF Childless
  <2>3. BuriedOnce
    <3>1. ASSUME NEW p \in Tasks, NEW S, S = {x \in Tasks : p \in th[x].todo}
          PROVE  Cardinality(S) <= 1 /\ (S # {} => Live(p) /\ task[p].exit_state = "dead")
      <4>1. CASE S = {}
        BY <4>1, FS_EmptySet
      <4>2. CASE S # {}
        <5>1. PICK x \in Tasks : p \in th[x].todo
          BY <3>1, <4>2
        <5>2. S = {x}
          BY <3>1, <5>1 DEF Buried
        <5>3. Cardinality({x}) = 1
          BY FS_Singleton
        <5>4. Live(p) /\ task[p].exit_state = "dead"
          BY <5>1 DEF Buried
        <5> QED  BY <5>2, <5>3, <5>4
      <4> QED  BY <4>1, <4>2
    <3> QED  BY <3>1 DEF BuriedOnce
  <2>4. LeaderLast
    BY DEF LeaderLast, Groups
  <2> QED  BY <2>1, <2>2, <2>3, <2>4 DEF BurialSound
<1> QED  BY <1>1, IInvHolds, PTL

\* Nobody sleeps in wait4 while a child of his group that he waits for is dead and
\* unreaped (do_wait, do_notify_parent).
THEOREM WaitTheorem == Spec => []NoMissedChild
<1>1. ASSUME IInv PROVE NoMissedChild
  <2> SUFFICES ASSUME NEW x \in Tasks, th[x].pc = "asleep", ~th[x].opt.nothread,
                      NEW p \in Waited(x), EligibleChild(x, p), Reapable(p)
               PROVE  FALSE
    BY DEF NoMissedChild
  <2>1. PICK y \in Group(task[x].leader) : p \in Children(y)
    BY DEF Waited
  <2>2. y \in Tasks /\ Live(y) /\ SameGroup(y, x)
    BY <2>1 DEF Group, SameGroup
  <2>3. p \in Tasks /\ p # init /\ Live(p) /\ task[p].leader = p /\ task[p].real_parent = y
    BY <2>1 DEF Children
  <2>4. task[p].exit_state = "zombie" /\ Alone(p)
    BY DEF Reapable, GroupEmpty, Group, Alone
  <2>5. Missed(x, p)
    BY <2>2, <2>3, <2>4 DEF Missed
  <2> QED  BY <1>1, <2>3, <2>5 DEF IInv, NoneMissed
<1> QED  BY <1>1, IInvHolds, PTL

\* A thread that is being cloned while its group is told to exit does not escape
\* (the check for a pending signal in copy_process), and what exit code the group
\* has is decided once (do_group_exit).
THEOREM GroupExitTheorem == Spec => []NoneEscapes /\ CodeDecidedOnce
<1>1. IInv => NoneEscapes
  BY DEF IInv, Killed
<1>2. ASSUME IInv, [Next]_vars
      PROVE  \A l \in Tasks : sig[l].exit /\ sig'[l].exit => sig'[l].code = sig[l].code
  <2> SUFFICES ASSUME NEW l \in Tasks, sig[l].exit, sig'[l].exit
               PROVE  sig'[l].code = sig[l].code
    OBVIOUS
  <2>1. sig \in [Tasks -> SigRecord]
    BY <1>2 DEF IInv, Types
  <2>2. ASSUME NEW x \in Tasks, Exit(x) PROVE sig'[l].code = sig[l].code
    BY <2>1, <2>2 DEF Exit, SigRecord
  <2>3. ASSUME NEW x \in Tasks, NEW p \in Tasks, NEW kind, NEW n, Copy(x, p, kind, n)
        PROVE  sig'[l].code = sig[l].code
    <3>1. sig' = sig \/ sig' = [sig EXCEPT ![p] = [nr |-> 1, live |-> 1, cnt |-> 1,
                                                   exit |-> FALSE, code |-> none]]
      BY <2>3 DEF Copy
    <3> QED  BY <2>1, <3>1
  <2>4. ASSUME NEW x \in Tasks, Undo(x) PROVE sig'[l].code = sig[l].code
    <3>1. sig' = sig \/ sig' = [sig EXCEPT ![th[x].child] = [nr |-> 0, live |-> 0, cnt |-> 0,
                                                             exit |-> FALSE, code |-> none]]
      BY <2>4 DEF Undo
    <3> QED  BY <2>1, <3>1
  <2>5. ASSUME NEW x \in Tasks, Publish(x) PROVE sig'[l].code = sig[l].code
    <3>1. sig' = sig \/ sig' = [sig EXCEPT ![task[x].leader].nr = @ + 1,
                                           ![task[x].leader].live = @ + 1,
                                           ![task[x].leader].cnt = @ + 1]
      BY <2>5 DEF Publish
    <3> QED  BY <2>1, <3>1 DEF SigRecord
  <2>6. ASSUME NEW x \in Tasks, Zap(x) PROVE sig'[l].code = sig[l].code
    <3>1. CASE Decided(task[x].leader)
      BY <2>2, <2>6, <3>1 DEF Zap
    <3>2. CASE ~Decided(task[x].leader)
      <4>1. sig' = [sig EXCEPT ![task[x].leader].exit = TRUE, ![task[x].leader].code = x,
                               ![task[x].leader].live = @ - 1]
        BY <2>6, <3>2 DEF Zap
      <4>2. l # task[x].leader
        BY <3>2 DEF Decided
      <4> QED  BY <2>1, <4>1, <4>2 DEF SigRecord
    <3> QED  BY <3>1, <3>2
  <2>7. ASSUME NEW x \in Tasks, Release(x) PROVE sig'[l].code = sig[l].code
    <3>1. PICK c : sig' = [sig EXCEPT ![c].nr = @ - 1]
      BY <2>7 DEF Release
    <3> QED  BY <2>1, <3>1 DEF SigRecord
  <2>8. ASSUME NEW p \in Tasks, NEW f, PutTask(p, f) PROVE sig'[l].code = sig[l].code
    <3>1. \/ sig' = sig
          \/ sig' = [sig EXCEPT ![task[p].leader] = [nr |-> 0, live |-> 0, cnt |-> 0,
                                                     exit |-> FALSE, code |-> none]]
          \/ sig' = [sig EXCEPT ![task[p].leader].cnt = @ - 1]
      BY <2>8 DEF PutTask
    <3> QED  BY <2>1, <3>1 DEF SigRecord
  <2>9. ASSUME NEW x \in Tasks, Kernel(x) PROVE sig'[l].code = sig[l].code
    <3>1. \/ Undo(x) \/ Publish(x) \/ Zap(x) \/ Release(x) \/ Last(x) \/ sig' = sig
      BY <2>9 DEF Kernel, Wake, ClearMcc, UnshareSwap, ExitMm, FindOwner, SetOwner, Forget,
                  Notify, Scan, Claim
    <3>2. Last(x) => PutTask(x, At(x, "gone"))
      BY DEF Last
    <3> QED  BY <2>4, <2>5, <2>6, <2>7, <2>8, <3>1, <3>2
  <2>10. CASE Next
    <3>1. CASE \E x, p \in Tasks : \E kind \in Kinds : \E n \in Fails \cup {8} : Copy(x, p, kind, n)
      BY <2>3, <3>1
    <3>2. CASE \E u \in Unshares : UnshareCopy(u[1], u[2])
      BY <3>2 DEF UnshareCopy
    <3>3. CASE \E x \in Tasks : SysExit(x)
      BY <2>2, <3>3 DEF SysExit
    <3>4. CASE \E x \in Tasks : GroupExit(x)
      <4>1. PICK x \in Tasks : GroupExit(x)
        BY <3>4
      <4>2. Exit(x) \/ sig' = sig
        BY <4>1 DEF GroupExit
      <4> QED  BY <2>2, <4>2
    <3>5. CASE \E x \in Tasks : \E opt \in Opts : Wait(x, opt)
      BY <3>5 DEF Wait
    <3>6. CASE \E x \in Tasks : Kernel(x)
      BY <2>9, <3>6
    <3>7. CASE \E p \in Tasks : Rcu(p)
      BY <2>8, <3>7 DEF Rcu
    <3> QED  BY <2>10, <3>1, <3>2, <3>3, <3>4, <3>5, <3>6, <3>7 DEF Next
  <2> QED  BY <1>2, <2>10 DEF vars
<1> QED  BY <1>1, <1>2, IInvHolds, PTL DEF Spec, CodeDecidedOnce
=============================================================================
