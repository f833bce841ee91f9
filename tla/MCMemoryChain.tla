---------------------------- MODULE MCMemoryChain ----------------------------
(* Small instances of MemoryChain for TLC. *)
EXTENDS MemoryChain, TLC

CONSTANTS t1, t2, p1, p2, p3

TwoTasks   == {t1, t2}
OneTask    == {t1}
TwoPages   == {p1, p2}
ThreePages == {p1, p2, p3}

\* Nothing in the specification distinguishes pages or tasks from each other.
Symmetry == Permutations(Tasks) \cup Permutations(Pages)

=============================================================================
