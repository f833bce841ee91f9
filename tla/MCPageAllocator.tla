--------------------------- MODULE MCPageAllocator ---------------------------
(* Instances of PageAllocator for TLC. *)
EXTENDS BootedAllocator, TLC

CONSTANTS c1, c2, k1, k2

OneCPU   == {c1}
TwoCPUs  == {c1, c2}
OneTask  == {k1}
TwoTasks == {k1, k2}
Page1    == {1}
Movable1 == {"MOVABLE"}
TwoTypes == {"UNMOVABLE", "MOVABLE"}
Symm     == Permutations(TwoCPUs) \union Permutations(TwoTasks)

\* Normal and high memory
Limits   == (0 :> 6) @@ (1 :> 16)
=============================================================================
