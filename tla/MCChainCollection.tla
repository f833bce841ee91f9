-------------------------- MODULE MCChainCollection --------------------------
(* Instances of ChainCollection for TLC. *)
EXTENDS ChainCollection, TLC

CONSTANTS a, b, c1, c2, c3

ThreeTasks == {init, a, b}
TwoTasks   == {init, a}
TwoColls   == {c1, c2}
ThreeColls == {c1, c2, c3}
Symmetry   == Permutations({a, b}) \cup Permutations({c1, c2, c3})
=============================================================================
