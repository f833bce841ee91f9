---------------------------- MODULE MCHierManager ----------------------------
(* Instances of HierManager for TLC. *)
EXTENDS HierManager, TLC

CONSTANTS p1, p2, p3, p4, c1, c2

TwoPages   == {p1, p2}
ThreePages == {p1, p2, p3}
FourPages  == {p1, p2, p3, p4}
OneChain   == {c1}
TwoChains  == {c1, c2}
Symmetry   == Permutations(Pages) \cup Permutations(UserChains)
=============================================================================
