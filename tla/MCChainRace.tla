----------------------------- MODULE MCChainRace -----------------------------
(* Instances of ChainRace for TLC. *)
EXTENDS ChainRace, TLC

CONSTANTS t1, t2, w1, w2, p1, p2

OneTask    == {t1}
TwoTasks   == {t1, t2}
OneWorker  == {w1}
TwoWorkers == {w1, w2}
OnePage    == {p1}
TwoPages   == {p1, p2}

Symmetry == Permutations({w1, w2}) \cup Permutations({p1, p2})
=============================================================================
