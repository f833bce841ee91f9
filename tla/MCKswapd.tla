------------------------------ MODULE MCKswapd ------------------------------
(* An instance of Kswapd for TLC. *)
EXTENDS Kswapd, TLC

CONSTANT t1

OneTask == {t1}

\* A DMA zone too small to be balanced, and a NORMAL zone
TwoZones == (0 :> 1) @@ (1 :> 5)
Marks    == (0 :> [min |-> 0, low |-> 0, high |-> 0]) @@
            (1 :> [min |-> 0, low |-> 1, high |-> 2])
Reserve  == (0 :> ((0 :> 0) @@ (1 :> 0))) @@ (1 :> ((0 :> 0) @@ (1 :> 0)))
Lru      == (0 :> 0) @@ (1 :> 1)

\* A page for a task that may wait, and two pages for one that frees memory itself
Kernel  == [order |-> 0, top |-> 1, wait |-> TRUE, high |-> FALSE, fs |-> TRUE,
            noretry |-> FALSE, nofail |-> FALSE, memalloc |-> FALSE]
SwapOut == [order |-> 1, top |-> 1, wait |-> FALSE, high |-> TRUE, fs |-> FALSE,
            noretry |-> FALSE, nofail |-> FALSE, memalloc |-> TRUE]
Two     == {Kernel, SwapOut}
=============================================================================
