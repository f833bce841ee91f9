---------------------------- MODULE MCSimManager ----------------------------
(***************************************************************************)
(* A small instance of SimManager: four pages, three frames, two chains    *)
(* besides the default one, and three levels of love.                      *)
(***************************************************************************)
EXTENDS SimManager, TLC

Sym == Permutations(Pages)
=============================================================================
