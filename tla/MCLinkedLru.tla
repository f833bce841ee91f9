----------------------------- MODULE MCLinkedLru -----------------------------
(* Instances of LinkedLru for TLC. *)
EXTENDS LinkedLru

CONSTANTS p1, p2

TwoPages == {p1, p2}
OneFile  == {p2}
=============================================================================
