------------------------------ MODULE MCVmStat ------------------------------
(***************************************************************************)
(* A small instance of VmStat: two CPUs of which the second may be         *)
(* offline, a zone whose drift is tolerable with one CPU and not with two, *)
(* and differences of 3 bits.                                              *)
(***************************************************************************)
EXTENDS VmStat

ByZone0 == [z \in Zones |-> 0]
ByZone3 == [z \in Zones |-> 3]
Two     == {2}
CallsOf == {<<2, 0>>, <<1, 1>>, <<-1, -1>>}
=============================================================================
