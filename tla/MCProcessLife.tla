----------------------------- MODULE MCProcessLife -----------------------------
(* An instance of ProcessLife for TLC. *)
EXTENDS ProcessLife

CONSTANTS a, b, c

Process == [flags |-> {}, sig |-> "SIGCHLD"]
Vfork   == [flags |-> {"VM", "VFORK"}, sig |-> "SIGCHLD"]
Thread  == [flags |-> {"VM", "FILES", "FS", "SIGHAND", "THREAD"}, sig |-> "SIGCHLD"]
Sibling == [flags |-> {"PARENT"}, sig |-> "other"]
Calls   == {Process, Vfork, Thread, Sibling}

AnyChild == [pid |-> none, hang |-> TRUE, nothread |-> FALSE, all |-> TRUE, clone |-> FALSE]
Waits    == {AnyChild}

ByC      == {<<c, {"files", "fs"}>>}
=============================================================================
