---------------------------- MODULE MCDurableRun ----------------------------
(* Instances of DurableRun for TLC: two gateway processes on one database. *)
EXTENDS DurableRun, TLC

WorkerSymmetry == Permutations(Procs) \cup Permutations(Execs)
=============================================================================
