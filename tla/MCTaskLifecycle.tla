---------------------------- MODULE MCTaskLifecycle ----------------------------
(* Model checking instances of TaskLifecycle.  Dispatch calls and hosts are    *)
(* interchangeable.                                                            *)
EXTENDS TaskLifecycle, TLC

TaskSymmetry == Permutations(Dispatches) \cup Permutations(Hosts)

================================================================================
