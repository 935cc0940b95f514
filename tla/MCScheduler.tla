---------------------------- MODULE MCScheduler ----------------------------
(* Instances of Scheduler for TLC: CPUs and alarms are interchangeable.    *)
EXTENDS Scheduler, TLC

Interchangeable == Permutations(CPUs) \cup Permutations(Alarms)
=============================================================================
