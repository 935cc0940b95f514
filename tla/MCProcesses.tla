---------------------------- MODULE MCProcesses ----------------------------
(* Instances of Processes for TLC: stacks and untimed CPUs are symmetric.  *)
EXTENDS Processes, TLC

Interchangeable ==
    Permutations(Stacks) \cup Permutations(CPUs \ Ticking) \cup Permutations(Ticking)
=============================================================================
