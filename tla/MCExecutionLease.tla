--------------------------- MODULE MCExecutionLease ---------------------------
(* Instances of ExecutionLease for TLC.                                      *)
EXTENDS ExecutionLease, TLC

Symmetry == Permutations(Executor) \cup Permutations(Rule) \cup Permutations(Token)
===============================================================================
