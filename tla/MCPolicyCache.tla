---------------------------- MODULE MCPolicyCache ----------------------------
(* Instances of PolicyCache for TLC.                                         *)
EXTENDS PolicyCache, TLC

\* Writes and readers are interchangeable.
Symmetry == Permutations(Writes) \cup Permutations(Readers)
==============================================================================
