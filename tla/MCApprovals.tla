------------------------------ MODULE MCApprovals ------------------------------
(* Instances of Approvals for TLC.                                            *)
EXTENDS Approvals, TLC

\* Callers, reviewers, calls and request ids are interchangeable.
Symmetry ==
  Permutations(Evals) \cup Permutations(Deciders) \cup Permutations(Keys)
    \cup Permutations(RequestIds)
===============================================================================
