------------------------------- MODULE MCSessions -------------------------------
(* Instances of Sessions for TLC.                                              *)
EXTENDS Sessions, TLC

\* Requests and the ids not taken yet are interchangeable.
Symmetry == Permutations(Requests) \cup Permutations(Sids \ Roots)
===============================================================================
