----------------------------- MODULE MCAuditChain -----------------------------
(* The instances of AuditChain for TLC.                                      *)
EXTENDS AuditChain

MCIds == 1..4

\* One request writes two events (an evaluation and the threat it raises),
\* the others one each.
MCRecords == [r \in Requests |-> IF r = (CHOOSE q \in Requests : TRUE) THEN 2 ELSE 1]
===============================================================================
