------------------------------- MODULE LinearLog -------------------------------
(***************************************************************************)
(* What the audit log of one organization promises: a sequence of rows     *)
(* that only ever grows at its end, each row naming the one before it.     *)
(* A step adds the rows of one transaction.  AuditChain implements it up   *)
(* to the first row that is linked to one the walk visits later            *)
(* (AuditChain, AppendsUnlessInverted).                                    *)
(***************************************************************************)
EXTENDS Naturals, Sequences

CONSTANTS
  Ids,     \* names of rows
  Genesis  \* what the first row follows

VARIABLE log

Entries == [id : Ids, prev : Ids \cup {Genesis}]

\* The first row follows Genesis, every other row the one before it.
Linked(s) ==
  \A i \in DOMAIN s : s[i].prev = IF i = 1 THEN Genesis ELSE s[i - 1].id

Init == log = <<>>

\* One transaction's rows, after the last one.
Extend ==
  /\ log' \in Seq(Entries)
  /\ Len(log') > Len(log)
  /\ SubSeq(log', 1, Len(log)) = log
  /\ Linked(log')

Spec == Init /\ [][Extend]_log
===============================================================================
