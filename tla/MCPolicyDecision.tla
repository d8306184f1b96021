-------------------------- MODULE MCPolicyDecision --------------------------
(***************************************************************************)
(* Two policies out of a menu of nine specs, seven rows of policy_bindings *)
(* (of which any subset may exist), one call.                              *)
(***************************************************************************)
EXTENDS PolicyDecision

CONSTANTS p1, p2, l1, l2, a, d

MCKeys == {p1, p2}
MCLimits == {l1, l2}
MCDlpPaths == {d}

MCCall == [environment |-> "prod", agent |-> "bot", tool |-> "mail", action |-> "send"]

Deny == [effect |-> "deny", names |-> TRUE, when |-> "holds", redactions |-> {}, limit |-> None]
Limit(l) == [Deny EXCEPT !.effect = "rate_limit", !.limit = l]
Redact == [Deny EXCEPT !.effect = "redact", !.redactions = {a}]
Approve == [Deny EXCEPT !.effect = "approval"]

MCSpecs == {
  [rules |-> <<>>, default |-> "deny", priority |-> 1],
  [rules |-> <<[Deny EXCEPT !.when = "fails"]>>, default |-> "approval", priority |-> 2],
  [rules |-> <<[Deny EXCEPT !.names = FALSE]>>, default |-> "allow", priority |-> 1],
  [rules |-> <<Limit(l1), Limit(l2)>>, default |-> None, priority |-> 1],
  [rules |-> <<Limit(l2)>>, default |-> None, priority |-> 2],
  [rules |-> <<[Deny EXCEPT !.effect = "allow"], Redact>>, default |-> None, priority |-> 1],
  [rules |-> <<Redact, Approve>>, default |-> "deny", priority |-> 2],
  [rules |-> <<Deny>>, default |-> None, priority |-> 2],
  [rules |-> <<[Approve EXCEPT !.when = "raises"], Deny>>, default |-> None, priority |-> 1]}

At(key, scope) == [key |-> key, scope |-> scope, environment |-> None,
                   agent |-> None, tool |-> None, action |-> None]

MCBindings == {
  At(p1, "organization"),
  [At(p1, "environment") EXCEPT !.environment = "dev"],
  [At(p1, "agent") EXCEPT !.agent = "bot"],
  [At(p1, "action") EXCEPT !.tool = "mail", !.action = "send"],
  [At(p2, "environment") EXCEPT !.environment = "prod"],
  [At(p2, "tool") EXCEPT !.tool = "mail"],
  [At(p2, "action") EXCEPT !.action = "delete"]}
=============================================================================
