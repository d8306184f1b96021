---------------------------- MODULE PolicyDecision ----------------------------
(***************************************************************************)
(* One runtime decision: core_decision (runtime/core.py) compiles the      *)
(* bindings that apply to a call (runtime/loader.py), evaluates them       *)
(* (agentguard_policy/engine.py) and combines the result with what the DLP *)
(* scan and the risk engine ask for.                                       *)
(*                                                                         *)
(* The SELECT that loads the bindings has no ORDER BY: they are compiled   *)
(* in whatever order the rows come (action Compile).  A rule's condition   *)
(* tree is abstracted to what evaluate_condition does with it: hold, not   *)
(* hold, or raise (a `matches` leaf whose value is not a regular           *)
(* expression, which validate_condition accepts).  Lists of redaction      *)
(* paths are sets, reasons are left out.                                   *)
(***************************************************************************)
EXTENDS Integers, Sequences

CONSTANTS
  Keys,      \* policies.key of the enabled policies
  Specs,     \* the [rules, default, priority] a policy may have
  Bindings,  \* rows of policy_bindings that may exist
  Call,      \* the call: [environment, agent, tool, action]
  DlpPaths,  \* where the DLP scan may find something in the parameters
  Limits,    \* rate-limit specs
  None       \* an absent value

Effects == {"deny", "approval", "rate_limit", "redact", "allow"}

\* PRECEDENCE (types.py) and _PRECEDENCE (core.py): earlier wins.
Rank == [deny |-> 1, approval |-> 2, rate_limit |-> 3, redact |-> 4, allow |-> 5]

\* _SPECIFICITY (loader.py), by scope.
Specificity == [organization |-> 0, environment |-> 1, agent |-> 2, tool |-> 3, action |-> 4]

\* A PolicyRule that PolicyRule._check accepts.
ValidRule(rule) ==
  /\ rule.effect \in Effects
  /\ rule.names \in BOOLEAN  \* matches_action(tool, action)
  /\ rule.when \in {"holds", "fails", "raises"}
  /\ rule.effect = "rate_limit" => rule.limit \in Limits
  /\ rule.effect = "redact" => rule.redactions # {}

\* A PolicySpec that PolicySpec._check_default accepts; its rules are a list.
ValidSpec(s) ==
  /\ DOMAIN s.rules \subseteq Nat
  /\ \A i \in DOMAIN s.rules : ValidRule(s.rules[i])
  /\ s.default \in {"allow", "deny", "approval", None}
  /\ s.priority \in Nat

ASSUME DecisionAssumption ==
  /\ \A s \in Specs : ValidSpec(s)
  /\ \A b \in Bindings :
       /\ b.key \in Keys
       /\ b.scope \in DOMAIN Specificity
  /\ None \notin Effects /\ None \notin Limits

VARIABLES
  spec,      \* spec[k]: the policy with that key
  rows,      \* bindings the loader has not compiled yet
  bound,     \* all bindings the loader loads (history)
  compiled,  \* the compiled policies: a sequence of [key, specificity]
  phase,     \* where core_decision is
  policy,    \* the DecisionResult of the engine
  dlp,       \* what the DLP scan found and asks for
  risk,      \* what the risk engine asks for
  decision,  \* the CoreDecision's decision
  redactions \* the CoreDecision's redactions

vars == <<spec, rows, bound, compiled, phase, policy, dlp, risk, decision, redactions>>

NoResult == [decision |-> None, redactions |-> {}, limit |-> None]

-------------------------------------------------------------------------------
(* loader.py *)

\* _applies: the binding's scope covers the call.
Applies(b) ==
  \/ b.scope = "organization"
  \/ b.scope = "environment" /\ b.environment = Call.environment
  \/ b.scope = "agent" /\ b.agent = Call.agent
  \/ b.scope = "tool" /\ Call.tool # None /\ b.tool = Call.tool
  \/ /\ b.scope = "action"
     /\ b.agent \in {None, Call.agent}
     /\ b.tool \in {None, Call.tool}
     /\ b.action \in {None, Call.action}

CompiledWith_Append(c, b) == Append(c, [key |-> b.key, specificity |-> Specificity[b.scope]])

CompiledWith_First(c, b) ==
  IF \E i \in DOMAIN c : c[i].key = b.key
    THEN c
    ELSE Append(c, [key |-> b.key, specificity |-> Specificity[b.scope]])

\* The loop body of load_policy_set: one entry per policy key, at its most
\* specific binding, in the place of its first.
CompiledWith(c, b) ==
  IF \E i \in DOMAIN c : c[i].key = b.key
    THEN [i \in DOMAIN c |->
            IF c[i].key = b.key /\ Specificity[b.scope] > c[i].specificity
              THEN [c[i] EXCEPT !.specificity = Specificity[b.scope]]
              ELSE c[i]]
    ELSE Append(c, [key |-> b.key, specificity |-> Specificity[b.scope]])

-------------------------------------------------------------------------------
(* engine.py *)

Priority(p) == spec[p.key].priority

Sooner_ByPriority(c, i, j) ==
  \/ Priority(c[i]) < Priority(c[j])
  \/ Priority(c[i]) = Priority(c[j]) /\ i < j

\* sorted(policies, key=sort_key): more specific first, then lower priority
\* number; the sort is stable, so ties stay in the order they came.
Sooner(c, i, j) ==
  \/ c[i].specificity > c[j].specificity
  \/ /\ c[i].specificity = c[j].specificity
     /\ \/ Priority(c[i]) < Priority(c[j])
        \/ Priority(c[i]) = Priority(c[j]) /\ i < j

Rule(c, h) == spec[c[h[1]].key].rules[h[2]]

\* All the rules of all compiled policies, as <<policy, rule>> positions.
Rules(c) == UNION {{<<i, j>> : j \in DOMAIN spec[c[i].key].rules} : i \in DOMAIN c}

\* The rules _iter_matches yields.
Matches(c) == {h \in Rules(c) : Rule(c, h).names /\ Rule(c, h).when = "holds"}

\* _iter_matches evaluates a condition that raises.
Raises(c) == \E h \in Rules(c) : Rule(c, h).names /\ Rule(c, h).when = "raises"

\* h is yielded before g.
Earlier(c, h, g) == Sooner(c, h[1], g[1]) \/ (h[1] = g[1] /\ h[2] < g[2])

Hits(c, effect) == {h \in Matches(c) : Rule(c, h).effect = effect}

\* The first of the effects in PRECEDENCE.
Strictest(S) == CHOOSE d \in S : \A e \in S : Rank[d] <= Rank[e]

\* No rule matched: the first default_effect of the sorted policies, or allow.
DefaultEffect(c) ==
  LET Having == {i \in DOMAIN c : spec[c[i].key].default # None}
  IN IF Having = {}
       THEN "allow"
       ELSE spec[c[CHOOSE i \in Having : \A j \in Having \ {i} : Sooner(c, i, j)].key].default

\* evaluate(input, policies)
Evaluated(c) ==
  IF Matches(c) = {}
    THEN [NoResult EXCEPT !.decision = DefaultEffect(c)]
    ELSE LET effect == Strictest({Rule(c, h).effect : h \in Matches(c)})
             hits == Hits(c, effect)
             first == CHOOSE h \in hits : \A g \in hits \ {h} : Earlier(c, h, g)
         IN [decision |-> effect,
             redactions |-> IF effect = "redact"
                              THEN UNION {Rule(c, h).redactions : h \in hits} ELSE {},
             limit |-> IF effect = "rate_limit" THEN Rule(c, first).limit ELSE None]

-------------------------------------------------------------------------------
(* core.py *)

\* The decision an action of the DLP scan or of the risk engine stands for;
\* "allow" and "ALLOW" add no candidate.
DlpCandidates(d) ==
  CASE d.action = "block"    -> {"deny"}
    [] d.action = "approval" -> {"approval"}
    [] d.action = "redact"   -> {"redact"}
    [] OTHER                 -> {}

RiskCandidates(r) ==
  CASE r = "BLOCK"    -> {"deny"}
    [] r = "APPROVAL" -> {"approval"}
    [] OTHER          -> {}

\* combine(): the strictest candidate.
Combine(p, d, r) == Strictest({p} \cup DlpCandidates(d) \cup RiskCandidates(r))

Redactions_PolicyOnly(p, d, final) == p.redactions

\* The paths reported with the decision: the policy's, and those of the scan
\* when the decision or the scan says redact.
Redactions(p, d, final) ==
  p.redactions \cup (IF final = "redact" \/ d.action = "redact" THEN d.paths ELSE {})

\* scan_payload: no finding leaves the action at "allow".
Scans ==
  [action : {"allow", "redact", "approval", "block"}, paths : (SUBSET DlpPaths) \ {{}}]
    \cup {[action |-> "allow", paths |-> {}]}

Init ==
  /\ spec \in [Keys -> Specs]
  /\ bound \in SUBSET Bindings
  /\ rows = bound
  /\ compiled = <<>>
  /\ phase = "start"
  /\ policy = NoResult
  /\ dlp = [action |-> "allow", paths |-> {}]
  /\ risk = "ALLOW"
  /\ decision = None
  /\ redactions = {}

\* core_decision scans the payload; a paused agent is denied at once.
Scan ==
  /\ phase = "start"
  /\ dlp' \in Scans
  /\ \/ /\ phase' = "load"
        /\ UNCHANGED <<decision, risk>>
     \/ /\ phase' = "paused"
        /\ decision' = "deny"
        /\ risk' = "BLOCK"
  /\ UNCHANGED <<spec, rows, bound, compiled, policy, redactions>>

\* load_policy_set takes the next binding, in the order the rows came.
Compile ==
  /\ phase = "load"
  /\ \E b \in rows :
       /\ rows' = rows \ {b}
       /\ compiled' = IF Applies(b) THEN CompiledWith(compiled, b) ELSE compiled
  /\ UNCHANGED <<spec, bound, phase, policy, dlp, risk, decision, redactions>>

\* evaluate(), or the exception a condition raises (an HTTP 500).
Evaluate ==
  /\ phase = "load"
  /\ rows = {}
  /\ \/ /\ Raises(compiled)
        /\ phase' = "raised"
        /\ UNCHANGED policy
     \/ /\ ~Raises(compiled)
        /\ policy' = Evaluated(compiled)
        /\ phase' = "combine"
  /\ UNCHANGED <<spec, rows, bound, compiled, dlp, risk, decision, redactions>>

\* The risk assessment, combine() and the CoreDecision.
Conclude ==
  /\ phase = "combine"
  /\ risk' \in {"ALLOW", "APPROVAL", "BLOCK"}
  /\ decision' = Combine(policy.decision, dlp, risk')
  /\ redactions' = Redactions(policy, dlp, decision')
  /\ phase' = "done"
  /\ UNCHANGED <<spec, rows, bound, compiled, policy, dlp>>

Next == Scan \/ Compile \/ Evaluate \/ Conclude

Spec == Init /\ [][Next]_vars

-------------------------------------------------------------------------------
(* What the decision has to be, without any order.                         *)

\* The policies that apply to the call, and how specifically each is bound.
Applicable == {b.key : b \in {x \in bound : Applies(x)}}

Depth(k) ==
  LET depths == {Specificity[b.scope] : b \in {x \in bound : Applies(x) /\ x.key = k}}
  IN CHOOSE d \in depths : \A e \in depths : e <= d

MatchedRules ==
  UNION {{spec[k].rules[i] : i \in {j \in DOMAIN spec[k].rules :
            spec[k].rules[j].names /\ spec[k].rules[j].when = "holds"}} : k \in Applicable}

\* No policy of K outranks k: none is bound more specifically, none at the
\* same depth has a lower priority number.
Foremost(k, K) ==
  \A x \in K :
    \/ Depth(x) < Depth(k)
    \/ Depth(x) = Depth(k) /\ spec[k].priority <= spec[x].priority

\* The decisions the policies may ask for: only a tie between default_effects
\* at the same depth and priority leaves more than one.
PolicyAsks ==
  LET having == {k \in Applicable : spec[k].default # None}
  IN IF MatchedRules # {} THEN {Strictest({r.effect : r \in MatchedRules})}
     ELSE IF having = {} THEN {"allow"}
     ELSE {spec[k].default : k \in {x \in having : Foremost(x, having)}}

TypeOK ==
  /\ spec \in [Keys -> Specs]
  /\ bound \subseteq Bindings /\ rows \subseteq bound
  /\ compiled \in Seq([key : Keys, specificity : 0..4])
  /\ \A i, j \in DOMAIN compiled : compiled[i].key = compiled[j].key => i = j
  /\ {compiled[i].key : i \in DOMAIN compiled} \subseteq Applicable
  /\ phase \in {"start", "load", "combine", "done", "paused", "raised"}
  /\ policy.decision \in Effects \cup {None}
  /\ dlp \in Scans /\ risk \in {"ALLOW", "APPROVAL", "BLOCK"}
  /\ decision \in Effects \cup {None}
  /\ redactions \subseteq policy.redactions \cup dlp.paths

\* However the bindings came, the decision is the strictest of what the
\* matched rules (or the foremost default_effect), the DLP scan and the risk
\* engine ask for (docs/POLICY.md, "Precedence"; docs/RISK_DLP.md, "How they
\* combine"): nothing that objects to a call is outvoted.
DecisionIsStrictest ==
  phase = "done" =>
    \E p \in PolicyAsks :
      decision = Strictest({p} \cup DlpCandidates(dlp) \cup RiskCandidates(risk))

\* The rate_limit rules of policy k that match, the first of them, and the
\* policies that have one.
Limiting(k) ==
  {i \in DOMAIN spec[k].rules : /\ spec[k].rules[i].effect = "rate_limit"
                                /\ spec[k].rules[i].names /\ spec[k].rules[i].when = "holds"}
FirstLimiting(k) == CHOOSE i \in Limiting(k) : \A j \in Limiting(k) : i <= j
LimitingPolicies == {k \in Applicable : Limiting(k) # {}}

\* A rate-limited call gets a limit, that of the first matching rule of a policy no
\* other matching rate-limit policy outranks ("the first matching rule's
\* spec", docs/POLICY.md).
LimitIsForemost ==
  phase = "done" /\ decision = "rate_limit" =>
    \E k \in LimitingPolicies :
      /\ Foremost(k, LimitingPolicies)
      /\ policy.limit = spec[k].rules[FirstLimiting(k)].limit

\* REDACT comes with every path a matching redact rule or the scan named, and
\* with at least one: the SDK never masks nothing on REDACT.
RedactNamesPaths ==
  phase = "done" /\ decision = "redact" =>
    /\ redactions # {}
    /\ dlp.paths \subseteq redactions
    /\ \A r \in MatchedRules : r.effect = "redact" => r.redactions \subseteq redactions

\* "no exception is raised for well-formed policies" (engine.py:5)
NeverRaises == phase # "raised"
===============================================================================
