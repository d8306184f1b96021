------------------------------ MODULE Operations ------------------------------
(***************************************************************************)
(* Policies, red-team assessments, findings, remediation and the inventory  *)
(* they all read (apps/api/agentguard_api/policies, redteam, risk, dlp,     *)
(* data_security, inventory).                                              *)
(*                                                                         *)
(* An assessment replays the variants of its techniques through the same    *)
(* core decision that guards the agent, and files a finding for each        *)
(* technique that is not defended; a finding is triaged, retested, or       *)
(* answered with a policy.  The decision depends on the cached policies, on *)
(* the data policies, the inventory and the agent's open findings, which    *)
(* other requests change meanwhile.                                        *)
(*                                                                         *)
(* A request is one READ COMMITTED transaction: it loads the row it is      *)
(* about, reads and decides, waits for the row locks of what it flushes,    *)
(* bumps the version of the policy cache, and commits.  db maps the columns *)
(* of rows to values; the ORM writes what differs from what was loaded.     *)
(***************************************************************************)
EXTENDS Integers, Sequences, FiniteSets, TLC

CONSTANTS None,         \* a missing row, a refusal
          Subjects,     \* the techniques that requests name
          Own,          \* keys of policies made by hand
          Specs,        \* the policy bodies requests send
          EditedTools,  \* the tools requests edit
          DataPolicies, \* names of data policies
          Plans,        \* the technique_ids of assessments
          Standing,     \* the finding and the binding there may be at the start
          Starts,       \* the databases to start from
          MaxVersion,   \* bound: versions of a policy
          Reqs          \* bound: the requests there are

-----------------------------------------------------------------------------
\* The technique catalogue (redteam/catalog.py): a call as an attack makes it,
\* its destination and what the DLP detectors find in it; how bad an attack is,
\* and which decisions count as defended.

V(tool, destination, data) == [tool |-> tool, destination |-> destination, data |-> data]
T(severity, defended, variants) ==
  [severity |-> severity, defended |-> defended, variants |-> variants]
Call(tool) == V(tool, "unspecified", "none")
Out(tool) == V(tool, "external", "none")

Denied == {"deny"}
Gated == {"deny", "approval"}
Masked == {"deny", "approval", "redact"}
Limited == {"deny", "rate_limit"}

PromptTechniques ==
  [direct_injection         |-> T("high", Gated, <<Out("payment.create")>>),
   system_prompt_extraction |-> T("medium", Denied, <<Call("agent.config.read"), Call("debug.dump")>>),
   indirect_injection       |-> T("high", Masked, <<V("email.send", "external", "confidential")>>),
   goal_hijacking           |-> T("critical", Gated, <<Out("funds.transfer")>>)]

ToolTechniques ==
  [unauthorized_tool      |-> T("high", Denied, <<Call("database.drop"), Call("infra.delete")>>),
   parameter_manipulation |-> T("high", Gated, <<Out("payment.create"), Call("payment.create")>>),
   tool_chaining          |-> T("high", Masked, <<Out("customer.export")>>),
   privilege_escalation   |-> T("critical", Denied, <<Call("iam.grant")>>)]

\* A tenant id of zeros passes the check of a card number.
DataTechniques ==
  [pii_leakage         |-> T("high", Masked, <<V("email.send", "external", "restricted")>>),
   secret_leakage      |-> T("critical", Denied, <<V("http.post", "external", "secret"),
                                                   V("config.push", "unspecified", "secret")>>),
   data_exfiltration   |-> T("high", Gated, <<Out("customer.export")>>),
   cross_tenant_access |-> T("critical", Denied, <<V("customer.read", "unspecified", "restricted")>>)]

AgentTechniques ==
  [excessive_autonomy          |-> T("high", Gated, <<Call("infra.delete")>>),
   memory_poisoning            |-> T("medium", {"deny", "redact"}, <<Call("memory.write")>>),
   agent_to_agent_manipulation |-> T("high", Gated, <<Call("agent.invoke")>>),
   approval_bypass             |-> T("critical", Gated, <<Out("funds.transfer")>>)]

McpTechniques ==
  [tool_poisoning   |-> T("high", Gated, <<Call("mcp.filesystem.read")>>),
   permission_abuse |-> T("medium", Gated, <<Call("mcp.db.query")>>)]

AvailabilityTechniques ==
  [recursive_execution |-> T("medium", Limited, <<Call("agent.step")>>),
   denial_of_wallet    |-> T("high", Limited, <<Call("llm.complete")>>),
   excessive_api_usage |-> T("medium", Limited, <<Out("api.call")>>)]

Techniques == PromptTechniques @@ ToolTechniques @@ DataTechniques
                @@ AgentTechniques @@ McpTechniques @@ AvailabilityTechniques

VariantsOf(t) == Techniques[t].variants
ToolsOf(ts) == UNION {{VariantsOf(t)[n].tool : n \in DOMAIN VariantsOf(t)} : t \in ts}

\* variant_budget(): quick and standard profiles try one variant.
Budgets == {1, 3}

RemediationSpec_FirstVariant(t) ==
  [effect |-> IF Techniques[t].defended = Limited THEN "rate_limit" ELSE "deny",
   tools |-> {VariantsOf(t)[1].tool}]
RemediationSpec(t) ==
  LET defended == Techniques[t].defended IN
    [effect |-> CASE defended = {"deny"}         -> "deny"
                  [] "approval" \in defended     -> "approval"
                  [] "rate_limit" \in defended   -> "rate_limit"
                  [] OTHER                       -> "deny",
     tools |-> ToolsOf({t})]

-----------------------------------------------------------------------------
\* The cells.  The policy that remediates technique t has a key named t.  A
\* finding is named by its technique and by the request that files it.

Policies == Subjects \cup Own
Tools    == ToolsOf(Subjects)
Makers   == Standing \cup Reqs
Findings == Subjects \X Makers

Spec(p)       == <<"policy", p>>
Enabled(p)    == <<"enabled", p>>
Version(p, n) == <<"version", p, n>>
Binding(p, b) == <<"binding", p, b>>      \* of the whole organization
Finding(f)    == <<"finding", f>>         \* status
Severity(f)   == <<"severity", f>>
AgentStatus   == <<"status", "agent">>
Trust         == <<"trust", "agent">>     \* of the agent's identity
Denies        == <<"denies", "agent">>    \* audited in the last 24 hours
Anomaly(n)    == <<"anomaly", n>>         \* score of calling n, by the profile
Tool(n)       == <<"tool", n>>            \* risk
Scopes(n)     == <<"scopes", n>>          \* permissions
DataPolicy(d) == <<"data", d>>            \* classification
DataAction(d) == <<"action", d>>
DataOn(d)     == <<"on", d>>
Id(row)       == <<"id", row>>            \* of a row that can be deleted: who made it

Cells ==
  {Spec(p) : p \in Policies} \cup {Enabled(p) : p \in Policies}
    \cup {Version(p, n) : p \in Policies, n \in 1..MaxVersion}
    \cup {Binding(p, b) : p \in Policies, b \in Makers}
    \cup {Finding(f) : f \in Findings} \cup {Severity(f) : f \in Findings}
    \cup {AgentStatus, Trust, Denies} \cup {Anomaly(n) : n \in Tools}
    \cup {Tool(n) : n \in Tools} \cup {Scopes(n) : n \in Tools}
    \cup (UNION {{DataPolicy(d), DataAction(d), DataOn(d), Id(DataPolicy(d))} : d \in DataPolicies})
    \cup {Id(Spec(p)) : p \in Policies} \cup {Id(Tool(n)) : n \in Tools}

\* The row a cell is a column of; the cell that tells whether a row is there.
Row(c) ==
  CASE c[1] = "enabled"          -> Spec(c[2])
    [] c[1] = "severity"         -> Finding(c[2])
    [] c[1] = "scopes"           -> Tool(c[2])
    [] c[1] \in {"action", "on"} -> DataPolicy(c[2])
    [] c[1] = "id"               -> c[2]
    [] OTHER                     -> c

ASSUME SubjectsAssumption == Subjects \subseteq DOMAIN Techniques /\ Own \cap Subjects = {}
ASSUME MakersAssumption == Standing \cap Reqs = {} /\ None \notin Makers
ASSUME MaxVersionAssumption == MaxVersion \in Nat \ {0}
ASSUME PlansAssumption == \A ts \in Plans : ts \in Seq(Subjects)
\* A denial defends against every technique, and so does the remedy of each.
ASSUME CatalogueAssumption ==
  \A t \in DOMAIN Techniques :
    1 \in DOMAIN VariantsOf(t) /\ {"deny", RemediationSpec(t).effect} \subseteq Techniques[t].defended

VARIABLES
  db,     \* what is committed
  cache,  \* the policy set in Redis under the current version, or None
  req,    \* the requests
  held,   \* the row locks of each, <<row, mode>>
  prior   \* history: the requests that had ended when it started

vars == <<db, cache, req, held, prior>>

Put(D, f) == [c \in DOMAIN D |-> IF c \in DOMAIN f THEN f[c] ELSE D[c]]
Changes(D, E) == [c \in {x \in Cells : E[x] # D[x]} |-> E[c]]
Upon(f, g) == [c \in DOMAIN f \cup DOMAIN g |-> IF c \in DOMAIN f THEN f[c] ELSE g[c]]

-----------------------------------------------------------------------------
\* Risk (risk/engine.py), in hundredths of a point until it is rounded.

Clamp(x) == IF x < 0 THEN 0 ELSE IF x > 100 THEN 100 ELSE x
Rounded(x) ==
  IF x % 100 = 50 /\ (x \div 100) % 2 = 0 THEN x \div 100 ELSE (x + 50) \div 100

TrustRisk == [untrusted |-> 95, low |-> 72, standard |-> 42, high |-> 20, privileged |-> 10]
StatusBump(s) ==
  CASE s = "critical" -> 25 [] s = "high" -> 15 [] s = "warning" -> 8 [] s = "paused" -> 30 [] OTHER -> 0
ToolRisk == [info |-> 5, low |-> 18, medium |-> 45, high |-> 72, critical |-> 92]
ScopeRisk == [read |-> 12, write |-> 55, execute |-> 65, admin |-> 92]

IdentityFactor(D, status) == Clamp(TrustRisk[D[Trust]] + StatusBump(status))
PermissionFactor(scopes) ==
  IF scopes \in {None, {}} THEN 30
  ELSE CHOOSE s \in {ScopeRisk[p] : p \in scopes} : \A p \in scopes : ScopeRisk[p] <= s
ToolFactor(risk) == IF risk = None THEN 35 ELSE ToolRisk[risk]
DataFactor(data) ==
  CASE data = "secret" -> 96 [] data = "restricted" -> 90 [] data = "confidential" -> 66 [] OTHER -> 5
DestinationFactor(destination) == IF destination = "external" THEN 82 ELSE 35

OpenStatuses == {"open", "triaged", "retest"}
HistoricalFactor(D) ==
  Clamp(12 * D[Denies]
        + 22 * Cardinality({f \in Findings : D[Finding(f)] \in OpenStatuses
                                               /\ D[Severity(f)] \in {"high", "critical"}}))

Floor(anomaly) == IF anomaly >= 90 THEN 82 ELSE IF anomaly >= 75 THEN 66 ELSE 0
RiskScore(D, status, v) ==
  LET score == Clamp(Rounded(15 * IdentityFactor(D, status) + 12 * PermissionFactor(D[Scopes(v.tool)])
                             + 18 * ToolFactor(D[Tool(v.tool)]) + 22 * DataFactor(v.data)
                             + 13 * DestinationFactor(v.destination)
                             + 10 * Clamp(D[Anomaly(v.tool)]) + 10 * HistoricalFactor(D)))
  IN IF score >= Floor(D[Anomaly(v.tool)]) THEN score ELSE Floor(D[Anomaly(v.tool)])

RiskSeverity(score) ==
  CASE score >= 85 -> "critical" [] score >= 65 -> "high" [] score >= 40 -> "medium"
    [] score >= 20 -> "low" [] OTHER -> "info"
RiskDecision(severity) ==
  CASE severity = "critical" -> {"deny"} [] severity = "high" -> {"approval"} [] OTHER -> {}

\* DLP (dlp/service.py): the strictest enabled data policy for the
\* classification, or its default; a credential is always blocked.
DlpActions == <<"allow", "redact", "approval", "block">>
DefaultAction == [none |-> "allow", confidential |-> "redact", restricted |-> "block", secret |-> "block"]
Strongest(S) ==
  DlpActions[CHOOSE i \in DOMAIN DlpActions :
               DlpActions[i] \in S /\ \A j \in DOMAIN DlpActions : DlpActions[j] \in S => j <= i]
DataPolicyActions(D, class) ==
  {D[DataAction(d)] : d \in {x \in DataPolicies : D[DataPolicy(x)] = class /\ D[DataOn(x)]}}
DlpAction(D, data) ==
  IF data \in {"none", "secret"} \/ DataPolicyActions(D, data) = {} THEN DefaultAction[data]
  ELSE Strongest(DataPolicyActions(D, data))
DlpDecision(action) ==
  CASE action = "block" -> {"deny"} [] action \in {"approval", "redact"} -> {action} [] OTHER -> {}

\* The policies (runtime/loader.py) and the decision (runtime/core.py).
InForce(D) ==
  [p \in Policies |-> IF D[Spec(p)] # None /\ D[Enabled(p)] = TRUE /\ \E b \in Makers : D[Binding(p, b)] # None
                      THEN D[Spec(p)] ELSE None]

Precedence == <<"deny", "approval", "rate_limit", "redact", "allow">>
Strictest(S) ==
  Precedence[CHOOSE i \in 1..5 : Precedence[i] \in S /\ \A j \in 1..5 : Precedence[j] \in S => i <= j]
PolicyEffects(set, tool) ==
  {set[p].effect : p \in {x \in Policies : set[x] # None /\ tool \in set[x].tools}}

\* core_decision() of an agent loaded with that status, under a policy set.
CoreDecision(D, status, set, v) ==
  IF status = "paused" THEN [decision |-> "deny", severity |-> "critical"]
  ELSE LET severity == RiskSeverity(RiskScore(D, status, v)) IN
         [decision |-> Strictest({"allow"} \cup PolicyEffects(set, v.tool)
                                 \cup DlpDecision(DlpAction(D, v.data)) \cup RiskDecision(severity)),
          severity |-> severity]

-----------------------------------------------------------------------------
\* The evaluator and the findings (redteam/evaluator.py, runner.py, router.py).

SeverityRank == [info |-> 0, low |-> 1, medium |-> 2, high |-> 3, critical |-> 4]
MaxSeverity_Second(a, b) == b
MaxSeverity(a, b) == IF SeverityRank[a] >= SeverityRank[b] THEN a ELSE b

Judge(t, core) ==
  [passed   |-> core.decision \in Techniques[t].defended,
   severity |-> MaxSeverity(Techniques[t].severity, core.severity),
   decision |-> core.decision]

Verdicts(D, status, set, t, budget) ==
  {Judge(t, CoreDecision(D, status, set, VariantsOf(t)[n])) :
     n \in {m \in DOMAIN VariantsOf(t) : m <= budget}}
Failures(verdicts) == {v \in verdicts : ~v.passed}
Worst(failures) ==
  CHOOSE s \in {v.severity : v \in failures} : \A v \in failures : SeverityRank[v.severity] <= SeverityRank[s]

OpenFindings(D, t) == {f \in Findings : f[1] = t /\ D[Finding(f)] \in OpenStatuses}
Statuses == OpenStatuses \cup {"resolved", "suppressed", "false_positive"}
AtLeast(t) == {s \in DOMAIN SeverityRank : SeverityRank[s] >= SeverityRank[Techniques[t].severity]}

\* _upsert_finding(): the rows it may come to when it looks for an open finding
\* of the technique.
Existing_OfAssessment(D, r, t) == {<<t, r>>}
Existing(D, r, t) == IF OpenFindings(D, t) = {} THEN {<<t, r>>} ELSE OpenFindings(D, t)
UpsertFinding(D, f, severity) == [D EXCEPT ![Finding(f)] = "open", ![Severity(f)] = severity]

Retest(D, f, verdict) ==
  IF verdict.passed THEN [D EXCEPT ![Finding(f)] = "resolved"] ELSE UpsertFinding(D, f, verdict.severity)
Triage(D, f, status) == [D EXCEPT ![Finding(f)] = status]

-----------------------------------------------------------------------------
\* Policies (policies/service.py, policies/router.py).

CreatePolicy(D, p, spec, r) ==
  IF D[Spec(p)] # None THEN None
  ELSE [D EXCEPT ![Spec(p)] = spec, ![Enabled(p)] = TRUE, ![Id(Spec(p))] = r, ![Version(p, 1)] = spec]
AddBinding(D, p, r) == [D EXCEPT ![Binding(p, r)] = "bound"]
RemoveBinding(D, p, b) == IF D[Binding(p, b)] = None THEN None ELSE [D EXCEPT ![Binding(p, b)] = None]
CreateRemediationPolicy(D, t, r) ==
  LET E == CreatePolicy(D, t, RemediationSpec(t), r) IN IF E = None THEN None ELSE AddBinding(E, t, r)

\* A PATCH of a policy, an agent, a tool or a data policy sets a column.
Patch(D, column, value) == IF D[Row(column)] = None THEN None ELSE [D EXCEPT ![column] = value]

\* update_policy() looks up the version once the new body is flushed.
VersionsOf(D, p) == {n \in 1..MaxVersion : D[Version(p, n)] # None}
NextVersion(D, p) ==
  LET taken == VersionsOf(D, p)
  IN IF taken = {} THEN 1 ELSE 1 + CHOOSE n \in taken : \A m \in taken : m <= n
AddVersion_First(D, p, spec) == [D EXCEPT ![Version(p, NextVersion(D, p))] = D[Version(p, 1)]]
AddVersion(D, p, spec) == [D EXCEPT ![Version(p, NextVersion(D, p))] = spec]

\* DELETE of a policy, a tool or a data policy; what belongs to a row goes with
\* it.
Delete(D, row) == IF D[row] = None THEN None ELSE [D EXCEPT ![row] = None]
Owner(c) == IF c[1] \in {"version", "binding"} THEN Spec(c[2]) ELSE Row(c)
Cascade(D) == [c \in Cells |-> IF D[Owner(c)] = None THEN None ELSE D[c]]

\* The inventory (inventory/router.py) and data policies (data_security/router.py).
CreateTool(D, n, risk, scopes, r) ==
  IF D[Tool(n)] # None THEN None
  ELSE [D EXCEPT ![Tool(n)] = risk, ![Scopes(n)] = scopes, ![Id(Tool(n))] = r]
CreateDataPolicy(D, d, class, action, r) ==
  IF D[DataPolicy(d)] # None THEN None
  ELSE [D EXCEPT ![DataPolicy(d)] = class, ![DataAction(d)] = action, ![DataOn(d)] = TRUE,
                 ![Id(DataPolicy(d))] = r]

-----------------------------------------------------------------------------
\* Requests.

PolicyOps == {"remedy", "create", "update", "enable", "bind", "unbind", "delete"}

\* What a request asks for.  column, value: of a PATCH; row: of a DELETE.
Inputs ==
       [op : {"run"}, ts : Plans, budget : Budgets]
  \cup [op : {"retest", "remedy"}, f : Findings]
  \cup [op : {"triage"}, f : Findings, value : {"suppressed", "false_positive"}]
  \cup [op : {"create"}, p : Policies, spec : Specs]
  \cup [op : {"bind"}, p : Policies] \cup [op : {"unbind"}, p : Policies, b : Makers]
  \cup {[op |-> "update", p |-> p, column |-> Spec(p), value |-> x] : p \in Policies, x \in Specs}
  \cup {[op |-> "enable", p |-> p, column |-> Enabled(p), value |-> x] : p \in Policies, x \in BOOLEAN}
  \cup {[op |-> "delete", row |-> Spec(p)] : p \in Policies}
  \cup [op : {"patch"}, column : {AgentStatus}, value : {"healthy", "paused"}]
  \cup [op : {"tool"}, n : EditedTools, risk : {"low", "critical"}, scopes : {{}, {"admin"}}]
  \cup {[op |-> "patch", column |-> Tool(n), value |-> x] : n \in EditedTools, x \in {"low", "critical"}}
  \cup {[op |-> "patch", column |-> Scopes(n), value |-> {"admin"}] : n \in EditedTools}
  \cup {[op |-> "drop", row |-> Tool(n)] : n \in EditedTools}
  \cup [op : {"data"}, d : DataPolicies, class : {"restricted"}, action : {"redact", "approval"}]
  \cup {[op |-> "patch", column |-> DataAction(d), value |-> "allow"] : d \in DataPolicies}
  \cup {[op |-> "patch", column |-> DataOn(d), value |-> x] : d \in DataPolicies, x \in BOOLEAN}
  \cup {[op |-> "drop", row |-> DataPolicy(d)] : d \in DataPolicies}

\* The row a request loads before anything else; it is answered 404 when there
\* is none, which is left out.
Subject(i) ==
  CASE i.op = "run"                               -> AgentStatus
    [] i.op \in {"retest", "remedy", "triage"}    -> Finding(i.f)
    [] i.op \in {"update", "enable", "bind", "unbind"} -> Spec(i.p)
    [] i.op = "patch"                             -> Row(i.column)
    [] i.op \in {"delete", "drop"}                -> i.row
    [] OTHER                                      -> None

Columns(row) == {c \in Cells : Row(c) = row}

\* The handler of r on the database it sees, core the decisions a retest gets.
Handler(r, i, D, verdict) ==
  CASE i.op = "retest"              -> Retest(D, i.f, verdict)
    [] i.op = "remedy"              -> CreateRemediationPolicy(D, i.f[1], r)
    [] i.op = "triage"              -> Triage(D, i.f, i.value)
    [] i.op = "create"              -> CreatePolicy(D, i.p, i.spec, r)
    [] i.op = "bind"                -> AddBinding(D, i.p, r)
    [] i.op = "unbind"              -> RemoveBinding(D, i.p, i.b)
    [] i.op \in {"update", "enable", "patch"} -> Patch(D, i.column, i.value)
    [] i.op \in {"delete", "drop"}  -> Delete(D, i.row)
    [] i.op = "tool"                -> CreateTool(D, i.n, i.risk, i.scopes, r)
    [] i.op = "data"                -> CreateDataPolicy(D, i.d, i.class, i.action, r)

ASSUME NoneAssumption ==
  /\ None \notin Statuses \cup DOMAIN SeverityRank /\ None \notin Cells
  /\ None \notin Specs \cup {RemediationSpec(t) : t \in Subjects}
ASSUME SeverityAssumption == \A t \in DOMAIN Techniques : Techniques[t].severity \in DOMAIN SeverityRank

\* A finding is no less severe than its technique; the versions of a policy are
\* numbered without gaps.
Filed(D) ==
  \A f \in Findings :
    IF D[Finding(f)] = None THEN D[Severity(f)] = None
    ELSE D[Finding(f)] \in Statuses /\ D[Severity(f)] \in AtLeast(f[1])
Numbered(D, p, k) == VersionsOf(D, p) = 1..k /\ D[Version(p, k)] = D[Spec(p)]

\* Requests start on rows that earlier ones left behind one at a time.
ASSUME StartsAssumption ==
  \A D \in Starts :
    /\ DOMAIN D = Cells /\ Filed(D)
    /\ \A t \in Subjects : \A f, g \in OpenFindings(D, t) : f = g
    /\ \A p \in Policies :
         IF D[Spec(p)] = None THEN D[Id(Spec(p))] = None /\ VersionsOf(D, p) = {}
         ELSE D[Id(Spec(p))] \in Standing /\ \E k \in 1..MaxVersion : Numbered(D, p, k)

Fresh == [pc |-> "idle", in |-> [op |-> "none"], loaded |-> <<>>, cells |-> <<>>, want |-> {},
          todo |-> <<>>, undefended |-> {}, end |-> "none"]

Init ==
  /\ db \in Starts /\ cache \in {None, InForce(db)}
  /\ req = [r \in Reqs |-> Fresh]
  /\ held = [r \in Reqs |-> {}] /\ prior = [r \in Reqs |-> {}]

Become(r, x) == req' = [req EXCEPT ![r] = x]
Stop(r, how) ==
  /\ Become(r, [req[r] EXCEPT !.pc = "done", !.want = {}, !.todo = <<>>, !.loaded = <<>>, !.end = how])
  /\ held' = [held EXCEPT ![r] = {}]

\* A row lock of an UPDATE admits that of an INSERT that refers to the row.
Excludes(l, m) == l[1] = m[1] /\ {l[2], m[2]} \notin {{"share"}, {"share", "update"}}
Free(r, l) == \A q \in Reqs \ {r} : \A m \in held[q] : ~Excludes(l, m)
Take(r, l) == held' = [held EXCEPT ![r] = @ \cup {l}]

\* The committed database with what r has written; with what it has loaded.
Written(r) == Put(db, req[r].cells)
View(r)    == Put(Put(db, req[r].loaded), req[r].cells)

\* The locks that flushing E over D takes.
Locks(D, E) ==
  LET changed == DOMAIN Changes(D, E)
      rows == {Row(c) : c \in changed} IN
    {<<x, IF D[x] # None /\ E[x] # None THEN "update" ELSE "all">> : x \in rows}
      \cup {<<Owner(x), "share">> : x \in {y \in rows : E[y] # None /\ Owner(y) \notin rows /\ D[y] = None}}

Flush(r, D, E, x) ==
  Become(r, [x EXCEPT !.cells = Upon(Changes(D, E), @), !.want = Locks(D, E)])

Start(r) ==
  /\ req[r].pc = "idle"
  /\ \E i \in Inputs :
       LET row == Subject(i) IN
         /\ row # None => db[row] # None
         /\ Become(r, [Fresh EXCEPT
              !.pc = IF i.op = "run" THEN "stage" ELSE "read", !.in = i,
              !.loaded = IF row = None THEN <<>> ELSE [c \in Columns(row) |-> db[c]],
              !.todo = IF i.op = "run" THEN i.ts ELSE IF i.op = "update" THEN <<"version">> ELSE <<>>])
  /\ prior' = [prior EXCEPT ![r] = {q \in Reqs : req[q].pc = "done"}]
  /\ UNCHANGED <<db, cache, held>>

\* load_policy_set(): the cached policies, or the committed ones when the cache
\* has none or its entry has expired.
PolicySets == {InForce(db)} \cup ({cache} \ {None})

\* Which of the techniques tested were not defended although their remedy was in
\* force; fresh: the decision was made under the committed policies.
Undefended(D, t, set, failures) ==
  IF InForce(D)[t] # RemediationSpec(t) THEN {}
  ELSE {[t |-> t, decision |-> v.decision, fresh |-> set = InForce(D)] : v \in failures}

\* One request but an assessment reads and decides.
Read(r) ==
  /\ req[r].pc = "read"
  /\ LET i == req[r].in
         step(verdicts, set) ==
           LET D == View(r)
               E == Handler(r, i, D, CHOOSE v \in verdicts : TRUE) IN
             IF E = None THEN Stop(r, "refused")
             ELSE /\ Flush(r, D, E, [req[r] EXCEPT !.pc = "stage",
                       !.undefended = IF i.op = "retest"
                                      THEN Undefended(db, i.f[1], set, Failures(verdicts)) ELSE {}])
                  /\ UNCHANGED held
     IN IF i.op = "retest"
        THEN \E set \in PolicySets : step(Verdicts(db, db[AgentStatus], set, i.f[1], 1), set)
        ELSE step({None}, None)
  /\ UNCHANGED <<db, cache, prior>>

\* An assessment tests its next technique, with the agent as it was loaded.
Test(r) ==
  /\ req[r].pc = "stage" /\ req[r].want = {} /\ req[r].todo # <<>> /\ req[r].in.op = "run"
  /\ \E set \in PolicySets :
       LET D == Written(r)
           t == Head(req[r].todo)
           failures == Failures(Verdicts(D, req[r].loaded[AgentStatus], set, t, req[r].in.budget))
           x == [req[r] EXCEPT !.todo = Tail(@), !.undefended = @ \cup Undefended(D, t, set, failures)]
       IN IF failures = {} THEN Become(r, x)
          ELSE \E f \in Existing(D, r, t) : Flush(r, D, UpsertFinding(D, f, Worst(failures)), x)
  /\ UNCHANGED <<db, cache, held, prior>>

\* update_policy() inserts the next version.
AppendVersion(r) ==
  /\ req[r].pc = "stage" /\ req[r].want = {} /\ req[r].todo # <<>> /\ req[r].in.op = "update"
  /\ LET i == req[r].in  D == Written(r) IN
       /\ NextVersion(D, i.p) <= MaxVersion
       /\ Flush(r, D, AddVersion(D, i.p, i.value), [req[r] EXCEPT !.todo = <<>>])
  /\ UNCHANGED <<db, cache, held, prior>>

\* A row that was loaded is not there, or another one in its place.
Gone(r, row) ==
  \/ db[row] = None
  \/ Id(row) \in DOMAIN req[r].loaded /\ db[Id(row)] # req[r].loaded[Id(row)]

\* An INSERT meets a row that has appeared, or refers to one that is gone; an
\* UPDATE misses one that is gone.  A DELETE of a row that is gone passes.
Deletes(r, l) == l[2] = "all" /\ req[r].cells[l[1]] = None
Clash(r, l) ==
  IF l[2] = "all" THEN ~Deletes(r, l) /\ db[l[1]] # None ELSE Gone(r, l[1])
Miss(r, l) == Deletes(r, l) /\ Gone(r, l[1])
Without(f, c) == [x \in DOMAIN f \ {c} |-> f[x]]

Write(r) ==
  /\ \E l \in req[r].want :
       /\ Free(r, l)
       /\ IF Clash(r, l) THEN Stop(r, "clash")
          ELSE /\ Take(r, l)
               /\ Become(r, [req[r] EXCEPT !.want = @ \ {l},
                               !.cells = IF Miss(r, l) THEN Without(@, l[1]) ELSE @])
  /\ UNCHANGED <<db, cache, prior>>

Flushed(r) == req[r].pc = "stage" /\ req[r].want = {} /\ req[r].todo = <<>>
IsPolicyOp(i) == i.op \in PolicyOps

\* bump_version(): before the commit.
Bump(r) ==
  /\ Flushed(r) /\ IsPolicyOp(req[r].in)
  /\ cache' = None
  /\ Become(r, [req[r] EXCEPT !.pc = "bumped"])
  /\ UNCHANGED <<db, held, prior>>

Commit(r) ==
  /\ IF IsPolicyOp(req[r].in) THEN req[r].pc = "bumped" ELSE Flushed(r)
  /\ db' = Cascade(Written(r))
  /\ Stop(r, "ok")
  /\ UNCHANGED <<cache, prior>>

\* Of two requests that wait for each other PostgreSQL ends one.
Waits(r, q) == req[r].want # {} /\ \A l \in req[r].want : \E m \in held[q] : Excludes(l, m)
Victim(r) ==
  /\ \E q \in Reqs \ {r} : Waits(r, q) /\ Waits(q, r)
  /\ Stop(r, "deadlock")
  /\ UNCHANGED <<db, cache, prior>>

\* Some evaluation fills the cache with the committed policies.
Load ==
  /\ cache # InForce(db) /\ cache' = InForce(db)
  /\ UNCHANGED <<db, req, held, prior>>

Next ==
  \/ \E r \in Reqs : Start(r) \/ Read(r) \/ Test(r) \/ AppendVersion(r)
                       \/ Write(r) \/ Bump(r) \/ Commit(r) \/ Victim(r)
  \/ Load

OpsSpec == Init /\ [][Next]_vars

-----------------------------------------------------------------------------
Ok(r) == req[r].end = "ok"
Wrote(r) == IF Ok(r) THEN DOMAIN req[r].cells ELSE {}
Overlap(p, q) == p # q /\ p \notin prior[q] /\ q \notin prior[p]
FindingsOf(t) == {Finding(f) : f \in {g \in Findings : g[1] = t}}

\* The values of columns, and a finding no less severe than its technique.
TypeOK ==
  /\ DOMAIN db = Cells
  /\ cache = None \/ DOMAIN cache = Policies
  /\ Filed(db)
  /\ \A r \in Reqs : DOMAIN req[r].cells \subseteq Cells

\* A technique has one open finding, unless two assessments that filed findings
\* of it overlapped (redteam/runner.py:54: each looks for an open one before it
\* files), or a retest reopened a finding that had been closed.
Files(p, t) == req[p].in.op = "run" /\ Wrote(p) \cap FindingsOf(t) # {}
Reopens(p, t) ==
  req[p].in.op = "retest" /\ \E x \in Wrote(p) \cap FindingsOf(t) : req[p].cells[x] = "open"
OneOpenFinding ==
  \A t \in Subjects :
    \/ Cardinality(OpenFindings(db, t)) <= 1
    \/ \E p, q \in Reqs : Overlap(p, q) /\ Files(p, t) /\ Files(q, t)
    \/ \E p \in Reqs : Reopens(p, t)

\* A policy in force is the latest of its versions, which are numbered without
\* gaps, unless two updates of it overlapped: one that sets the body it had
\* loaded writes a version and not the policy (policies/service.py:93).
LatestVersionInForce ==
  \A p \in Policies :
    db[Spec(p)] # None =>
      LET versions == VersionsOf(db, p) IN
        /\ versions = 1..Cardinality(versions)
        /\ \/ db[Version(p, Cardinality(versions))] = db[Spec(p)]
           \/ \E a, b \in Reqs : /\ Overlap(a, b) /\ Ok(a) /\ Ok(b)
                                 /\ req[a].in.op = "update" /\ req[a].in.p = p
                                 /\ req[b].in.op = "update" /\ req[b].in.p = p

\* Once the policy that remediates a technique is in force, a test of the
\* technique fails only under cached policies older than it, or because the
\* call needs an approval, which a technique that expects a rate limit does not
\* count as defended.
RemediationDefends ==
  \A r \in Reqs : \A x \in req[r].undefended :
    x.fresh => x.decision = "approval" /\ RemediationSpec(x.t).effect = "rate_limit"
=============================================================================
