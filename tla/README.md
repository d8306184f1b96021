# Formal models of AgentGuard

TLA+ models of the API (`src/apps/api/agentguard_api`) and of the policy engine
(`src/packages/policy-engine`), the TLC instances that check them, and TLAPS
proofs of the properties that matter most. Paths below without a prefix are
relative to `src/apps/api/agentguard_api`.

## 1. The system and its parts

AgentGuard decides, for every action an AI agent is about to take, whether to
allow it. An SDK sends the action to the API; the API compiles the policies
bound to the agent, scans the payload, scores the risk, combines the verdicts,
asks a human where a policy says so, and records what it decided.

Every HTTP request runs in **one database transaction** (`db.get_session`): it
commits when the handler returns and rolls back when it raises, `HTTPException`
included. PostgreSQL runs at READ COMMITTED. Redis is used outside the
transaction. Nothing else serialises requests, and the API runs in several
processes, so any await of one request can be followed by anything another
request does. That is where the hard behaviours come from.

| Part | State | Operations | Talks to | Hard behaviour | What makes it correct |
|---|---|---|---|---|---|
| audit log (`audit_log.py`) | `audit_events`, an advisory lock per organization | `record`, `verify_chain` | called by nearly every writing handler, inside its transaction | the lock order, the transaction start (`occurred_at`) and a random id order rows differently; agents are deleted | one chain, verifiable, no writer starves |
| policy cache (`runtime/loader.py`) | Redis `pver:{org}`, `pset:{org}:v*` | `bump_version`, `_cached_bindings` | policy writers and incident response bump, evaluations read | bump before commit, four awaits per read, TTL, Redis restarts | staleness only from the known window, and bounded |
| approvals (`runtime/service.py`, `approvals/router.py`) | `approval_requests`, `approval_decisions` | `_resolve_approval`, `_decide` | evaluations create and use requests, reviewers decide | unlocked reads, no ORDER BY, expiry, request ids that clients choose and that are unique over all organizations | ALLOW only on a live approval of the exact call |
| policy engine and decision core (`packages/policy-engine`, `runtime/core.py`, `runtime/loader.py`) | none kept | `load_policy_set`, `evaluate`, `combine`, `core_decision` | gets bindings from the cache, DLP and risk verdicts | rows in any order, ties, raising conditions | the strictest applicable effect, with its limit and redactions |
| login sessions (`auth/service.py`, `auth/router.py`) | `sessions` | login, refresh, logout, reuse detection | bearer checks of every user request | check-then-update without a lock | reuse and logout end what they are meant to end |
| runtime guard (`runtime/service.py`, `runtime/emit.py`) | the profile, meters, ClickHouse, the bus | `evaluate_runtime` | all of the above | effects inside and outside the transaction, lock order | effects agree with the answer; a failure is somebody's fault |
| behavior profiles (`detection/`) | one `agent_behavior_profiles` row per agent | `score_anomaly`, `observe` | the runtime guard | first insert is a race, totals assigned from what was read | what is unusual becomes visible |
| rate limiter (`runtime/ratelimit.py`) | a Redis counter per window | `check_and_consume` | the runtime guard | INCR and EXPIRE apart, late requests | at most `max` calls per window |
| incidents (`incidents/`) | `incidents`, `threat_events`, timeline | raise, dedupe, transition, respond | agents (pause), policies (block_tool) | count-based keys, dedupe race, unlocked status | one open threat per agent; closed stays closed |
| organizations (`organizations/router.py`) | `memberships` | add, change role, remove | SCIM and SSO write them too | counting owners without a lock | an organization keeps an owner |
| SCIM, SSO (`scim/`, `sso/`) | identities, groups, connection, memberships | provisioning, group mapping, deactivation, sign-in | memberships, sessions | order and overlap of user and group requests | the role is what the groups say; the deactivated are out |
| API keys, RBAC (`apikeys/`, `rbac/`, `auth/dependencies.py`) | `api_keys`, roles | create, revoke, authenticate | every SDK request | every request writes the key row; roles change meanwhile | a key grants what its creator may do |
| MFA (`auth/router.py`, `auth/service.py`) | columns of `users` | enroll, activate, disable, verify | login | the secret may be replaced meanwhile | MFA asks for a proved secret |
| policies (`policies/`) | `policies`, versions, bindings | create, update, enable, bind, delete | bump the policy cache | numbering of versions, the ORM writes differences | the latest version is in force |
| red team (`redteam/`) | `redteam_findings`, assessments | run, triage, retest, remediate | the core decision, policies | two runs file the same technique | one open finding; remedies work |
| risk engine, DLP (`risk/`, `dlp/`, `data_security/`) | data policies | scoring, mapping classes to actions | the core decision | rounding, thresholds | as red team |
| inventory (`inventory/router.py`) | agents, tools | create, update, delete | read by every decision | edited while assessments run | as red team |
| event bus (`events/bus.py`) | Redis streams | publish, subscribe | handlers publish before they commit | best effort, no order with the commit | phantom events have a known cause |
| billing usage (`billing/usage.py`) | Redis meters | record, flush | the runtime guard | outside the transaction | counts what was answered |
| Python SDK (`packages/sdk-python`) | none | `guard.check`, wait for approval | the API over HTTP | timeouts, fail modes | closed means closed |
| graph, dashboards, analyst, MCP servers, integrations, console, other SDKs, CLI, migrations | rows of their own or none | CRUD, reads, presentation | | none that spans two requests | see "Not modelled" |

## 2. Plan

1. `AuditChain`, `LinearLog`: the audit log and the abstract log it implements. *Done.*
2. `PolicyCache`. *Done.*
3. `Approvals`. *Done.*
4. `PolicyDecision`. *Done.*
5. `Sessions`. *Done.*
6. `Identity`: members, roles, API keys, MFA, SCIM and SSO over one database. *Done.*
7. `Incidents`, and `RuntimeGuard`, which composes it with one evaluation from the
   SDK's call to the commit. *Done.* The decision is an input there.
8. `Operations`: policies, red-team assessments, findings, remediation, data policies
   and inventory around the core decision. *Done.*

Each module has one passing run; a further run is spent only where the code
contradicts a statement about it. What the plan leaves: an atomic evaluation as an
abstract specification that `RuntimeGuard` implements, which holds only modulo the
failures `PhantomEvents` and `AbortsExplained` name. All modules are written without
RECURSIVE operators so that they can be proved about.

## 3. Modules

`M.tla` is the specification, `MCM.tla` its instance for TLC, `MProofs.tla` its
theorems. Every action is one handler or the part of it between two awaits that
another request can see.

### AuditChain, LinearLog

A request begins (its first statement fixes `now()`), calls `record` up to
`Records[r]` times, and commits or rolls back. `record` is `Record` (asks for the
lock), `AcquireLock`, `ReadPrev` (newest visible row by `occurred_at`, then id)
and `Insert`. The lock is a transaction lock: `Commit` and `Rollback` release it.
`DeleteAgent` is the effect of the foreign key's ON DELETE SET NULL on committed rows.
A SHA-256 digest is the identity of the row it covers, with the `agent_id` that
was hashed; `Verifies` is `verify_chain`.

The run **audit** shows that the lock leaves a single first row (`SingleRoot`), that
the log only fails verification after an *inversion* (a row linked to one that
`verify_chain` visits later) or a deletion of an agent (`IntactUnlessInverted`),
that until then every commit is a step of the abstract append-only log
(`AppendsUnlessInverted`; the refinement mapping is `Walk`, which puts in the k-th
place the row with k - 1 rows before it) and that no writer
waits for ever (`EveryRequestEnds`). The run **audit_overlap** shows the
inversion: `audit_log.py:5` says the lock keeps the chain linear, but a transaction
that began earlier and locks later follows the wrong row, and so can two events
of one transaction, which have the same `occurred_at`. An agent's deletion
breaks verification without any overlap (`inventory/router.py:217`,
`models/audit.py:36`), against `docs/MANUAL.md:502`.

Bounds: three requests, one of which writes two events, four rows, one agent that
may be deleted. An inversion needs two requests or two events, a fork three rows.

### PolicyCache

The policy set is the set of write transactions it reflects. A writer is `Bump`
then `Commit` or `Rollback`; a reader is `ReadVersion`, `ReadBlob`, `Load`,
`Store`, and `Finish` at any point. Time is ticks; a blob carries what is left of
its TTL. The run **cache** shows that the current version's blob misses only writes
that were between bump and commit when it was loaded (`StaleOnlyInWindow`), and
that a write committed `TTL + Hold` before a lookup is in what the lookup returns
(`EnforcedInTime`), Redis restarts included. `docs/MANUAL.md:279` says the cached
set is "invalidated on change"; between bump and commit it is not, and the TTL is
the only bound, which is the reason for `EnforcedInTime`. The version peek of
`load_policy_set` that only feeds the `cache_hit` flag is left out.

`Hold` bounds the time from a reader's SELECT to its SET. Nothing in the code does,
so it is an assumption of `EnforcedInTime` (not of `StaleOnlyInWindow`).
Bounds: two writers, two readers, TTL 2, Hold 1, one restart. Two readers are needed
for a late SET to overwrite a newer one; versions repeat after one restart.

### Approvals

An evaluation whose decision is APPROVAL is `Ask` (takes the time), `CheckApproved`,
`CheckPending`, `Insert`, `Commit`; a reviewer is `LoadRequest`, `Decide`. A key is
agent + action + parameter hash. SELECTs without ORDER BY return any matching row;
the unique index on `request_id` makes an insert wait for, or fail on, another one.
The 'expired' mark of `_decide` is rolled back by the exception that follows it, so
`LoadRequest` leaves the row pending.

The run **approvals** shows that ALLOW rests on an approved, unexpired request of that
exact call (`AllowedOnlyIfGranted`), that an APPROVAL answer names a stored request
(`AnswerNamesRequest`), that an approved call waits again only if an expired approval
of the same call is stored (`HonouredUnlessShadowed`), and that a decided request is
not taken up by another reviewer (`NoLateDecision`). **approvals_shadowed** shows
that shadowing against `docs/POLICY.md:99`. The model also exhibits what no run
reports: two evaluations of one call may each open a request (`docs/POLICY.md:97`
says it is reused), and two reviewers who load a request together both decide it,
the last commit winning.

Bounds: three evaluations, two reviewers, two calls, three request ids, TTL 1, two
ticks: enough for an expired approval beside a live one and for two decisions of one
request. The deletion of an agent, which cascades to its requests, is left out.

### PolicyDecision

One evaluation: `Scan` (the DLP finding), `Compile` (`load_policy_set`: bindings one
by one in any order, one entry per policy), `Evaluate` (`evaluate`: rules in order of
`sort_key`, first matched wins ties) and `Conclude` (`combine`, redactions). Conditions
are abstracted to holds, fails or raises on this call, the risk score to the decision
it maps to. The run **decision** shows that, whatever order the bindings come in, the
decision is the strictest of what applies (`DecisionIsStrictest`), that a rate limit is the
one of the foremost matched rule (`LimitIsForemost`) and that redaction names exactly the
paths of policy and scan (`RedactNamesPaths`).
**decision_raises** shows a stored policy whose condition raises: `validate_condition`
accepts any value for `matches`, `re.search` then raises `re.error`, and
`engine.py:5` says no exception is raised for well-formed policies.

Bounds: up to three bindings out of seven over nine policy specifications, chosen so
that ties, defaults, scopes, limits and raising conditions meet.

### Sessions

A session row stands for its refresh token. `Login` inserts an unchained session
(login, registration, MFA, organization switch, OAuth). `Present` is the check of
`rotate`, `Rotate` its flush; a revoked token goes on to `Mark` and `Follow`
(the walk of `_revoke_family`) and `Sweep`, which `LogoutAll` shares; `Logout` is a
single session. `Commit` is also the explicit commit of `rotate` before it reports
the reuse. Rows that a transaction has updated are locked (`held`); the pending
updates of a sweep are flushed in `Commit`, all at once, so the partial lock sets
of two flushes and the database deadlock between them appear only as `Fail`.

The run **sessions** shows that a token that still works has no successor
(`LiveHasNoSuccessor`), hence that only requests which read it together exchange it
twice, and that what reuse detection or logout everywhere found stays revoked, and a
live descendant of it comes from a rotation that was under way between the SELECT and
the commit (`PurgeIsFinal`). **sessions_purge_race** shows such a survivor, against
`docs/AUTH.md:28`. A token that was logged out, not rotated, is also taken for reuse
and ends every session of the user (`auth/service.py:173`); the model follows the code.

Bounds: four requests, four sessions, one live at the start: a fork (two rotations),
its detection, and a rotation or logout beside it.

### RuntimeGuard, Incidents

`Incidents` has the rows that people and evaluations share (threats, incidents,
agents paused, tools blocked), the lock table `held` and the officers' requests:
opening an incident by hand (`CountForOpen`, `Insert`: the key is the count of the
organization's incidents plus one, and unique), moving it (`ReadStatus`, `WriteStatus`),
pause and resume, notify, block_tool (`LookForPolicy`, `WritePolicy`), and resolving a
threat. `RuntimeGuard` EXTENDS it with the evaluations. `Send` is the SDK's call and
the authentication, which reads `usage_count`; `Core` flushes the key row, so that its
lock is held to the end, and has the decision and the anomaly score of the profile read
then; `ReadWindow` and `Consume` are the two Redis calls of the limiter; `Approve` is a
live approval found (which of the two answers it gives is `Approvals`' matter), `Ask` the
insert of a new one under the request's id; `Record` (the audit lock), `Reload` and `Learn` (the profile row: insert, or an UPDATE
of the columns that changed), `Detect`, `Alarm`, `OpenIncident`, `Finish`,
`CommitEval`. `Victim` is PostgreSQL's choice in a deadlock, `Crash` the end of the
process. `Answer`, `Error` and `GiveUp` are the three things an SDK can see; as
`fastapi>=0.115` is not pinned, the answer may precede the commit or follow it.
`met[p]` is the history of the requests p overlapped. The time that makes a threat old
is `Age`; windows end with `Tick`, counters with `Expire`.

A client may send a `request_id` (`runtime/schemas.py:17`), and the column is unique over
all organizations (`models/approval.py:23`). `asks` holds the ids with a committed
approval. `Ask` waits for an insert of the same id that is under way, takes the lock of the
index entry to the end of the transaction, and fails the whole evaluation when the id has
been filed: by an overlapping request, by an earlier one, as when an SDK that did not see
the answer sends its call again, or in another organization (`AskElsewhere`). An id that is
made up (`Nothing`) meets nobody.

The run **guard** shows that an agent has one recent open threat at most although the
lookup takes no lock (`OneOpenThreat`: the profile row happens to serialise it); that an
anomalous call leaves an open threat (`AnomalyIsVisible`); that an evaluation that fails
has a cause of a named kind, and that requests of one key fail one another only by sending
one `request_id` twice (`AbortsExplained`: among the officers, the evaluations and the ids
in use; what else can fail a transaction is under "left out");
that counters assigned from earlier reads are exact without overlap (`CountersExact`);
that the budget holds unless the counter lapsed under a late call (`WithinBudget`); that
a closed fail mode is closed (`FailClosed`); that an event without its row has a known
cause (`PhantomEvents`); and that a closed incident is reopened by two overlapping moves
only (`ClosedUnlessOverlap`). Which redaction an SDK applies after a rate limit or an
approval became ALLOW is in the body of the answer and not modelled.

Bounds: two requests that overlap in any way, out of two evaluations and two officers;
two keys, so that requests wait on each other or do not; two agents, one warm and one
without a profile or with one; one id that a client sends, with one of the two calls that
need an approval, so that both evaluations may send it, of one key or of two, together or
one after the other; another organization files it only while an evaluation is about to,
which is where it matters; budget 1, two windows, the second of which begins only while a
call is about to name its counter or has named it and not incremented it (the action
constraint `TurnsInUse`; a call in any other phase is not affected by which window it is);
an incident that is resolved
already, and a threat that may be open. With two requests every pair of handlers meets;
chains of three waiting requests are covered by the theorems of section 5 and not by
this run.

Left out: the caps of stored lists, titles, severities and timeline rows; the deletion of
an agent while it is evaluated; and the delivery of events to webhooks and integrations,
which updates their rows in the publisher's transaction. An evaluation publishes only while
it holds the organization's audit lock, so those rows never stand between two evaluations,
and all that it asks for afterwards is an incident's key, whose holder waits for nothing.
`transition` publishes without the audit lock: a move and an evaluation that update two
webhooks in different orders can end in a deadlock, and a webhook that is deleted during a
delivery fails the UPDATE. Both only add causes of failure to those `AbortsExplained`
names; a transaction they end leaves what `Victim` and `Crash` leave. The UPDATE of a
folded threat waits for an officer who is resolving it and who then waits for nothing.

### Identity

`db` maps *cells*, the columns of rows, to values. A handler is an operator from the
database the request sees to the one it would leave, or to `None` where the code
refuses; the ORM writes the difference. A request is `Start` (authenticate, load the
rows of the dependency), `Enter` (the first lock), `Read` (the rest of the queries and
the decision), `Write` (locks, unique keys, rows that were deleted meanwhile), `Commit`,
or `Victim`. The user row is loaded before anything is locked, so MFA columns can be
stale even under one session. `prior[r]` is the history of requests that ended before r
began. Refresh and rotation are in `Sessions`.

The audit lock is left out. Most handlers flush their rows before `record` asks for it; the
statement that takes it does not flush, so `update_member_role` and `remove_member` have it
before they write. It can therefore only delay requests or, between the two orders, end
one in a deadlock; a request that is rolled back leaves nothing, and no property lets one
excuse anything.

The run **identity** shows that an owner remains unless two requests that wrote
memberships overlapped (`OwnerRemains`); that a member's role is what the groups say
and a deactivated user is out however the identity provider's requests overlap, so that
only what people did since stands out (`RoleFollowsGroups`, `DeprovisionedStaysOut`);
that a key grants no more than its creator's role until that role changes
(`KeyWithinCreator`); that MFA asks for a secret whose code the user has shown, unless
two changes the user made to it overlapped (`MfaProved`).

`RoleFollowsGroups` has an exception that takes three requests and that the proof
brought to light: a provisioning request loads the SCIM configuration before it locks
it, so it may give the default role that an administrator has just replaced
(`StaleDefault`). `prior` tells it from a default that changed before the request began.

It also says where owners come from (`OwnerAccounted`), because there the code and its
documentation disagree. `docs/SCIM.md:62` says "SCIM never assigns `owner` (a group that
maps to it is treated as `admin`)" and `scim/roles.py:10` "SCIM never provisions an
``owner``". That holds of groups. But `scim/admin.py:118` accepts `owner` as the
configuration's `default_role`, and `scim/service.py:93-95` then gives it to whoever has no
mapped group, as it gives any default; from then on the user is an owner whom SCIM does not
manage (`scim/service.py:83`), and whom a deactivation does not remove. The model does as
the code does, from a starting database whose default role is owner and from any other
after a `config`. What is checked and proved is the rule that the code keeps: a provisioned
owner was one from the start, was made one by somebody, or got the role from a SCIM
request whose default role was owner. No run reports the disagreement as a violation.

Bounds: two requests out of every operation, two users, two groups, one organization in
one of six states chosen so that each operation has something to do: two owners; an SSO
connection, a key and MFA; provisioned members with groups that map to a system role;
an owner whom SCIM has deactivated; a removed user, with owner as the default role. What the model follows and a reader
may not expect: removing a member leaves their sessions; an owner is never managed by
SCIM; the comment at `organizations/router.py:193` says an invited account is activated
when the person signs up or signs in with SSO, but registering an address that has a
row is refused and neither SSO nor OAuth sets `is_active`; `mfa_verify` does not look
up the membership again. Sessions are created with MFA satisfied, so `mfa_pending` is
never true of one. Names, addresses, profile fields and the organization that
registration creates are left out.

### Operations

The same form over policies with versions and bindings, findings, data policies, tools
and the agent's status. `Techniques` is the whole catalogue, by the tools, destinations
and data classes of its variants, `RiskScore` the risk engine in hundredths with Python's
rounding, `DlpAction` the mapping of classes to actions, `CoreDecision` the decision,
`Judge` the evaluator. A request is `Start`, `Read`, for an assessment one `Test` per
technique (it uses the policies in force or those of the cache), `AppendVersion`,
`Write` (with `Clash` on unique keys), `Bump`, `Commit` with the cascade of deleted
rows, `Victim`; `Load` fills the cache. A row that can be deleted and made again has
an identity (`Id`: the primary key, here the request that made it): an UPDATE of a
row that is gone finds nothing even if another of the same name is there (`Gone`,
`Miss`), and the request fails. With two requests this cannot happen; the proof, for any
number, needs it. The behavior of the specification is
`OpsSpec`, since `Spec(p)` is the column of a policy.

The run **operations** shows that a technique has one open finding unless two
assessments that filed it overlapped or a retest reopened a closed one (`OneOpenFinding`); that the
policy in force is the latest of its versions, numbered without gaps, unless two
updates overlapped (`LatestVersionInForce`: the ORM writes no UPDATE for a body equal to
the one it loaded; a finding that is filed again with the same status and severity does get
one in the code, for its assessment and test, and no property depends on it); and that a technique whose remedy is in force fails no test but for
older cached policies or an approval that outranks a rate limit (`RemediationDefends`).
The last exception qualifies `redteam/catalog.py:405`, which calls the remedy a spec
that would defend. A retest tries one variant only and counts the finding's own weight
in the risk; the code never sets the statuses `triaged` and `retest`.

Bounds: two requests, three techniques out of the catalogue (denied, rate limited,
masked), versions up to 3, four starting databases that lie on both sides of the
thresholds. Left out: creating and deleting agents, classifications of stored data,
assigning a finding, the incident made from one, simulations, summaries, priorities and
scopes other than the organization (these are in `PolicyDecision`).

## 4. Runs

| Run | Expect | Properties |
|---|---|---|
| audit | pass | TypeOK, SingleRoot, IntactUnlessInverted, AppendsUnlessInverted, EveryRequestEnds |
| audit_overlap | violation | ChainLinear |
| cache | pass | TypeOK, StaleOnlyInWindow, EnforcedInTime |
| approvals | pass | TypeOK, AllowedOnlyIfGranted, AnswerNamesRequest, HonouredUnlessShadowed, NoLateDecision |
| approvals_shadowed | violation | ApprovedCallAllowed |
| decision | pass | TypeOK, DecisionIsStrictest, LimitIsForemost, RedactNamesPaths |
| decision_raises | violation | NeverRaises |
| sessions | pass | TypeOK, LiveHasNoSuccessor, PurgeIsFinal |
| sessions_purge_race | violation | FamilyRevoked |
| guard | pass | TypeOK, OneOpenThreat, AbortsExplained, CountersExact, WithinBudget, FailClosed, PhantomEvents, ClosedUnlessOverlap, AnomalyIsVisible |
| identity | pass | TypeOK, OwnerRemains, RoleFollowsGroups, DeprovisionedStaysOut, KeyWithinCreator, MfaProved |
| operations | pass | TypeOK, OneOpenFinding, LatestVersionInForce, RemediationDefends |

Requests end, so the models stop: CHECK_DEADLOCK is FALSE where they do. Symmetry is
used for requests, calls and ids that no step tells apart, never in a run with a
liveness property (audit).

**Fairness.** Only `AuditChain` uses it: WF of `Proceed(r)`, the request's own next
statement. It is enabled whenever nothing blocks the request, an await returns, and
PostgreSQL grants the advisory lock once it is free. Weak fairness suffices although
other requests may take the lock in between, because each request takes it for its
last time after finitely many events. `Rollback` and `DeleteAgent` are never owed. The
other specifications state no fairness and no liveness property is checked of them:
their properties are about what has happened. That an evaluation ends is left at
`EveryRequestEnds` for the lock that all requests share, since the whole graph of `guard`
with fairness is too large.

**Environment.** Commits happen before the response is seen: the answer of a request
counts only in a state where its transaction has ended. (Which of the two FastAPI does
first depends on its version; `pyproject.toml` asks for `fastapi>=0.115`. `RuntimeGuard`,
where it matters to the SDK, allows both orders.)
PostgreSQL's READ COMMITTED, row locks, unique indexes and transaction advisory locks
are modelled as its manual describes them; uuid4 ids are unique.

## 5. Proofs

All theorems are of the form `Spec => []Inv` (or an action property), for any sets and
bounds that satisfy the module's named ASSUMEs, which TLC evaluates in the module's run.
They follow one argument: an inductive invariant, a lemma per part of it and step, and
PTL. In the first five modules the invariant is one `IInv` that starts with `TypeOK`; in
the others each theorem has the part it needs, over a common one that says where the
requests stand (`Placing`, `Phases` and `Order`, `Placed`), and `TypeCorrect` is one of
the results.

- **AuditChainProofs** (TypeCorrect, SingleRootHolds, IntactUnlessInvertedHolds,
  AppendsUnlessInvertedHolds), from `AuditAssumption`. While a
  request is between reading and inserting it holds the lock, and only the holder has
  uncommitted rows; so what it read is still all there is when it inserts. A row is
  linked to a row that existed, and if never to a later one, the newest row has no
  successor, from which linearity and verification follow. For the refinement of
  `LinearLog`: without an inversion a new row comes after the newest one that it is
  linked to, so what a transaction has written comes after everything that is
  committed (`Later`); a row keeps its place when rows are added behind it
  (`NthStays`), so a commit extends the walk (`WalkExtended`), each new row linked to the
  one before it (`NthLinked`). The deletion of an agent changes no link and stutters.
- **PolicyCacheProofs** (TypeCorrect, StaleOnlyInWindowHolds, EnforcedInTimeHolds). The
  second rests on a budget: for every blob, the age of a write it misses plus the
  time it has left is at most `TTL + Hold`; the first on versions only growing while
  Redis does not restart.
- **ApprovalsProofs** (TypeCorrect, AllowedOnlyIfGrantedHolds, AnswerNamesRequestHolds,
  HonouredUnlessShadowedHolds, NoLateDecisionHolds). Rows are never deleted, keep key and
  expiry and only gain decisions (`RowsKept`), so an answer that was backed when chosen
  stays so. An approval that was there when the evaluation began is there until its end
  and approved unless somebody rejected it (`Remembered`), so an evaluation that gets past
  the lookup was given another approved row, and that one had expired (`Shadowed`).
- **PolicyDecisionProofs** (TypeCorrect, DecisionIsStrictestHolds, LimitIsForemostHolds,
  RedactNamesPathsHolds). The compiled sequence holds
  exactly the applicable policies, each at its most specific binding (`Deepest`), whatever
  the order; the foremost hit of each effect exists by well-foundedness, and `combine`
  takes a candidate of least rank. What the engine hands over is characterised once
  (`Answered`: its decision is asked for by a matching rule, a limit is the foremost
  one's, the paths are complete), and `Conclude` is shown to turn that into `Outcome`.
- **SessionsProofs** (TypeCorrect, LiveHasNoSuccessorHolds, PurgeIsFinalHolds). From a
  purge's SELECT on, every session it found is revoked or about to be (`Covered`); a
  rotation is known to the purge or presented a session the purge did not find
  (`Watched`); so a link made by a known rotation lies between (`Spread`).
- **RuntimeGuardProofs** (TypeCorrect, OneOpenThreatHolds, AnomalyIsVisibleHolds,
  FailClosedHolds, PhantomEventsHolds, WithinBudgetHolds, ClosedUnlessOverlapHolds,
  AbortsExplainedHolds, CountersExactHolds), from
  `OfficersAssumption`, `SlugAssumption`, `StandingAssumption`, `EarlierAssumption`,
  `ContentAssumption`, `ProfilesAssumption`, `FailModeAssumption` and `BudgetAssumption`.
  Every step of an evaluation is of one of
  three kinds, `Walk`, `Abort` and `CommitEval`, which the parts of the invariant are
  proved over instead of over twenty actions: where a request stands (`Placing`), which
  locks are in its hand (`InHand`), that those who run together have met (`AllMet`), what
  was answered and told (`Answers`, `Told`), that two evaluations are not both past the
  profile's lock of one agent (`Guarded`), what the rows are (`Rows`), that a threat found
  open is still there or a resolver was met (`Seen`), that a move was made from the status
  it saw or another move was met (`Settled`), and that a counter covers what it let
  through until it expires with nobody on the way to it (`Counted`). A second layer
  (`RInv`) adds the reason that an evaluation will give for its failure, met before it fails
  (`Explained`: which locks it can be waiting for is read off `Grip`; an id that is filed was
filed by a committed evaluation or elsewhere, `Filings`), and the tallies of
  what has committed (`Tallied`): a key's count never exceeds its commits and an agent's
  profile has all of them while only requests of one key overlap, because the key row's
  lock makes those load what the one before has written.
- **IdentityProofs** (TypeCorrect, OwnerRemainsHolds, RoleFollowsGroupsHolds,
  DeprovisionedStaysOutHolds, KeyWithinCreatorHolds, MfaProvedHolds), from
  `StartsAssumption`, `OwnedAssumption`, `OfferedAssumption`, `NamesAssumption`,
  `NoneAssumption` and what a starting database is: `TypesAssumption`, `AccessAssumption`,
  `MfaAssumption`, `InLineAssumption`. One lemma per handler: from a database with an
  owner it leaves one. The invariant is that each request is in a sensible phase
  (`Phases`) and either two writers of memberships overlapped (`Excused`) or there is an
  owner and there will be one after what each request has planned (`Planned`); a plan is
  still good when it is written because nobody else wrote a membership since. The other
  results have an invariant of the same kind each: what a request knows is what is
  committed, or a request it overlapped has changed it. For the
  keys, one lemma per handler says that it leaves the keys there are or revokes them
  (`KInv`); for MFA, which of secret and flag each operation writes (`MInv`); for the
  types, that an account is there before a membership or a provisioned row of it is
  (`TInv`). The requests of the identity provider exclude each other by the row of the SCIM
  configuration (`Order`), so what one is about to commit leaves nobody it syncs out of line
  but by a hand that came in since, and moves the groups of no one else (`SInv`); and since
`Priority` has no owner, it makes one only of the default role that it loaded (`Owned`).
- **OperationsProofs** (TypeCorrect, RemediationDefendsHolds, OneOpenFindingHolds,
  LatestVersionInForceHolds), from `SubjectsAssumption`, `MakersAssumption`,
  `MaxVersionAssumption`, `PlansAssumption`, `NoneAssumption`, `SeverityAssumption`,
  `StartsAssumption` and `CatalogueAssumption`, the last a fact about
  the catalogue that TLC evaluates: every variant of a subject is within its remedy. If the
  remedy's effect is among those of a call, the decision is at least as strict, which the
  evaluator counts as defended; the invariant says so of each test already made. The other
  two rest on `Placed` (phases and compatible row locks), over which every step is a turn
  of one request. For findings, an assessment about to file one leaves one open or has
  overlapped another that filed (`Looks`), and whatever is loaded or written of a finding is
  a proper status and severity (`FilingInv`). For policies, the plan of each request with
  the locks it has or waits for (`PolicyPlan`), and what an update has loaded (`LoadedPolicy`):
  the share of the policy's row that an inserted version takes keeps the row from being
  deleted, the lock of the version's number keeps the number free, and a row that was
  deleted and made again is told apart by its identity, so the versions stay without gaps
  and the latest is the body in force, or two updates overlapped.

Every safety property and action property that a run checks is stated by a theorem. Only
model-checked: `EveryRequestEnds` (liveness under fairness is out of the prover's reach).

## 6. Not modelled

- DLP's regular expressions, the operators of conditions, redaction of a payload: computations
  on one text, tested as such; their outcomes are inputs of `PolicyDecision` and the data
  classes of `Operations`.
- MCP servers: rows of their own; a scan and an update each merge one JSON column whole, so
  the later of two overlapping ones wins, and nothing decides by it.
- Integrations and webhooks: single-row CRUD, and deliveries that are attempted once.
- Agents' and identities' creation, subscription, classifications, names and descriptions:
  single rows that no other part waits for. The deletion of an agent is `DeleteAgent`.
- Graph, dashboards, billing pages, exports, the assessment summary: read-only queries.
- The AI analyst: read-only queries and an external model.
- SAML and OIDC exchanges, password hashing, tokens and one-time codes: libraries; a code or
  a password is right or wrong.
- The web console, the TypeScript and .NET SDKs, the CLI, migrations and deployment files:
  presentation, mirrors of the Python SDK, or run once.
