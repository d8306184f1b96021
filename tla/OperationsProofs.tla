--------------------------- MODULE OperationsProofs ---------------------------
(***************************************************************************)
(* Proofs about Operations, for any number of requests, techniques and     *)
(* policies.                                                               *)
(*                                                                         *)
(* The rules of a remedy are matched by every call its technique makes, so *)
(* a decision made under a policy set with the remedy in force is at least *)
(* as strict as the remedy; and everything as strict counts as defended but *)
(* an approval in place of a rate limit (Answered).  A request adds to what *)
(* it has found undefended only with decisions of that kind, and the        *)
(* techniques it tests are among the subjects (Tested).                    *)
(*                                                                         *)
(* The rest argues about what overlaps.  Placed says how far each request   *)
(* is, that those before it are done, and that the row locks of two never   *)
(* exclude each other; every step is then a Turn of one request.  On that   *)
(* rest three invariants:                                                  *)
(*  - FilingInv: what a request has loaded of a finding or will write of it *)
(*    is a status and a severity no less than the technique's;             *)
(*  - OpenInv: while nothing excuses two open findings of a technique, an   *)
(*    assessment about to file one leaves one open, whatever others commit  *)
(*    (Looks);                                                             *)
(*  - PolicyInv: what a request will write of a policy, with the locks that *)
(*    it has or waits for (PolicyPlan); and of an update, that it has       *)
(*    loaded the row that is there or is told apart by its identity         *)
(*    (LoadedPolicy).  A share of the row, once taken, keeps the row, and   *)
(*    the lock of its version keeps the number free, until it commits.      *)
(***************************************************************************)
EXTENDS Operations, FiniteSetTheorems, TLAPS

Fields == {"pc", "in", "loaded", "cells", "want", "todo", "undefended", "end"}
IsRequest(x) == DOMAIN x = Fields /\ x = [f \in Fields |-> x[f]]

\* A test that failed with the remedy in force.
Answered(x) == x.fresh => x.decision = "approval" /\ RemediationSpec(x.t).effect = "rate_limit"

Tested(x) ==
  /\ x.in.op = "run" => x.todo \in Seq(Subjects)
  /\ x.in.op = "retest" => x.in.f[1] \in Subjects

Good(x) == IsRequest(x) /\ Tested(x) /\ \A y \in x.undefended : Answered(y)

IInv == req = [r \in Reqs |-> req[r]] /\ \A r \in Reqs : Good(req[r])

-------------------------------------------------------------------------------
\* The strictest of some decisions is as strict as each of them.
LEMMA StrictestIsFirst ==
  ASSUME NEW S, NEW i \in 1..5, Precedence[i] \in S
  PROVE  \E k \in 1..i : Strictest(S) = Precedence[k]
<1> DEFINE P(k) == Precedence[k] \in S /\ \A j \in 1..5 : Precedence[j] \in S => k <= j
<1>1. \E k \in 1..5 : P(k)
  <2> DEFINE N(k) == Precedence[k] \in S
  <2> HIDE DEF N
  <2>1. N(i)
    BY DEF N
  <2>2. \E k \in 1..5 : N(k) /\ \A j \in 1..5 : N(j) => k <= j
    <3>1. CASE N(1)
      BY <3>1
    <3>2. CASE ~N(1) /\ N(2)
      BY <3>2
    <3>3. CASE ~N(1) /\ ~N(2) /\ N(3)
      BY <3>3
    <3>4. CASE ~N(1) /\ ~N(2) /\ ~N(3) /\ N(4)
      BY <3>4
    <3>5. CASE ~N(1) /\ ~N(2) /\ ~N(3) /\ ~N(4)
      BY <3>5, <2>1
    <3> QED
      BY <3>1, <3>2, <3>3, <3>4, <3>5
  <2> QED
    BY <2>2 DEF N
<1> DEFINE k == CHOOSE k \in 1..5 : P(k)
<1>2. k \in 1..5 /\ P(k)
  BY <1>1
<1>3. k <= i
  BY <1>2
<1>4. Strictest(S) = Precedence[k]
  BY DEF Strictest
<1> QED
  BY <1>2, <1>3, <1>4

\* What a remedy asks for, and what is as strict as that.
LEMMA RemedyEffects ==
  ASSUME NEW t \in Subjects
  PROVE  /\ RemediationSpec(t).effect \in {"deny", "approval", "rate_limit"}
         /\ "deny" \in Techniques[t].defended
         /\ RemediationSpec(t).effect \in Techniques[t].defended
<1>1. t \in DOMAIN Techniques
  BY SubjectsAssumption
<1>2. {"deny", RemediationSpec(t).effect} \subseteq Techniques[t].defended
  BY <1>1, CatalogueAssumption
<1>3. RemediationSpec(t).effect \in {"deny", "approval", "rate_limit"}
  BY DEF RemediationSpec
<1> QED
  BY <1>2, <1>3

\* A test that fails under a policy set with the remedy in force was answered
\* with an approval where a rate limit is expected.
LEMMA FailureIsAnswered ==
  ASSUME NEW D, NEW status, NEW set, NEW t \in Subjects, NEW budget,
         set[t] = RemediationSpec(t),
         NEW v \in Failures(Verdicts(D, status, set, t, budget))
  PROVE  v.decision = "approval" /\ RemediationSpec(t).effect = "rate_limit"
<1> DEFINE effect == RemediationSpec(t).effect
<1>1. PICK n \in DOMAIN VariantsOf(t) :
        v = Judge(t, CoreDecision(D, status, set, VariantsOf(t)[n])) /\ ~v.passed
  BY DEF Failures, Verdicts
<1> DEFINE call == VariantsOf(t)[n]
           core == CoreDecision(D, status, set, call)
<1>2. v.decision = core.decision /\ core.decision \notin Techniques[t].defended
  BY <1>1 DEF Judge
<1>3. status # "paused"
  <2> SUFFICES ASSUME status = "paused" PROVE FALSE
    OBVIOUS
  <2>1. core.decision = "deny"
    BY DEF CoreDecision
  <2> QED
    BY <2>1, <1>2, RemedyEffects
<1>4. effect \in PolicyEffects(set, call.tool)
  <2>1. call.tool \in RemediationSpec(t).tools
    BY DEF RemediationSpec, ToolsOf
  <2>2. t \in Policies /\ set[t] # None
    <3>1. RemediationSpec(t) # None
      BY NoneAssumption
    <3> QED
      BY <3>1 DEF Policies
  <2> QED
    BY <2>1, <2>2 DEF PolicyEffects
<1>5. PICK S : effect \in S /\ core.decision = Strictest(S)
  BY <1>3, <1>4 DEF CoreDecision
<1>6. CASE effect = "deny"
  <2>1. core.decision = "deny"
    BY <1>5, <1>6, StrictestIsFirst, Precedence[1] = "deny" DEF Precedence
  <2> QED
    BY <2>1, <1>2, RemedyEffects
<1>7. CASE effect = "approval"
  <2>1. core.decision \in {"deny", "approval"}
    BY <1>5, <1>7, StrictestIsFirst, Precedence[2] = "approval" DEF Precedence
  <2> QED
    BY <2>1, <1>2, <1>7, RemedyEffects
<1>8. CASE effect = "rate_limit"
  <2>1. core.decision \in {"deny", "approval", "rate_limit"}
    BY <1>5, <1>8, StrictestIsFirst, Precedence[3] = "rate_limit" DEF Precedence
  <2> QED
    BY <2>1, <1>2, <1>8, RemedyEffects
<1> QED
  BY <1>6, <1>7, <1>8, RemedyEffects

LEMMA UndefendedIsAnswered ==
  ASSUME NEW D, NEW E, NEW status, NEW set, NEW t \in Subjects, NEW budget,
         NEW x \in Undefended(D, t, set, Failures(Verdicts(E, status, set, t, budget)))
  PROVE  Answered(x)
<1>1. InForce(D)[t] = RemediationSpec(t)
  BY DEF Undefended
<1>2. PICK v \in Failures(Verdicts(E, status, set, t, budget)) :
        x = [t |-> t, decision |-> v.decision, fresh |-> set = InForce(D)]
  BY <1>1 DEF Undefended
<1> SUFFICES ASSUME x.fresh
             PROVE  x.decision = "approval" /\ RemediationSpec(x.t).effect = "rate_limit"
  BY DEF Answered
<1>3. set = InForce(D)
  BY <1>2
<1>4. v.decision = "approval" /\ RemediationSpec(t).effect = "rate_limit"
  BY <1>1, <1>3, FailureIsAnswered
<1> QED
  BY <1>2, <1>4

-------------------------------------------------------------------------------
\* What a request becomes.
LEMMA FreshIsGood == Good(Fresh)
BY DEF Good, IsRequest, Fields, Fresh, Tested

LEMMA BecomeKeeps ==
  ASSUME IInv, NEW r \in Reqs, NEW x, Good(x), Become(r, x)
  PROVE  IInv'
<1>1. req' = [q \in Reqs |-> IF q = r THEN x ELSE req[q]]
  BY DEF IInv, Become
<1> QED
  BY <1>1 DEF IInv

\* Changing the other fields keeps a request as it is.
LEMMA SetPc == ASSUME NEW x, Good(x), NEW v PROVE Good([x EXCEPT !.pc = v])
BY DEF Good, IsRequest, Fields, Tested

LEMMA SetWant == ASSUME NEW x, Good(x), NEW v PROVE Good([x EXCEPT !.want = v])
BY DEF Good, IsRequest, Fields, Tested

LEMMA Flushing ==
  ASSUME NEW x, Good(x), NEW v, NEW w
  PROVE  Good([x EXCEPT !.cells = v, !.want = w])
BY DEF Good, IsRequest, Fields, Tested

LEMMA ClearTodo == ASSUME NEW x, Good(x) PROVE Good([x EXCEPT !.todo = <<>>])
BY DEF Good, IsRequest, Fields, Tested

LEMMA Ending ==
  ASSUME NEW x, Good(x), NEW how
  PROVE  Good([x EXCEPT !.pc = "done", !.want = {}, !.todo = <<>>, !.loaded = <<>>, !.end = how])
<1> DEFINE y == [[[x EXCEPT !.pc = "done"] EXCEPT !.want = {}] EXCEPT !.todo = <<>>]
<1>1. Good(y)
  <2>1. Good([x EXCEPT !.pc = "done"])
    BY SetPc
  <2>2. Good([[x EXCEPT !.pc = "done"] EXCEPT !.want = {}])
    BY <2>1, SetWant
  <2> QED
    BY <2>2, ClearTodo
<1>2. [x EXCEPT !.pc = "done", !.want = {}, !.todo = <<>>, !.loaded = <<>>, !.end = how]
        = [y EXCEPT !.loaded = <<>>, !.end = how]
  OBVIOUS
<1> HIDE DEF y
<1>3. Good([y EXCEPT !.loaded = <<>>, !.end = how])
  BY <1>1 DEF Good, IsRequest, Fields, Tested
<1> QED
  BY <1>2, <1>3

LEMMA Judging ==
  ASSUME NEW x, Good(x), NEW pc, NEW U, \A y \in U : Answered(y)
  PROVE  Good([x EXCEPT !.pc = pc, !.undefended = U])
BY DEF Good, IsRequest, Fields, Tested

LEMMA Testing ==
  ASSUME NEW x, Good(x), x.todo # <<>>, x.in.op = "run", NEW U, \A y \in U : Answered(y)
  PROVE  Good([x EXCEPT !.todo = Tail(@), !.undefended = @ \cup U])
<1>1. x.todo \in Seq(Subjects) /\ Tail(x.todo) \in Seq(Subjects)
  BY DEF Good, Tested
<1> QED
  BY <1>1 DEF Good, IsRequest, Fields, Tested

LEMMA StopKeeps ==
  ASSUME IInv, NEW r \in Reqs, NEW how, Stop(r, how)
  PROVE  IInv'
<1>1. Good(req[r])
  BY DEF IInv
<1> QED
  BY <1>1, Ending, BecomeKeeps DEF Stop

LEMMA FlushKeeps ==
  ASSUME IInv, NEW r \in Reqs, NEW D, NEW E, NEW x, Good(x), Flush(r, D, E, x)
  PROVE  IInv'
<1> DEFINE y == [x EXCEPT !.cells = Upon(Changes(D, E), @), !.want = Locks(D, E)]
<1>1. y = [x EXCEPT !.cells = Upon(Changes(D, E), x.cells), !.want = Locks(D, E)]
  BY DEF Good, IsRequest, Fields
<1>2. Good(y)
  BY <1>1, Flushing
<1> QED
  BY <1>2, BecomeKeeps DEF Flush

-------------------------------------------------------------------------------
\* To start with no request has tested anything.
THEOREM InitIInv == Init => IInv
BY FreshIsGood DEF Init, IInv

LEMMA StartKeeps == ASSUME IInv, NEW r \in Reqs, Start(r) PROVE IInv'
<1>1. PICK i \in Inputs :
        Become(r, [Fresh EXCEPT
          !.pc = IF i.op = "run" THEN "stage" ELSE "read", !.in = i,
          !.loaded = IF Subject(i) = None THEN <<>> ELSE [c \in Columns(Subject(i)) |-> db[c]],
          !.todo = IF i.op = "run" THEN i.ts ELSE IF i.op = "update" THEN <<"version">> ELSE <<>>])
  BY DEF Start
<1>2. i.op = "run" => i.ts \in Seq(Subjects)
  BY PlansAssumption DEF Inputs
<1>3. i.op = "retest" => i.f[1] \in Subjects
  BY DEF Inputs, Findings
<1> DEFINE x == [Fresh EXCEPT
          !.pc = IF i.op = "run" THEN "stage" ELSE "read", !.in = i,
          !.loaded = IF Subject(i) = None THEN <<>> ELSE [c \in Columns(Subject(i)) |-> db[c]],
          !.todo = IF i.op = "run" THEN i.ts ELSE IF i.op = "update" THEN <<"version">> ELSE <<>>]
<1>4. IsRequest(x) /\ x.in = i /\ x.undefended = {} /\ (i.op = "run" => x.todo = i.ts)
  BY DEF IsRequest, Fields, Fresh
<1>5. Good(x)
  BY <1>2, <1>3, <1>4 DEF Good, Tested
<1> QED
  BY <1>1, <1>5, BecomeKeeps

LEMMA ReadKeeps == ASSUME IInv, NEW r \in Reqs, Read(r) PROVE IInv'
<1> DEFINE i == req[r].in
           D == View(r)
           U(verdicts, set) == IF i.op = "retest"
                               THEN Undefended(db, i.f[1], set, Failures(verdicts)) ELSE {}
           step(verdicts, set) ==
             LET E == Handler(r, i, D, CHOOSE v \in verdicts : TRUE) IN
               IF E = None THEN Stop(r, "refused")
               ELSE /\ Flush(r, D, E, [req[r] EXCEPT !.pc = "stage", !.undefended = U(verdicts, set)])
                    /\ UNCHANGED held
<1>0. Good(req[r])
  BY DEF IInv
<1>1. ASSUME NEW verdicts, NEW set, step(verdicts, set), \A y \in U(verdicts, set) : Answered(y)
      PROVE  IInv'
  <2>1. Good([req[r] EXCEPT !.pc = "stage", !.undefended = U(verdicts, set)])
    BY <1>0, <1>1, Judging
  <2>2. CASE Handler(r, i, D, CHOOSE v \in verdicts : TRUE) = None
    BY <2>2, <1>1, StopKeeps
  <2>3. CASE Handler(r, i, D, CHOOSE v \in verdicts : TRUE) # None
    BY <2>1, <2>3, <1>1, FlushKeeps
  <2> QED
    BY <2>2, <2>3
<1>2. CASE i.op = "retest"
  <2>1. i.f[1] \in Subjects
    BY <1>0, <1>2 DEF Good, Tested
  <2>2. PICK set \in PolicySets : step(Verdicts(db, db[AgentStatus], set, i.f[1], 1), set)
    BY <1>2 DEF Read
  <2>3. \A y \in U(Verdicts(db, db[AgentStatus], set, i.f[1], 1), set) : Answered(y)
    BY <1>2, <2>1, UndefendedIsAnswered
  <2> HIDE DEF step, U
  <2> QED
    BY <1>1, <2>2, <2>3
<1>3. CASE i.op # "retest"
  <2>1. step({None}, None)
    BY <1>3 DEF Read
  <2>2. U({None}, None) = {}
    BY <1>3
  <2> HIDE DEF step, U
  <2> QED
    BY <1>1, <2>1, <2>2
<1> QED
  BY <1>2, <1>3

LEMMA TestKeeps == ASSUME IInv, NEW r \in Reqs, Test(r) PROVE IInv'
<1> DEFINE t == Head(req[r].todo)
           status == req[r].loaded[AgentStatus]
           budget == req[r].in.budget
           D == Written(r)
<1>0. Good(req[r]) /\ req[r].in.op = "run" /\ req[r].todo # <<>>
  BY DEF IInv, Test
<1>1. t \in Subjects
  BY <1>0 DEF Good, Tested
<1>2. PICK set \in PolicySets :
        LET failures == Failures(Verdicts(D, status, set, t, budget))
            x == [req[r] EXCEPT !.todo = Tail(@), !.undefended = @ \cup Undefended(D, t, set, failures)]
        IN IF failures = {} THEN Become(r, x)
           ELSE \E f \in Existing(D, r, t) : Flush(r, D, UpsertFinding(D, f, Worst(failures)), x)
  BY DEF Test
<1> DEFINE failures == Failures(Verdicts(D, status, set, t, budget))
           x == [req[r] EXCEPT !.todo = Tail(@), !.undefended = @ \cup Undefended(D, t, set, failures)]
<1>3. \A y \in Undefended(D, t, set, failures) : Answered(y)
  BY <1>1, UndefendedIsAnswered
<1>4. Good(x)
  BY <1>0, <1>3, Testing
<1>5. CASE failures = {}
  <2>1. Become(r, x)
    BY <1>2, <1>5
  <2> HIDE DEF x
  <2> QED
    BY <1>4, <2>1, BecomeKeeps
<1>6. CASE failures # {}
  <2>1. PICK f : Flush(r, D, UpsertFinding(D, f, Worst(failures)), x)
    BY <1>2, <1>6
  <2> HIDE DEF x
  <2> QED
    BY <1>4, <2>1, FlushKeeps
<1> QED
  BY <1>5, <1>6

LEMMA AppendVersionKeeps == ASSUME IInv, NEW r \in Reqs, AppendVersion(r) PROVE IInv'
<1>1. Good(req[r])
  BY DEF IInv
<1>2. Good([req[r] EXCEPT !.todo = <<>>])
  BY <1>1, ClearTodo
<1> QED
  BY <1>2, FlushKeeps DEF AppendVersion

LEMMA WriteKeeps == ASSUME IInv, NEW r \in Reqs, Write(r) PROVE IInv'
<1>1. Good(req[r])
  BY DEF IInv
<1>2. \E l \in req[r].want : \E f :
        \/ Stop(r, "clash")
        \/ Become(r, [req[r] EXCEPT !.want = @ \ {l}, !.cells = f])
  <2>1. PICK l \in req[r].want :
          \/ Stop(r, "clash")
          \/ Become(r, [req[r] EXCEPT !.want = @ \ {l}, !.cells = IF Miss(r, l) THEN Without(@, l[1]) ELSE @])
    BY DEF Write
  <2> DEFINE f == IF Miss(r, l) THEN Without(req[r].cells, l[1]) ELSE req[r].cells
  <2>2. [req[r] EXCEPT !.want = @ \ {l}, !.cells = IF Miss(r, l) THEN Without(@, l[1]) ELSE @]
          = [req[r] EXCEPT !.want = @ \ {l}, !.cells = f]
    BY <1>1 DEF Good, IsRequest, Fields
  <2> HIDE DEF f
  <2> QED
    BY <2>1, <2>2
<1>5. PICK l \in req[r].want : \E f :
        \/ Stop(r, "clash")
        \/ Become(r, [req[r] EXCEPT !.want = @ \ {l}, !.cells = f])
  BY <1>2
<1>6. PICK f :
        \/ Stop(r, "clash")
        \/ Become(r, [req[r] EXCEPT !.want = @ \ {l}, !.cells = f])
  BY <1>5
<1>3. [req[r] EXCEPT !.want = @ \ {l}, !.cells = f] = [req[r] EXCEPT !.cells = f, !.want = req[r].want \ {l}]
  BY <1>1 DEF Good, IsRequest, Fields
<1>4. Good([req[r] EXCEPT !.want = @ \ {l}, !.cells = f])
  BY <1>1, <1>3, Flushing
<1> QED
  BY <1>4, <1>6, StopKeeps, BecomeKeeps

LEMMA BumpKeeps == ASSUME IInv, NEW r \in Reqs, Bump(r) PROVE IInv'
<1>1. Good([req[r] EXCEPT !.pc = "bumped"])
  BY SetPc DEF IInv
<1> QED
  BY <1>1, BecomeKeeps DEF Bump

\* No step leaves a test of a remedied technique answered less strictly than its
\* remedy (the runner, the retest, and everything that edits what they read).
THEOREM NextIInv == IInv /\ [Next]_vars => IInv'
<1> SUFFICES ASSUME IInv, [Next]_vars PROVE IInv'
  OBVIOUS
<1>1. ASSUME NEW r \in Reqs, Start(r) PROVE IInv'
  BY <1>1, StartKeeps
<1>2. ASSUME NEW r \in Reqs, Read(r) PROVE IInv'
  BY <1>2, ReadKeeps
<1>3. ASSUME NEW r \in Reqs, Test(r) PROVE IInv'
  BY <1>3, TestKeeps
<1>4. ASSUME NEW r \in Reqs, AppendVersion(r) PROVE IInv'
  BY <1>4, AppendVersionKeeps
<1>5. ASSUME NEW r \in Reqs, Write(r) PROVE IInv'
  BY <1>5, WriteKeeps
<1>6. ASSUME NEW r \in Reqs, Bump(r) PROVE IInv'
  BY <1>6, BumpKeeps
<1>7. ASSUME NEW r \in Reqs, Commit(r) PROVE IInv'
  BY <1>7, StopKeeps DEF Commit
<1>8. ASSUME NEW r \in Reqs, Victim(r) PROVE IInv'
  BY <1>8, StopKeeps DEF Victim
<1>9. CASE Load \/ UNCHANGED vars
  BY <1>9 DEF Load, vars, IInv
<1> QED
  BY <1>1, <1>2, <1>3, <1>4, <1>5, <1>6, <1>7, <1>8, <1>9 DEF Next

\* However a remedy came to be in force, and whatever else the policies, the
\* inventory and the findings became meanwhile, a test its rules apply to is
\* answered as strictly (redteam/catalog.py, runtime/core.py).
THEOREM RemediationDefendsHolds == OpsSpec => []RemediationDefends
<1>1. IInv => RemediationDefends
  BY DEF IInv, Good, Answered, RemediationDefends
<1> QED
  BY <1>1, InitIInv, NextIInv, PTL DEF OpsSpec

-------------------------------------------------------------------------------
\* What every part of the invariant rests on: how far a request is, what it has
\* loaded and planned by then, and that those who ended before are done.
Planning(r) == req[r].pc \in {"stage", "bumped"}
Busy(r)     == req[r].pc \in {"read", "stage", "bumped"}

Phase(r) ==
  LET x == req[r] IN
    /\ x.pc \in {"idle", "read", "stage", "bumped", "done"}
    /\ x.end = "ok" => x.pc = "done"
    /\ x.pc # "idle" => x.in \in Inputs
    /\ x.pc \in {"idle", "read"} => x.cells = <<>>
    /\ x.pc # "stage" => x.want = {}
    /\ x.pc \in {"idle", "read", "done"} => held[r] = {}
    /\ x.pc = "read" => x.in.op # "run" /\ (x.in.op = "update" => x.todo # <<>>)
    /\ x.pc = "bumped" => x.todo = <<>>
    /\ Busy(r) => DOMAIN x.loaded = IF Subject(x.in) = None THEN {} ELSE Columns(Subject(x.in))
    /\ DOMAIN x.cells \subseteq Cells

Placed ==
  /\ held = [r \in Reqs |-> held[r]] /\ prior = [r \in Reqs |-> prior[r]]
  /\ DOMAIN db = Cells
  /\ \A r \in Reqs : Phase(r)
  /\ \A r \in Reqs : \A q \in prior[r] : q \in Reqs /\ req[q].pc = "done"
  /\ \A q, r \in Reqs : q # r => \A l \in held[q], m \in held[r] : ~Excludes(l, m)

\* Findings: what a request has loaded or will write keeps them filed.
Filing(r) ==
  LET x == req[r] IN
    /\ Busy(r) => \A f \in Findings :
         /\ Severity(f) \in DOMAIN x.loaded <=> Finding(f) \in DOMAIN x.loaded
         /\ Finding(f) \in DOMAIN x.loaded =>
              /\ db[Finding(f)] # None /\ x.loaded[Finding(f)] \in Statuses
              /\ x.loaded[Severity(f)] \in AtLeast(f[1])
    /\ Planning(r) => \A f \in Findings :
         /\ Finding(f) \in DOMAIN x.cells => x.cells[Finding(f)] \in Statuses
         /\ Severity(f) \in DOMAIN x.cells => x.cells[Severity(f)] \in AtLeast(f[1])
         /\ ~(Finding(f) \in DOMAIN x.cells <=> Severity(f) \in DOMAIN x.cells) => db[Finding(f)] # None

FilingInv == Filed(db) /\ \A r \in Reqs : Filing(r)

\* Open findings.
TouchesFinding(r, t) == DOMAIN req[r].cells \cap FindingsOf(t) # {}
OneOpen(D, t) == \A f, g \in OpenFindings(D, t) : f = g
LateFinding(r, t) == \E p \in Reqs : Overlap(p, r) /\ Files(p, t)
Pardoned(t) ==
  \/ \E p, q \in Reqs : Overlap(p, q) /\ Files(p, t) /\ Files(q, t)
  \/ \E p \in Reqs : Reopens(p, t)

Opening(r) ==
  Planning(r) =>
    \A f \in Findings : Finding(f) \in DOMAIN req[r].cells =>
      \/ req[r].in.op = "run"
      \/ req[r].cells[Finding(f)] \notin OpenStatuses
      \/ req[r].in.op = "retest" /\ req[r].cells[Finding(f)] = "open"

\* An assessment that files a finding has one open, unless another has filed one
\* since it started.
Looks(r, t) ==
  Planning(r) /\ req[r].in.op = "run" /\ TouchesFinding(r, t) => OneOpen(Written(r), t) \/ LateFinding(r, t)

OpenInv ==
  /\ \A r \in Reqs : Opening(r)
  /\ \A t \in Subjects : Pardoned(t) \/ (OneOpen(db, t) /\ \A r \in Reqs : Looks(r, t))

\* Policies.
Clashed(p) ==
  \E a, b \in Reqs : /\ Overlap(a, b) /\ Ok(a) /\ Ok(b)
                     /\ req[a].in.op = "update" /\ req[a].in.p = p
                     /\ req[b].in.op = "update" /\ req[b].in.p = p
LateUpdate(r, p) == \E b \in Reqs : Overlap(b, r) /\ Ok(b) /\ req[b].in.op = "update" /\ req[b].in.p = p
Makes(x, p) ==
  \/ x.in.op = "create" /\ x.in.p = p
  \/ x.in.op = "remedy" /\ x.in.f[1] = p
Updates(x, p) == x.in.op = "update" /\ x.in.p = p
Settled(m) == m # None /\ (m \in Reqs => req[m].pc = "done")

PolicyRow(p) ==
  IF db[Spec(p)] = None THEN db[Id(Spec(p))] = None /\ VersionsOf(db, p) = {}
  ELSE /\ Settled(db[Id(Spec(p))])
       /\ \E k \in 1..MaxVersion : /\ VersionsOf(db, p) = 1..k
                                   /\ db[Version(p, k)] = db[Spec(p)] \/ Clashed(p)

Locked(r, l) == l \in req[r].want \cup held[r]
Same(r, p) == db[Id(Spec(p))] = req[r].loaded[Id(Spec(p))]

\* What r is about to write of policy p, with the locks it has or waits for.
PlansSpec(r, p) ==
  LET x == req[r] IN
    \/ Updates(x, p) /\ x.cells[Spec(p)] = x.in.value /\ Locked(r, <<Spec(p), "update">>)
    \/ x.in.op = "delete" /\ x.cells[Spec(p)] = None /\ Locked(r, <<Spec(p), "all">>)
    \/ /\ Makes(x, p) /\ {Id(Spec(p)), Version(p, 1)} \subseteq DOMAIN x.cells
       /\ x.cells[Id(Spec(p))] = r /\ x.cells[Spec(p)] # None /\ x.cells[Version(p, 1)] = x.cells[Spec(p)]
       /\ Locked(r, <<Spec(p), "all">>)
       /\ <<Spec(p), "all">> \in held[r] => db[Spec(p)] = None
PlansVersion(r, p, n) ==
  LET x == req[r] IN
    \/ /\ Updates(x, p) /\ x.todo = <<>> /\ x.cells[Version(p, n)] = x.in.value
       /\ Locked(r, <<Version(p, n), "all">>) /\ Locked(r, <<Spec(p), "share">>)
       /\ <<Version(p, n), "all">> \in held[r] => db[Version(p, n)] = None
       /\ Same(r, p) => 1..(n - 1) \subseteq VersionsOf(db, p)
    \/ Makes(x, p) /\ n = 1 /\ Spec(p) \in DOMAIN x.cells /\ Locked(r, <<Version(p, 1), "all">>)

PolicyPlan(r, p) ==
  LET x == req[r] IN
    /\ Spec(p) \in DOMAIN x.cells => PlansSpec(r, p)
    /\ Id(Spec(p)) \in DOMAIN x.cells => Makes(x, p) /\ Spec(p) \in DOMAIN x.cells
    /\ \A n \in 1..MaxVersion : Version(p, n) \in DOMAIN x.cells => PlansVersion(r, p, n)
    /\ Updates(x, p) /\ Spec(p) \notin DOMAIN x.cells => x.loaded[Spec(p)] = x.in.value
    /\ Updates(x, p) /\ x.todo = <<>> => \E n \in 1..MaxVersion : Version(p, n) \in DOMAIN x.cells

LoadedPolicy(r, p) ==
  /\ Settled(req[r].loaded[Id(Spec(p))]) /\ req[r].loaded[Spec(p)] # None
  /\ Same(r, p) => db[Spec(p)] = req[r].loaded[Spec(p)] \/ LateUpdate(r, p)
  /\ <<Spec(p), "share">> \in held[r] => Same(r, p)

Abides(r, p) ==
  /\ Planning(r) => PolicyPlan(r, p)
  /\ Busy(r) /\ Updates(req[r], p) => LoadedPolicy(r, p)

PolicyInv == \A p \in Policies : PolicyRow(p) /\ \A r \in Reqs : Abides(r, p)

-------------------------------------------------------------------------------
\* What each step does to the request that takes it.
Others(r) == \A q \in Reqs \ {r} : req'[q] = req[q] /\ held'[q] = held[q] /\ prior'[q] = prior[q]

Begins(r) ==
  /\ req[r].pc = "idle" /\ db' = db /\ held' = held /\ cache' = cache /\ Others(r)
  /\ prior' = [prior EXCEPT ![r] = {q \in Reqs : req[q].pc = "done"}]
  /\ \E i \in Inputs :
       /\ Subject(i) # None => db[Subject(i)] # None
       /\ req'[r].pc = IF i.op = "run" THEN "stage" ELSE "read"
       /\ req'[r].in = i /\ req'[r].cells = <<>> /\ req'[r].want = {} /\ req'[r].end = "none"
       /\ req'[r].loaded = IF Subject(i) = None THEN <<>> ELSE [c \in Columns(Subject(i)) |-> db[c]]
       /\ i.op = "update" => req'[r].todo # <<>>

\* Its request and what it has loaded stay; so does the database, until it ends.
Goes(r) ==
  /\ Others(r) /\ prior' = prior
  /\ req'[r].in = req[r].in /\ req[r].pc \in {"read", "stage", "bumped"}
Stays(r) ==
  Goes(r) /\ db' = db /\ req'[r].loaded = req[r].loaded /\ req'[r].end = req[r].end

Walks(r) ==
  /\ Stays(r) /\ held' = held
  /\ req'[r].cells = req[r].cells /\ req'[r].want = req[r].want
  /\ req[r].pc = "stage" /\ req'[r].pc \in {"stage", "bumped"}
  /\ req'[r].pc = "bumped" => req[r].want = {} /\ req[r].todo = <<>>
  /\ req'[r].in.op # "run" \/ req'[r].pc = "bumped" => req'[r].todo = req[r].todo

Decides(r, D, E) ==
  /\ Stays(r) /\ held' = held /\ cache' = cache
  /\ req[r].pc \in {"read", "stage"} /\ req'[r].pc = "stage" /\ req[r].want = {}
  /\ req'[r].cells = Upon(Changes(D, E), req[r].cells) /\ req'[r].want = Locks(D, E)

Takes(r, l) ==
  /\ Stays(r) /\ cache' = cache
  /\ req[r].pc = "stage" /\ req'[r].pc = "stage" /\ req'[r].todo = req[r].todo
  /\ l \in req[r].want /\ req'[r].want = req[r].want \ {l}
  /\ Free(r, l) /\ ~Clash(r, l) /\ held' = [held EXCEPT ![r] = @ \cup {l}]
  /\ req'[r].cells = IF Miss(r, l) THEN Without(req[r].cells, l[1]) ELSE req[r].cells

Quits(r) ==
  /\ Goes(r) /\ db' = db /\ cache' = cache /\ held' = [held EXCEPT ![r] = {}]
  /\ req'[r].pc = "done" /\ req'[r].end # "ok" /\ req'[r].cells = req[r].cells /\ req'[r].want = {}

Commits(r) ==
  /\ Goes(r) /\ db' = Cascade(Written(r)) /\ cache' = cache /\ held' = [held EXCEPT ![r] = {}]
  /\ req[r].pc \in {"stage", "bumped"} /\ req[r].want = {} /\ req[r].todo = <<>>
  /\ req'[r].pc = "done" /\ req'[r].end = "ok" /\ req'[r].cells = req[r].cells /\ req'[r].want = {}

Aside == db' = db /\ req' = req /\ held' = held /\ prior' = prior

\* ... and which of them a step is.
LEMMA BecomeOthers ==
  ASSUME IInv, Placed, NEW r \in Reqs, NEW x, Become(r, x)
  PROVE  /\ req' = [q \in Reqs |-> IF q = r THEN x ELSE req[q]]
         /\ req'[r] = x /\ \A q \in Reqs \ {r} : req'[q] = req[q]
BY DEF IInv, Become

LEMMA StopQuits ==
  ASSUME IInv, Placed, NEW r \in Reqs, NEW how, how # "ok", Stop(r, how), UNCHANGED <<db, cache, prior>>,
         req[r].pc \in {"read", "stage", "bumped"}
  PROVE  Quits(r)
<1> DEFINE x == [req[r] EXCEPT !.pc = "done", !.want = {}, !.todo = <<>>, !.loaded = <<>>, !.end = how]
<1>1. /\ x.in = req[r].in /\ x.pc = "done" /\ x.end = how /\ x.cells = req[r].cells /\ x.want = {}
  BY DEF IInv, Good, IsRequest, Fields
<1>2. Become(r, x) /\ held' = [held EXCEPT ![r] = {}]
  BY DEF Stop
<1> HIDE DEF x
<1>3. req'[r] = x /\ \A q \in Reqs \ {r} : req'[q] = req[q]
  BY <1>2, BecomeOthers
<1>4. \A q \in Reqs \ {r} : held'[q] = held[q]
  BY <1>2 DEF Placed
<1> QED
  BY <1>1, <1>2, <1>3, <1>4 DEF Quits, Goes, Others

LEMMA FlushDecides ==
  ASSUME IInv, Placed, NEW r \in Reqs, NEW D, NEW E, NEW x, IsRequest(x), Flush(r, D, E, x),
         UNCHANGED <<db, cache, held, prior>>,
         req[r].pc \in {"read", "stage"}, req[r].want = {}, x.pc = "stage", x.in = req[r].in,
         x.loaded = req[r].loaded, x.end = req[r].end, x.cells = req[r].cells
  PROVE  Decides(r, D, E) /\ req'[r].todo = x.todo
<1> DEFINE y == [x EXCEPT !.cells = Upon(Changes(D, E), @), !.want = Locks(D, E)]
<1>1. /\ y.pc = "stage" /\ y.in = x.in /\ y.loaded = x.loaded /\ y.end = x.end /\ y.todo = x.todo
      /\ y.cells = Upon(Changes(D, E), x.cells) /\ y.want = Locks(D, E)
  BY DEF IsRequest, Fields
<1>2. Become(r, y)
  BY DEF Flush
<1> HIDE DEF y
<1>3. req'[r] = y /\ \A q \in Reqs \ {r} : req'[q] = req[q]
  BY <1>2, BecomeOthers
<1> QED
  BY <1>1, <1>3 DEF Decides, Stays, Goes, Others

LEMMA StartBegins ==
  ASSUME IInv, Placed, NEW r \in Reqs, Start(r)
  PROVE  Begins(r)
<1>1. PICK i \in Inputs :
        /\ Subject(i) # None => db[Subject(i)] # None
        /\ Become(r, [Fresh EXCEPT
          !.pc = IF i.op = "run" THEN "stage" ELSE "read", !.in = i,
          !.loaded = IF Subject(i) = None THEN <<>> ELSE [c \in Columns(Subject(i)) |-> db[c]],
          !.todo = IF i.op = "run" THEN i.ts ELSE IF i.op = "update" THEN <<"version">> ELSE <<>>])
  BY DEF Start
<1> DEFINE x == [Fresh EXCEPT
          !.pc = IF i.op = "run" THEN "stage" ELSE "read", !.in = i,
          !.loaded = IF Subject(i) = None THEN <<>> ELSE [c \in Columns(Subject(i)) |-> db[c]],
          !.todo = IF i.op = "run" THEN i.ts ELSE IF i.op = "update" THEN <<"version">> ELSE <<>>]
<1>2. /\ x.pc = IF i.op = "run" THEN "stage" ELSE "read"
      /\ x.in = i /\ x.cells = <<>> /\ x.want = {} /\ x.end = "none"
      /\ x.loaded = IF Subject(i) = None THEN <<>> ELSE [c \in Columns(Subject(i)) |-> db[c]]
      /\ i.op = "update" => x.todo # <<>>
  BY DEF Fresh
<1> HIDE DEF x
<1>3. req'[r] = x /\ \A q \in Reqs \ {r} : req'[q] = req[q]
  BY <1>1, BecomeOthers DEF x
<1>4. /\ prior' = [prior EXCEPT ![r] = {q \in Reqs : req[q].pc = "done"}]
      /\ UNCHANGED <<db, cache, held>> /\ req[r].pc = "idle"
  BY DEF Start
<1>5. \A q \in Reqs \ {r} : prior'[q] = prior[q]
  BY <1>4 DEF Placed
<1>6. Others(r)
  BY <1>3, <1>4, <1>5 DEF Others
<1> QED
  BY <1>1, <1>2, <1>3, <1>4, <1>6 DEF Begins

LEMMA RequestIs ==
  ASSUME IInv, NEW r \in Reqs
  PROVE  DOMAIN req[r] = Fields /\ req[r] = [f \in Fields |-> req[r][f]]
BY DEF IInv, Good, IsRequest

LEMMA ReadDecides ==
  ASSUME IInv, Placed, NEW r \in Reqs, Read(r)
  PROVE  \/ Quits(r)
         \/ \E v : LET E == Handler(r, req[r].in, View(r), v) IN
              /\ E # None /\ Decides(r, View(r), E) /\ req[r].pc = "read" /\ req'[r].todo = req[r].todo
              /\ req[r].in.op = "retest" =>
                   \E set : v = CHOOSE w \in Verdicts(db, db[AgentStatus], set, req[r].in.f[1], 1) : TRUE
<1> DEFINE i == req[r].in
           D == View(r)
           U(verdicts, set) == IF i.op = "retest"
                               THEN Undefended(db, i.f[1], set, Failures(verdicts)) ELSE {}
           step(verdicts, set) ==
             LET E == Handler(r, i, D, CHOOSE v \in verdicts : TRUE) IN
               IF E = None THEN Stop(r, "refused")
               ELSE /\ Flush(r, D, E, [req[r] EXCEPT !.pc = "stage", !.undefended = U(verdicts, set)])
                    /\ UNCHANGED held
<1>0. req[r].pc = "read" /\ UNCHANGED <<db, cache, prior>>
  BY DEF Read
<1>1. Phase(r)
  BY DEF Placed
<1>2. ASSUME NEW verdicts, NEW set, step(verdicts, set)
      PROVE  \/ Quits(r)
             \/ LET E == Handler(r, i, D, CHOOSE v \in verdicts : TRUE) IN
                  E # None /\ Decides(r, D, E) /\ req'[r].todo = req[r].todo
  <2> DEFINE E == Handler(r, i, D, CHOOSE v \in verdicts : TRUE)
             x == [req[r] EXCEPT !.pc = "stage", !.undefended = U(verdicts, set)]
  <2>1. CASE E = None
    <3>1. Stop(r, "refused")
      BY <1>2, <2>1
    <3> QED
      BY <3>1, <1>0, StopQuits
  <2>2. CASE E # None
    <3>1. Flush(r, D, E, x) /\ UNCHANGED held
      BY <1>2, <2>2
    <3>2. /\ x.pc = "stage" /\ x.in = req[r].in /\ x.loaded = req[r].loaded /\ x.end = req[r].end
          /\ x.cells = req[r].cells /\ x.todo = req[r].todo /\ IsRequest(x)
      BY RequestIs DEF Fields, IsRequest
    <3>3. req[r].want = {}
      BY <1>0, <1>1 DEF Phase
    <3> HIDE DEF x, E
    <3>4. Decides(r, D, E) /\ req'[r].todo = req[r].todo
      BY <1>0, <3>1, <3>2, <3>3, FlushDecides
    <3> QED
      BY <2>2, <3>4 DEF E
  <2> QED
    BY <2>1, <2>2
<1>3. CASE i.op = "retest"
  <2>1. PICK set \in PolicySets : step(Verdicts(db, db[AgentStatus], set, i.f[1], 1), set)
    BY <1>3 DEF Read
  <2> HIDE DEF step
  <2>2. PICK v : v = CHOOSE w \in Verdicts(db, db[AgentStatus], set, i.f[1], 1) : TRUE
    OBVIOUS
  <2> QED
    BY <1>0, <1>2, <2>1, <2>2
<1>4. CASE i.op # "retest"
  <2>1. step({None}, None)
    BY <1>4 DEF Read
  <2> HIDE DEF step
  <2>2. PICK v : v = CHOOSE w \in {None} : TRUE
    OBVIOUS
  <2> QED
    BY <1>0, <1>2, <1>4, <2>1, <2>2
<1> QED
  BY <1>3, <1>4

LEMMA TestDecides ==
  ASSUME IInv, Placed, NEW r \in Reqs, Test(r)
  PROVE  /\ req[r].in.op = "run" /\ req[r].pc = "stage"
         /\ \/ Walks(r)
            \/ \E status, set : LET t        == Head(req[r].todo)
                                    failures == Failures(Verdicts(Written(r), status, set, t, req[r].in.budget))
                                IN /\ t \in Subjects /\ failures # {}
                                   /\ \E f \in Existing(Written(r), r, t) :
                                        Decides(r, Written(r), UpsertFinding(Written(r), f, Worst(failures)))
<1> DEFINE t == Head(req[r].todo)
           status == req[r].loaded[AgentStatus]
           budget == req[r].in.budget
           D == Written(r)
<1>0. /\ Good(req[r]) /\ req[r].in.op = "run" /\ req[r].todo # <<>> /\ req[r].pc = "stage" /\ req[r].want = {}
      /\ UNCHANGED <<db, cache, held, prior>>
  BY DEF IInv, Test
<1>1. t \in Subjects
  BY <1>0 DEF Good, Tested
<1>2. PICK set \in PolicySets :
        LET failures == Failures(Verdicts(D, status, set, t, budget))
            x == [req[r] EXCEPT !.todo = Tail(@), !.undefended = @ \cup Undefended(D, t, set, failures)]
        IN IF failures = {} THEN Become(r, x)
           ELSE \E f \in Existing(D, r, t) : Flush(r, D, UpsertFinding(D, f, Worst(failures)), x)
  BY DEF Test
<1> DEFINE failures == Failures(Verdicts(D, status, set, t, budget))
           x == [req[r] EXCEPT !.todo = Tail(@), !.undefended = @ \cup Undefended(D, t, set, failures)]
<1>3. /\ IsRequest(x) /\ x.pc = "stage" /\ x.in = req[r].in /\ x.loaded = req[r].loaded /\ x.end = req[r].end
      /\ x.cells = req[r].cells /\ x.want = req[r].want
  BY <1>0, RequestIs DEF IsRequest, Fields
<1>4. CASE failures = {}
  <2>1. Become(r, x)
    BY <1>2, <1>4
  <2> HIDE DEF x
  <2>2. req'[r] = x /\ \A q \in Reqs \ {r} : req'[q] = req[q]
    BY <2>1, BecomeOthers
  <2> QED
    BY <1>0, <1>3, <2>2 DEF Walks, Stays, Goes, Others
<1>5. CASE failures # {}
  <2>1. PICK f \in Existing(D, r, t) : Flush(r, D, UpsertFinding(D, f, Worst(failures)), x)
    BY <1>2, <1>5
  <2> HIDE DEF x
  <2>2. PICK E : E = UpsertFinding(D, f, Worst(failures))
    OBVIOUS
  <2>3. Decides(r, D, E)
    BY <1>0, <1>3, <2>1, <2>2, FlushDecides
  <2>4. Decides(r, D, UpsertFinding(D, f, Worst(failures)))
    BY <2>2, <2>3
  <2> QED
    BY <1>0, <1>1, <1>5, <2>1, <2>4
<1> QED
  BY <1>0, <1>4, <1>5

LEMMA AppendDecides ==
  ASSUME IInv, Placed, NEW r \in Reqs, AppendVersion(r)
  PROVE  /\ req[r].in.op = "update" /\ req[r].pc = "stage" /\ req[r].todo # <<>> /\ req'[r].todo = <<>>
         /\ NextVersion(Written(r), req[r].in.p) <= MaxVersion
         /\ Decides(r, Written(r), AddVersion(Written(r), req[r].in.p, req[r].in.value))
<1> DEFINE x == [req[r] EXCEPT !.todo = <<>>]
<1>1. /\ req[r].in.op = "update" /\ req[r].pc = "stage" /\ req[r].todo # <<>> /\ req[r].want = {}
      /\ NextVersion(Written(r), req[r].in.p) <= MaxVersion
      /\ Flush(r, Written(r), AddVersion(Written(r), req[r].in.p, req[r].in.value), x)
      /\ UNCHANGED <<db, cache, held, prior>>
  BY DEF AppendVersion
<1>2. /\ IsRequest(x) /\ x.pc = "stage" /\ x.in = req[r].in /\ x.loaded = req[r].loaded /\ x.end = req[r].end
      /\ x.cells = req[r].cells /\ x.todo = <<>>
  BY <1>1, RequestIs DEF IsRequest, Fields
<1> HIDE DEF x
<1>3. PICK E : E = AddVersion(Written(r), req[r].in.p, req[r].in.value)
  OBVIOUS
<1>4. Decides(r, Written(r), E) /\ req'[r].todo = <<>>
  BY <1>1, <1>2, <1>3, FlushDecides
<1> QED
  BY <1>1, <1>3, <1>4

LEMMA WriteTakes ==
  ASSUME IInv, Placed, NEW r \in Reqs, Write(r)
  PROVE  Quits(r) \/ \E l : Takes(r, l)
<1>1. PICK l \in req[r].want :
        /\ Free(r, l)
        /\ IF Clash(r, l) THEN Stop(r, "clash")
           ELSE /\ Take(r, l)
                /\ Become(r, [req[r] EXCEPT !.want = @ \ {l}, !.cells = IF Miss(r, l) THEN Without(@, l[1]) ELSE @])
  BY DEF Write
<1>2. /\ req[r].pc = "stage" /\ UNCHANGED <<db, cache, prior>>
  BY <1>1 DEF Placed, Phase, Write
<1>3. CASE Clash(r, l)
  BY <1>1, <1>2, <1>3, StopQuits
<1>4. CASE ~Clash(r, l)
  <2> DEFINE f == IF Miss(r, l) THEN Without(req[r].cells, l[1]) ELSE req[r].cells
             x == [req[r] EXCEPT !.want = @ \ {l}, !.cells = IF Miss(r, l) THEN Without(@, l[1]) ELSE @]
  <2>1. /\ x.pc = "stage" /\ x.in = req[r].in /\ x.loaded = req[r].loaded /\ x.end = req[r].end
        /\ x.cells = f /\ x.todo = req[r].todo /\ x.want = req[r].want \ {l}
    <3> HIDE DEF Miss, Without
    <3> QED
      BY <1>2, RequestIs DEF Fields
  <2>2. Become(r, x) /\ Take(r, l)
    BY <1>1, <1>4
  <2> HIDE DEF x
  <2>3. req'[r] = x /\ \A q \in Reqs \ {r} : req'[q] = req[q]
    BY <2>2, BecomeOthers
  <2>4. \A q \in Reqs \ {r} : held'[q] = held[q]
    BY <2>2 DEF Take, Placed
  <2>5. Takes(r, l)
    BY <1>1, <1>2, <1>4, <2>1, <2>2, <2>3, <2>4 DEF Takes, Stays, Goes, Others, Take
  <2> QED
    BY <2>5
<1> QED
  BY <1>3, <1>4

LEMMA BumpWalks == ASSUME IInv, Placed, NEW r \in Reqs, Bump(r) PROVE Walks(r)
<1> DEFINE x == [req[r] EXCEPT !.pc = "bumped"]
<1>1. /\ x.pc = "bumped" /\ x.in = req[r].in /\ x.loaded = req[r].loaded /\ x.end = req[r].end
      /\ x.cells = req[r].cells /\ x.todo = req[r].todo /\ x.want = req[r].want
  BY RequestIs DEF Fields
<1>2. Become(r, x) /\ UNCHANGED <<db, held, prior>>
      /\ req[r].pc = "stage" /\ req[r].want = {} /\ req[r].todo = <<>>
  BY DEF Bump, Flushed
<1> HIDE DEF x
<1>3. req'[r] = x /\ \A q \in Reqs \ {r} : req'[q] = req[q]
  BY <1>2, BecomeOthers
<1> QED
  BY <1>1, <1>2, <1>3 DEF Walks, Stays, Goes, Others

LEMMA CommitCommits == ASSUME IInv, Placed, NEW r \in Reqs, Commit(r) PROVE Commits(r)
<1> DEFINE x == [req[r] EXCEPT !.pc = "done", !.want = {}, !.todo = <<>>, !.loaded = <<>>, !.end = "ok"]
<1>1. /\ x.in = req[r].in /\ x.pc = "done" /\ x.end = "ok" /\ x.cells = req[r].cells /\ x.want = {}
  BY RequestIs DEF Fields
<1>2. Become(r, x) /\ held' = [held EXCEPT ![r] = {}] /\ UNCHANGED <<cache, prior>> /\ db' = Cascade(Written(r))
  BY DEF Stop, Commit
<1> HIDE DEF x
<1>3. req'[r] = x /\ \A q \in Reqs \ {r} : req'[q] = req[q]
  BY <1>2, BecomeOthers
<1>4. \A q \in Reqs \ {r} : held'[q] = held[q]
  BY <1>2 DEF Placed
<1>5. req[r].pc \in {"stage", "bumped"} /\ req[r].want = {} /\ req[r].todo = <<>>
  BY DEF Commit, Flushed, Placed, Phase
<1> QED
  BY <1>1, <1>2, <1>3, <1>4, <1>5 DEF Commits, Goes, Others

LEMMA VictimQuits == ASSUME IInv, Placed, NEW r \in Reqs, Victim(r) PROVE Quits(r)
<1>1. req[r].pc = "stage"
  BY DEF Victim, Waits, Placed, Phase
<1> QED
  BY <1>1, StopQuits DEF Victim

\* A request that reads, tests, or appends a version decides what to write.
Reads(r) ==
  \E v : LET E == Handler(r, req[r].in, View(r), v) IN
    /\ E # None /\ Decides(r, View(r), E) /\ req[r].pc = "read" /\ req'[r].todo = req[r].todo
    /\ req[r].in.op = "retest" =>
         \E set : v = CHOOSE w \in Verdicts(db, db[AgentStatus], set, req[r].in.f[1], 1) : TRUE
Finds(r) ==
  /\ req[r].in.op = "run" /\ req[r].pc = "stage"
  /\ \E status, set : LET t        == Head(req[r].todo)
                          failures == Failures(Verdicts(Written(r), status, set, t, req[r].in.budget))
                      IN /\ t \in Subjects /\ failures # {}
                         /\ \E f \in Existing(Written(r), r, t) :
                              Decides(r, Written(r), UpsertFinding(Written(r), f, Worst(failures)))
Appends(r) ==
  /\ req[r].in.op = "update" /\ req[r].pc = "stage" /\ req[r].todo # <<>> /\ req'[r].todo = <<>>
  /\ NextVersion(Written(r), req[r].in.p) <= MaxVersion
  /\ Decides(r, Written(r), AddVersion(Written(r), req[r].in.p, req[r].in.value))

Turn(r) ==
  \/ Begins(r) \/ Reads(r) \/ Finds(r) \/ Appends(r) \/ Walks(r)
  \/ \E l : Takes(r, l)
  \/ Quits(r) \/ Commits(r)

LEMMA Turns ==
  ASSUME IInv, Placed, [Next]_vars
  PROVE  \/ Aside
         \/ \E r \in Reqs : Turn(r)
<1>1. ASSUME NEW r \in Reqs, Start(r) \/ Read(r) \/ Test(r) \/ AppendVersion(r)
      PROVE  Turn(r)
  BY <1>1, StartBegins, ReadDecides, TestDecides, AppendDecides DEF Turn, Reads, Finds, Appends
<1>2. ASSUME NEW r \in Reqs, Write(r) \/ Bump(r) \/ Commit(r) \/ Victim(r)
      PROVE  Turn(r)
  BY <1>2, WriteTakes, BumpWalks, CommitCommits, VictimQuits DEF Turn
<1>3. CASE Load \/ UNCHANGED vars
  BY <1>3 DEF Load, vars, Aside
<1> QED
  BY <1>1, <1>2, <1>3 DEF Next

-------------------------------------------------------------------------------
\* Where the requests are.
LEMMA InitPlaced == Init => Placed
BY StartsAssumption DEF Init, Placed, Phase, Fresh, Busy

LEMMA PhasesKept ==
  ASSUME Placed, NEW r \in Reqs, Others(r), Phase(r)',
         held' = [q \in Reqs |-> held'[q]], prior' = [q \in Reqs |-> prior'[q]], DOMAIN db' = Cells,
         req[r].pc # "done", \A q \in prior'[r] : q \in Reqs /\ req'[q].pc = "done",
         \A l \in held'[r] : l \in held[r] \/ Free(r, l)
  PROVE  Placed'
<1>1. \A q \in Reqs : Phase(q)'
  BY DEF Placed, Others, Phase, Busy
<1>2. \A p \in Reqs : \A q \in prior'[p] : q \in Reqs /\ req'[q].pc = "done"
  BY DEF Placed, Others
<1>3. ASSUME NEW p \in Reqs, NEW q \in Reqs, p # q, NEW l \in held'[p], NEW m \in held'[q]
      PROVE  ~Excludes(l, m)
  <2>0. \A x, y : Excludes(x, y) <=> Excludes(y, x)
    BY DEF Excludes
  <2>1. CASE p # r /\ q # r
    BY <2>1, <1>3 DEF Placed, Others
  <2>2. CASE p = r
    BY <2>2, <1>3 DEF Placed, Others, Free
  <2>3. CASE q = r
    BY <2>0, <2>3, <1>3 DEF Placed, Others, Free
  <2> QED
    BY <2>1, <2>2, <2>3
<1> QED
  BY <1>1, <1>2, <1>3 DEF Placed

LEMMA BeginsPlaced == ASSUME Placed, NEW r \in Reqs, Begins(r) PROVE Placed'
<1>1. Phase(r) /\ DOMAIN db = Cells
  BY DEF Placed
<1>2. Phase(r)'
  BY <1>1 DEF Begins, Phase, Busy
<1>3. prior'[r] = {q \in Reqs : req[q].pc = "done"} /\ prior' = [q \in Reqs |-> prior'[q]]
  BY DEF Placed, Begins
<1>4. \A q \in prior'[r] : q \in Reqs /\ req'[q].pc = "done"
  BY <1>3 DEF Begins, Others
<1> QED
  BY <1>1, <1>2, <1>3, <1>4, PhasesKept DEF Begins, Placed

LEMMA GoesPrior ==
  ASSUME Placed, NEW r \in Reqs, Goes(r)
  PROVE  /\ \A q \in prior'[r] : q \in Reqs /\ req'[q].pc = "done"
         /\ prior' = [q \in Reqs |-> prior'[q]] /\ req[r].pc # "done" /\ Others(r)
BY DEF Placed, Goes, Others

LEMMA WalksPlaced == ASSUME Placed, NEW r \in Reqs, Walks(r) PROVE Placed'
<1>1. Phase(r) /\ DOMAIN db = Cells
  BY DEF Placed
<1>2. Phase(r)'
  BY <1>1 DEF Walks, Stays, Goes, Phase, Busy
<1> QED
  BY <1>1, <1>2, GoesPrior, PhasesKept DEF Walks, Stays, Placed

LEMMA DecidesPlaced == ASSUME Placed, NEW r \in Reqs, NEW D, NEW E, Decides(r, D, E) PROVE Placed'
<1>1. Phase(r) /\ DOMAIN db = Cells
  BY DEF Placed
<1>2. DOMAIN req'[r].cells \subseteq Cells
  BY <1>1 DEF Decides, Changes, Upon, Phase
<1>3. Phase(r)'
  BY <1>1, <1>2 DEF Decides, Stays, Goes, Phase, Busy
<1> QED
  BY <1>1, <1>3, GoesPrior, PhasesKept DEF Decides, Stays, Placed

LEMMA TakesPlaced == ASSUME Placed, NEW r \in Reqs, NEW l, Takes(r, l) PROVE Placed'
<1>1. Phase(r) /\ DOMAIN db = Cells
  BY DEF Placed
<1>2. DOMAIN req'[r].cells \subseteq Cells
  BY <1>1 DEF Takes, Phase, Without
<1>3. Phase(r)'
  BY <1>1, <1>2 DEF Takes, Stays, Goes, Phase, Busy
<1>4. held' = [q \in Reqs |-> held'[q]] /\ held'[r] = held[r] \cup {l} /\ Free(r, l)
  BY DEF Takes, Placed
<1> QED
  BY <1>1, <1>3, <1>4, GoesPrior, PhasesKept DEF Takes, Stays

LEMMA QuitsPlaced == ASSUME Placed, NEW r \in Reqs, Quits(r) \/ Commits(r) PROVE Placed'
<1>1. Phase(r) /\ DOMAIN db = Cells
  BY DEF Placed
<1>2. DOMAIN db' = Cells
  BY <1>1 DEF Quits, Commits, Cascade
<1>3. held' = [q \in Reqs |-> held'[q]] /\ held'[r] = {}
  BY DEF Quits, Commits, Placed
<1>4. Phase(r)'
  BY <1>1, <1>3 DEF Quits, Commits, Goes, Phase, Busy
<1>5. Goes(r)
  BY DEF Quits, Commits
<1> QED
  BY <1>2, <1>3, <1>4, <1>5, GoesPrior, PhasesKept

LEMMA AsidePlaced == ASSUME Placed, Aside PROVE Placed'
BY DEF Aside, Placed, Phase, Busy, Excludes

LEMMA PlacedKept == ASSUME IInv, Placed, [Next]_vars PROVE Placed'
<1>1. ASSUME NEW r \in Reqs, Turn(r) PROVE Placed'
  <2>1. ASSUME NEW D, NEW E, Decides(r, D, E) PROVE Placed'
    BY <2>1, DecidesPlaced
  <2> QED
    BY <1>1, <2>1, BeginsPlaced, WalksPlaced, TakesPlaced, QuitsPlaced DEF Turn, Reads, Finds, Appends
<1> QED
  BY <1>1, Turns, AsidePlaced

-------------------------------------------------------------------------------
\* The cells of findings and policies, and the rows they are in.
LEMMA FindingCells ==
  ASSUME NEW f \in Findings
  PROVE  /\ Finding(f) \in Cells /\ Severity(f) \in Cells
         /\ Row(Finding(f)) = Finding(f) /\ Row(Severity(f)) = Finding(f)
         /\ Owner(Finding(f)) = Finding(f) /\ Owner(Severity(f)) = Finding(f)
         /\ Finding(f)[1] = "finding" /\ Severity(f)[1] = "severity" /\ Finding(f)[2] = f /\ Severity(f)[2] = f
<1>1. Finding(f) \in Cells /\ Severity(f) \in Cells
  BY DEF Cells
<1>2. /\ Finding(f)[1] = "finding" /\ Severity(f)[1] = "severity" /\ Finding(f)[2] = f /\ Severity(f)[2] = f
      /\ Finding(f) = <<"finding", f>>
  BY DEF Finding, Severity
<1> QED
  BY <1>1, <1>2 DEF Row, Owner

LEMMA PolicyCells ==
  ASSUME NEW p \in Policies
  PROVE  /\ Spec(p) \in Cells /\ Id(Spec(p)) \in Cells /\ \A n \in 1..MaxVersion : Version(p, n) \in Cells
         /\ Row(Spec(p)) = Spec(p) /\ Row(Id(Spec(p))) = Spec(p) /\ \A n : Row(Version(p, n)) = Version(p, n)
         /\ Owner(Spec(p)) = Spec(p) /\ Owner(Id(Spec(p))) = Spec(p) /\ \A n : Owner(Version(p, n)) = Spec(p)
         /\ Spec(p)[1] = "policy" /\ Spec(p)[2] = p /\ Id(Spec(p))[1] = "id" /\ Id(Spec(p))[2] = Spec(p)
         /\ \A n : Version(p, n)[1] = "version" /\ Version(p, n)[2] = p /\ Version(p, n)[3] = n
<1>1. Spec(p) \in Cells /\ \A n \in 1..MaxVersion : Version(p, n) \in Cells
  BY DEF Cells
<1>2. Id(Spec(p)) \in Cells
  <2>1. Id(Spec(p)) \in {Id(Spec(q)) : q \in Policies}
    OBVIOUS
  <2> QED
    BY <2>1 DEF Cells
<1>3. /\ Spec(p)[1] = "policy" /\ Spec(p)[2] = p /\ Id(Spec(p))[1] = "id" /\ Id(Spec(p))[2] = Spec(p)
      /\ \A n : Version(p, n)[1] = "version" /\ Version(p, n)[2] = p /\ Version(p, n)[3] = n
  BY DEF Spec, Id, Version
<1> HIDE DEF Cells
<1>4. Row(Spec(p)) = Spec(p) /\ Row(Id(Spec(p))) = Spec(p) /\ \A n : Row(Version(p, n)) = Version(p, n)
  BY <1>3 DEF Row
<1>5. Owner(Spec(p)) = Spec(p) /\ Owner(Id(Spec(p))) = Spec(p) /\ \A n : Owner(Version(p, n)) = Spec(p)
  BY <1>3, <1>4 DEF Owner
<1> QED
  BY <1>1, <1>2, <1>3, <1>4, <1>5

LEMMA OtherCells ==
  /\ \A p : Enabled(p)[1] = "enabled" /\ Enabled(p)[2] = p
  /\ \A p, b : Binding(p, b)[1] = "binding"
  /\ \A n : Tool(n)[1] = "tool" /\ Scopes(n)[1] = "scopes"
  /\ \A d : DataPolicy(d)[1] = "data" /\ DataAction(d)[1] = "action" /\ DataOn(d)[1] = "on"
  /\ AgentStatus[1] = "status"
  /\ \A row : Id(row)[1] = "id" /\ Id(row)[2] = row
BY DEF Enabled, Binding, Tool, Scopes, DataPolicy, DataAction, DataOn, AgentStatus, Id

\* What requests ask for.
LEMMA InputKinds ==
  ASSUME NEW i \in Inputs
  PROVE  /\ i.op \in {"run", "retest", "remedy", "triage", "create", "bind", "unbind", "update", "enable",
                      "delete", "patch", "tool", "drop", "data"}
         /\ i.op \in {"retest", "remedy", "triage"} => i.f \in Findings
         /\ i.op = "triage" => i.value \in {"suppressed", "false_positive"}
         /\ i.op \in {"create", "bind", "unbind", "update", "enable"} => i.p \in Policies
         /\ i.op = "create" => i.spec \in Specs
         /\ i.op = "update" => i.column = Spec(i.p) /\ i.value \in Specs
         /\ i.op = "enable" => i.column = Enabled(i.p)
         /\ i.op = "delete" => \E p \in Policies : i.row = Spec(p)
         /\ i.op = "patch" => i.column[1] \in {"status", "tool", "scopes", "action", "on"}
         /\ i.op = "drop" => i.row[1] \in {"tool", "data"}
<1>1. /\ \A n : Tool(n)[1] = "tool" /\ Scopes(n)[1] = "scopes"
      /\ \A d : DataPolicy(d)[1] = "data" /\ DataAction(d)[1] = "action" /\ DataOn(d)[1] = "on"
      /\ AgentStatus[1] = "status"
  BY OtherCells
<1> QED
  BY <1>1 DEF Inputs

\* The database as a request sees it.
LEMMA Seen ==
  ASSUME Placed, NEW r \in Reqs
  PROVE  /\ Written(r) = [c \in Cells |-> Written(r)[c]]
         /\ View(r) = [c \in Cells |-> View(r)[c]]
         /\ \A c \in Cells : Written(r)[c] = IF c \in DOMAIN req[r].cells THEN req[r].cells[c] ELSE db[c]
         /\ req[r].pc = "read" =>
              \A c \in Cells : View(r)[c] = IF c \in DOMAIN req[r].loaded THEN req[r].loaded[c] ELSE db[c]
<1>1. DOMAIN db = Cells /\ (req[r].pc = "read" => DOMAIN req[r].cells = {})
  BY DEF Placed, Phase
<1>2. \A F, g : Put(F, g) = [c \in DOMAIN F |-> IF c \in DOMAIN g THEN g[c] ELSE F[c]]
  BY DEF Put
<1> QED
  BY <1>1, <1>2 DEF Written, View

\* What a handler writes, by the kind of the cells.
LEMMA PolicyHandlers ==
  ASSUME NEW D, D = [c \in Cells |-> D[c]], NEW p \in Policies, NEW spec, NEW r, NEW b, NEW c \in Cells
  PROVE  /\ c[1] \notin {"policy", "enabled", "id", "version"} /\ CreatePolicy(D, p, spec, r) # None =>
              CreatePolicy(D, p, spec, r)[c] = D[c]
         /\ c[1] # "binding" => AddBinding(D, p, r)[c] = D[c]
         /\ c[1] # "binding" /\ RemoveBinding(D, p, b) # None => RemoveBinding(D, p, b)[c] = D[c]
<1>1. /\ Spec(p)[1] = "policy" /\ Enabled(p)[1] = "enabled" /\ Id(Spec(p))[1] = "id"
      /\ Version(p, 1)[1] = "version"
  BY PolicyCells, OtherCells
<1>2. \A x : Binding(p, x)[1] = "binding"
  BY OtherCells
<1>3. c[1] \notin {"policy", "enabled", "id", "version"} /\ CreatePolicy(D, p, spec, r) # None =>
              CreatePolicy(D, p, spec, r)[c] = D[c]
  BY <1>1 DEF CreatePolicy
<1>4. c[1] # "binding" => AddBinding(D, p, r)[c] = D[c]
  BY <1>2 DEF AddBinding
<1>5. c[1] # "binding" /\ RemoveBinding(D, p, b) # None => RemoveBinding(D, p, b)[c] = D[c]
  BY <1>2 DEF RemoveBinding
<1> QED
  BY <1>3, <1>4, <1>5

LEMMA RemedyHandler ==
  ASSUME NEW D, D = [c \in Cells |-> D[c]], NEW t \in Subjects, NEW r, CreateRemediationPolicy(D, t, r) # None
  PROVE  /\ CreatePolicy(D, t, RemediationSpec(t), r) # None
         /\ CreateRemediationPolicy(D, t, r) = AddBinding(CreatePolicy(D, t, RemediationSpec(t), r), t, r)
         /\ CreatePolicy(D, t, RemediationSpec(t), r) = [c \in Cells |-> CreatePolicy(D, t, RemediationSpec(t), r)[c]]
         /\ t \in Policies
<1> DEFINE E == CreatePolicy(D, t, RemediationSpec(t), r)
<1>1. E # None /\ CreateRemediationPolicy(D, t, r) = AddBinding(E, t, r)
  <2> HIDE DEF E
  <2> QED
    BY DEF CreateRemediationPolicy, E
<1>2. E = [c \in Cells |-> E[c]]
  BY <1>1 DEF CreatePolicy
<1> QED
  BY <1>1, <1>2 DEF Policies

LEMMA InventoryHandlers ==
  ASSUME NEW D, D = [c \in Cells |-> D[c]], NEW c \in Cells, NEW n, NEW d, NEW x, NEW y, NEW r
  PROVE  /\ c \notin {Tool(n), Scopes(n), Id(Tool(n))} /\ CreateTool(D, n, x, y, r) # None =>
              CreateTool(D, n, x, y, r)[c] = D[c]
         /\ c \notin {DataPolicy(d), DataAction(d), DataOn(d), Id(DataPolicy(d))}
              /\ CreateDataPolicy(D, d, x, y, r) # None => CreateDataPolicy(D, d, x, y, r)[c] = D[c]
BY DEF CreateTool, CreateDataPolicy

\* The columns and rows that a PATCH or a DELETE names.
LEMMA PatchAndDelete ==
  ASSUME NEW D, D = [c \in Cells |-> D[c]], NEW c \in Cells, NEW x, NEW y, c # x
  PROVE  /\ Patch(D, x, y) # None => Patch(D, x, y)[c] = D[c]
         /\ Delete(D, x) # None => Delete(D, x)[c] = D[c]
BY DEF Patch, Delete

\* Only assessments, retests and triage write findings.
LEMMA FindingsLeft ==
  ASSUME NEW D, D = [c \in Cells |-> D[c]], NEW i \in Inputs, i.op \notin {"run", "retest", "triage"},
         NEW r, NEW v, Handler(r, i, D, v) # None, NEW f \in Findings, NEW c \in {Finding(f), Severity(f)}
  PROVE  Handler(r, i, D, v)[c] = D[c]
<1>0. PICK E : E = Handler(r, i, D, v)
  OBVIOUS
<1>1. c \in Cells /\ c[1] \in {"finding", "severity"}
  BY FindingCells
<1>2. CASE i.op = "remedy"
  <2>0. PICK t : t = i.f[1]
    OBVIOUS
  <2>1. t \in Subjects /\ E = CreateRemediationPolicy(D, t, r)
    BY <1>0, <1>2, <2>0, InputKinds DEF Findings, Handler
  <2>2. PICK F : F = CreatePolicy(D, t, RemediationSpec(t), r)
    OBVIOUS
  <2>3. F # None /\ E = AddBinding(F, t, r) /\ F = [d \in Cells |-> F[d]] /\ t \in Policies
    BY <1>0, <2>1, <2>2, RemedyHandler
  <2>4. F[c] = D[c]
    BY <1>1, <2>2, <2>3, PolicyHandlers
  <2>5. AddBinding(F, t, r)[c] = F[c]
    BY <1>1, <2>3, PolicyHandlers
  <2> QED
    BY <1>0, <2>3, <2>4, <2>5
<1>3. CASE i.op \in {"create", "bind", "unbind"}
  <2>0. PICK p \in Policies : p = i.p
    BY <1>3, InputKinds
  <2>1. CASE i.op = "create"
    <3>1. PICK spec : E = CreatePolicy(D, p, spec, r)
      BY <1>0, <2>0, <2>1 DEF Handler
    <3> QED
      BY <1>0, <1>1, <3>1, PolicyHandlers
  <2>2. CASE i.op = "bind"
    <3>1. E = AddBinding(D, p, r)
      BY <1>0, <2>0, <2>2 DEF Handler
    <3> QED
      BY <1>0, <1>1, <3>1, PolicyHandlers
  <2>3. CASE i.op = "unbind"
    <3>1. PICK b : E = RemoveBinding(D, p, b)
      BY <1>0, <2>0, <2>3 DEF Handler
    <3> QED
      BY <1>0, <1>1, <3>1, PolicyHandlers
  <2> QED
    BY <1>0, <1>3, <2>1, <2>2, <2>3
<1>4. CASE i.op \in {"update", "enable", "patch"}
  <2>1. i.column # c
    BY <1>1, <1>4, InputKinds, PolicyCells, OtherCells
  <2>2. PICK x, y : x = i.column /\ y = i.value /\ E = Patch(D, x, y)
    BY <1>0, <1>4 DEF Handler
  <2> QED
    BY <1>0, <1>1, <2>1, <2>2, PatchAndDelete
<1>5. CASE i.op \in {"delete", "drop"}
  <2>1. i.row # c
    BY <1>1, <1>5, InputKinds, PolicyCells
  <2>2. PICK x : x = i.row /\ E = Delete(D, x)
    BY <1>0, <1>5 DEF Handler
  <2> QED
    BY <1>0, <1>1, <2>1, <2>2, PatchAndDelete
<1>6. CASE i.op = "tool"
  <2>1. PICK n, x, y : E = CreateTool(D, n, x, y, r)
    BY <1>0, <1>6 DEF Handler
  <2>2. c \notin {Tool(n), Scopes(n), Id(Tool(n))}
    BY <1>1, OtherCells
  <2> QED
    BY <1>0, <1>1, <2>1, <2>2, InventoryHandlers
<1>7. CASE i.op = "data"
  <2>1. PICK d, x, y : E = CreateDataPolicy(D, d, x, y, r)
    BY <1>0, <1>7 DEF Handler
  <2>2. c \notin {DataPolicy(d), DataAction(d), DataOn(d), Id(DataPolicy(d))}
    BY <1>1, OtherCells
  <2> QED
    BY <1>0, <1>1, <2>1, <2>2, InventoryHandlers
<1> QED
  BY <1>0, <1>2, <1>3, <1>4, <1>5, <1>6, <1>7, InputKinds

-------------------------------------------------------------------------------
\* The severity of a verdict is at least that of the technique.
LEMMA MaxIsAtLeast ==
  ASSUME NEW t \in DOMAIN Techniques, NEW s \in DOMAIN SeverityRank
  PROVE  MaxSeverity(Techniques[t].severity, s) \in AtLeast(t)
<1> DEFINE b == Techniques[t].severity
<1>1. b \in DOMAIN SeverityRank
  BY SeverityAssumption
<1>2. \A x \in DOMAIN SeverityRank : SeverityRank[x] \in 0..4
  BY DEF SeverityRank
<1> HIDE DEF b
<1>3. MaxSeverity(b, s) \in DOMAIN SeverityRank /\ SeverityRank[MaxSeverity(b, s)] >= SeverityRank[b]
  <2> HIDE DEF SeverityRank
  <2> QED
    BY <1>1, <1>2 DEF MaxSeverity
<1> HIDE DEF SeverityRank
<1> QED
  BY <1>3 DEF AtLeast, b

LEMMA CoreSeverity ==
  ASSUME NEW D, NEW status, NEW set, NEW v
  PROVE  CoreDecision(D, status, set, v).severity \in DOMAIN SeverityRank
<1> DOMAIN SeverityRank = {"info", "low", "medium", "high", "critical"}
  BY DEF SeverityRank
<1>1. \A x : RiskSeverity(x) \in {"info", "low", "medium", "high", "critical"}
  BY DEF RiskSeverity
<1> QED
  BY <1>1 DEF CoreDecision

LEMMA VerdictSeverity ==
  ASSUME NEW D, NEW status, NEW set, NEW t \in Subjects, NEW budget,
         NEW v \in Verdicts(D, status, set, t, budget)
  PROVE  v.severity \in AtLeast(t)
<1>1. PICK n : v = Judge(t, CoreDecision(D, status, set, VariantsOf(t)[n]))
  BY DEF Verdicts
<1>2. PICK core : core = CoreDecision(D, status, set, VariantsOf(t)[n])
  OBVIOUS
<1>3. core.severity \in DOMAIN SeverityRank
  BY <1>2, CoreSeverity
<1>4. v.severity = MaxSeverity(Techniques[t].severity, core.severity)
  BY <1>1, <1>2 DEF Judge
<1> QED
  BY <1>3, <1>4, MaxIsAtLeast, SubjectsAssumption

LEMMA WorstSeverity ==
  ASSUME NEW D, NEW status, NEW set, NEW t \in Subjects, NEW budget, NEW F,
         F = Failures(Verdicts(D, status, set, t, budget)), F # {}
  PROVE  Worst(F) \in AtLeast(t)
<1> DEFINE S == {v.severity : v \in F}
           P(s) == \A v \in F : SeverityRank[v.severity] <= SeverityRank[s]
<1>1. \A v \in F : v.severity \in AtLeast(t)
  BY VerdictSeverity DEF Failures
<1>2. \A v \in F : v.severity \in {"info", "low", "medium", "high", "critical"}
  BY <1>1 DEF AtLeast, SeverityRank
<1>3. \E s \in S : P(s)
  <2>1. CASE "critical" \in S
    BY <1>2, <2>1 DEF SeverityRank
  <2>2. CASE "critical" \notin S /\ "high" \in S
    BY <1>2, <2>2 DEF SeverityRank
  <2>3. CASE "critical" \notin S /\ "high" \notin S /\ "medium" \in S
    BY <1>2, <2>3 DEF SeverityRank
  <2>4. CASE "critical" \notin S /\ "high" \notin S /\ "medium" \notin S /\ "low" \in S
    BY <1>2, <2>4 DEF SeverityRank
  <2>5. CASE "critical" \notin S /\ "high" \notin S /\ "medium" \notin S /\ "low" \notin S
    BY <1>2, <2>5 DEF SeverityRank
  <2> QED
    BY <2>1, <2>2, <2>3, <2>4, <2>5
<1>4. Worst(F) = CHOOSE s \in S : P(s)
  BY DEF Worst
<1> HIDE DEF P
<1>5. Worst(F) \in S
  BY <1>3, <1>4
<1> QED
  BY <1>1, <1>5

-------------------------------------------------------------------------------
\* Findings as committed, as loaded and as planned.
LEMMA NotNone ==
  /\ \A s \in Statuses : s # None
  /\ \A t : \A s \in AtLeast(t) : s # None
  /\ {"open", "resolved", "suppressed", "false_positive"} \subseteq Statuses
<1>1. \A s \in Statuses : s # None
  BY NoneAssumption
<1>2. \A t : AtLeast(t) \subseteq DOMAIN SeverityRank
  BY DEF AtLeast
<1>3. {"open", "resolved", "suppressed", "false_positive"} \subseteq Statuses
  BY DEF Statuses, OpenStatuses
<1> QED
  BY <1>1, <1>2, <1>3, NoneAssumption

LEMMA WrittenFiled ==
  ASSUME Placed, FilingInv, NEW r \in Reqs, Planning(r)
  PROVE  /\ Filed(Written(r))
         /\ \A f \in Findings :
              /\ Written(r)[Finding(f)] = None =>
                   Finding(f) \notin DOMAIN req[r].cells /\ Severity(f) \notin DOMAIN req[r].cells
                     /\ db[Finding(f)] = None
              /\ Written(r)[Finding(f)] # None =>
                   db[Finding(f)] # None \/ {Finding(f), Severity(f)} \subseteq DOMAIN req[r].cells
<1> SUFFICES ASSUME NEW f \in Findings
             PROVE  /\ IF Written(r)[Finding(f)] = None THEN Written(r)[Severity(f)] = None
                       ELSE Written(r)[Finding(f)] \in Statuses /\ Written(r)[Severity(f)] \in AtLeast(f[1])
                    /\ Written(r)[Finding(f)] = None =>
                         Finding(f) \notin DOMAIN req[r].cells /\ Severity(f) \notin DOMAIN req[r].cells
                           /\ db[Finding(f)] = None
                    /\ Written(r)[Finding(f)] # None =>
                         db[Finding(f)] # None \/ {Finding(f), Severity(f)} \subseteq DOMAIN req[r].cells
  BY DEF Filed
<1>1. /\ Finding(f) \in Cells /\ Severity(f) \in Cells
      /\ \A c \in Cells : Written(r)[c] = IF c \in DOMAIN req[r].cells THEN req[r].cells[c] ELSE db[c]
  BY FindingCells, Seen
<1>2. /\ Finding(f) \in DOMAIN req[r].cells => req[r].cells[Finding(f)] \in Statuses
      /\ Severity(f) \in DOMAIN req[r].cells => req[r].cells[Severity(f)] \in AtLeast(f[1])
      /\ ~(Finding(f) \in DOMAIN req[r].cells <=> Severity(f) \in DOMAIN req[r].cells) => db[Finding(f)] # None
  BY DEF FilingInv, Filing
<1>3. IF db[Finding(f)] = None THEN db[Severity(f)] = None
      ELSE db[Finding(f)] \in Statuses /\ db[Severity(f)] \in AtLeast(f[1])
  BY DEF FilingInv, Filed
<1> QED
  BY <1>1, <1>2, <1>3, NotNone

LEMMA ViewFiled ==
  ASSUME Placed, FilingInv, NEW r \in Reqs, req[r].pc = "read"
  PROVE  /\ Filed(View(r))
         /\ \A f \in Findings : View(r)[Finding(f)] = None <=> db[Finding(f)] = None
<1> SUFFICES ASSUME NEW f \in Findings
             PROVE  /\ IF View(r)[Finding(f)] = None THEN View(r)[Severity(f)] = None
                       ELSE View(r)[Finding(f)] \in Statuses /\ View(r)[Severity(f)] \in AtLeast(f[1])
                    /\ View(r)[Finding(f)] = None <=> db[Finding(f)] = None
  BY DEF Filed
<1>1. /\ Finding(f) \in Cells /\ Severity(f) \in Cells
      /\ \A c \in Cells : View(r)[c] = IF c \in DOMAIN req[r].loaded THEN req[r].loaded[c] ELSE db[c]
  BY FindingCells, Seen
<1>2. Finding(f) \in DOMAIN req[r].loaded =>
         /\ db[Finding(f)] # None /\ req[r].loaded[Finding(f)] \in Statuses
         /\ req[r].loaded[Severity(f)] \in AtLeast(f[1])
  BY DEF FilingInv, Filing, Busy
<1>3. Finding(f) \in DOMAIN req[r].loaded <=> Severity(f) \in DOMAIN req[r].loaded
  BY DEF FilingInv, Filing, Busy
<1>4. IF db[Finding(f)] = None THEN db[Severity(f)] = None
      ELSE db[Finding(f)] \in Statuses /\ db[Severity(f)] \in AtLeast(f[1])
  BY DEF FilingInv, Filed
<1> QED
  BY <1>1, <1>2, <1>3, <1>4, NotNone

LEMMA InitFiling == Init => FilingInv
BY StartsAssumption DEF Init, FilingInv, Filing, Fresh, Busy, Planning

\* What the others rest on stays, as long as no finding is deleted.
LEMMA FilingOthers ==
  ASSUME FilingInv, NEW r \in Reqs, Others(r), Filed(db)', Filing(r)',
         \A f \in Findings : db[Finding(f)] # None => db'[Finding(f)] # None
  PROVE  FilingInv'
BY DEF FilingInv, Filing, Others, Busy, Planning

LEMMA BeginsFiling == ASSUME Placed, FilingInv, NEW r \in Reqs, Begins(r) PROVE FilingInv'
<1>1. db' = db /\ Others(r) /\ Filed(db) /\ req'[r].cells = <<>>
  BY DEF Begins, FilingInv
<1>2. PICK i \in Inputs :
        /\ Subject(i) # None => db[Subject(i)] # None
        /\ req'[r].loaded = IF Subject(i) = None THEN <<>> ELSE [c \in Columns(Subject(i)) |-> db[c]]
  BY DEF Begins
<1>3. ASSUME NEW f \in Findings
      PROVE  /\ Severity(f) \in DOMAIN req'[r].loaded <=> Finding(f) \in DOMAIN req'[r].loaded
             /\ Finding(f) \in DOMAIN req'[r].loaded =>
                  /\ db[Finding(f)] # None /\ req'[r].loaded[Finding(f)] \in Statuses
                  /\ req'[r].loaded[Severity(f)] \in AtLeast(f[1])
  <2>1. \A row : Finding(f) \in Columns(row) <=> row = Finding(f)
    BY FindingCells DEF Columns
  <2>2. \A row : Severity(f) \in Columns(row) <=> row = Finding(f)
    BY FindingCells DEF Columns
  <2>3. db[Finding(f)] # None => db[Finding(f)] \in Statuses /\ db[Severity(f)] \in AtLeast(f[1])
    BY <1>1 DEF Filed
  <2> QED
    BY <1>2, <2>1, <2>2, <2>3
<1>4. Filing(r)'
  BY <1>1, <1>3 DEF Filing
<1> QED
  BY <1>1, <1>4, FilingOthers

\* A decision writes a finding and its severity, or one that is there.
LEMMA DecidesFiling ==
  ASSUME Placed, FilingInv, NEW r \in Reqs, NEW D, NEW E, Decides(r, D, E), Filed(D), Filed(E),
         \A f \in Findings : E[Finding(f)] = None => D[Finding(f)] = None,
         \A f \in Findings : D[Finding(f)] = None =>
           Finding(f) \notin DOMAIN req[r].cells /\ Severity(f) \notin DOMAIN req[r].cells,
         \A f \in Findings : D[Finding(f)] # None =>
           db[Finding(f)] # None \/ {Finding(f), Severity(f)} \subseteq DOMAIN req[r].cells
  PROVE  FilingInv'
<1>0. /\ Others(r) /\ db' = db /\ req'[r].loaded = req[r].loaded /\ Busy(r)
      /\ req'[r].cells = Upon(Changes(D, E), req[r].cells)
  BY DEF Decides, Stays, Goes, Busy
<1>1. DOMAIN req[r].cells = {} \/ Planning(r)
  BY DEF Decides, Placed, Phase, Planning
<1>2. ASSUME NEW f \in Findings
      PROVE  /\ Finding(f) \in DOMAIN req'[r].cells => req'[r].cells[Finding(f)] \in Statuses
             /\ Severity(f) \in DOMAIN req'[r].cells => req'[r].cells[Severity(f)] \in AtLeast(f[1])
             /\ ~(Finding(f) \in DOMAIN req'[r].cells <=> Severity(f) \in DOMAIN req'[r].cells)
                  => db[Finding(f)] # None
  <2> DEFINE cells == req[r].cells
             cells1 == req'[r].cells
  <2>1. /\ Finding(f) \in Cells /\ Severity(f) \in Cells
    BY FindingCells
  <2>2. /\ Finding(f) \in DOMAIN cells => cells[Finding(f)] \in Statuses
        /\ Severity(f) \in DOMAIN cells => cells[Severity(f)] \in AtLeast(f[1])
        /\ ~(Finding(f) \in DOMAIN cells <=> Severity(f) \in DOMAIN cells) => db[Finding(f)] # None
    BY <1>1 DEF FilingInv, Filing
  <2>3. /\ DOMAIN cells1 = DOMAIN cells \cup {c \in Cells : E[c] # D[c]}
        /\ \A c \in DOMAIN cells1 : cells1[c] = IF c \in Cells /\ E[c] # D[c] THEN E[c] ELSE cells[c]
    BY <1>0 DEF Upon, Changes
  <2>4. /\ IF D[Finding(f)] = None THEN D[Severity(f)] = None
           ELSE D[Finding(f)] \in Statuses /\ D[Severity(f)] \in AtLeast(f[1])
        /\ IF E[Finding(f)] = None THEN E[Severity(f)] = None
           ELSE E[Finding(f)] \in Statuses /\ E[Severity(f)] \in AtLeast(f[1])
    BY DEF Filed
  <2> HIDE DEF cells, cells1
  <2>5. \A s \in AtLeast(f[1]) : s # None
    BY NotNone
  <2>6. /\ E[Finding(f)] = None => D[Finding(f)] = None
        /\ D[Finding(f)] = None => Finding(f) \notin DOMAIN cells /\ Severity(f) \notin DOMAIN cells
        /\ D[Finding(f)] # None => db[Finding(f)] # None \/ {Finding(f), Severity(f)} \subseteq DOMAIN cells
    BY DEF cells
  <2>7. /\ Finding(f) \in DOMAIN cells1 => cells1[Finding(f)] \in Statuses
        /\ Severity(f) \in DOMAIN cells1 => cells1[Severity(f)] \in AtLeast(f[1])
    BY <2>1, <2>2, <2>3, <2>4, <2>5, <2>6
  <2>8. ~(Finding(f) \in DOMAIN cells1 <=> Severity(f) \in DOMAIN cells1) => db[Finding(f)] # None
    BY <2>1, <2>3, <2>4, <2>5, <2>6
  <2> QED
    BY <2>7, <2>8 DEF cells1
<1>3. Filing(r)'
  <2>1. \A f \in Findings :
         /\ Severity(f) \in DOMAIN req[r].loaded <=> Finding(f) \in DOMAIN req[r].loaded
         /\ Finding(f) \in DOMAIN req[r].loaded =>
              /\ db[Finding(f)] # None /\ req[r].loaded[Finding(f)] \in Statuses
              /\ req[r].loaded[Severity(f)] \in AtLeast(f[1])
    BY <1>0 DEF FilingInv, Filing
  <2> QED
    BY <1>0, <1>2, <2>1 DEF Filing
<1>4. Filed(db)'
  BY <1>0 DEF FilingInv
<1> QED
  BY <1>0, <1>3, <1>4, FilingOthers

LEMMA RetestVerdict ==
  ASSUME NEW t \in Subjects, NEW D, NEW status, NEW set, NEW v,
         v = CHOOSE w \in Verdicts(D, status, set, t, 1) : TRUE
  PROVE  v.severity \in AtLeast(t)
<1>1. 1 \in DOMAIN VariantsOf(t)
  BY CatalogueAssumption, SubjectsAssumption
<1>2. Judge(t, CoreDecision(D, status, set, VariantsOf(t)[1])) \in Verdicts(D, status, set, t, 1)
  BY <1>1 DEF Verdicts
<1>3. v \in Verdicts(D, status, set, t, 1)
  BY <1>2
<1> QED
  BY <1>3, VerdictSeverity

\* Setting the status of a finding that is there, or filing one.
LEMMA FindingApart ==
  ASSUME NEW f \in Findings, NEW g \in Findings
  PROVE  /\ Finding(g) \in Cells /\ Severity(g) \in Cells
         /\ Finding(g) # Severity(f) /\ Severity(g) # Finding(f)
         /\ (Finding(g) = Finding(f) <=> g = f) /\ (Severity(g) = Severity(f) <=> g = f)
BY FindingCells

LEMMA SettingFiled ==
  ASSUME NEW D, D = [c \in Cells |-> D[c]], Filed(D), NEW f \in Findings, D[Finding(f)] # None, NEW s \in Statuses,
         NEW E, E = [D EXCEPT ![Finding(f)] = s]
  PROVE  Filed(E) /\ \A g \in Findings : E[Finding(g)] = None => D[Finding(g)] = None
<1>1. s # None
  BY NotNone
<1>2. Filed(E)
  BY <1>1, FindingApart DEF Filed
<1>3. \A g \in Findings : E[Finding(g)] = None => D[Finding(g)] = None
  BY <1>1, FindingApart
<1> QED
  BY <1>2, <1>3

LEMMA UpsertFiled ==
  ASSUME NEW D, D = [c \in Cells |-> D[c]], Filed(D), NEW f \in Findings, NEW x \in AtLeast(f[1]),
         NEW E, E = UpsertFinding(D, f, x)
  PROVE  Filed(E) /\ \A g \in Findings : E[Finding(g)] = None => D[Finding(g)] = None
<1>1. "open" \in Statuses /\ "open" # None
  BY NotNone
<1>2. \A g \in Findings : /\ E[Finding(g)] = IF g = f THEN "open" ELSE D[Finding(g)]
                          /\ E[Severity(g)] = IF g = f THEN x ELSE D[Severity(g)]
  BY FindingApart DEF UpsertFinding
<1>3. Filed(E)
  BY <1>1, <1>2 DEF Filed
<1> QED
  BY <1>1, <1>2, <1>3

\* The finding that a retest or a triage is about is there.
LEMMA SubjectLoaded ==
  ASSUME Placed, FilingInv, NEW r \in Reqs, req[r].pc = "read", req[r].in.op \in {"retest", "triage"}
  PROVE  req[r].in.f \in Findings /\ View(r)[Finding(req[r].in.f)] # None
<1> DEFINE f == req[r].in.f
<1>1. req[r].in \in Inputs /\ f \in Findings
  BY InputKinds DEF Placed, Phase
<1>2. Subject(req[r].in) = Finding(f)
  BY DEF Subject
<1>3. Finding(f) # None
  BY NoneAssumption, <1>1, FindingCells
<1>4. Finding(f) \in Columns(Finding(f))
  BY <1>1, FindingCells DEF Columns
<1>5. Finding(f) \in DOMAIN req[r].loaded
  BY <1>2, <1>3, <1>4 DEF Placed, Phase, Busy
<1> QED
  BY <1>1, <1>5, ViewFiled DEF FilingInv, Filing, Busy

LEMMA ReadsFiling == ASSUME Placed, FilingInv, NEW r \in Reqs, Reads(r) PROVE FilingInv'
<1>1. PICK v : /\ Handler(r, req[r].in, View(r), v) # None /\ Decides(r, View(r), Handler(r, req[r].in, View(r), v))
               /\ req[r].pc = "read"
               /\ req[r].in.op = "retest" =>
                    \E set : v = CHOOSE w \in Verdicts(db, db[AgentStatus], set, req[r].in.f[1], 1) : TRUE
  BY DEF Reads
<1> DEFINE i == req[r].in
           f == i.f
<1>2. PICK D, E : D = View(r) /\ E = Handler(r, i, D, v)
  OBVIOUS
<1>3. /\ D = [c \in Cells |-> D[c]] /\ Filed(D) /\ \A g \in Findings : D[Finding(g)] = None <=> db[Finding(g)] = None
      /\ DOMAIN req[r].cells = {} /\ i \in Inputs /\ i.op # "run"
  BY <1>1, <1>2, Seen, ViewFiled DEF Placed, Phase
<1>4. Filed(E) /\ \A g \in Findings : E[Finding(g)] = None => D[Finding(g)] = None
  <2>1. CASE i.op \in {"retest", "triage"}
    <3>1. f \in Findings /\ D[Finding(f)] # None /\ f[1] \in Subjects
      BY <1>1, <1>2, <2>1, SubjectLoaded DEF Findings
    <3>2. CASE i.op = "triage"
      <4>1. E = [D EXCEPT ![Finding(f)] = i.value] /\ i.value \in Statuses
        BY <1>2, <1>3, <3>2, InputKinds, NotNone DEF Handler, Triage
      <4> QED
        BY <1>3, <3>1, <4>1, SettingFiled
    <3>3. CASE i.op = "retest"
      <4>1. PICK set : v = CHOOSE w \in Verdicts(db, db[AgentStatus], set, f[1], 1) : TRUE
        BY <1>1, <3>3
      <4>2. PICK x : x = v.severity /\ x \in AtLeast(f[1])
        BY <3>1, <4>1, RetestVerdict
      <4>3. E = [D EXCEPT ![Finding(f)] = "resolved"] \/ E = UpsertFinding(D, f, x)
        BY <1>2, <3>3, <4>2 DEF Handler, Retest
      <4>4. "resolved" \in Statuses
        BY NotNone
      <4> QED
        BY <1>3, <3>1, <4>2, <4>3, <4>4, SettingFiled, UpsertFiled
    <3> QED
      BY <2>1, <3>2, <3>3
  <2>2. CASE i.op \notin {"retest", "triage"}
    <3>1. \A g \in Findings : E[Finding(g)] = D[Finding(g)] /\ E[Severity(g)] = D[Severity(g)]
      BY <1>1, <1>2, <1>3, <2>2, FindingsLeft
    <3> QED
      BY <1>3, <3>1 DEF Filed
  <2> QED
    BY <2>1, <2>2
<1> QED
  BY <1>1, <1>2, <1>3, <1>4, DecidesFiling

LEMMA FindsFiling == ASSUME Placed, FilingInv, NEW r \in Reqs, Finds(r) PROVE FilingInv'
<1>1. PICK status, set :
        LET t        == Head(req[r].todo)
            failures == Failures(Verdicts(Written(r), status, set, t, req[r].in.budget))
        IN /\ t \in Subjects /\ failures # {}
           /\ \E f \in Existing(Written(r), r, t) :
                Decides(r, Written(r), UpsertFinding(Written(r), f, Worst(failures)))
  BY DEF Finds
<1>2. PICK t, x, f : /\ t \in Subjects /\ x \in AtLeast(t) /\ f \in Existing(Written(r), r, t)
                     /\ Decides(r, Written(r), UpsertFinding(Written(r), f, x))
  BY <1>1, WorstSeverity
<1>3. f \in Findings /\ f[1] = t
  BY <1>2 DEF Existing, OpenFindings, Findings, Makers
<1>4. PICK D, E : D = Written(r) /\ E = UpsertFinding(D, f, x)
  OBVIOUS
<1>5. Planning(r)
  BY DEF Finds, Planning
<1>6. /\ D = [c \in Cells |-> D[c]] /\ Filed(D)
      /\ E = UpsertFinding(D, f, x)
  BY <1>4, <1>5, Seen, WrittenFiled
<1>7. Filed(E) /\ \A g \in Findings : E[Finding(g)] = None => D[Finding(g)] = None
  BY <1>2, <1>3, <1>6, UpsertFiled
<1>8. Decides(r, D, E)
  BY <1>2, <1>4
<1>9. \A g \in Findings :
        /\ D[Finding(g)] = None => Finding(g) \notin DOMAIN req[r].cells /\ Severity(g) \notin DOMAIN req[r].cells
        /\ D[Finding(g)] # None => db[Finding(g)] # None \/ {Finding(g), Severity(g)} \subseteq DOMAIN req[r].cells
  BY <1>4, <1>5, WrittenFiled
<1> QED
  BY <1>6, <1>7, <1>8, <1>9, DecidesFiling

LEMMA AppendsFiling == ASSUME Placed, FilingInv, NEW r \in Reqs, Appends(r) PROVE FilingInv'
<1>1. PICK D, E : D = Written(r) /\ E = AddVersion(D, req[r].in.p, req[r].in.value) /\ Decides(r, D, E)
  BY DEF Appends
<1>2. Planning(r)
  BY DEF Appends, Planning
<1>3. D = [c \in Cells |-> D[c]] /\ Filed(D)
  BY <1>1, <1>2, Seen, WrittenFiled
<1>4. \A g \in Findings : E[Finding(g)] = D[Finding(g)] /\ E[Severity(g)] = D[Severity(g)]
  <2> TAKE g \in Findings
  <2>1. PICK c : c[1] = "version" /\ E = [D EXCEPT ![c] = req[r].in.value]
    BY <1>1 DEF AddVersion, Version
  <2> QED
    BY <1>3, <2>1, FindingCells
<1>5. Filed(E)
  BY <1>3, <1>4 DEF Filed
<1> QED
  BY <1>1, <1>2, <1>3, <1>4, <1>5, WrittenFiled, DecidesFiling

\* A statement that misses is no finding's.
LEMMA TakesFindings ==
  ASSUME Placed, FilingInv, NEW r \in Reqs, NEW l, Takes(r, l), NEW f \in Findings
  PROVE  /\ Finding(f) \in DOMAIN req'[r].cells <=> Finding(f) \in DOMAIN req[r].cells
         /\ Severity(f) \in DOMAIN req'[r].cells <=> Severity(f) \in DOMAIN req[r].cells
         /\ Finding(f) \in DOMAIN req'[r].cells => req'[r].cells[Finding(f)] = req[r].cells[Finding(f)]
         /\ Severity(f) \in DOMAIN req'[r].cells => req'[r].cells[Severity(f)] = req[r].cells[Severity(f)]
<1>1. CASE ~Miss(r, l)
  BY <1>1 DEF Takes
<1>2. CASE Miss(r, l)
  <2>1. req'[r].cells = Without(req[r].cells, l[1]) /\ req[r].cells[l[1]] = None
    BY <1>2 DEF Takes, Miss, Deletes
  <2>2. /\ Finding(f) \in DOMAIN req[r].cells => req[r].cells[Finding(f)] \in Statuses
        /\ Severity(f) \in DOMAIN req[r].cells => req[r].cells[Severity(f)] \in AtLeast(f[1])
    BY DEF Takes, Planning, Filing, FilingInv
  <2> QED
    BY <2>1, <2>2, NotNone DEF Without
<1> QED
  BY <1>1, <1>2

LEMMA StaysFiling ==
  ASSUME Placed, FilingInv, NEW r \in Reqs, Walks(r) \/ (\E l : Takes(r, l)) \/ Quits(r)
  PROVE  FilingInv'
<1>0. Others(r) /\ db' = db
  BY DEF Walks, Takes, Quits, Stays, Goes
<1>1. CASE Quits(r)
  <2>1. Filing(r)'
    BY <1>1 DEF Quits, Filing, Busy, Planning
  <2> QED
    BY <1>0, <2>1, FilingOthers DEF FilingInv
<1>2. CASE Walks(r)
  <2>1. Filing(r)'
    BY <1>0, <1>2 DEF Walks, Stays, Filing, Busy, Planning, FilingInv
  <2> QED
    BY <1>0, <2>1, FilingOthers DEF FilingInv
<1>3. CASE \E l : Takes(r, l)
  <2>1. PICK l : Takes(r, l)
    BY <1>3
  <2>2. Planning(r) /\ Busy(r) /\ req'[r].loaded = req[r].loaded
    BY <2>1 DEF Takes, Stays, Planning, Busy
  <2>3. Filing(r)'
    BY <1>0, <2>1, <2>2, TakesFindings DEF Filing, FilingInv
  <2> QED
    BY <1>0, <2>3, FilingOthers DEF FilingInv
<1> QED
  BY <1>1, <1>2, <1>3

LEMMA CommitsFiling == ASSUME Placed, FilingInv, NEW r \in Reqs, Commits(r) PROVE FilingInv'
<1>1. Planning(r) /\ Others(r) /\ db' = Cascade(Written(r))
  BY DEF Commits, Goes, Planning
<1>2. PICK D : D = Written(r)
  OBVIOUS
<1>3. Filed(D) /\ \A f \in Findings : D[Finding(f)] = None => db[Finding(f)] = None
  BY <1>1, <1>2, WrittenFiled
<1>4. \A f \in Findings : /\ db'[Finding(f)] = D[Finding(f)]
                          /\ db'[Severity(f)] = IF D[Finding(f)] = None THEN None ELSE D[Severity(f)]
  <2> TAKE f \in Findings
  <2>1. Finding(f) \in Cells /\ Severity(f) \in Cells /\ Owner(Finding(f)) = Finding(f) /\ Owner(Severity(f)) = Finding(f)
    BY FindingCells
  <2> QED
    BY <1>1, <1>2, <2>1 DEF Cascade
<1>5. Filed(db')
  BY <1>3, <1>4 DEF Filed
<1>6. Filing(r)'
  BY DEF Commits, Filing, Busy, Planning
<1> QED
  BY <1>1, <1>3, <1>4, <1>5, <1>6, FilingOthers DEF Filed

LEMMA FilingKept == ASSUME IInv, Placed, FilingInv, [Next]_vars PROVE FilingInv'
<1>1. ASSUME NEW r \in Reqs, Turn(r) PROVE FilingInv'
  BY <1>1, BeginsFiling, ReadsFiling, FindsFiling, AppendsFiling, StaysFiling, CommitsFiling DEF Turn
<1>2. CASE Aside
  BY <1>2 DEF Aside, FilingInv, Filing, Filed, Busy, Planning
<1> QED
  BY <1>1, <1>2, Turns

\* The cache holds a policy set.
Cached == cache = None \/ DOMAIN cache = Policies

LEMMA CachedKept == ASSUME Cached, [Next]_vars PROVE Cached'
<1>1. CASE Load
  BY <1>1 DEF Load, InForce, Cached
<1>2. CASE ~Load
  BY <1>2 DEF Cached, Next, Start, Read, Test, AppendVersion, Write, Bump, Commit, Victim, vars
<1> QED
  BY <1>1, <1>2

\* The database keeps its shape, and every finding is at least as severe as its
\* technique, whatever is filed, retested and triaged at once.
THEOREM TypeCorrect == OpsSpec => []TypeOK
<1>1. Init => IInv /\ Placed /\ FilingInv /\ Cached
  BY InitIInv, InitPlaced, InitFiling DEF Init, Cached, InForce
<1>2. IInv /\ Placed /\ FilingInv /\ Cached /\ [Next]_vars => (IInv /\ Placed /\ FilingInv /\ Cached)'
  BY NextIInv, PlacedKept, FilingKept, CachedKept
<1>3. IInv /\ Placed /\ FilingInv /\ Cached => TypeOK
  BY DEF TypeOK, Placed, Phase, FilingInv, Cached
<1> QED
  BY <1>1, <1>2, <1>3, PTL DEF OpsSpec

-------------------------------------------------------------------------------
\* What has committed stays as it was, and so does what is pardoned for it.
LEMMA CommittedStay ==
  ASSUME Placed, NEW r \in Reqs, Turn(r)
  PROVE  /\ Others(r) /\ ~Ok(r) /\ req[r].pc # "done"
         /\ \A p \in Reqs : Ok(p) => p # r /\ Ok(p)' /\ Wrote(p)' = Wrote(p) /\ req'[p] = req[p] /\ prior'[p] = prior[p]
         /\ req'[r].pc # "done" => Wrote(r)' = {} /\ ~Ok(r)'
<1>1. Phase(r) /\ \A p \in Reqs : Phase(p)
  BY DEF Placed
<1>2. Others(r) /\ req[r].pc # "done"
  BY DEF Turn, Begins, Reads, Finds, Appends, Walks, Takes, Decides, Quits, Commits, Stays, Goes
<1>3. ~Ok(r)
  BY <1>1, <1>2 DEF Ok, Phase
<1>4. ASSUME req'[r].pc # "done" PROVE ~Ok(r)'
  <2>1. CASE Begins(r)
    BY <2>1 DEF Begins, Ok
  <2>2. CASE ~Begins(r)
    <3>1. req'[r].end = req[r].end
      BY <1>4, <2>2 DEF Turn, Reads, Finds, Appends, Walks, Takes, Decides, Quits, Commits, Stays
    <3> QED
      BY <1>3, <3>1 DEF Ok
  <2> QED
    BY <2>1, <2>2
<1> QED
  BY <1>2, <1>3, <1>4 DEF Others, Ok, Wrote

LEMMA FilesStays ==
  ASSUME Placed, NEW r \in Reqs, Turn(r), NEW p \in Reqs, NEW t, Files(p, t)
  PROVE  Files(p, t)' /\ Ok(p) /\ prior'[p] = prior[p]
BY CommittedStay DEF Files, Wrote, FindingsOf

LEMMA PardonedStays ==
  ASSUME Placed, NEW r \in Reqs, Turn(r), NEW t, Pardoned(t)
  PROVE  Pardoned(t)'
<1>1. CASE \E p, q \in Reqs : Overlap(p, q) /\ Files(p, t) /\ Files(q, t)
  <2>1. PICK p, q \in Reqs : Overlap(p, q) /\ Files(p, t) /\ Files(q, t)
    BY <1>1
  <2>2. Overlap(p, q)' /\ Files(p, t)' /\ Files(q, t)'
    BY <2>1, FilesStays DEF Overlap
  <2> QED
    BY <2>2 DEF Pardoned
<1>2. CASE \E p \in Reqs : Reopens(p, t)
  <2>1. PICK p \in Reqs : Reopens(p, t)
    BY <1>2
  <2>2. Ok(p)
    BY <2>1 DEF Reopens, Wrote
  <2>3. Reopens(p, t)'
    BY <2>1, <2>2, CommittedStay DEF Reopens, FindingsOf
  <2> QED
    BY <2>3 DEF Pardoned
<1> QED
  BY <1>1, <1>2 DEF Pardoned

LEMMA LateStays ==
  ASSUME Placed, NEW r \in Reqs, Turn(r), NEW q \in Reqs, Planning(q), NEW t, LateFinding(q, t)
  PROVE  LateFinding(q, t)'
<1>1. PICK p \in Reqs : Overlap(p, q) /\ Files(p, t)
  BY DEF LateFinding
<1>2. Files(p, t)' /\ prior'[p] = prior[p]
  BY <1>1, FilesStays
<1>3. prior'[q] = prior[q]
  BY CommittedStay DEF Turn, Begins, Reads, Finds, Appends, Walks, Takes, Decides, Quits, Commits, Stays, Goes, Others,
                       Planning
<1> QED
  BY <1>1, <1>2, <1>3 DEF LateFinding, Overlap

\* A technique whose findings two databases agree on.
Agree(D, E, t) == \A f \in Findings : f[1] = t => D[Finding(f)] = E[Finding(f)]

LEMMA OneOpenAgrees ==
  ASSUME NEW D, NEW E, NEW t, Agree(D, E, t), OneOpen(D, t)
  PROVE  OneOpen(E, t)
BY DEF Agree, OneOpen, OpenFindings

\* One that leaves the findings of a technique alone or closes them.
NoneOpened(D, E, t) ==
  \A f \in Findings : f[1] = t => E[Finding(f)] \notin OpenStatuses \/ E[Finding(f)] = D[Finding(f)]

LEMMA NoneOpenedKeeps ==
  ASSUME NEW D, NEW E, NEW t, NoneOpened(D, E, t), OneOpen(D, t)
  PROVE  OneOpen(E, t)
<1>1. OpenFindings(E, t) \subseteq OpenFindings(D, t)
  BY DEF NoneOpened, OpenFindings
<1> QED
  BY <1>1 DEF OneOpen

LEMMA UntouchedAgrees ==
  ASSUME Placed, NEW r \in Reqs, NEW t, ~TouchesFinding(r, t)
  PROVE  Agree(db, Written(r), t)
<1> SUFFICES ASSUME NEW f \in Findings, f[1] = t PROVE db[Finding(f)] = Written(r)[Finding(f)]
  BY DEF Agree
<1>1. Finding(f) \in FindingsOf(t)
  BY DEF FindingsOf
<1>2. Finding(f) \notin DOMAIN req[r].cells
  BY <1>1 DEF TouchesFinding
<1> QED
  BY <1>2, Seen, FindingCells

\* What a decision makes of what its request has written.
LEMMA DecidesWritten ==
  ASSUME Placed, Placed', NEW r \in Reqs, NEW D, NEW E, D = Written(r), Decides(r, D, E)
  PROVE  \A c \in Cells : Written(r)'[c] = E[c]
<1>1. \A c \in Cells : Written(r)[c] = IF c \in DOMAIN req[r].cells THEN req[r].cells[c] ELSE db[c]
  BY Seen
<1>2. \A c \in Cells : Written(r)'[c] = IF c \in DOMAIN req'[r].cells THEN req'[r].cells[c] ELSE db'[c]
  <2>1. DOMAIN db' = Cells
    BY DEF Placed
  <2> QED
    BY <2>1 DEF Written, Put
<1>3. db' = db /\ req'[r].cells = Upon(Changes(D, E), req[r].cells)
  BY DEF Decides, Stays
<1>4. /\ DOMAIN req'[r].cells = DOMAIN req[r].cells \cup {c \in Cells : E[c] # D[c]}
      /\ \A c \in DOMAIN req'[r].cells : req'[r].cells[c] = IF c \in Cells /\ E[c] # D[c] THEN E[c] ELSE req[r].cells[c]
  BY <1>3 DEF Upon, Changes
<1> QED
  BY <1>1, <1>2, <1>3, <1>4

LEMMA OthersLook ==
  ASSUME Placed, Placed', NEW r \in Reqs, Turn(r), NEW q \in Reqs, q # r, NEW t, Looks(q, t),
         NoneOpened(db, db', t)
  PROVE  Looks(q, t)'
<1> SUFFICES ASSUME Planning(q)', req'[q].in.op = "run", TouchesFinding(q, t)'
             PROVE  OneOpen(Written(q), t)' \/ LateFinding(q, t)'
  BY DEF Looks
<1>0. Others(r)
  BY CommittedStay
<1>1. Planning(q) /\ req[q].in.op = "run" /\ TouchesFinding(q, t) /\ req'[q] = req[q]
  BY <1>0 DEF Others, Planning, TouchesFinding, FindingsOf
<1>2. PICK D, E : D = Written(q) /\ E = Written(q)'
  OBVIOUS
<1>3. NoneOpened(D, E, t)
  <2> SUFFICES ASSUME NEW f \in Findings, f[1] = t
               PROVE  E[Finding(f)] \notin OpenStatuses \/ E[Finding(f)] = D[Finding(f)]
    BY DEF NoneOpened
  <2>1. DOMAIN db = Cells /\ DOMAIN db' = Cells /\ Finding(f) \in Cells
    BY FindingCells DEF Placed
  <2>2. db'[Finding(f)] \notin OpenStatuses \/ db'[Finding(f)] = db[Finding(f)]
    BY DEF NoneOpened
  <2> QED
    BY <1>1, <1>2, <2>1, <2>2 DEF Written, Put
<1>4. CASE OneOpen(D, t)
  <2>1. OneOpen(E, t)
    BY <1>3, <1>4, NoneOpenedKeeps
  <2> QED
    BY <1>2, <2>1 DEF OneOpen, OpenFindings
<1>5. CASE LateFinding(q, t)
  BY <1>1, <1>5, LateStays
<1> QED
  BY <1>1, <1>2, <1>4, <1>5 DEF Looks

\* The others look at the same database while none is committed.
LEMMA OthersOpen ==
  ASSUME Placed, Placed', OpenInv, NEW r \in Reqs, Turn(r), db' = db, Opening(r)',
         \A t \in Subjects : OneOpen(db, t) /\ Looks(r, t) => Looks(r, t)'
  PROVE  OpenInv'
<1>0. Others(r)
  BY CommittedStay
<1>1. \A q \in Reqs : Opening(q)'
  BY <1>0 DEF OpenInv, Opening, Others, Planning
<1>2. \A t \in Subjects : Pardoned(t)' \/ (OneOpen(db', t) /\ \A q \in Reqs : Looks(q, t)')
  <2> TAKE t \in Subjects
  <2>1. CASE Pardoned(t)
    BY <2>1, PardonedStays
  <2>2. CASE OneOpen(db, t) /\ \A q \in Reqs : Looks(q, t)
    <3>1. ASSUME NEW q \in Reqs, q # r PROVE Looks(q, t)'
      <4>1. NoneOpened(db, db', t)
        BY DEF NoneOpened
      <4> QED
        BY <4>1, <2>2, <3>1, OthersLook
    <3>2. Looks(r, t)'
      BY <2>2
    <3>3. \A q \in Reqs : Looks(q, t)'
      BY <3>1, <3>2
    <3> QED
      BY <2>2, <3>3
  <2> QED
    BY <2>1, <2>2 DEF OpenInv
<1> QED
  BY <1>1, <1>2 DEF OpenInv

-------------------------------------------------------------------------------

LEMMA InitOpen == Init => OpenInv
BY StartsAssumption DEF Init, OpenInv, OneOpen, Opening, Looks, Planning, Fresh

LEMMA BeginsOpen == ASSUME Placed, Placed', OpenInv, NEW r \in Reqs, Begins(r) PROVE OpenInv'
<1>1. Turn(r) /\ db' = db /\ DOMAIN req'[r].cells = {}
  <2>1. Turn(r)
    BY DEF Turn
  <2>2. db' = db /\ req'[r].cells = <<>>
    BY DEF Begins
  <2> QED
    BY <2>1, <2>2
<1>2. \A t \in Subjects : Looks(r, t)'
  <2> TAKE t \in Subjects
  <2>1. ~TouchesFinding(r, t)'
    BY <1>1 DEF TouchesFinding
  <2> QED
    BY <2>1 DEF Looks
<1>3. Opening(r)'
  BY <1>1 DEF Opening
<1> QED
  BY <1>1, <1>2, <1>3, OthersOpen

LEMMA ReadsOpen ==
  ASSUME Placed, Placed', FilingInv, OpenInv, NEW r \in Reqs, Reads(r)
  PROVE  OpenInv'
<1>1. PICK v : /\ Handler(r, req[r].in, View(r), v) # None /\ Decides(r, View(r), Handler(r, req[r].in, View(r), v))
               /\ req[r].pc = "read"
  BY DEF Reads
<1> DEFINE i == req[r].in
           f == i.f
<1>2. PICK D, E : D = View(r) /\ E = Handler(r, i, D, v)
  OBVIOUS
<1>3. /\ D = [c \in Cells |-> D[c]] /\ DOMAIN req[r].cells = {} /\ i \in Inputs /\ i.op # "run"
      /\ Turn(r) /\ db' = db /\ req'[r].in = i
      /\ req'[r].cells = Upon(Changes(D, E), req[r].cells)
  BY <1>1, <1>2, Seen DEF Placed, Phase, Turn, Decides, Stays, Goes
<1>4. ASSUME NEW g \in Findings, Finding(g) \in DOMAIN req'[r].cells
      PROVE  \/ req'[r].cells[Finding(g)] \notin OpenStatuses
             \/ i.op = "retest" /\ req'[r].cells[Finding(g)] = "open"
  <2>1. E[Finding(g)] # D[Finding(g)] /\ req'[r].cells[Finding(g)] = E[Finding(g)]
    BY <1>3, <1>4 DEF Upon, Changes
  <2>2. i.op \in {"retest", "triage"}
    BY <1>1, <1>2, <1>3, <2>1, FindingsLeft
  <2>3. f \in Findings
    BY <1>3, <2>2, InputKinds
  <2>4. CASE i.op = "triage"
    <3>1. E = [D EXCEPT ![Finding(f)] = i.value] /\ i.value \in {"suppressed", "false_positive"}
      BY <1>2, <1>3, <2>4, InputKinds DEF Handler, Triage
    <3>2. E[Finding(g)] = i.value
      BY <1>3, <2>1, <2>3, <3>1, FindingApart
    <3> QED
      BY <2>1, <3>1, <3>2 DEF OpenStatuses
  <2>5. CASE i.op = "retest"
    <3>1. PICK x : E = [D EXCEPT ![Finding(f)] = "resolved"] \/ E = UpsertFinding(D, f, x)
      BY <1>2, <2>5 DEF Handler, Retest
    <3>2. E[Finding(g)] \in {"resolved", "open"}
      BY <1>3, <2>1, <2>3, <3>1, FindingApart DEF UpsertFinding
    <3> QED
      BY <2>1, <2>5, <3>2 DEF OpenStatuses
  <2> QED
    BY <2>2, <2>4, <2>5
<1>5. Opening(r)' /\ \A t \in Subjects : Looks(r, t)'
  BY <1>3, <1>4 DEF Opening, Looks
<1> QED
  BY <1>3, <1>5, OthersOpen

LEMMA UpsertOpen ==
  ASSUME NEW D, D = [c \in Cells |-> D[c]], NEW r \in Reqs, NEW t \in Subjects, NEW f \in Existing(D, r, t), NEW x,
         NEW E, E = UpsertFinding(D, f, x), OneOpen(D, t)
  PROVE  OneOpen(E, t)
<1>1. f \in Findings /\ f[1] = t
  BY DEF Existing, OpenFindings, Findings, Makers
<1>2. \A g \in Findings : E[Finding(g)] = IF g = f THEN "open" ELSE D[Finding(g)]
  BY <1>1, FindingApart DEF UpsertFinding
<1>3. \A g \in OpenFindings(D, t) : g = f
  BY DEF OneOpen, Existing
<1>4. \A g \in OpenFindings(E, t) : g = f
  BY <1>2, <1>3 DEF OpenFindings
<1> QED
  BY <1>4 DEF OneOpen

LEMMA UpsertOthers ==
  ASSUME NEW D, D = [c \in Cells |-> D[c]], NEW f \in Findings, NEW x, NEW E, E = UpsertFinding(D, f, x), NEW t, t # f[1]
  PROVE  Agree(D, E, t)
BY FindingApart DEF UpsertFinding, Agree

LEMMA FindsOpen ==
  ASSUME Placed, Placed', FilingInv, OpenInv, NEW r \in Reqs, Finds(r)
  PROVE  OpenInv'
<1>1. PICK status, set :
        LET t        == Head(req[r].todo)
            failures == Failures(Verdicts(Written(r), status, set, t, req[r].in.budget))
        IN /\ t \in Subjects /\ failures # {}
           /\ \E f \in Existing(Written(r), r, t) :
                Decides(r, Written(r), UpsertFinding(Written(r), f, Worst(failures)))
  BY DEF Finds
<1>2. PICK s, x, f : /\ s \in Subjects /\ f \in Existing(Written(r), r, s)
                     /\ Decides(r, Written(r), UpsertFinding(Written(r), f, x))
  BY <1>1
<1>3. f \in Findings /\ f[1] = s
  BY <1>2 DEF Existing, OpenFindings, Findings, Makers
<1>4. PICK D, E : D = Written(r) /\ E = UpsertFinding(D, f, x)
  OBVIOUS
<1>5. /\ D = [c \in Cells |-> D[c]] /\ Planning(r) /\ req[r].in.op = "run" /\ req'[r].in = req[r].in
      /\ Turn(r) /\ db' = db /\ Decides(r, D, E) /\ req'[r].cells = Upon(Changes(D, E), req[r].cells)
  <2>1. Decides(r, D, E)
    BY <1>2, <1>4
  <2>2. Planning(r) /\ req[r].in.op = "run" /\ Turn(r)
    BY DEF Finds, Planning, Turn
  <2>3. db' = db /\ req'[r].in = req[r].in /\ req'[r].cells = Upon(Changes(D, E), req[r].cells)
    BY <2>1 DEF Decides, Stays, Goes
  <2> QED
    BY <1>4, <2>1, <2>2, <2>3, Seen
<1>6. PICK W : W = Written(r)'
  OBVIOUS
<1>7. \A g \in Findings : W[Finding(g)] = E[Finding(g)]
  <2>1. \A c \in Cells : Written(r)'[c] = E[c]
    BY <1>4, <1>5, DecidesWritten
  <2>2. \A g \in Findings : Finding(g) \in Cells
    BY FindingCells
  <2> QED
    BY <1>6, <2>1, <2>2
<1>8. ASSUME NEW t \in Subjects, OneOpen(db, t), Looks(r, t) PROVE Looks(r, t)'
  <2>1. CASE OneOpen(D, t)
    <3>1. OneOpen(E, t)
      <4>1. CASE t = s
        BY <1>2, <1>4, <1>5, <2>1, <4>1, UpsertOpen
      <4>2. CASE t # s
        BY <1>3, <1>4, <1>5, <2>1, <4>2, UpsertOthers, OneOpenAgrees
      <4> QED
        BY <4>1, <4>2
    <3>2. OneOpen(W, t)
      BY <1>7, <3>1, OneOpenAgrees DEF Agree
    <3> QED
      BY <1>6, <3>2 DEF Looks, OneOpen, OpenFindings
  <2>2. CASE LateFinding(r, t)
    BY <1>5, <2>2, LateStays DEF Looks
  <2>3. CASE ~OneOpen(D, t) /\ ~LateFinding(r, t)
    <3>1. ~TouchesFinding(r, t)
      BY <1>4, <1>5, <1>8, <2>3 DEF Looks
    <3>2. OneOpen(D, t)
      BY <1>4, <1>8, <3>1, UntouchedAgrees, OneOpenAgrees
    <3> QED
      BY <2>3, <3>2
  <2> QED
    BY <2>1, <2>2, <2>3
<1>9. Opening(r)'
  BY <1>5 DEF Opening
<1> QED
  BY <1>5, <1>8, <1>9, OthersOpen

LEMMA AppendsOpen ==
  ASSUME Placed, Placed', FilingInv, OpenInv, NEW r \in Reqs, Appends(r)
  PROVE  OpenInv'
<1>1. PICK D, E : D = Written(r) /\ E = AddVersion(D, req[r].in.p, req[r].in.value) /\ Decides(r, D, E)
  BY DEF Appends
<1>2. Planning(r) /\ Turn(r) /\ db' = db /\ req[r].in.op = "update" /\ req'[r].in = req[r].in
  BY DEF Appends, Planning, Turn, Decides, Stays, Goes
<1>3. req'[r].cells = Upon(Changes(D, E), req[r].cells) /\ D = [c \in Cells |-> D[c]]
  BY <1>1, Seen DEF Decides
<1>4. \A g \in Findings : E[Finding(g)] = D[Finding(g)]
  <2> TAKE g \in Findings
  <2>1. PICK c : c[1] = "version" /\ E = [D EXCEPT ![c] = req[r].in.value]
    BY <1>1 DEF AddVersion, Version
  <2> QED
    BY <1>3, <2>1, FindingCells
<1>5. \A g \in Findings : Finding(g) \in DOMAIN req'[r].cells =>
         Finding(g) \in DOMAIN req[r].cells /\ req'[r].cells[Finding(g)] = req[r].cells[Finding(g)]
  BY <1>3, <1>4 DEF Upon, Changes
<1>6. Opening(r)
  BY DEF OpenInv
<1>7. Opening(r)' /\ \A t \in Subjects : Looks(r, t)'
  BY <1>2, <1>5, <1>6 DEF Opening, Looks
<1> QED
  BY <1>2, <1>7, OthersOpen

LEMMA StaysOpen ==
  ASSUME Placed, Placed', FilingInv, OpenInv, NEW r \in Reqs, Walks(r) \/ (\E l : Takes(r, l)) \/ Quits(r)
  PROVE  OpenInv'
<1>1. Turn(r) /\ db' = db /\ req'[r].in = req[r].in
  BY DEF Turn, Walks, Takes, Quits, Stays, Goes
<1>2. CASE Quits(r)
  <2>1. Opening(r)' /\ \A t \in Subjects : Looks(r, t)'
    BY <1>2 DEF Quits, Opening, Looks, Planning
  <2> QED
    BY <1>1, <2>1, OthersOpen
<1>3. CASE Walks(r) \/ \E l : Takes(r, l)
  <2>1. Planning(r) /\ Opening(r)
    BY <1>3 DEF Walks, Takes, Planning, OpenInv
  <2>2. \A f \in Findings :
           /\ Finding(f) \in DOMAIN req'[r].cells <=> Finding(f) \in DOMAIN req[r].cells
           /\ Finding(f) \in DOMAIN req'[r].cells => req'[r].cells[Finding(f)] = req[r].cells[Finding(f)]
    <3>1. CASE Walks(r)
      BY <3>1 DEF Walks
    <3>2. CASE \E l : Takes(r, l)
      BY <3>2, TakesFindings
    <3> QED
      BY <1>3, <3>1, <3>2
  <2>3. Opening(r)'
    BY <1>1, <2>1, <2>2 DEF Opening
  <2>4. ASSUME NEW t \in Subjects, OneOpen(db, t), Looks(r, t) PROVE Looks(r, t)'
    <3> SUFFICES ASSUME Planning(r)', req'[r].in.op = "run", TouchesFinding(r, t)'
                 PROVE  OneOpen(Written(r), t)' \/ LateFinding(r, t)'
      BY DEF Looks
    <3>1. TouchesFinding(r, t)
      BY <2>2 DEF TouchesFinding, FindingsOf
    <3>2. PICK D, W : D = Written(r) /\ W = Written(r)'
      OBVIOUS
    <3>3. OneOpen(D, t) \/ LateFinding(r, t)
      BY <1>1, <2>1, <2>4, <3>1, <3>2 DEF Looks
    <3>4. Agree(D, W, t)
      <4> SUFFICES ASSUME NEW f \in Findings, f[1] = t PROVE D[Finding(f)] = W[Finding(f)]
        BY DEF Agree
      <4>1. DOMAIN db = Cells /\ DOMAIN db' = Cells /\ Finding(f) \in Cells
        BY FindingCells DEF Placed
      <4> QED
        BY <1>1, <2>2, <3>2, <4>1 DEF Written, Put
    <3>5. CASE OneOpen(D, t)
      <4>1. OneOpen(W, t)
        BY <3>4, <3>5, OneOpenAgrees
      <4> QED
        BY <3>2, <4>1 DEF OneOpen, OpenFindings
    <3>6. CASE LateFinding(r, t)
      BY <1>1, <2>1, <3>6, LateStays
    <3> QED
      BY <3>3, <3>5, <3>6
  <2> QED
    BY <1>1, <2>3, <2>4, OthersOpen
<1> QED
  BY <1>2, <1>3

\* A commit that closes findings opens none; one that files or reopens a finding
\* is answered for.
LEMMA CommitsFindings ==
  ASSUME Placed, NEW r \in Reqs, Commits(r)
  PROVE  \A t : Agree(Written(r), db', t)
<1>1. db' = Cascade(Written(r))
  BY DEF Commits
<1>2. PICK D : D = Written(r)
  OBVIOUS
<1> SUFFICES ASSUME NEW f \in Findings PROVE D[Finding(f)] = db'[Finding(f)]
  BY <1>2 DEF Agree
<1>3. Finding(f) \in Cells /\ Owner(Finding(f)) = Finding(f)
  BY FindingCells
<1> QED
  BY <1>1, <1>2, <1>3 DEF Cascade

LEMMA CommitsOpen ==
  ASSUME Placed, Placed', OpenInv, NEW r \in Reqs, Commits(r)
  PROVE  OpenInv'
<1>1. /\ Turn(r) /\ Others(r) /\ Planning(r) /\ prior' = prior /\ req'[r].in = req[r].in
      /\ req'[r].cells = req[r].cells /\ ~Planning(r)' /\ Ok(r)' /\ Wrote(r)' = DOMAIN req[r].cells
  BY DEF Commits, Turn, Goes, Planning, Ok, Wrote
<1>2. \A q \in Reqs : Opening(q)'
  BY <1>1 DEF OpenInv, Opening, Others, Planning
<1>3. PICK D : D = Written(r) /\ \A t : Agree(D, db', t)
  BY CommitsFindings
\* The others see the same findings open, or fewer.
<1>4. ASSUME NEW t \in Subjects, OneOpen(db, t), \A q \in Reqs : Looks(q, t), NoneOpened(db, db', t)
      PROVE  OneOpen(db', t) /\ \A q \in Reqs : Looks(q, t)'
  <2>1. OneOpen(db', t)
    BY <1>4, NoneOpenedKeeps
  <2>2. ASSUME NEW q \in Reqs PROVE Looks(q, t)'
    <3>1. CASE q = r
      BY <1>1, <3>1 DEF Looks
    <3>2. CASE q # r
      BY <1>1, <1>4, <3>2, OthersLook
    <3> QED
      BY <3>1, <3>2
  <2> QED
    BY <2>1, <2>2
<1>5. ASSUME NEW t \in Subjects, OneOpen(db, t), \A q \in Reqs : Looks(q, t)
      PROVE  Pardoned(t)' \/ (OneOpen(db', t) /\ \A q \in Reqs : Looks(q, t)')
  <2>1. CASE ~TouchesFinding(r, t)
    <3>1. NoneOpened(db, db', t)
      BY <1>3, <2>1, UntouchedAgrees DEF Agree, NoneOpened
    <3> QED
      BY <1>4, <1>5, <3>1
  <2>2. CASE TouchesFinding(r, t) /\ req[r].in.op = "run"
    <3>1. Files(r, t)'
      BY <1>1, <2>2 DEF Files, TouchesFinding, FindingsOf
    <3>2. ASSUME NEW q \in Reqs PROVE Looks(q, t)'
      <4>1. CASE q = r
        BY <1>1, <4>1 DEF Looks
      <4>2. CASE q # r /\ Planning(q)'
        <5>1. req[q].pc # "done" /\ req[r].pc # "done"
          BY <1>1, <4>2 DEF Others, Planning
        <5>2. q \notin prior[r] /\ r \notin prior[q]
          BY <5>1 DEF Placed
        <5>3. Overlap(r, q)'
          BY <1>1, <4>2, <5>2 DEF Overlap
        <5> QED
          BY <3>1, <5>3 DEF LateFinding, Looks
      <4>3. CASE ~Planning(q)'
        BY <4>3 DEF Looks
      <4> QED
        BY <4>1, <4>2, <4>3
    <3>3. CASE OneOpen(D, t)
      <4>1. OneOpen(db', t)
        BY <1>3, <3>3, OneOpenAgrees
      <4> QED
        BY <3>2, <4>1
    <3>4. CASE LateFinding(r, t)
      <4>1. PICK p \in Reqs : Overlap(p, r) /\ Files(p, t)
        BY <3>4 DEF LateFinding
      <4>2. Overlap(p, r)' /\ Files(p, t)'
        BY <1>1, <4>1, FilesStays DEF Overlap
      <4> QED
        BY <3>1, <4>2 DEF Pardoned
    <3> QED
      BY <1>1, <1>3, <1>5, <2>2, <3>3, <3>4 DEF Looks
  <2>3. CASE TouchesFinding(r, t) /\ req[r].in.op # "run"
    <3>1. CASE \E f \in Findings : f[1] = t /\ Finding(f) \in DOMAIN req[r].cells
                                    /\ req[r].cells[Finding(f)] \in OpenStatuses
      <4>1. PICK f \in Findings : f[1] = t /\ Finding(f) \in DOMAIN req[r].cells
                                    /\ req[r].cells[Finding(f)] \in OpenStatuses
        BY <3>1
      <4>2. req[r].in.op = "retest" /\ req[r].cells[Finding(f)] = "open"
        BY <1>1, <2>3, <4>1 DEF OpenInv, Opening
      <4>3. Finding(f) \in Wrote(r)' /\ Finding(f) \in FindingsOf(t)
        BY <1>1, <4>1 DEF FindingsOf
      <4>4. Reopens(r, t)'
        BY <1>1, <4>2, <4>3 DEF Reopens, FindingsOf
      <4> QED
        BY <4>4 DEF Pardoned
    <3>2. CASE ~\E f \in Findings : f[1] = t /\ Finding(f) \in DOMAIN req[r].cells
                                     /\ req[r].cells[Finding(f)] \in OpenStatuses
      <4>1. NoneOpened(db, D, t)
        BY <1>3, <3>2, Seen, FindingCells DEF NoneOpened
      <4>2. NoneOpened(db, db', t)
        BY <1>3, <4>1 DEF Agree, NoneOpened
      <4> QED
        BY <1>4, <1>5, <4>2
    <3> QED
      BY <3>1, <3>2
  <2> QED
    BY <2>1, <2>2, <2>3
<1>6. \A t \in Subjects : Pardoned(t)' \/ (OneOpen(db', t) /\ \A q \in Reqs : Looks(q, t)')
  BY <1>1, <1>5, PardonedStays DEF OpenInv
<1> QED
  BY <1>2, <1>6 DEF OpenInv

LEMMA OpenKept == ASSUME IInv, Placed, Placed', FilingInv, OpenInv, [Next]_vars PROVE OpenInv'
<1>1. ASSUME NEW r \in Reqs, Turn(r) PROVE OpenInv'
  BY <1>1, BeginsOpen, ReadsOpen, FindsOpen, AppendsOpen, StaysOpen, CommitsOpen DEF Turn
<1>2. CASE Aside
  BY <1>2 DEF Aside, OpenInv, OneOpen, OpenFindings, Opening, Looks, Planning, TouchesFinding, FindingsOf, Pardoned,
              Overlap, Wrote, Ok, Files, Reopens, LateFinding, Written
<1> QED
  BY <1>1, <1>2, Turns

\* Of a technique there is one open finding, unless two assessments that filed
\* findings of it overlapped, or a retest reopened one (redteam/runner.py:54),
\* however other requests triage, remedy and retest the findings meanwhile.
THEOREM OneOpenFindingHolds == OpsSpec => []OneOpenFinding
<1>1. Init => IInv /\ Placed /\ FilingInv /\ OpenInv
  BY InitIInv, InitPlaced, InitFiling, InitOpen
<1>2. IInv /\ Placed /\ FilingInv /\ OpenInv /\ [Next]_vars => (IInv /\ Placed /\ FilingInv /\ OpenInv)'
  BY NextIInv, PlacedKept, FilingKept, OpenKept
<1>3. ASSUME OpenInv PROVE OneOpenFinding
  <2>1. ASSUME NEW t \in Subjects, OneOpen(db, t) PROVE Cardinality(OpenFindings(db, t)) <= 1
    <3>1. CASE OpenFindings(db, t) = {}
      BY <3>1, FS_EmptySet
    <3>2. CASE OpenFindings(db, t) # {}
      <4>1. PICK f : OpenFindings(db, t) = {f}
        BY <2>1, <3>2 DEF OneOpen
      <4> QED
        BY <4>1, FS_Singleton
    <3> QED
      BY <3>1, <3>2
  <2> QED
    BY <1>3, <2>1 DEF OpenInv, Pardoned, OneOpenFinding
<1> QED
  BY <1>1, <1>2, <1>3, PTL DEF OpsSpec

-------------------------------------------------------------------------------
\* The cells that tell a policy's body, who made it and its versions.
PolicyCell(p) == {Spec(p), Id(Spec(p))} \cup {Version(p, n) : n \in 1..MaxVersion}

LEMMA PolicyApart ==
  ASSUME NEW p \in Policies, NEW q \in Policies
  PROVE  /\ (Spec(p) = Spec(q) <=> p = q) /\ (Id(Spec(p)) = Id(Spec(q)) <=> p = q)
         /\ Spec(p) # Id(Spec(q))
         /\ \A n : Spec(p) # Version(q, n) /\ Id(Spec(p)) # Version(q, n)
         /\ \A m, n : Version(p, m) = Version(q, n) <=> p = q /\ m = n
         /\ Spec(p) # None
<1>1. Spec(p) # None
  BY PolicyCells, NoneAssumption
<1>2. /\ Spec(p)[1] = "policy" /\ Spec(p)[2] = p /\ Id(Spec(p))[1] = "id" /\ Id(Spec(p))[2] = Spec(p)
      /\ \A n : Version(p, n)[1] = "version" /\ Version(p, n)[2] = p /\ Version(p, n)[3] = n
  BY PolicyCells
<1>3. /\ Spec(q)[1] = "policy" /\ Spec(q)[2] = q /\ Id(Spec(q))[1] = "id" /\ Id(Spec(q))[2] = Spec(q)
      /\ \A n : Version(q, n)[1] = "version" /\ Version(q, n)[2] = q /\ Version(q, n)[3] = n
  BY PolicyCells
<1> QED
  BY <1>1, <1>2, <1>3

LEMMA PolicyCellOf ==
  ASSUME NEW p \in Policies
  PROVE  /\ PolicyCell(p) \subseteq Cells
         /\ Spec(p) \in PolicyCell(p) /\ Id(Spec(p)) \in PolicyCell(p)
         /\ \A n \in 1..MaxVersion : Version(p, n) \in PolicyCell(p)
         /\ \A c \in PolicyCell(p) : /\ c[1] \in {"policy", "id", "version"} /\ Owner(c) = Spec(p)
                                     /\ c = Spec(p) \/ c = Id(Spec(p)) \/ \E n \in 1..MaxVersion : c = Version(p, n)
<1>1. /\ Spec(p) \in Cells /\ Id(Spec(p)) \in Cells /\ \A n \in 1..MaxVersion : Version(p, n) \in Cells
      /\ Owner(Spec(p)) = Spec(p) /\ Owner(Id(Spec(p))) = Spec(p) /\ \A n : Owner(Version(p, n)) = Spec(p)
      /\ Spec(p)[1] = "policy" /\ Id(Spec(p))[1] = "id" /\ \A n : Version(p, n)[1] = "version"
  BY PolicyCells
<1> QED
  BY <1>1 DEF PolicyCell

LEMMA Kinds ==
  ASSUME NEW x, NEW p
  PROVE  /\ Makes(x, p) => x.in.op \in {"create", "remedy"} /\ ~Updates(x, p)
         /\ Updates(x, p) => x.in.op = "update" /\ x.in.p = p
BY DEF Makes, Updates

\* Versions and rows as the database has them.
LEMMA SamePolicyRow ==
  ASSUME NEW p \in Policies, \A c \in PolicyCell(p) : db'[c] = db[c]
  PROVE  /\ db'[Spec(p)] = db[Spec(p)] /\ db'[Id(Spec(p))] = db[Id(Spec(p))]
         /\ \A n \in 1..MaxVersion : db'[Version(p, n)] = db[Version(p, n)]
         /\ VersionsOf(db', p) = VersionsOf(db, p)
<1>1. /\ db'[Spec(p)] = db[Spec(p)] /\ db'[Id(Spec(p))] = db[Id(Spec(p))]
      /\ \A n \in 1..MaxVersion : db'[Version(p, n)] = db[Version(p, n)]
  BY PolicyCellOf
<1> QED
  BY <1>1 DEF VersionsOf

\* What is settled, clashed and late stays so.
LEMMA SettledStays ==
  ASSUME Placed, NEW r \in Reqs, Turn(r), NEW m, Settled(m)
  PROVE  Settled(m)'
BY CommittedStay DEF Settled, Others

LEMMA ClashedStays ==
  ASSUME Placed, NEW r \in Reqs, Turn(r), NEW p, Clashed(p)
  PROVE  Clashed(p)'
<1>1. PICK a, b \in Reqs : /\ Overlap(a, b) /\ Ok(a) /\ Ok(b)
                           /\ req[a].in.op = "update" /\ req[a].in.p = p
                           /\ req[b].in.op = "update" /\ req[b].in.p = p
  BY DEF Clashed
<1>2. /\ Ok(a)' /\ Ok(b)' /\ req'[a] = req[a] /\ req'[b] = req[b] /\ Overlap(a, b)'
  BY <1>1, CommittedStay DEF Overlap
<1> QED
  BY <1>1, <1>2 DEF Clashed

LEMMA LateUpdateStays ==
  ASSUME Placed, NEW r \in Reqs, Turn(r), NEW q \in Reqs, Busy(q), NEW p, LateUpdate(q, p)
  PROVE  LateUpdate(q, p)'
<1>1. PICK b \in Reqs : Overlap(b, q) /\ Ok(b) /\ req[b].in.op = "update" /\ req[b].in.p = p
  BY DEF LateUpdate
<1>2. Ok(b)' /\ req'[b] = req[b] /\ prior'[b] = prior[b]
  BY <1>1, CommittedStay
<1>3. prior'[q] = prior[q]
  BY CommittedStay DEF Turn, Begins, Reads, Finds, Appends, Walks, Takes, Decides, Quits, Commits, Stays, Goes, Others, Busy
<1> QED
  BY <1>1, <1>2, <1>3 DEF LateUpdate, Overlap

\* A policy whose cells a step leaves alone stays as it is, and so does what the
\* other requests make of it.
LEMMA RowStays ==
  ASSUME Placed, NEW r \in Reqs, Turn(r), NEW p \in Policies, PolicyRow(p), \A c \in PolicyCell(p) : db'[c] = db[c]
  PROVE  PolicyRow(p)'
<1>1. /\ db'[Spec(p)] = db[Spec(p)] /\ db'[Id(Spec(p))] = db[Id(Spec(p))]
      /\ \A n \in 1..MaxVersion : db'[Version(p, n)] = db[Version(p, n)]
      /\ VersionsOf(db', p) = VersionsOf(db, p)
  BY SamePolicyRow
<1>2. CASE db[Spec(p)] = None
  BY <1>1, <1>2 DEF PolicyRow
<1>3. CASE db[Spec(p)] # None
  <2>1. Settled(db[Id(Spec(p))])
    BY <1>3 DEF PolicyRow
  <2>2. PICK m : m = db[Id(Spec(p))]
    OBVIOUS
  <2>3. Settled(m)'
    BY <2>1, <2>2, SettledStays
  <2>4. Settled(db[Id(Spec(p))])'
    BY <1>1, <2>2, <2>3 DEF Settled
  <2>5. PICK k \in 1..MaxVersion : /\ VersionsOf(db, p) = 1..k
                                   /\ db[Version(p, k)] = db[Spec(p)] \/ Clashed(p)
    BY <1>3 DEF PolicyRow
  <2>6. VersionsOf(db', p) = 1..k /\ (db'[Version(p, k)] = db'[Spec(p)] \/ Clashed(p)')
    BY <1>1, <2>5, ClashedStays
  <2> QED
    BY <1>1, <1>3, <2>4, <2>6 DEF PolicyRow, Settled
<1> QED
  BY <1>2, <1>3

LEMMA PlanStays ==
  ASSUME NEW q \in Reqs, NEW p \in Policies, PolicyPlan(q, p),
         req'[q] = req[q], held'[q] = held[q], \A c \in PolicyCell(p) : db'[c] = db[c]
  PROVE  PolicyPlan(q, p)'
<1>1. /\ db'[Spec(p)] = db[Spec(p)] /\ db'[Id(Spec(p))] = db[Id(Spec(p))]
      /\ \A n \in 1..MaxVersion : db'[Version(p, n)] = db[Version(p, n)]
      /\ VersionsOf(db', p) = VersionsOf(db, p)
  BY SamePolicyRow
<1>2. /\ (\A l : Locked(q, l)' <=> Locked(q, l)) /\ (Same(q, p)' <=> Same(q, p))
  BY <1>1 DEF Locked, Same
<1>3. PlansSpec(q, p) => PlansSpec(q, p)'
  BY <1>1, <1>2 DEF PlansSpec, Makes, Updates
<1>4. \A n \in 1..MaxVersion : PlansVersion(q, p, n) => PlansVersion(q, p, n)'
  BY <1>1, <1>2 DEF PlansVersion, Makes, Updates
<1> QED
  BY <1>3, <1>4 DEF PolicyPlan, Makes, Updates

LEMMA LoadedStays ==
  ASSUME Placed, NEW r \in Reqs, Turn(r), NEW q \in Reqs, Busy(q), NEW p \in Policies, LoadedPolicy(q, p),
         req'[q].loaded = req[q].loaded, held'[q] = held[q], \A c \in PolicyCell(p) : db'[c] = db[c]
  PROVE  LoadedPolicy(q, p)'
<1>1. db'[Spec(p)] = db[Spec(p)] /\ db'[Id(Spec(p))] = db[Id(Spec(p))]
  BY SamePolicyRow
<1>2. Same(q, p)' <=> Same(q, p)
  BY <1>1 DEF Same
<1>3. PICK m : m = req[q].loaded[Id(Spec(p))]
  OBVIOUS
<1>4. Settled(m)'
  BY <1>3, SettledStays DEF LoadedPolicy
<1>5. Settled(req[q].loaded[Id(Spec(p))])'
  BY <1>3, <1>4 DEF Settled
<1>6. LateUpdate(q, p) => LateUpdate(q, p)'
  BY LateUpdateStays
<1> QED
  BY <1>1, <1>2, <1>5, <1>6 DEF LoadedPolicy, Settled

LEMMA OthersAbide ==
  ASSUME Placed, NEW r \in Reqs, Turn(r), NEW p \in Policies, \A c \in PolicyCell(p) : db'[c] = db[c],
         NEW q \in Reqs, q # r, Abides(q, p)
  PROVE  Abides(q, p)'
<1>1. req'[q] = req[q] /\ held'[q] = held[q]
  BY CommittedStay DEF Others
<1>2. Planning(q)' => PolicyPlan(q, p)'
  BY <1>1, PlanStays DEF Abides, Planning
<1>3. ASSUME Busy(q)', Updates(req[q], p)' PROVE LoadedPolicy(q, p)'
  <2>1. Busy(q) /\ Updates(req[q], p)
    BY <1>1, <1>3 DEF Busy, Updates
  <2> QED
    BY <1>1, <2>1, LoadedStays DEF Abides
<1> QED
  BY <1>2, <1>3 DEF Abides

\* A step that commits nothing: what is left to show is what it does to its own
\* request.
LEMMA OwnAbides ==
  ASSUME Placed, PolicyInv, NEW r \in Reqs, Turn(r), db' = db, \A p \in Policies : Abides(r, p)'
  PROVE  PolicyInv'
<1>1. ASSUME NEW p \in Policies PROVE PolicyRow(p)' /\ \A q \in Reqs : Abides(q, p)'
  <2>1. PolicyRow(p) /\ \A q \in Reqs : Abides(q, p)
    BY DEF PolicyInv
  <2>2. PolicyRow(p)'
    BY <2>1, RowStays
  <2>3. ASSUME NEW q \in Reqs, q # r PROVE Abides(q, p)'
    BY <2>1, <2>3, OthersAbide
  <2>4. Abides(r, p)'
    OBVIOUS
  <2> QED
    BY <2>2, <2>3, <2>4
<1> QED
  BY <1>1 DEF PolicyInv

LEMMA InitPolicy == Init => PolicyInv
<1> SUFFICES ASSUME Init PROVE PolicyInv
  OBVIOUS
<1>1. \A r \in Reqs : req[r].pc = "idle"
  BY DEF Init, Fresh
<1>2. ASSUME NEW p \in Policies PROVE PolicyRow(p)
  <2>1. IF db[Spec(p)] = None THEN db[Id(Spec(p))] = None /\ VersionsOf(db, p) = {}
        ELSE db[Id(Spec(p))] \in Standing /\ \E k \in 1..MaxVersion : Numbered(db, p, k)
    BY StartsAssumption DEF Init
  <2>2. \A m \in Standing : Settled(m)
    BY MakersAssumption DEF Settled, Makers
  <2> QED
    BY <2>1, <2>2 DEF PolicyRow, Numbered
<1> QED
  BY <1>1, <1>2 DEF PolicyInv, Abides, Planning, Busy

LEMMA BeginsPolicy == ASSUME Placed, Placed', PolicyInv, NEW r \in Reqs, Begins(r) PROVE PolicyInv'
<1>1. Turn(r)
  BY DEF Turn
<1>2. db' = db /\ held' = held /\ req'[r].cells = <<>> /\ held[r] = {}
  BY DEF Begins, Placed, Phase
<1>3. PICK i \in Inputs :
        /\ Subject(i) # None => db[Subject(i)] # None
        /\ req'[r].in = i
        /\ req'[r].pc = IF i.op = "run" THEN "stage" ELSE "read"
        /\ req'[r].loaded = IF Subject(i) = None THEN <<>> ELSE [c \in Columns(Subject(i)) |-> db[c]]
  BY DEF Begins
<1>4. ASSUME NEW p \in Policies PROVE Abides(r, p)'
  <2>1. Planning(r)' => ~Updates(req[r], p)'
    BY <1>3 DEF Planning, Updates
  <2>2. Planning(r)' => PolicyPlan(r, p)'
    <3>1. DOMAIN req'[r].cells = {}
      BY <1>2
    <3> QED
      BY <2>1, <3>1 DEF PolicyPlan
  <2>3. ASSUME Updates(req[r], p)' PROVE LoadedPolicy(r, p)'
    <3>1. i.op = "update" /\ i.p = p
      BY <1>3, <2>3 DEF Updates
    <3>2. Subject(i) = Spec(p) /\ Spec(p) # None
      BY <3>1, PolicyApart DEF Subject
    <3>3. Spec(p) \in Columns(Spec(p)) /\ Id(Spec(p)) \in Columns(Spec(p))
      BY PolicyCells DEF Columns
    <3>4. req'[r].loaded = [c \in Columns(Spec(p)) |-> db[c]] /\ db[Spec(p)] # None
      BY <1>3, <3>2
    <3>5. /\ req'[r].loaded[Spec(p)] = db[Spec(p)] /\ req'[r].loaded[Id(Spec(p))] = db[Id(Spec(p))]
          /\ db[Spec(p)] # None
      BY <3>3, <3>4
    <3>6. PICK m : m = db[Id(Spec(p))]
      OBVIOUS
    <3>7. Settled(m)
      BY <3>5, <3>6 DEF PolicyInv, PolicyRow
    <3>8. Settled(m)'
      BY <1>1, <3>7, SettledStays
    <3>9. Settled(req[r].loaded[Id(Spec(p))])'
      BY <3>5, <3>6, <3>8 DEF Settled
    <3> QED
      BY <1>2, <3>5, <3>9 DEF LoadedPolicy, Same
  <2> QED
    BY <2>2, <2>3 DEF Abides
<1> QED
  BY <1>1, <1>2, <1>4, OwnAbides

LEMMA WalksPolicy == ASSUME Placed, PolicyInv, NEW r \in Reqs, Walks(r) PROVE PolicyInv'
<1>1. /\ Turn(r) /\ db' = db /\ held' = held /\ req'[r].cells = req[r].cells /\ req'[r].want = req[r].want
      /\ req'[r].in = req[r].in /\ req'[r].loaded = req[r].loaded /\ Planning(r) /\ Busy(r)
      /\ req[r].in.op # "run" => req'[r].todo = req[r].todo
  BY DEF Walks, Turn, Stays, Goes, Planning, Busy
<1>2. ASSUME NEW p \in Policies PROVE Abides(r, p)'
  <2>1. PolicyPlan(r, p) /\ (Updates(req[r], p) => LoadedPolicy(r, p))
    BY <1>1 DEF PolicyInv, Abides
  <2>2. PolicyPlan(r, p)'
    <3>1. /\ Updates(req[r], p)' <=> Updates(req[r], p)
          /\ Makes(req[r], p)' <=> Makes(req[r], p)
          /\ Updates(req[r], p) => req'[r].todo = req[r].todo
          /\ \A l : Locked(r, l)' <=> Locked(r, l)
          /\ Same(r, p)' <=> Same(r, p)
      BY <1>1 DEF Updates, Makes, Locked, Same
    <3>2. PlansSpec(r, p) => PlansSpec(r, p)'
      BY <1>1, <3>1 DEF PlansSpec
    <3>3. \A n \in 1..MaxVersion : PlansVersion(r, p, n) => PlansVersion(r, p, n)'
      BY <1>1, <3>1 DEF PlansVersion, VersionsOf
    <3> QED
      BY <1>1, <2>1, <3>1, <3>2, <3>3 DEF PolicyPlan
  <2>3. Updates(req[r], p)' => LoadedPolicy(r, p)'
    BY <1>1, <2>1, LoadedStays DEF Updates
  <2> QED
    BY <2>2, <2>3 DEF Abides
<1> QED
  BY <1>1, <1>2, OwnAbides

LEMMA QuitsPolicy == ASSUME Placed, PolicyInv, NEW r \in Reqs, Quits(r) PROVE PolicyInv'
<1>1. Turn(r) /\ db' = db /\ req'[r].pc = "done"
  BY DEF Quits, Turn
<1>2. ASSUME NEW p \in Policies PROVE Abides(r, p)'
  BY <1>1 DEF Abides, Planning, Busy
<1> QED
  BY <1>1, <1>2, OwnAbides

\* What a plan says of the cells it names.
LEMMA PlannedCells ==
  ASSUME NEW r \in Reqs, NEW p \in Policies, PolicyPlan(r, p), req[r].in \in Inputs
  PROVE  /\ Makes(req[r], p) /\ Spec(p) \in DOMAIN req[r].cells => req[r].cells[Spec(p)] # None
         /\ Id(Spec(p)) \in DOMAIN req[r].cells => req[r].cells[Id(Spec(p))] = r
         /\ \A n \in 1..MaxVersion : Version(p, n) \in DOMAIN req[r].cells => req[r].cells[Version(p, n)] # None
         /\ Updates(req[r], p) => req[r].in.value # None
<1>1. Updates(req[r], p) => req[r].in.value # None
  BY InputKinds, NoneAssumption DEF Updates
<1>2. Makes(req[r], p) /\ Spec(p) \in DOMAIN req[r].cells =>
        req[r].cells[Spec(p)] # None /\ req[r].cells[Version(p, 1)] = req[r].cells[Spec(p)]
          /\ req[r].cells[Id(Spec(p))] = r
  BY Kinds DEF PolicyPlan, PlansSpec, Makes
<1>3. Id(Spec(p)) \in DOMAIN req[r].cells => Makes(req[r], p) /\ Spec(p) \in DOMAIN req[r].cells
  BY DEF PolicyPlan
<1>4. ASSUME NEW n \in 1..MaxVersion, Version(p, n) \in DOMAIN req[r].cells PROVE req[r].cells[Version(p, n)] # None
  BY <1>1, <1>2, <1>4 DEF PolicyPlan, PlansVersion
<1> QED
  BY <1>1, <1>2, <1>3, <1>4

LEMMA TakenCells ==
  ASSUME Placed, PolicyInv, NEW r \in Reqs, NEW l, Takes(r, l), NEW p \in Policies
  PROVE  /\ Spec(p) \in DOMAIN req'[r].cells =>
              Spec(p) \in DOMAIN req[r].cells /\ req'[r].cells[Spec(p)] = req[r].cells[Spec(p)]
         /\ Spec(p) \in DOMAIN req[r].cells /\ Spec(p) \notin DOMAIN req'[r].cells => req[r].in.op = "delete"
         /\ \A c \in PolicyCell(p) \ {Spec(p)} : c \in DOMAIN req'[r].cells <=> c \in DOMAIN req[r].cells
         /\ \A c \in PolicyCell(p) \ {Spec(p)} :
              c \in DOMAIN req[r].cells => req'[r].cells[c] = req[r].cells[c]
<1>1. PolicyPlan(r, p) /\ req[r].in \in Inputs
  BY DEF Takes, PolicyInv, Abides, Planning, Placed, Phase
<1>2. CASE ~Miss(r, l)
  BY <1>2 DEF Takes
<1>3. CASE Miss(r, l)
  <2>1. req'[r].cells = Without(req[r].cells, l[1]) /\ req[r].cells[l[1]] = None
    BY <1>3 DEF Takes, Miss, Deletes
  <2>2. \A c \in PolicyCell(p) \ {Spec(p)} : c \in DOMAIN req[r].cells => req[r].cells[c] # None
    <3>1. r # None
      BY MakersAssumption DEF Makers
    <3> QED
      BY <1>1, <3>1, PlannedCells, PolicyCellOf
  <2>3. ASSUME Spec(p) \in DOMAIN req[r].cells, req[r].cells[Spec(p)] = None PROVE req[r].in.op = "delete"
    <3>1. ~Makes(req[r], p) /\ (Updates(req[r], p) => req[r].in.value # None)
      BY <1>1, <2>3, PlannedCells
    <3> QED
      BY <1>1, <2>3, <3>1 DEF PolicyPlan, PlansSpec
  <2> QED
    BY <2>1, <2>2, <2>3 DEF Without
<1> QED
  BY <1>2, <1>3

LEMMA TakesPolicy == ASSUME Placed, PolicyInv, NEW r \in Reqs, NEW l, Takes(r, l) PROVE PolicyInv'
<1>1. /\ Turn(r) /\ db' = db /\ held'[r] = held[r] \cup {l} /\ req'[r].want = req[r].want \ {l} /\ l \in req[r].want
      /\ req'[r].in = req[r].in /\ req'[r].loaded = req[r].loaded /\ req'[r].todo = req[r].todo
      /\ Planning(r) /\ Busy(r) /\ ~Clash(r, l) /\ req[r].in \in Inputs /\ Phase(r)
  <2>1. Turn(r)
    BY DEF Turn
  <2> QED
    BY <2>1 DEF Takes, Stays, Goes, Planning, Busy, Placed, Phase
<1>2. ASSUME NEW p \in Policies PROVE Abides(r, p)'
  <2>0. PolicyPlan(r, p) /\ (Updates(req[r], p) => LoadedPolicy(r, p))
    BY <1>1 DEF PolicyInv, Abides
  <2> DEFINE x == req[r]
             y == req'[r]
  <2>1. /\ Updates(req[r], p)' <=> Updates(x, p)
        /\ Makes(req[r], p)' <=> Makes(x, p)
        /\ \A m : Locked(r, m)' <=> Locked(r, m)
        /\ Same(r, p)' <=> Same(r, p)
    BY <1>1 DEF Updates, Makes, Locked, Same
  <2>2. /\ Spec(p) \in DOMAIN y.cells => Spec(p) \in DOMAIN x.cells /\ y.cells[Spec(p)] = x.cells[Spec(p)]
        /\ Spec(p) \in DOMAIN x.cells /\ Spec(p) \notin DOMAIN y.cells => x.in.op = "delete"
        /\ Id(Spec(p)) \in DOMAIN y.cells <=> Id(Spec(p)) \in DOMAIN x.cells
        /\ Id(Spec(p)) \in DOMAIN x.cells => y.cells[Id(Spec(p))] = x.cells[Id(Spec(p))]
        /\ \A n \in 1..MaxVersion : Version(p, n) \in DOMAIN y.cells <=> Version(p, n) \in DOMAIN x.cells
        /\ \A n \in 1..MaxVersion : Version(p, n) \in DOMAIN x.cells => y.cells[Version(p, n)] = x.cells[Version(p, n)]
    <3>1. /\ Id(Spec(p)) \in PolicyCell(p) \ {Spec(p)}
          /\ \A n \in 1..MaxVersion : Version(p, n) \in PolicyCell(p) \ {Spec(p)}
      BY PolicyCellOf, PolicyApart
    <3> QED
      BY <3>1, TakenCells
  <2>3. /\ Updates(x, p) => x.in.op = "update" /\ ~Makes(x, p)
        /\ Makes(x, p) => x.in.op \in {"create", "remedy"}
    BY Kinds
  <2>4. ASSUME NEW c, c \in DOMAIN x.cells, x.cells[c] # None, <<c, "all">> \in held'[r],
               <<c, "all">> \in held[r] => db[c] = None
        PROVE  db[c] = None
    <3>1. CASE l = <<c, "all">>
      <4>1. l[1] = c /\ l[2] = "all"
        BY <3>1
      <4> QED
        BY <1>1, <2>4, <4>1 DEF Clash, Deletes
    <3> QED
      BY <1>1, <2>4, <3>1
  <2>5. 1 \in 1..MaxVersion
    BY MaxVersionAssumption
  <2>6. Spec(p) \in DOMAIN y.cells => PlansSpec(r, p)'
    <3> SUFFICES ASSUME Spec(p) \in DOMAIN y.cells PROVE PlansSpec(r, p)'
      OBVIOUS
    <3>1. PlansSpec(r, p) /\ Spec(p) \in DOMAIN x.cells /\ y.cells[Spec(p)] = x.cells[Spec(p)]
      BY <2>0, <2>2 DEF PolicyPlan
    <3>2. CASE Makes(x, p)
      <4>1. /\ {Id(Spec(p)), Version(p, 1)} \subseteq DOMAIN x.cells
            /\ x.cells[Id(Spec(p))] = r /\ x.cells[Spec(p)] # None /\ x.cells[Version(p, 1)] = x.cells[Spec(p)]
            /\ Locked(r, <<Spec(p), "all">>)
            /\ <<Spec(p), "all">> \in held[r] => db[Spec(p)] = None
        BY <2>3, <3>1, <3>2 DEF PlansSpec
      <4>2. <<Spec(p), "all">> \in held'[r] => db[Spec(p)] = None
        BY <2>4, <3>1, <4>1
      <4>3. /\ {Id(Spec(p)), Version(p, 1)} \subseteq DOMAIN y.cells
            /\ y.cells[Id(Spec(p))] = r /\ y.cells[Spec(p)] # None /\ y.cells[Version(p, 1)] = y.cells[Spec(p)]
        BY <2>2, <2>5, <3>1, <4>1
      <4> QED
        BY <1>1, <2>1, <3>2, <4>1, <4>2, <4>3 DEF PlansSpec
    <3>3. CASE ~Makes(x, p)
      BY <1>1, <2>1, <3>1, <3>3 DEF PlansSpec
    <3> QED
      BY <3>2, <3>3
  <2>7. ASSUME NEW n \in 1..MaxVersion, Version(p, n) \in DOMAIN y.cells PROVE PlansVersion(r, p, n)'
    <3>1. PlansVersion(r, p, n) /\ Version(p, n) \in DOMAIN x.cells /\ y.cells[Version(p, n)] = x.cells[Version(p, n)]
          /\ x.cells[Version(p, n)] # None
      BY <1>1, <2>0, <2>2, <2>7, PlannedCells DEF PolicyPlan
    <3>2. CASE Updates(x, p)
      <4>1. /\ x.todo = <<>> /\ x.cells[Version(p, n)] = x.in.value
            /\ Locked(r, <<Version(p, n), "all">>) /\ Locked(r, <<Spec(p), "share">>)
            /\ <<Version(p, n), "all">> \in held[r] => db[Version(p, n)] = None
            /\ Same(r, p) => 1..(n - 1) \subseteq VersionsOf(db, p)
        BY <2>3, <3>1, <3>2 DEF PlansVersion
      <4>2. <<Version(p, n), "all">> \in held'[r] => db[Version(p, n)] = None
        BY <2>4, <3>1, <4>1
      <4> QED
        BY <1>1, <2>1, <3>1, <3>2, <4>1, <4>2 DEF PlansVersion
    <3>3. CASE ~Updates(x, p)
      BY <1>1, <2>1, <2>2, <2>3, <3>1, <3>3 DEF PlansVersion
    <3> QED
      BY <3>2, <3>3
  <2>8. PolicyPlan(r, p)'
    BY <1>1, <2>0, <2>1, <2>2, <2>3, <2>6, <2>7 DEF PolicyPlan
  <2>9. ASSUME Updates(req[r], p)' PROVE LoadedPolicy(r, p)'
    <3>1. Updates(x, p) /\ LoadedPolicy(r, p)
      BY <2>0, <2>1, <2>9
    <3>2. ASSUME <<Spec(p), "share">> \in held'[r], <<Spec(p), "share">> \notin held[r] PROVE Same(r, p)
      <4>1. l = <<Spec(p), "share">> /\ l[1] = Spec(p) /\ l[2] = "share"
        BY <1>1, <3>2
      <4>2. ~Gone(r, Spec(p))
        BY <1>1, <4>1 DEF Clash
      <4>3. Subject(x.in) = Spec(p) /\ Spec(p) # None
        BY <3>1, PolicyApart DEF Updates, Subject
      <4>4. Id(Spec(p)) \in DOMAIN x.loaded
        BY <1>1, <4>3, PolicyCells DEF Phase, Columns
      <4> QED
        BY <4>2, <4>4 DEF Gone, Same
    <3>3. PICK m : m = x.loaded[Id(Spec(p))]
      OBVIOUS
    <3>4. Settled(m)'
      BY <1>1, <3>1, <3>3, SettledStays DEF LoadedPolicy
    <3>5. Settled(req[r].loaded[Id(Spec(p))])'
      BY <1>1, <3>3, <3>4 DEF Settled
    <3>6. LateUpdate(r, p) => LateUpdate(r, p)'
      BY <1>1, LateUpdateStays
    <3> QED
      BY <1>1, <2>1, <3>1, <3>2, <3>5, <3>6 DEF LoadedPolicy
  <2> QED
    BY <2>8, <2>9 DEF Abides
<1> QED
  BY <1>1, <1>2, OwnAbides

-------------------------------------------------------------------------------
\* The row of a cell that is written is locked, and so is the owner of a row that
\* is inserted.
LEMMA RowLocked ==
  ASSUME NEW D, NEW E, NEW c \in Cells, E[c] # D[c]
  PROVE  <<Row(c), IF D[Row(c)] # None /\ E[Row(c)] # None THEN "update" ELSE "all">> \in Locks(D, E)
<1> DEFINE rows == {Row(x) : x \in DOMAIN Changes(D, E)}
           mode(x) == IF D[x] # None /\ E[x] # None THEN "update" ELSE "all"
<1>1. c \in DOMAIN Changes(D, E)
  BY DEF Changes
<1>2. Row(c) \in rows
  BY <1>1
<1>3. {<<x, mode(x)>> : x \in rows} \subseteq Locks(D, E)
  BY DEF Locks
<1> QED
  BY <1>2, <1>3

LEMMA OwnerLocked ==
  ASSUME NEW D, NEW E, NEW c \in Cells, E[c] # D[c], Row(c) = c, D[c] = None,
         \A y \in Cells : E[y] # D[y] => y = c, Owner(c) # c
  PROVE  <<Owner(c), "share">> \in Locks(D, E)
<1> DEFINE rows == {Row(x) : x \in DOMAIN Changes(D, E)}
           inserted == {y \in rows : E[y] # None /\ Owner(y) \notin rows /\ D[y] = None}
<1>1. DOMAIN Changes(D, E) = {c}
  BY DEF Changes
<1>2. rows = {c}
  BY <1>1
<1>3. c \in inserted
  BY <1>2
<1>4. {<<Owner(x), "share">> : x \in inserted} \subseteq Locks(D, E)
  BY DEF Locks
<1> HIDE DEF inserted
<1> QED
  BY <1>3, <1>4

\* Only changes of policies, and the policies made from findings, write the cells
\* of a policy.
LEMMA PolicyLeft ==
  ASSUME NEW D, D = [c \in Cells |-> D[c]], NEW i \in Inputs,
         i.op \notin {"run", "update", "delete", "create", "remedy"},
         NEW r, NEW v, Handler(r, i, D, v) # None, NEW p \in Policies, NEW c \in PolicyCell(p)
  PROVE  Handler(r, i, D, v)[c] = D[c]
<1>0. PICK E : E = Handler(r, i, D, v)
  OBVIOUS
<1>1. c \in Cells /\ c[1] \in {"policy", "id", "version"}
  BY PolicyCellOf
<1>2. CASE i.op \in {"retest", "triage"}
  <2>1. PICK f \in Findings : f = i.f
    BY <1>2, InputKinds
  <2>2. PICK s, x : E = [D EXCEPT ![Finding(f)] = s] \/ E = [D EXCEPT ![Finding(f)] = s, ![Severity(f)] = x]
    <3>1. CASE i.op = "triage"
      BY <1>0, <2>1, <3>1 DEF Handler, Triage
    <3>2. CASE i.op = "retest"
      BY <1>0, <2>1, <3>2 DEF Handler, Retest, UpsertFinding
    <3> QED
      BY <1>2, <3>1, <3>2
  <2> QED
    BY <1>0, <1>1, <2>2, FindingCells
<1>3. CASE i.op \in {"bind", "unbind"}
  <2>0. PICK p0 \in Policies : p0 = i.p
    BY <1>3, InputKinds
  <2>1. CASE i.op = "bind"
    <3>1. E = AddBinding(D, p0, r)
      BY <1>0, <2>0, <2>1 DEF Handler
    <3> QED
      BY <1>0, <1>1, <3>1, PolicyHandlers
  <2>2. CASE i.op = "unbind"
    <3>1. PICK b : E = RemoveBinding(D, p0, b)
      BY <1>0, <2>0, <2>2 DEF Handler
    <3> QED
      BY <1>0, <1>1, <3>1, PolicyHandlers
  <2> QED
    BY <1>3, <2>1, <2>2
<1>4. CASE i.op \in {"enable", "patch"}
  <2>1. i.column # c
    <3>1. i.column[1] \in {"enabled", "status", "tool", "scopes", "action", "on"}
      <4>1. CASE i.op = "enable"
        <5>1. i.column = Enabled(i.p)
          BY <4>1, InputKinds
        <5> QED
          BY <5>1 DEF Enabled
      <4>2. CASE i.op = "patch"
        BY <4>2, InputKinds
      <4> QED
        BY <1>4, <4>1, <4>2
    <3> QED
      BY <1>1, <3>1
  <2>2. PICK x, y : x = i.column /\ y = i.value /\ E = Patch(D, x, y)
    BY <1>0, <1>4 DEF Handler
  <2> QED
    BY <1>0, <1>1, <2>1, <2>2, PatchAndDelete
<1>5. CASE i.op = "drop"
  <2>1. i.row # c
    BY <1>1, <1>5, InputKinds
  <2>2. PICK x : x = i.row /\ E = Delete(D, x)
    BY <1>0, <1>5 DEF Handler
  <2> QED
    BY <1>0, <1>1, <2>1, <2>2 DEF Delete
<1>6. CASE i.op = "tool"
  <2>1. PICK n, x, y : E = CreateTool(D, n, x, y, r)
    BY <1>0, <1>6 DEF Handler
  <2>2. c # Id(Tool(n))
    BY <1>1, PolicyCellOf, PolicyCells, OtherCells
  <2>3. c \notin {Tool(n), Scopes(n), Id(Tool(n))}
    BY <1>1, <2>2, OtherCells
  <2> QED
    BY <1>0, <1>1, <2>1, <2>3, InventoryHandlers
<1>7. CASE i.op = "data"
  <2>1. PICK d, x, y : E = CreateDataPolicy(D, d, x, y, r)
    BY <1>0, <1>7 DEF Handler
  <2>2. c # Id(DataPolicy(d))
    BY <1>1, PolicyCellOf, PolicyCells, OtherCells
  <2>3. c \notin {DataPolicy(d), DataAction(d), DataOn(d), Id(DataPolicy(d))}
    BY <1>1, <2>2, OtherCells
  <2> QED
    BY <1>0, <1>1, <2>1, <2>3, InventoryHandlers
<1> QED
  BY <1>0, <1>2, <1>3, <1>4, <1>5, <1>6, <1>7, InputKinds

\* What making a policy writes of its cells.
Making(D, E, p, spec, r) ==
  /\ spec # None /\ D[Spec(p)] = None
  /\ \A q \in Policies : \A c \in PolicyCell(q) :
       E[c] = CASE c = Spec(p) -> spec [] c = Id(Spec(p)) -> r
                [] c = Version(p, 1) -> spec [] OTHER -> D[c]

LEMMA MakingPolicy ==
  ASSUME NEW D, D = [c \in Cells |-> D[c]], NEW i \in Inputs, i.op \in {"create", "remedy"},
         NEW r, NEW v, NEW E, E = Handler(r, i, D, v), E # None
  PROVE  \E p \in Policies : \E spec : Making(D, E, p, spec, r) /\ p = IF i.op = "create" THEN i.p ELSE i.f[1]
<1>0. E = Handler(r, i, D, v) /\ E # None
  OBVIOUS
<1>1. ASSUME NEW p \in Policies, NEW spec, spec # None, NEW F, F = CreatePolicy(D, p, spec, r), F # None
      PROVE  Making(D, F, p, spec, r)
  <2>1. D[Spec(p)] = None /\ F = [D EXCEPT ![Spec(p)] = spec, ![Enabled(p)] = TRUE, ![Id(Spec(p))] = r, ![Version(p, 1)] = spec]
    BY <1>1 DEF CreatePolicy
  <2>2. ASSUME NEW q \in Policies, NEW c \in PolicyCell(q)
        PROVE  F[c] = CASE c = Spec(p) -> spec [] c = Id(Spec(p)) -> r [] c = Version(p, 1) -> spec [] OTHER -> D[c]
    <3>1. c \in Cells /\ c # Enabled(p)
      BY <2>2, PolicyCellOf, OtherCells
    <3>2. Spec(p) # Id(Spec(p)) /\ Spec(p) # Version(p, 1) /\ Id(Spec(p)) # Version(p, 1)
      BY PolicyApart
    <3> QED
      BY <2>1, <3>1, <3>2
  <2> QED
    BY <1>1, <2>1, <2>2 DEF Making
<1>2. CASE i.op = "create"
  <2>1. PICK p \in Policies, spec \in Specs : p = i.p /\ spec = i.spec
    BY <1>2, InputKinds
  <2>2. E = CreatePolicy(D, p, spec, r) /\ E # None
    BY <1>0, <1>2, <2>1 DEF Handler
  <2>3. spec # None
    BY NoneAssumption
  <2>4. Making(D, E, p, spec, r)
    BY <1>1, <2>2, <2>3
  <2> QED
    BY <1>2, <2>1, <2>4
<1>3. CASE i.op = "remedy"
  <2>0. PICK t : t = i.f[1]
    OBVIOUS
  <2>1. t \in Subjects /\ E = CreateRemediationPolicy(D, t, r)
    BY <1>0, <1>3, <2>0, InputKinds DEF Findings, Handler
  <2>2. PICK F, spec : spec = RemediationSpec(t) /\ F = CreatePolicy(D, t, spec, r)
    OBVIOUS
  <2>3. F # None /\ E = AddBinding(F, t, r) /\ F = [d \in Cells |-> F[d]] /\ t \in Policies
    BY <1>0, <2>1, <2>2, RemedyHandler
  <2>4. \A q \in Policies : \A c \in PolicyCell(q) : E[c] = F[c]
    <3>1. \A q \in Policies : \A c \in PolicyCell(q) : c \in Cells /\ c # Binding(t, r)
      BY PolicyCellOf, OtherCells
    <3> QED
      BY <2>3, <3>1 DEF AddBinding
  <2>5. spec # None
    BY <2>1, <2>2, NoneAssumption
  <2>6. Making(D, F, t, spec, r)
    BY <1>1, <2>2, <2>3, <2>5
  <2>7. Making(D, E, t, spec, r)
    BY <2>4, <2>6 DEF Making
  <2> QED
    BY <1>3, <2>0, <2>3, <2>7
<1> QED
  BY <1>2, <1>3

\* A request that writes nothing of a policy.
LEMMA PlansNothing ==
  ASSUME NEW r \in Reqs, NEW p \in Policies, ~Updates(req[r], p)', \A c \in PolicyCell(p) : c \notin DOMAIN req'[r].cells
  PROVE  PolicyPlan(r, p)'
<1>1. /\ Spec(p) \notin DOMAIN req'[r].cells /\ Id(Spec(p)) \notin DOMAIN req'[r].cells
      /\ \A n \in 1..MaxVersion : Version(p, n) \notin DOMAIN req'[r].cells
  BY PolicyCellOf
<1> QED
  BY <1>1 DEF PolicyPlan

\* What a read decides.
Planned(r, D, E) ==
  /\ Busy(r) /\ Phase(r) /\ held[r] = {} /\ Turn(r) /\ req[r].in \in Inputs /\ req[r].in.op # "run"
  /\ D = [c \in Cells |-> D[c]]
  /\ \A c \in Cells : D[c] = IF c \in DOMAIN req[r].loaded THEN req[r].loaded[c] ELSE db[c]
  /\ req[r].in.op = "update" => req[r].todo # <<>>
  /\ db' = db /\ held' = held
  /\ req'[r].in = req[r].in /\ req'[r].loaded = req[r].loaded /\ req'[r].todo = req[r].todo
  /\ DOMAIN req'[r].cells = {c \in Cells : E[c] # D[c]}
  /\ \A c \in DOMAIN req'[r].cells : req'[r].cells[c] = E[c]
  /\ req'[r].want = Locks(D, E)

LEMMA PlannedLock ==
  ASSUME NEW r \in Reqs, NEW D, NEW E, Planned(r, D, E), NEW c \in DOMAIN req'[r].cells
  PROVE  Locked(r, <<Row(c), IF D[Row(c)] # None /\ E[Row(c)] # None THEN "update" ELSE "all">>)'
BY RowLocked DEF Planned, Locked

LEMMA UpdatePlanned ==
  ASSUME PolicyInv, NEW r \in Reqs, NEW D, NEW E, Planned(r, D, E), req[r].in.op = "update", NEW v,
         E = Handler(r, req[r].in, D, v), E # None, NEW p \in Policies
  PROVE  PolicyPlan(r, p)'
<1> DEFINE i == req[r].in
<1>1. PICK p0 \in Policies, value \in Specs : p0 = i.p /\ value = i.value /\ i.column = Spec(p0)
  BY InputKinds DEF Planned
<1>2. E = Patch(D, Spec(p0), value)
  BY <1>1 DEF Handler
<1>3. /\ Spec(p0) \in Cells /\ Row(Spec(p0)) = Spec(p0)
  BY PolicyCells
<1>4. D[Spec(p0)] # None /\ E = [D EXCEPT ![Spec(p0)] = value]
  BY <1>2, <1>3 DEF Patch
<1>5. value # None
  BY NoneAssumption
<1>6. /\ E[Spec(p0)] = value /\ \A c \in Cells : c # Spec(p0) => E[c] = D[c]
  BY <1>3, <1>4 DEF Planned
<1>7. CASE p # p0
  <2>1. ~Updates(req[r], p)'
    BY <1>1, <1>7 DEF Planned, Updates
  <2>2. \A c \in PolicyCell(p) : c \notin DOMAIN req'[r].cells
    BY <1>6, <1>7, PolicyCellOf, PolicyApart DEF Planned
  <2> QED
    BY <2>1, <2>2, PlansNothing
<1>8. CASE p = p0
  <2>1. Updates(req[r], p)' /\ ~Makes(req[r], p)'
    BY <1>1, <1>8 DEF Planned, Updates, Makes
  <2>2. /\ Id(Spec(p)) \notin DOMAIN req'[r].cells
        /\ \A n \in 1..MaxVersion : Version(p, n) \notin DOMAIN req'[r].cells
    BY <1>6, <1>8, PolicyApart, PolicyCells DEF Planned
  <2>3. ASSUME Spec(p) \in DOMAIN req'[r].cells PROVE PlansSpec(r, p)'
    <3>1. req'[r].cells[Spec(p)] = value /\ req'[r].in.value = value
      BY <1>1, <1>6, <1>8, <2>3 DEF Planned
    <3>2. Locked(r, <<Row(Spec(p)), IF D[Row(Spec(p))] # None /\ E[Row(Spec(p))] # None THEN "update" ELSE "all">>)'
      BY <2>3, PlannedLock
    <3>3. Locked(r, <<Spec(p), "update">>)'
      BY <1>3, <1>4, <1>5, <1>6, <1>8, <3>2
    <3> QED
      BY <2>1, <3>1, <3>3 DEF PlansSpec
  <2>4. ASSUME Spec(p) \notin DOMAIN req'[r].cells PROVE req'[r].loaded[Spec(p)] = req'[r].in.value
    <3>1. D[Spec(p)] = value
      BY <1>3, <1>6, <1>8, <2>4 DEF Planned
    <3>2. Subject(i) = Spec(p) /\ Spec(p) # None
      BY <1>1, <1>8, PolicyApart DEF Subject
    <3>3. Spec(p) \in DOMAIN req[r].loaded
      BY <1>3, <1>8, <3>2 DEF Planned, Phase, Columns
    <3> QED
      BY <1>1, <1>3, <1>8, <3>1, <3>3 DEF Planned
  <2>5. req'[r].todo # <<>>
    BY DEF Planned
  <2> QED
    BY <2>1, <2>2, <2>3, <2>4, <2>5 DEF PolicyPlan
<1> QED
  BY <1>7, <1>8

LEMMA DeletePlanned ==
  ASSUME PolicyInv, NEW r \in Reqs, NEW D, NEW E, Planned(r, D, E), req[r].in.op = "delete", NEW v,
         E = Handler(r, req[r].in, D, v), E # None, NEW p \in Policies
  PROVE  PolicyPlan(r, p)'
<1> DEFINE i == req[r].in
<1>1. PICK p0 \in Policies : i.row = Spec(p0)
  BY InputKinds DEF Planned
<1>2. E = Delete(D, Spec(p0))
  BY <1>1 DEF Handler
<1>3. /\ Spec(p0) \in Cells /\ Row(Spec(p0)) = Spec(p0)
  BY PolicyCells
<1>4. D[Spec(p0)] # None /\ E = [D EXCEPT ![Spec(p0)] = None]
  BY <1>2 DEF Delete
<1>5. /\ E[Spec(p0)] = None /\ \A c \in Cells : c # Spec(p0) => E[c] = D[c]
  BY <1>3, <1>4 DEF Planned
<1>6. ~Updates(req[r], p)' /\ ~Makes(req[r], p)' /\ req'[r].in.op = "delete"
  BY DEF Planned, Updates, Makes
<1>7. CASE p # p0
  <2>1. \A c \in PolicyCell(p) : c \notin DOMAIN req'[r].cells
    BY <1>5, <1>7, PolicyCellOf, PolicyApart DEF Planned
  <2> QED
    BY <1>6, <2>1, PlansNothing
<1>8. CASE p = p0
  <2>1. /\ Id(Spec(p)) \notin DOMAIN req'[r].cells
        /\ \A n \in 1..MaxVersion : Version(p, n) \notin DOMAIN req'[r].cells
    BY <1>5, <1>8, PolicyApart, PolicyCells DEF Planned
  <2>2. Spec(p) \in DOMAIN req'[r].cells /\ req'[r].cells[Spec(p)] = None
    BY <1>3, <1>4, <1>5, <1>8 DEF Planned
  <2>3. Locked(r, <<Spec(p), "all">>)'
    BY <1>3, <1>5, <1>8, <2>2, PlannedLock
  <2>4. PlansSpec(r, p)'
    BY <1>6, <2>2, <2>3 DEF PlansSpec
  <2> QED
    BY <1>6, <2>1, <2>4 DEF PolicyPlan
<1> QED
  BY <1>7, <1>8

LEMMA MakingPlanned ==
  ASSUME Placed, PolicyInv, NEW r \in Reqs, NEW D, NEW E, Planned(r, D, E), req[r].in.op \in {"create", "remedy"}, NEW v,
         E = Handler(r, req[r].in, D, v), E # None, NEW p \in Policies
  PROVE  PolicyPlan(r, p)'
<1> DEFINE i == req[r].in
<1>1. PICK p0 \in Policies : \E spec : Making(D, E, p0, spec, r) /\ p0 = IF i.op = "create" THEN i.p ELSE i.f[1]
  <2>1. D = [c \in Cells |-> D[c]] /\ i \in Inputs
    BY DEF Planned
  <2> QED
    BY <2>1, MakingPolicy
<1>2. PICK spec :
           /\ spec # None /\ D[Spec(p0)] = None
           /\ p0 = IF i.op = "create" THEN i.p ELSE i.f[1]
           /\ \A q \in Policies : \A c \in PolicyCell(q) :
                E[c] = CASE c = Spec(p0) -> spec [] c = Id(Spec(p0)) -> r
                         [] c = Version(p0, 1) -> spec [] OTHER -> D[c]
  BY <1>1 DEF Making
<1>3. ~Updates(req[r], p)'
  BY DEF Planned, Updates
<1>4. CASE p # p0
  <2>1. \A c \in PolicyCell(p) : c # Spec(p0) /\ c # Id(Spec(p0)) /\ c # Version(p0, 1)
    BY <1>4, PolicyCellOf, PolicyApart
  <2>2. \A c \in PolicyCell(p) : c \notin DOMAIN req'[r].cells
    BY <1>2, <2>1 DEF Planned
  <2> QED
    BY <1>3, <2>2, PlansNothing
<1>5. CASE p = p0
  <2>1. Makes(req[r], p)'
    BY <1>2, <1>5 DEF Planned, Makes
  <2>2. \A c \in PolicyCell(p) : D[c] = db[c]
    <3> TAKE c \in PolicyCell(p)
    <3>1. c \notin DOMAIN req[r].loaded
      <4>1. CASE i.op = "create"
        BY <4>1 DEF Planned, Phase, Subject
      <4>2. CASE i.op = "remedy"
        <5>1. Subject(i) = Finding(i.f) /\ i.f \in Findings
          BY <4>2, InputKinds DEF Subject, Planned
        <5>2. Row(c)[1] # "finding"
          BY PolicyCellOf, PolicyCells
        <5>3. c \notin Columns(Finding(i.f))
          BY <5>1, <5>2, FindingCells DEF Columns
        <5> QED
          BY <5>1, <5>3 DEF Planned, Phase
      <4> QED
        BY <4>1, <4>2
    <3> QED
      BY <3>1, PolicyCellOf DEF Planned
  <2>3. 1 \in 1..MaxVersion
    BY MaxVersionAssumption
  <2>4. db[Spec(p)] = None /\ db[Id(Spec(p))] = None /\ db[Version(p, 1)] = None
    BY <1>2, <1>5, <2>2, <2>3, PolicyCellOf DEF PolicyInv, PolicyRow, VersionsOf
  <2>5. /\ E[Spec(p)] = spec /\ E[Id(Spec(p))] = r /\ E[Version(p, 1)] = spec
        /\ \A n \in 1..MaxVersion : n # 1 => E[Version(p, n)] = D[Version(p, n)]
    BY <1>2, <1>5, <2>3, PolicyCellOf, PolicyApart
  <2>6. r # None
    BY MakersAssumption DEF Makers
  <2>7. /\ D[Spec(p)] = None /\ D[Id(Spec(p))] = None /\ D[Version(p, 1)] = None
    BY <2>2, <2>3, <2>4, PolicyCellOf
  <2>8. /\ {Spec(p), Id(Spec(p)), Version(p, 1)} \subseteq DOMAIN req'[r].cells
        /\ req'[r].cells[Spec(p)] = spec /\ req'[r].cells[Id(Spec(p))] = r /\ req'[r].cells[Version(p, 1)] = spec
        /\ \A n \in 1..MaxVersion : n # 1 => Version(p, n) \notin DOMAIN req'[r].cells
    <3>1. /\ Spec(p) \in Cells /\ Id(Spec(p)) \in Cells /\ \A n \in 1..MaxVersion : Version(p, n) \in Cells
      BY PolicyCells
    <3> QED
      BY <1>2, <2>3, <2>5, <2>6, <2>7, <3>1 DEF Planned
  <2>9. Locked(r, <<Spec(p), "all">>)' /\ Locked(r, <<Version(p, 1), "all">>)'
    <3>1. Row(Spec(p)) = Spec(p) /\ Row(Version(p, 1)) = Version(p, 1)
      BY PolicyCells
    <3> QED
      BY <2>7, <2>8, <3>1, PlannedLock
  <2>10. db'[Spec(p)] = None
    BY <2>4 DEF Planned
  <2>11. PlansSpec(r, p)'
    BY <1>2, <2>1, <2>8, <2>9, <2>10 DEF PlansSpec
  <2>12. \A n \in 1..MaxVersion : Version(p, n) \in DOMAIN req'[r].cells => PlansVersion(r, p, n)'
    BY <2>1, <2>8, <2>9 DEF PlansVersion
  <2> QED
    BY <1>3, <2>1, <2>8, <2>11, <2>12 DEF PolicyPlan
<1> QED
  BY <1>4, <1>5

LEMMA ReadsPolicy == ASSUME Placed, PolicyInv, NEW r \in Reqs, Reads(r) PROVE PolicyInv'
<1>1. PICK v : /\ Handler(r, req[r].in, View(r), v) # None /\ Decides(r, View(r), Handler(r, req[r].in, View(r), v))
               /\ req[r].pc = "read" /\ req'[r].todo = req[r].todo
  BY DEF Reads
<1>2. PICK D, E : D = View(r) /\ E = Handler(r, req[r].in, D, v)
  OBVIOUS
<1>3. Decides(r, D, E) /\ E # None
  BY <1>1, <1>2
<1>4. Planned(r, D, E)
  <2>1. Phase(r) /\ req[r].cells = <<>> /\ held[r] = {} /\ req[r].in \in Inputs /\ req[r].in.op # "run" /\ Busy(r)
        /\ (req[r].in.op = "update" => req[r].todo # <<>>)
    BY <1>1 DEF Placed, Phase, Busy
  <2>2. DOMAIN req[r].cells = {}
    BY <2>1
  <2>3. /\ DOMAIN req'[r].cells = {c \in Cells : E[c] # D[c]}
        /\ \A c \in DOMAIN req'[r].cells : req'[r].cells[c] = E[c]
    BY <1>3, <2>2 DEF Decides, Upon, Changes
  <2>4. Turn(r)
    BY DEF Turn
  <2>5. /\ D = [c \in Cells |-> D[c]]
        /\ \A c \in Cells : D[c] = IF c \in DOMAIN req[r].loaded THEN req[r].loaded[c] ELSE db[c]
    BY <1>1, <1>2, Seen
  <2> QED
    BY <1>1, <1>3, <2>1, <2>3, <2>4, <2>5 DEF Planned, Decides, Stays, Goes
<1>5. ASSUME NEW p \in Policies PROVE Abides(r, p)'
  <2>1. PolicyPlan(r, p)'
    <3>1. CASE req[r].in.op = "update"
      BY <1>2, <1>3, <1>4, <3>1, UpdatePlanned
    <3>2. CASE req[r].in.op = "delete"
      BY <1>2, <1>3, <1>4, <3>2, DeletePlanned
    <3>3. CASE req[r].in.op \in {"create", "remedy"}
      BY <1>2, <1>3, <1>4, <3>3, MakingPlanned
    <3>4. CASE req[r].in.op \notin {"update", "delete", "create", "remedy"}
      <4>1. \A c \in PolicyCell(p) : E[c] = D[c]
        BY <1>2, <1>3, <1>4, <3>4, PolicyLeft DEF Planned
      <4>2. \A c \in PolicyCell(p) : c \notin DOMAIN req'[r].cells
        BY <1>4, <4>1 DEF Planned
      <4>3. ~Updates(req[r], p)'
        BY <1>4, <3>4 DEF Planned, Updates
      <4> QED
        BY <4>2, <4>3, PlansNothing
    <3> QED
      BY <3>1, <3>2, <3>3, <3>4
  <2>2. ASSUME Updates(req[r], p)' PROVE LoadedPolicy(r, p)'
    <3>1. Updates(req[r], p) /\ Busy(r)
      BY <1>4, <2>2 DEF Planned, Updates
    <3>2. LoadedPolicy(r, p)
      BY <3>1 DEF PolicyInv, Abides
    <3> QED
      BY <1>4, <3>1, <3>2, LoadedStays DEF Planned
  <2> QED
    BY <2>1, <2>2 DEF Abides
<1> QED
  BY <1>4, <1>5, OwnAbides DEF Planned

LEMMA FindsPolicy == ASSUME Placed, PolicyInv, NEW r \in Reqs, Finds(r) PROVE PolicyInv'
<1>1. PICK f, x : f \in Findings /\ Decides(r, Written(r), UpsertFinding(Written(r), f, x))
  <2>1. PICK t, y, f : t \in Subjects /\ f \in Existing(Written(r), r, t)
                         /\ Decides(r, Written(r), UpsertFinding(Written(r), f, y))
    BY DEF Finds
  <2>2. f \in Findings
    BY <2>1 DEF Existing, OpenFindings, Findings, Makers
  <2> QED
    BY <2>1, <2>2
<1>2. PICK D, E : D = Written(r) /\ E = UpsertFinding(D, f, x)
  OBVIOUS
<1>3. Decides(r, D, E)
  BY <1>1, <1>2
<1>4. /\ db' = db /\ req'[r].in = req[r].in /\ req'[r].cells = Upon(Changes(D, E), req[r].cells)
      /\ req[r].in.op = "run" /\ Planning(r) /\ Turn(r)
  BY <1>3 DEF Decides, Stays, Goes, Finds, Planning, Turn
<1>5. D = [c \in Cells |-> D[c]]
  BY <1>2, Seen
<1>6. ASSUME NEW p \in Policies PROVE Abides(r, p)'
  <2>1. ~Updates(req[r], p) /\ ~Makes(req[r], p) /\ PolicyPlan(r, p)
    BY <1>4 DEF Updates, Makes, PolicyInv, Abides
  <2>2. \A c \in PolicyCell(p) : c \notin DOMAIN req[r].cells
    BY <1>4, <2>1, PolicyCellOf DEF PolicyPlan, PlansSpec, PlansVersion
  <2>3. \A c \in PolicyCell(p) : E[c] = D[c]
    <3> TAKE c \in PolicyCell(p)
    <3>1. c \in Cells /\ c # Finding(f) /\ c # Severity(f)
      <4>1. c \in Cells /\ c[1] \in {"policy", "id", "version"}
        BY PolicyCellOf
      <4>2. Finding(f)[1] = "finding" /\ Severity(f)[1] = "severity"
        BY <1>1, FindingCells
      <4> QED
        BY <4>1, <4>2
    <3>2. E = [D EXCEPT ![Finding(f)] = "open", ![Severity(f)] = x]
      BY <1>2 DEF UpsertFinding
    <3> QED
      BY <1>5, <3>1, <3>2
  <2>4. \A c \in PolicyCell(p) : c \notin DOMAIN req'[r].cells
    BY <1>4, <2>2, <2>3 DEF Upon, Changes
  <2>5. ~Updates(req[r], p)'
    BY <1>4 DEF Updates
  <2>6. PolicyPlan(r, p)'
    BY <2>4, <2>5, PlansNothing
  <2> QED
    BY <2>5, <2>6 DEF Abides
<1> QED
  BY <1>4, <1>6, OwnAbides

\* The next version of a policy is the first that is free.
LEMMA NextIsFree ==
  ASSUME NEW D, NEW p, VersionsOf(D, p) = {} \/ \E k \in 1..MaxVersion : VersionsOf(D, p) = 1..k
  PROVE  /\ NextVersion(D, p) \in Nat \ {0} /\ NextVersion(D, p) \notin VersionsOf(D, p)
         /\ \A k \in 1..MaxVersion : VersionsOf(D, p) = 1..k => NextVersion(D, p) = k + 1
<1> MaxVersion \in Nat \ {0}
  BY MaxVersionAssumption
<1>1. ASSUME NEW k \in 1..MaxVersion, VersionsOf(D, p) = 1..k PROVE NextVersion(D, p) = k + 1
  <2>1. PICK taken : taken = VersionsOf(D, p)
    OBVIOUS
  <2>2. taken = 1..k /\ k \in taken
    BY <1>1, <2>1
  <2>3. PICK n : n = CHOOSE j \in taken : \A m \in taken : m <= j
    OBVIOUS
  <2>4. NextVersion(D, p) = 1 + n
    BY <2>1, <2>2, <2>3 DEF NextVersion
  <2>5. \E j \in taken : \A m \in taken : m <= j
    BY <2>2
  <2>6. n \in taken /\ \A m \in taken : m <= n
    BY <2>3, <2>5
  <2>7. n = k
    BY <2>2, <2>6
  <2> QED
    BY <2>4, <2>7
<1>2. CASE VersionsOf(D, p) = {}
  <2>1. NextVersion(D, p) = 1
    BY <1>2 DEF NextVersion
  <2>2. \A k \in 1..MaxVersion : 1..k # {}
    OBVIOUS
  <2> QED
    BY <1>2, <2>1, <2>2
<1>3. CASE \E k \in 1..MaxVersion : VersionsOf(D, p) = 1..k
  <2>1. PICK k \in 1..MaxVersion : VersionsOf(D, p) = 1..k
    BY <1>3
  <2>2. NextVersion(D, p) = k + 1
    BY <1>1, <2>1
  <2> QED
    BY <1>1, <2>1, <2>2
<1> QED
  BY <1>2, <1>3

LEMMA AppendsPolicy == ASSUME Placed, PolicyInv, NEW r \in Reqs, Appends(r) PROVE PolicyInv'
<1> DEFINE i == req[r].in
           cells == req[r].cells
<1>0. /\ i \in Inputs /\ i.op = "update" /\ Planning(r) /\ Busy(r) /\ Turn(r) /\ req[r].todo # <<>> /\ req'[r].todo = <<>>
  BY DEF Appends, Placed, Phase, Planning, Busy, Turn
<1>1. PICK p0 \in Policies, value \in Specs : p0 = i.p /\ value = i.value
  BY <1>0, InputKinds
<1>2. PICK D, E, n : D = Written(r) /\ E = AddVersion(D, p0, value) /\ n = NextVersion(D, p0)
  OBVIOUS
<1>3. Decides(r, D, E) /\ n <= MaxVersion
  BY <1>1, <1>2 DEF Appends
<1>4. /\ db' = db /\ held' = held /\ req'[r].in = i /\ req'[r].loaded = req[r].loaded /\ req[r].want = {}
      /\ req'[r].cells = Upon(Changes(D, E), cells) /\ req'[r].want = Locks(D, E)
  BY <1>3 DEF Decides, Stays, Goes
<1>5. /\ D = [c \in Cells |-> D[c]]
      /\ \A c \in Cells : D[c] = IF c \in DOMAIN cells THEN cells[c] ELSE db[c]
  BY <1>2, Seen
<1>6. \A p \in Policies : PolicyPlan(r, p) /\ ~Makes(req[r], p) /\ (Updates(req[r], p) <=> p = p0)
  BY <1>0, <1>1 DEF PolicyInv, Abides, Makes, Updates
<1>7. \A p \in Policies : \A m \in 1..MaxVersion : Version(p, m) \notin DOMAIN cells
  BY <1>0, <1>6 DEF PolicyPlan, PlansVersion
<1>8. VersionsOf(D, p0) = VersionsOf(db, p0)
  BY <1>5, <1>7, PolicyCells DEF VersionsOf
<1>9. VersionsOf(D, p0) = {} \/ \E k \in 1..MaxVersion : VersionsOf(D, p0) = 1..k
  BY <1>8 DEF PolicyInv, PolicyRow
<1>10. n \in 1..MaxVersion /\ n \notin VersionsOf(D, p0)
  BY <1>2, <1>3, <1>9, NextIsFree, MaxVersionAssumption
<1>11. D[Version(p0, n)] = None /\ db[Version(p0, n)] = None /\ value # None
  BY <1>5, <1>7, <1>10, PolicyCells, NoneAssumption DEF VersionsOf
<1>12. /\ E[Version(p0, n)] = value /\ \A c \in Cells : c # Version(p0, n) => E[c] = D[c]
  BY <1>2, <1>5, <1>10, PolicyCells DEF AddVersion
<1>13. /\ DOMAIN req'[r].cells = DOMAIN cells \cup {Version(p0, n)}
       /\ req'[r].cells[Version(p0, n)] = value
       /\ \A c \in DOMAIN cells : c # Version(p0, n) => req'[r].cells[c] = cells[c]
  <2>1. Version(p0, n) \in Cells
    BY <1>10, PolicyCells
  <2>2. DOMAIN Changes(D, E) = {Version(p0, n)} /\ Changes(D, E)[Version(p0, n)] = value
    BY <1>11, <1>12, <2>1 DEF Changes
  <2> QED
    BY <1>4, <2>2 DEF Upon
<1>14. <<Version(p0, n), "all">> \in Locks(D, E) /\ <<Spec(p0), "share">> \in Locks(D, E)
  <2>1. /\ Version(p0, n) \in Cells /\ Row(Version(p0, n)) = Version(p0, n) /\ Owner(Version(p0, n)) = Spec(p0)
        /\ Spec(p0) # Version(p0, n)
    BY <1>10, PolicyCells, PolicyApart
  <2>2. E[Version(p0, n)] # D[Version(p0, n)]
    BY <1>11, <1>12
  <2>3. <<Row(Version(p0, n)), IF D[Row(Version(p0, n))] # None /\ E[Row(Version(p0, n))] # None
                               THEN "update" ELSE "all">> \in Locks(D, E)
    BY <2>1, <2>2, RowLocked
  <2>4. <<Owner(Version(p0, n)), "share">> \in Locks(D, E)
    BY <1>11, <1>12, <2>1, <2>2, OwnerLocked
  <2> QED
    BY <1>11, <2>1, <2>3, <2>4
<1>15. ASSUME Same(r, p0)' PROVE 1..(n - 1) \subseteq VersionsOf(db, p0)
  <2>1. LoadedPolicy(r, p0) /\ PolicyRow(p0)
    BY <1>0, <1>6 DEF PolicyInv, Abides
  <2>2. db[Id(Spec(p0))] = req[r].loaded[Id(Spec(p0))] /\ req[r].loaded[Id(Spec(p0))] # None
    BY <1>4, <1>15, <2>1 DEF Same, LoadedPolicy, Settled
  <2>3. PICK k \in 1..MaxVersion : VersionsOf(db, p0) = 1..k
    BY <2>1, <2>2 DEF PolicyRow
  <2>4. n = k + 1
    BY <1>2, <1>8, <1>9, <2>3, NextIsFree
  <2> QED
    BY <2>3, <2>4, MaxVersionAssumption
<1>16. ASSUME NEW p \in Policies PROVE Abides(r, p)'
  <2>1. /\ (Updates(req[r], p)' <=> p = p0) /\ ~Makes(req[r], p)'
        /\ \A l : Locked(r, l) => Locked(r, l)'
    BY <1>4, <1>6 DEF Updates, Makes, Locked
  <2>2. /\ Spec(p) \in DOMAIN req'[r].cells <=> Spec(p) \in DOMAIN cells
        /\ Spec(p) \in DOMAIN cells => req'[r].cells[Spec(p)] = cells[Spec(p)]
        /\ Id(Spec(p)) \in DOMAIN req'[r].cells <=> Id(Spec(p)) \in DOMAIN cells
        /\ \A m \in 1..MaxVersion : Version(p, m) \in DOMAIN req'[r].cells => p = p0 /\ m = n
    BY <1>7, <1>13, PolicyApart
  <2>3. ASSUME Spec(p) \in DOMAIN req'[r].cells PROVE PlansSpec(r, p)'
    <3>1. PlansSpec(r, p) /\ p = p0
      BY <1>0, <1>6, <2>2, <2>3 DEF PolicyPlan, PlansSpec
    <3>2. cells[Spec(p)] = i.value /\ Locked(r, <<Spec(p), "update">>)
      BY <1>0, <1>6, <3>1 DEF PlansSpec
    <3> QED
      BY <1>4, <2>1, <2>2, <2>3, <3>1, <3>2 DEF PlansSpec
  <2>4. ASSUME p = p0 PROVE PlansVersion(r, p, n)'
    <3>1. Locked(r, <<Version(p, n), "all">>)' /\ Locked(r, <<Spec(p), "share">>)'
      BY <1>4, <1>14, <2>4 DEF Locked
    <3>2. Same(r, p)' => 1..(n - 1) \subseteq VersionsOf(db', p)
      BY <1>4, <1>15, <2>4
    <3>3. Updates(req[r], p)' /\ req'[r].cells[Version(p, n)] = req'[r].in.value /\ db'[Version(p, n)] = None
      BY <1>1, <1>4, <1>11, <1>13, <2>1, <2>4
    <3> QED
      BY <1>0, <3>1, <3>2, <3>3 DEF PlansVersion
  <2>5. PolicyPlan(r, p)'
    <3>1. \A m \in 1..MaxVersion : Version(p, m) \in DOMAIN req'[r].cells => PlansVersion(r, p, m)'
      BY <2>2, <2>4
    <3>2. Id(Spec(p)) \notin DOMAIN req'[r].cells
      BY <1>6, <2>2 DEF PolicyPlan
    <3>3. Updates(req[r], p)' /\ Spec(p) \notin DOMAIN req'[r].cells => req'[r].loaded[Spec(p)] = req'[r].in.value
      BY <1>4, <1>6, <2>1, <2>2 DEF PolicyPlan
    <3>4. Updates(req[r], p)' => \E m \in 1..MaxVersion : Version(p, m) \in DOMAIN req'[r].cells
      BY <1>10, <1>13, <2>1
    <3> QED
      BY <2>3, <3>1, <3>2, <3>3, <3>4 DEF PolicyPlan
  <2>6. Updates(req[r], p)' => LoadedPolicy(r, p)'
    <3>1. p = p0 => LoadedPolicy(r, p)
      BY <1>0, <1>6 DEF PolicyInv, Abides
    <3> QED
      BY <1>0, <1>4, <2>1, <3>1, LoadedStays
  <2> QED
    BY <2>5, <2>6 DEF Abides
<1> QED
  BY <1>0, <1>4, <1>16, OwnAbides

\* What a commit makes of a policy.
LEMMA CommitsCells ==
  ASSUME Placed, NEW r \in Reqs, Commits(r), NEW p \in Policies, NEW W, W = Written(r)
  PROVE  /\ db'[Spec(p)] = W[Spec(p)]
         /\ W[Spec(p)] # None => \A c \in PolicyCell(p) : db'[c] = W[c]
         /\ W[Spec(p)] = None => \A c \in PolicyCell(p) : db'[c] = None
         /\ \A c \in PolicyCell(p) : W[c] = IF c \in DOMAIN req[r].cells THEN req[r].cells[c] ELSE db[c]
<1>1. db' = Cascade(W)
  BY DEF Commits
<1>2. \A c \in PolicyCell(p) : c \in Cells /\ Owner(c) = Spec(p)
  BY PolicyCellOf
<1>3. \A c \in PolicyCell(p) : db'[c] = IF W[Spec(p)] = None THEN None ELSE W[c]
  BY <1>1, <1>2 DEF Cascade
<1>4. \A c \in PolicyCell(p) : W[c] = IF c \in DOMAIN req[r].cells THEN req[r].cells[c] ELSE db[c]
  BY <1>2, Seen
<1> QED
  BY <1>3, <1>4, PolicyCellOf

\* The commit of a request that wrote nothing of the policy.
LEMMA CommitsNone ==
  ASSUME Placed, PolicyInv, NEW r \in Reqs, Commits(r), NEW p \in Policies,
         \A c \in PolicyCell(p) : c \notin DOMAIN req[r].cells
  PROVE  \A c \in PolicyCell(p) : db'[c] = db[c]
<1>1. PICK W : W = Written(r)
  OBVIOUS
<1>2. \A c \in PolicyCell(p) : W[c] = db[c]
  BY <1>1, CommitsCells
<1>3. CASE db[Spec(p)] # None
  BY <1>1, <1>2, <1>3, CommitsCells, PolicyCellOf
<1>4. CASE db[Spec(p)] = None
  <2>1. db[Id(Spec(p))] = None /\ VersionsOf(db, p) = {}
    BY <1>4 DEF PolicyInv, PolicyRow
  <2>2. \A c \in PolicyCell(p) : db[c] = None
    BY <1>4, <2>1, PolicyCellOf DEF VersionsOf
  <2> QED
    BY <1>1, <1>2, <1>4, <2>2, CommitsCells, PolicyCellOf
<1> QED
  BY <1>3, <1>4

\* A request still at work when another commits overlaps it; and neither holds
\* what the other has locked.
LEMMA AtWork ==
  ASSUME Placed, NEW r \in Reqs, Commits(r), NEW q \in Reqs, q # r, Busy(q)'
  PROVE  /\ req'[q] = req[q] /\ held'[q] = held[q] /\ Busy(q) /\ Overlap(r, q)' /\ Ok(r)' /\ req'[r].in = req[r].in
         /\ \A c : <<c, "all">> \in held[r] => <<c, "all">> \notin held[q] /\ <<c, "share">> \notin held[q]
         /\ \A c : <<c, "share">> \in held[r] => <<c, "all">> \notin held[q]
<1>1. req'[q] = req[q] /\ held'[q] = held[q] /\ Busy(q) /\ prior' = prior /\ Ok(r)' /\ req'[r].in = req[r].in
  BY DEF Commits, Goes, Others, Ok, Busy
<1>2. q \notin prior[r] /\ r \notin prior[q]
  BY <1>1 DEF Placed, Commits, Busy
<1>3. Overlap(r, q)'
  BY <1>1, <1>2 DEF Overlap
<1>4. \A l \in held[q], m \in held[r] : ~Excludes(l, m)
  BY DEF Placed
<1>5. ASSUME NEW c, <<c, "all">> \in held[r]
      PROVE  <<c, "all">> \notin held[q] /\ <<c, "share">> \notin held[q]
  <2>1. Excludes(<<c, "all">>, <<c, "all">>) /\ Excludes(<<c, "share">>, <<c, "all">>)
    BY DEF Excludes
  <2> QED
    BY <1>4, <1>5, <2>1
<1>6. ASSUME NEW c, <<c, "share">> \in held[r] PROVE <<c, "all">> \notin held[q]
  <2>1. Excludes(<<c, "all">>, <<c, "share">>)
    BY DEF Excludes
  <2> QED
    BY <1>4, <1>6, <2>1
<1> QED
  BY <1>1, <1>3, <1>5, <1>6

\* What another request at work needs to go on as it is.
LEMMA OthersGoOn ==
  ASSUME Placed, NEW r \in Reqs, Commits(r), NEW p \in Policies, NEW q \in Reqs, q # r, Abides(q, p),
         Busy(q)' => (<<Spec(p), "all">> \in held[q] /\ db[Spec(p)] = None => db'[Spec(p)] = None),
         Busy(q)' => \A n \in 1..MaxVersion :
           <<Version(p, n), "all">> \in held[q] /\ db[Version(p, n)] = None => db'[Version(p, n)] = None,
         Busy(q)' /\ Updates(req[q], p) /\ LoadedPolicy(q, p) /\ Same(q, p)' =>
           /\ Same(q, p) /\ VersionsOf(db, p) \subseteq VersionsOf(db', p)
           /\ db'[Spec(p)] = db[Spec(p)] \/ LateUpdate(q, p)',
         Busy(q)' /\ Updates(req[q], p) /\ <<Spec(p), "share">> \in held[q] => (Same(q, p) => Same(q, p)')
  PROVE  Abides(q, p)'
<1> SUFFICES ASSUME Busy(q)' PROVE Abides(q, p)'
  BY DEF Abides, Planning, Busy
<1>0. Turn(r)
  BY DEF Turn
<1>1. req'[q] = req[q] /\ held'[q] = held[q] /\ Busy(q)
  BY AtWork
<1>2. \A l : Locked(q, l)' <=> Locked(q, l)
  BY <1>1 DEF Locked
<1>3. Updates(req[q], p) => LoadedPolicy(q, p)
  BY <1>1 DEF Abides
<1>4. Planning(q)' => PolicyPlan(q, p)'
  <2> SUFFICES ASSUME Planning(q)' PROVE PolicyPlan(q, p)'
    OBVIOUS
  <2>1. PolicyPlan(q, p)
    BY <1>1 DEF Abides, Planning
  <2>2. PlansSpec(q, p) => PlansSpec(q, p)'
    BY <1>1, <1>2 DEF PlansSpec, Makes, Updates
  <2>3. ASSUME NEW n \in 1..MaxVersion, PlansVersion(q, p, n) PROVE PlansVersion(q, p, n)'
    <3>1. CASE Makes(req[q], p) /\ ~Updates(req[q], p)
      BY <1>1, <1>2, <2>3, <3>1 DEF PlansVersion, Makes, Updates
    <3>2. CASE Updates(req[q], p)
      <4>1. Same(q, p)' => Same(q, p) /\ VersionsOf(db, p) \subseteq VersionsOf(db', p)
        BY <1>3, <3>2
      <4>2. /\ req[q].todo = <<>> /\ req[q].cells[Version(p, n)] = req[q].in.value
            /\ Locked(q, <<Version(p, n), "all">>) /\ Locked(q, <<Spec(p), "share">>)
            /\ <<Version(p, n), "all">> \in held[q] => db[Version(p, n)] = None
            /\ Same(q, p) => 1..(n - 1) \subseteq VersionsOf(db, p)
        BY <2>3, <3>2, Kinds DEF PlansVersion
      <4>3. /\ <<Version(p, n), "all">> \in held'[q] => db'[Version(p, n)] = None
            /\ Same(q, p)' => 1..(n - 1) \subseteq VersionsOf(db', p)
        BY <1>1, <4>1, <4>2
      <4> QED
        BY <1>1, <1>2, <3>2, <4>2, <4>3 DEF PlansVersion, Updates
    <3> QED
      BY <2>3, <3>1, <3>2 DEF PlansVersion
  <2> QED
    BY <1>1, <2>1, <2>2, <2>3 DEF PolicyPlan, Makes, Updates
<1>5. ASSUME Updates(req[q], p)' PROVE LoadedPolicy(q, p)'
  <2>1. Updates(req[q], p) /\ LoadedPolicy(q, p)
    BY <1>1, <1>3, <1>5 DEF Updates
  <2>2. PICK m : m = req[q].loaded[Id(Spec(p))]
    OBVIOUS
  <2>3. Settled(m)'
    BY <1>0, <2>1, <2>2, SettledStays DEF LoadedPolicy
  <2>4. Settled(req[q].loaded[Id(Spec(p))])'
    BY <1>1, <2>2, <2>3 DEF Settled
  <2>5. LateUpdate(q, p) => LateUpdate(q, p)'
    BY <1>0, <1>1, LateUpdateStays
  <2>6. Same(q, p)' => db'[Spec(p)] = req[q].loaded[Spec(p)] \/ LateUpdate(q, p)'
    BY <2>1, <2>5 DEF LoadedPolicy
  <2>7. <<Spec(p), "share">> \in held[q] => Same(q, p)'
    BY <2>1 DEF LoadedPolicy
  <2> QED
    BY <1>1, <2>1, <2>4, <2>6, <2>7 DEF LoadedPolicy
<1> QED
  BY <1>4, <1>5 DEF Abides

\* The commit of a request that deletes the policy.
LEMMA CommitsDelete ==
  ASSUME Placed, PolicyInv, NEW r \in Reqs, Commits(r), NEW p \in Policies,
         Spec(p) \in DOMAIN req[r].cells, req[r].cells[Spec(p)] = None, <<Spec(p), "all">> \in held[r]
  PROVE  PolicyRow(p)' /\ \A q \in Reqs \ {r} : Abides(q, p)'
<1>1. PICK W : W = Written(r)
  OBVIOUS
<1>2. \A c \in PolicyCell(p) : db'[c] = None
  BY <1>1, CommitsCells, PolicyCellOf
<1>3. db'[Spec(p)] = None /\ db'[Id(Spec(p))] = None /\ \A n \in 1..MaxVersion : db'[Version(p, n)] = None
  BY <1>2, PolicyCellOf
<1>4. PolicyRow(p)'
  BY <1>3 DEF PolicyRow, VersionsOf
<1>5. ASSUME NEW q \in Reqs, q # r PROVE Abides(q, p)'
  <2>1. Abides(q, p)
    BY DEF PolicyInv
  <2>2. ASSUME Busy(q)', LoadedPolicy(q, p) PROVE ~Same(q, p)'
    BY <1>3, <1>5, <2>2, AtWork DEF LoadedPolicy, Settled, Same
  <2>3. Busy(q)' => <<Spec(p), "share">> \notin held[q]
    BY <1>5, AtWork
  <2> QED
    BY <1>3, <1>5, <2>1, <2>2, <2>3, OthersGoOn
<1> QED
  BY <1>4, <1>5

\* ... of one that makes it.
LEMMA CommitsNew ==
  ASSUME Placed, PolicyInv, NEW r \in Reqs, Commits(r), NEW p \in Policies,
         Makes(req[r], p), Spec(p) \in DOMAIN req[r].cells
  PROVE  PolicyRow(p)' /\ \A q \in Reqs \ {r} : Abides(q, p)'
<1>0. /\ PolicyPlan(r, p) /\ PolicyRow(p) /\ req[r].want = {} /\ req[r].pc # "done"
      /\ req[r].in.op # "delete" /\ ~Updates(req[r], p)
  BY Kinds DEF PolicyInv, Abides, Planning, Commits, Makes
<1>1. PICK W : W = Written(r)
  OBVIOUS
<1>2. PlansSpec(r, p)
  BY <1>0 DEF PolicyPlan
<1>3. /\ {Id(Spec(p)), Version(p, 1)} \subseteq DOMAIN req[r].cells
      /\ req[r].cells[Id(Spec(p))] = r /\ req[r].cells[Spec(p)] # None
      /\ req[r].cells[Version(p, 1)] = req[r].cells[Spec(p)]
      /\ <<Spec(p), "all">> \in held[r] /\ db[Spec(p)] = None
  BY <1>0, <1>2 DEF PlansSpec, Locked
<1>4. \A n \in 1..MaxVersion : Version(p, n) \in DOMAIN req[r].cells => n = 1 /\ <<Version(p, 1), "all">> \in held[r]
  BY <1>0 DEF PolicyPlan, PlansVersion, Locked
<1>5. 1 \in 1..MaxVersion
  BY MaxVersionAssumption
<1>6. db[Id(Spec(p))] = None /\ \A n \in 1..MaxVersion : db[Version(p, n)] = None
  BY <1>0, <1>3 DEF PolicyRow, VersionsOf
<1>7. \A c \in PolicyCell(p) : db'[c] = IF c \in DOMAIN req[r].cells THEN req[r].cells[c] ELSE db[c]
  BY <1>1, <1>3, CommitsCells, PolicyCellOf
<1>8. /\ db'[Spec(p)] = req[r].cells[Spec(p)] /\ db'[Id(Spec(p))] = r /\ db'[Version(p, 1)] = db'[Spec(p)]
      /\ \A n \in 1..MaxVersion : n # 1 => db'[Version(p, n)] = None
      /\ db'[Version(p, 1)] # None
  BY <1>3, <1>4, <1>5, <1>6, <1>7, PolicyCellOf
<1>9. r # None /\ req'[r].pc = "done"
  BY MakersAssumption DEF Makers, Commits
<1>10. PolicyRow(p)'
  <2>1. Settled(r)'
    BY <1>9 DEF Settled
  <2>2. Settled(db[Id(Spec(p))])'
    BY <1>8, <2>1 DEF Settled
  <2>3. VersionsOf(db', p) = 1..1
    BY <1>5, <1>8 DEF VersionsOf
  <2>4. db'[Spec(p)] # None
    BY <1>3, <1>8
  <2> QED
    BY <1>5, <1>8, <2>2, <2>3, <2>4 DEF PolicyRow
<1>11. ASSUME NEW q \in Reqs, q # r PROVE Abides(q, p)'
  <2>1. Abides(q, p)
    BY DEF PolicyInv
  <2>2. ASSUME Busy(q)', LoadedPolicy(q, p) PROVE ~Same(q, p)'
    <3>1. req[q].loaded[Id(Spec(p))] # r
      BY <1>0, <2>2 DEF LoadedPolicy, Settled
    <3> QED
      BY <1>8, <1>11, <2>2, <3>1, AtWork DEF Same
  <2>3. Busy(q)' => <<Spec(p), "share">> \notin held[q] /\ <<Spec(p), "all">> \notin held[q]
    BY <1>3, <1>11, AtWork
  <2>4. Busy(q)' => <<Version(p, 1), "all">> \notin held[q]
    BY <1>3, <1>4, <1>5, <1>11, AtWork
  <2> QED
    BY <1>8, <1>11, <2>1, <2>2, <2>3, <2>4, OthersGoOn
<1> QED
  BY <1>10, <1>11

\* ... of one that updates it.
LEMMA CommitsUpdate ==
  ASSUME Placed, PolicyInv, NEW r \in Reqs, Commits(r), NEW p \in Policies, Updates(req[r], p)
  PROVE  PolicyRow(p)' /\ \A q \in Reqs \ {r} : Abides(q, p)'
<1>0. /\ PolicyPlan(r, p) /\ LoadedPolicy(r, p) /\ PolicyRow(p) /\ req[r].want = {} /\ req[r].todo = <<>>
      /\ req[r].in.op = "update" /\ req[r].in.p = p /\ req[r].in.op # "delete" /\ ~Makes(req[r], p)
  BY Kinds DEF PolicyInv, Abides, Planning, Busy, Commits, Updates
<1>1. PICK W : W = Written(r)
  OBVIOUS
<1>2. PICK n \in 1..MaxVersion : Version(p, n) \in DOMAIN req[r].cells
  BY <1>0 DEF PolicyPlan
<1>3. \A m \in 1..MaxVersion : Version(p, m) \in DOMAIN req[r].cells =>
        /\ req[r].cells[Version(p, m)] = req[r].in.value
        /\ <<Version(p, m), "all">> \in held[r] /\ <<Spec(p), "share">> \in held[r]
        /\ db[Version(p, m)] = None /\ (Same(r, p) => 1..(m - 1) \subseteq VersionsOf(db, p))
  BY <1>0 DEF PolicyPlan, PlansVersion, Locked
<1>4. /\ Same(r, p) /\ <<Spec(p), "share">> \in held[r]
      /\ db[Id(Spec(p))] # None /\ (db[Spec(p)] = req[r].loaded[Spec(p)] \/ LateUpdate(r, p))
  BY <1>0, <1>2, <1>3 DEF LoadedPolicy, Same, Settled
<1>5. db[Spec(p)] # None /\ Settled(db[Id(Spec(p))])
  BY <1>0, <1>4 DEF PolicyRow
<1>6. PICK k \in 1..MaxVersion : VersionsOf(db, p) = 1..k /\ (db[Version(p, k)] = db[Spec(p)] \/ Clashed(p))
  BY <1>0, <1>5 DEF PolicyRow
<1>7. \A m \in 1..MaxVersion : Version(p, m) \in DOMAIN req[r].cells => m = k + 1
  <2>1. ASSUME NEW m \in 1..MaxVersion, Version(p, m) \in DOMAIN req[r].cells PROVE m = k + 1
    <3>1. m \notin 1..k /\ 1..(m - 1) \subseteq 1..k
      BY <1>3, <1>4, <1>6, <2>1 DEF VersionsOf
    <3> QED
      BY <3>1, MaxVersionAssumption
  <2> QED
    BY <2>1
<1>8. n = k + 1
  BY <1>2, <1>7
<1>9. req[r].in.value # None
  BY <1>0, PlannedCells DEF Placed, Phase, Commits
<1>10. W[Spec(p)] # None /\ (Spec(p) \in DOMAIN req[r].cells => req[r].cells[Spec(p)] = req[r].in.value)
  <2>1. Spec(p) \in DOMAIN req[r].cells => req[r].cells[Spec(p)] = req[r].in.value
    BY <1>0 DEF PolicyPlan, PlansSpec
  <2> QED
    BY <1>1, <1>5, <1>9, <2>1, CommitsCells, PolicyCellOf
<1>11. \A c \in PolicyCell(p) : db'[c] = IF c \in DOMAIN req[r].cells THEN req[r].cells[c] ELSE db[c]
  BY <1>1, <1>10, CommitsCells, PolicyCellOf
<1>12. Id(Spec(p)) \notin DOMAIN req[r].cells
  BY <1>0 DEF PolicyPlan
<1>13. /\ db'[Id(Spec(p))] = db[Id(Spec(p))] /\ db'[Version(p, k + 1)] = req[r].in.value
       /\ \A m \in 1..MaxVersion : m # k + 1 => db'[Version(p, m)] = db[Version(p, m)]
       /\ db'[Spec(p)] = IF Spec(p) \in DOMAIN req[r].cells THEN req[r].in.value ELSE db[Spec(p)]
  <2>1. db'[Id(Spec(p))] = db[Id(Spec(p))]
    BY <1>11, <1>12, PolicyCellOf
  <2>2. db'[Version(p, k + 1)] = req[r].in.value
    BY <1>2, <1>3, <1>8, <1>11, PolicyCellOf
  <2>3. \A m \in 1..MaxVersion : m # k + 1 => db'[Version(p, m)] = db[Version(p, m)]
    BY <1>7, <1>11, PolicyCellOf
  <2> QED
    BY <1>10, <1>11, <2>1, <2>2, <2>3, PolicyCellOf
<1>14. VersionsOf(db', p) = 1..(k + 1) /\ VersionsOf(db, p) \subseteq VersionsOf(db', p) /\ k + 1 \in 1..MaxVersion
  <2>1. \A m \in 1..MaxVersion : db'[Version(p, m)] # None <=> m \in 1..(k + 1)
    BY <1>6, <1>9, <1>13, MaxVersionAssumption DEF VersionsOf
  <2>2. k + 1 \in 1..MaxVersion /\ 1..(k + 1) \subseteq 1..MaxVersion
    BY <1>8, MaxVersionAssumption
  <2>3. VersionsOf(db', p) = 1..(k + 1)
    BY <2>1, <2>2 DEF VersionsOf
  <2> QED
    BY <1>6, <2>2, <2>3
<1>15. Ok(r)' /\ req'[r].in.op = "update" /\ req'[r].in.p = p /\ Turn(r)
  BY <1>0 DEF Commits, Goes, Ok, Turn
<1>16. db'[Version(p, k + 1)] = db'[Spec(p)] \/ Clashed(p)'
  <2>1. CASE Spec(p) \in DOMAIN req[r].cells
    BY <1>13, <2>1
  <2>2. CASE Spec(p) \notin DOMAIN req[r].cells /\ db[Spec(p)] = req[r].loaded[Spec(p)]
    BY <1>0, <1>13, <2>2 DEF PolicyPlan, Updates
  <2>3. CASE LateUpdate(r, p)
    <3>1. PICK b \in Reqs : Overlap(b, r) /\ Ok(b) /\ req[b].in.op = "update" /\ req[b].in.p = p
      BY <2>3 DEF LateUpdate
    <3>2. Ok(b)' /\ req'[b] = req[b] /\ prior'[b] = prior[b] /\ prior'[r] = prior[r]
      BY <1>15, <3>1, CommittedStay DEF Commits, Goes
    <3>3. Overlap(b, r)'
      BY <3>1, <3>2 DEF Overlap
    <3> QED
      BY <1>15, <3>1, <3>2, <3>3 DEF Clashed
  <2> QED
    BY <1>4, <2>1, <2>2, <2>3
<1>17. PolicyRow(p)'
  <2>1. PICK m : m = db[Id(Spec(p))]
    OBVIOUS
  <2>2. Settled(m)'
    BY <1>5, <1>15, <2>1, SettledStays
  <2>3. Settled(db[Id(Spec(p))])'
    BY <1>13, <2>1, <2>2 DEF Settled
  <2>4. db'[Spec(p)] # None
    BY <1>5, <1>9, <1>13
  <2> QED
    BY <1>14, <1>16, <2>3, <2>4 DEF PolicyRow
<1>18. ASSUME NEW q \in Reqs, q # r PROVE Abides(q, p)'
  <2>1. Abides(q, p)
    BY DEF PolicyInv
  <2>2. Busy(q)' => <<Spec(p), "all">> \notin held[q]
    BY <1>4, <1>18, AtWork
  <2>3. Busy(q)' => <<Version(p, k + 1), "all">> \notin held[q]
    BY <1>2, <1>3, <1>8, <1>18, AtWork
  <2>4. Busy(q)' => (Same(q, p)' <=> Same(q, p))
    BY <1>13, <1>18, AtWork DEF Same
  <2>5. Busy(q)' => LateUpdate(q, p)'
    <3>1. Busy(q)' => Overlap(r, q)'
      BY <1>18, AtWork
    <3> QED
      BY <1>15, <3>1 DEF LateUpdate
  <2> QED
    BY <1>13, <1>14, <1>18, <2>1, <2>2, <2>3, <2>4, <2>5, OthersGoOn
<1> QED
  BY <1>17, <1>18

LEMMA CommitsPolicy ==
  ASSUME Placed, PolicyInv, NEW r \in Reqs, Commits(r)
  PROVE  PolicyInv'
<1>1. ASSUME NEW p \in Policies PROVE PolicyRow(p)' /\ \A q \in Reqs : Abides(q, p)'
  <2>0. PolicyRow(p) /\ PolicyPlan(r, p) /\ req[r].want = {} /\ Turn(r) /\ \A q \in Reqs : Abides(q, p)
    BY DEF PolicyInv, Abides, Planning, Commits, Turn
  <2>1. Abides(r, p)'
    BY DEF Abides, Planning, Busy, Commits
  <2>2. CASE Updates(req[r], p)
    BY <2>1, <2>2, CommitsUpdate
  <2>3. CASE Makes(req[r], p) /\ Spec(p) \in DOMAIN req[r].cells
    BY <2>1, <2>3, CommitsNew
  <2>4. CASE Spec(p) \in DOMAIN req[r].cells /\ ~Updates(req[r], p) /\ ~Makes(req[r], p)
    <3>1. req[r].cells[Spec(p)] = None /\ <<Spec(p), "all">> \in held[r]
      BY <2>0, <2>4 DEF PolicyPlan, PlansSpec, Locked
    <3> QED
      BY <2>1, <2>4, <3>1, CommitsDelete
  <2>5. CASE Spec(p) \notin DOMAIN req[r].cells /\ ~Updates(req[r], p)
    <3>1. \A c \in PolicyCell(p) : c \notin DOMAIN req[r].cells
      <4>1. Id(Spec(p)) \notin DOMAIN req[r].cells
        BY <2>0, <2>5 DEF PolicyPlan
      <4>2. \A n \in 1..MaxVersion : Version(p, n) \notin DOMAIN req[r].cells
        BY <2>0, <2>5 DEF PolicyPlan, PlansVersion
      <4> QED
        BY <2>5, <4>1, <4>2, PolicyCellOf
    <3>2. \A c \in PolicyCell(p) : db'[c] = db[c]
      BY <3>1, CommitsNone
    <3>3. PolicyRow(p)'
      BY <2>0, <3>2, RowStays
    <3>4. ASSUME NEW q \in Reqs, q # r PROVE Abides(q, p)'
      BY <2>0, <3>2, <3>4, OthersAbide
    <3> QED
      BY <2>1, <3>3, <3>4
  <2> QED
    BY <2>2, <2>3, <2>4, <2>5
<1> QED
  BY <1>1 DEF PolicyInv

LEMMA PolicyKept == ASSUME IInv, Placed, PolicyInv, [Next]_vars PROVE PolicyInv'
<1>1. Placed'
  BY PlacedKept
<1>2. ASSUME NEW r \in Reqs, Turn(r) PROVE PolicyInv'
  BY <1>1, <1>2, BeginsPolicy, ReadsPolicy, FindsPolicy, AppendsPolicy, WalksPolicy, TakesPolicy, QuitsPolicy,
     CommitsPolicy DEF Turn
<1>3. ASSUME Aside PROVE PolicyInv'
  <2>1. db' = db /\ req' = req /\ held' = held /\ prior' = prior
    BY <1>3 DEF Aside
  <2>2. ASSUME NEW p \in Policies PROVE PolicyRow(p)' /\ \A q \in Reqs : Abides(q, p)'
    <3>1. PolicyRow(p) /\ \A q \in Reqs : Abides(q, p)
      BY DEF PolicyInv
    <3>2. Clashed(p) => Clashed(p)'
      BY <2>1 DEF Clashed, Overlap, Ok
    <3>3. PolicyRow(p)'
      <4>1. VersionsOf(db', p) = VersionsOf(db, p)
        BY <2>1
      <4> QED
        BY <2>1, <3>1, <3>2, <4>1 DEF PolicyRow, Settled
    <3>4. ASSUME NEW q \in Reqs PROVE Abides(q, p)'
      <4>1. Planning(q)' => PolicyPlan(q, p)'
        BY <2>1, <3>1, PlanStays DEF Abides, Planning
      <4>2. LateUpdate(q, p) => LateUpdate(q, p)'
        BY <2>1 DEF LateUpdate, Overlap, Ok
      <4>3. Same(q, p)' <=> Same(q, p)
        BY <2>1 DEF Same
      <4>4. LoadedPolicy(q, p) => LoadedPolicy(q, p)'
        BY <2>1, <4>2, <4>3 DEF LoadedPolicy, Settled
      <4> QED
        BY <2>1, <3>1, <4>1, <4>4 DEF Abides, Busy, Updates
    <3> QED
      BY <3>3, <3>4
  <2> QED
    BY <2>2 DEF PolicyInv
<1> QED
  BY <1>2, <1>3, Turns

\* Whatever updates, deletions and new policies of the same name overlap, the
\* versions of a policy are numbered without gaps and the one in force is the
\* latest of them, but for two updates that overlapped (policies/service.py:78).
THEOREM LatestVersionInForceHolds == OpsSpec => []LatestVersionInForce
<1>1. Init => IInv /\ Placed /\ PolicyInv
  BY InitIInv, InitPlaced, InitPolicy
<1>2. IInv /\ Placed /\ PolicyInv /\ [Next]_vars => (IInv /\ Placed /\ PolicyInv)'
  BY NextIInv, PlacedKept, PolicyKept
<1>3. ASSUME PolicyInv PROVE LatestVersionInForce
  <2>1. ASSUME NEW p \in Policies, db[Spec(p)] # None
        PROVE  LET versions == VersionsOf(db, p) IN
                 /\ versions = 1..Cardinality(versions)
                 /\ db[Version(p, Cardinality(versions))] = db[Spec(p)] \/ Clashed(p)
    <3>1. PICK k \in 1..MaxVersion : VersionsOf(db, p) = 1..k /\ (db[Version(p, k)] = db[Spec(p)] \/ Clashed(p))
      BY <1>3, <2>1 DEF PolicyInv, PolicyRow
    <3>2. Cardinality(1..k) = k
      BY <3>1, MaxVersionAssumption, FS_Interval
    <3> QED
      BY <3>1, <3>2
  <2> QED
    BY <2>1 DEF LatestVersionInForce, Clashed
<1> QED
  BY <1>1, <1>2, <1>3, PTL DEF OpsSpec
===============================================================================
