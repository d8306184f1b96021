------------------------------- MODULE Approvals -------------------------------
(***************************************************************************)
(* Human approval of agent actions: evaluations that need an approval      *)
(* (runtime/service.py, _resolve_approval) race each other, the reviewers  *)
(* who decide (approvals/router.py, _decide) and the clock.                *)
(*                                                                         *)
(* A key stands for agent + action + SHA-256 of the parameters, the exact  *)
(* call an approval is bound to.  Each evaluation and each decision is a   *)
(* database transaction: its SELECTs see what is committed at that moment, *)
(* its INSERT or UPDATE shows when it commits.  No SELECT has an ORDER BY, *)
(* so where several rows match any of them may come back, and no row is    *)
(* locked, so the last UPDATE wins.  approval_requests.request_id is       *)
(* unique and names the row.  `ready` is history.                          *)
(***************************************************************************)
EXTENDS Integers, FiniteSets

CONSTANTS
  Evals,       \* runtime evaluations that come out as APPROVAL
  Deciders,    \* POST .../approve and .../reject requests
  Keys,        \* exact calls
  RequestIds,  \* request ids callers send, or the API makes up
  TTL,         \* _APPROVAL_TTL, in ticks
  MaxClock,    \* bound on the clock
  NoId         \* no approval request

ASSUME ApprovalAssumption ==
  /\ TTL \in Nat \ {0}
  /\ MaxClock \in Nat
  /\ NoId \notin RequestIds

VARIABLES
  clock,    \* the wall clock
  rows,     \* approval_requests, as committed, by request_id
  pc,       \* pc[e]: where evaluation e is
  key,      \* key[e]: the call e evaluates
  rid,      \* rid[e]: its request_id
  now,      \* now[e]: the time e took when it began
  outcome,  \* outcome[e]: the decision e answers
  via,      \* via[e]: the approval_request_id e answers
  ready,    \* ready[e]: approved unexpired rows for the call when e began
  dpc,      \* dpc[d]: where decision d is
  target,   \* target[d]: the row d decides
  verdict,  \* verdict[d]: approve or reject
  reply     \* reply[d]: what the reviewer hears

evals == <<pc, key, rid, now, outcome, via, ready>>
deciders == <<dpc, target, verdict, reply>>
vars == <<clock, rows, evals, deciders>>

Verdicts == {"approved", "rejected"}
Outcomes == {"none", "allow", "approval", "error"}

Row == [key : Keys, status : {"pending", "expired"} \cup Verdicts, expires : Nat,
        decisions : SUBSET (Deciders \X Verdicts)]

-------------------------------------------------------------------------------
Init ==
  /\ clock = 0
  /\ rows = [i \in {} |-> {}]
  /\ pc = [e \in Evals |-> "idle"]
  /\ key \in [Evals -> Keys]
  /\ rid \in [Evals -> RequestIds]
  /\ now = [e \in Evals |-> 0]
  /\ outcome = [e \in Evals |-> "none"]
  /\ via = [e \in Evals |-> NoId]
  /\ ready = [e \in Evals |-> {}]
  /\ dpc = [d \in Deciders |-> "idle"]
  /\ target = [d \in Deciders |-> NoId]
  /\ verdict \in [Deciders -> Verdicts]
  /\ reply = [d \in Deciders |-> "none"]

Matching_AnyParameters(k, s) == {i \in DOMAIN rows : rows[i].status = s}

\* The rows the SELECT on agent, action, parameters hash and status returns.
Matching(k, s) == {i \in DOMAIN rows : rows[i].key = k /\ rows[i].status = s}

LiveAt_OnExpiry(i, t) == rows[i].expires >= t

\* expires_at > now
LiveAt(i, t) == rows[i].expires > t

\* _resolve_approval begins: it takes the time before it reads anything.
Ask(e) ==
  /\ pc[e] = "idle"
  /\ now' = [now EXCEPT ![e] = clock]
  /\ ready' = [ready EXCEPT ![e] = {i \in Matching(key[e], "approved") : LiveAt(i, clock)}]
  /\ pc' = [pc EXCEPT ![e] = "approved?"]
  /\ UNCHANGED <<clock, rows, key, rid, outcome, via, deciders>>

\* e answers o about row i; what is left of the request is its commit.
Answer(e, o, i) ==
  /\ outcome' = [outcome EXCEPT ![e] = o]
  /\ via' = [via EXCEPT ![e] = i]
  /\ pc' = [pc EXCEPT ![e] = "closing"]

CheckApproved_PendingFirst(e) ==
  /\ pc[e] = "approved?"
  /\ \/ \E i \in Matching(key[e], "pending") : LiveAt(i, now[e]) /\ Answer(e, "approval", i)
     \/ /\ Matching(key[e], "pending") = {}
        /\ \E i \in Matching(key[e], "approved") : LiveAt(i, now[e]) /\ Answer(e, "allow", i)
     \/ /\ \/ Matching(key[e], "approved") = {}
           \/ \E i \in Matching(key[e], "approved") : ~LiveAt(i, now[e])
        /\ pc' = [pc EXCEPT ![e] = "pending?"]
        /\ UNCHANGED <<outcome, via>>
  /\ UNCHANGED <<clock, rows, key, rid, now, ready, deciders>>

\* One approved row, whichever comes back: ALLOW if it has not expired.
CheckApproved(e) ==
  /\ pc[e] = "approved?"
  /\ \/ \E i \in Matching(key[e], "approved") : LiveAt(i, now[e]) /\ Answer(e, "allow", i)
     \/ /\ \/ Matching(key[e], "approved") = {}
           \/ \E i \in Matching(key[e], "approved") : ~LiveAt(i, now[e])
        /\ pc' = [pc EXCEPT ![e] = "pending?"]
        /\ UNCHANGED <<outcome, via>>
  /\ UNCHANGED <<clock, rows, key, rid, now, ready, deciders>>

\* One pending row, whichever comes back: reused if it has not expired.
CheckPending(e) ==
  /\ pc[e] = "pending?"
  /\ \/ \E i \in Matching(key[e], "pending") : LiveAt(i, now[e]) /\ Answer(e, "approval", i)
     \/ /\ \/ Matching(key[e], "pending") = {}
           \/ \E i \in Matching(key[e], "pending") : ~LiveAt(i, now[e])
        /\ pc' = [pc EXCEPT ![e] = "insert"]
        /\ UNCHANGED <<outcome, via>>
  /\ UNCHANGED <<clock, rows, key, rid, now, ready, deciders>>

\* e has flushed a request of its own and not committed it.
Drafting(e) == pc[e] = "closing" /\ via[e] = rid[e] /\ rid[e] \notin DOMAIN rows

\* session.add and flush.  The unique index refuses a request_id that is
\* taken and makes the insert wait while another transaction holds it.
Insert(e) ==
  /\ pc[e] = "insert"
  /\ \A f \in Evals \ {e} : Drafting(f) => rid[f] # rid[e]
  /\ \/ /\ rid[e] \notin DOMAIN rows
        /\ Answer(e, "approval", rid[e])
     \/ /\ rid[e] \in DOMAIN rows
        /\ outcome' = [outcome EXCEPT ![e] = "error"]
        /\ pc' = [pc EXCEPT ![e] = "done"]
        /\ UNCHANGED via
  /\ UNCHANGED <<clock, rows, key, rid, now, ready, deciders>>

Fresh(e) == [key |-> key[e], status |-> "pending", expires |-> now[e] + TTL, decisions |-> {}]

\* The request ends well: get_session commits.
Commit(e) ==
  /\ pc[e] = "closing"
  /\ rows' = IF Drafting(e)
               THEN [i \in DOMAIN rows \cup {rid[e]} |->
                       IF i = rid[e] THEN Fresh(e) ELSE rows[i]]
               ELSE rows
  /\ pc' = [pc EXCEPT ![e] = "done"]
  /\ UNCHANGED <<clock, key, rid, now, outcome, via, ready, deciders>>

Fail_AnswerKept(e) ==
  /\ pc[e] \in {"approved?", "pending?", "insert", "closing"}
  /\ pc' = [pc EXCEPT ![e] = "done"]
  /\ UNCHANGED <<clock, rows, outcome, key, rid, now, via, ready, deciders>>

\* The request fails anywhere on its way: a rollback and an HTTP 500.
Fail(e) ==
  /\ pc[e] \in {"approved?", "pending?", "insert", "closing"}
  /\ outcome' = [outcome EXCEPT ![e] = "error"]
  /\ pc' = [pc EXCEPT ![e] = "done"]
  /\ UNCHANGED <<clock, rows, key, rid, now, via, ready, deciders>>

\* _decide loads a row.  Anything but pending is a 409.  An expired one is
\* marked expired and a 409 raised, and the raise rolls the mark back.
LoadRequest(d) ==
  /\ dpc[d] = "idle"
  /\ \E i \in DOMAIN rows :
       /\ target' = [target EXCEPT ![d] = i]
       /\ \/ /\ rows[i].status # "pending"
             /\ reply' = [reply EXCEPT ![d] = "conflict"]
             /\ dpc' = [dpc EXCEPT ![d] = "done"]
          \/ /\ rows[i].status = "pending" /\ ~LiveAt(i, clock)
             /\ reply' = [reply EXCEPT ![d] = "expired"]
             /\ dpc' = [dpc EXCEPT ![d] = "done"]
          \/ /\ rows[i].status = "pending" /\ LiveAt(i, clock)
             /\ dpc' = [dpc EXCEPT ![d] = "deciding"]
             /\ UNCHANGED reply
  /\ UNCHANGED <<clock, rows, evals, verdict>>

Decided_StaysPending(i, d) == [rows[i] EXCEPT !.decisions = @ \cup {<<d, verdict[d]>>}]

Decided_NoDecisionRow(i, d) == [rows[i] EXCEPT !.status = verdict[d]]

\* The row as d leaves it, with the approval_decisions row d adds.
Decided(i, d) ==
  [rows[i] EXCEPT !.status = verdict[d], !.decisions = @ \cup {<<d, verdict[d]>>}]

\* _decide commits status, decision and audit event together.
Decide(d) ==
  /\ dpc[d] = "deciding"
  /\ rows' = [rows EXCEPT ![target[d]] = Decided(target[d], d)]
  /\ reply' = [reply EXCEPT ![d] = "ok"]
  /\ dpc' = [dpc EXCEPT ![d] = "done"]
  /\ UNCHANGED <<clock, evals, target, verdict>>

\* _decide fails after its checks.
DecideFails(d) ==
  /\ dpc[d] = "deciding"
  /\ reply' = [reply EXCEPT ![d] = "error"]
  /\ dpc' = [dpc EXCEPT ![d] = "done"]
  /\ UNCHANGED <<clock, rows, evals, target, verdict>>

Tick ==
  /\ clock < MaxClock
  /\ clock' = clock + 1
  /\ UNCHANGED <<rows, evals, deciders>>

Next ==
  \/ \E e \in Evals :
       Ask(e) \/ CheckApproved(e) \/ CheckPending(e) \/ Insert(e) \/ Commit(e) \/ Fail(e)
  \/ \E d \in Deciders : LoadRequest(d) \/ Decide(d) \/ DecideFails(d)
  \/ Tick

Spec == Init /\ [][Next]_vars

-------------------------------------------------------------------------------
ApprovedBySomeone(i) == \E d \in Deciders : <<d, "approved">> \in rows[i].decisions
RejectedBySomeone(i) == \E d \in Deciders : <<d, "rejected">> \in rows[i].decisions

\* Types; and a request's status is backed by a recorded decision.
TypeOK ==
  /\ clock \in 0..MaxClock
  /\ DOMAIN rows \subseteq RequestIds
  /\ rows \in [DOMAIN rows -> Row]
  /\ \A i \in DOMAIN rows :
       /\ rows[i].status = "approved" => ApprovedBySomeone(i)
       /\ rows[i].status = "rejected" => RejectedBySomeone(i)
  /\ pc \in [Evals -> {"idle", "approved?", "pending?", "insert", "closing", "done"}]
  /\ key \in [Evals -> Keys]
  /\ rid \in [Evals -> RequestIds]
  /\ now \in [Evals -> Nat]
  /\ outcome \in [Evals -> Outcomes]
  /\ via \in [Evals -> RequestIds \cup {NoId}]
  /\ ready \in [Evals -> SUBSET RequestIds]
  /\ dpc \in [Deciders -> {"idle", "deciding", "done"}]
  /\ target \in [Deciders -> RequestIds \cup {NoId}]
  /\ verdict \in [Deciders -> Verdicts]
  /\ reply \in [Deciders -> {"none", "ok", "conflict", "expired", "error"}]

\* An evaluation that answers ALLOW rests on a request for that exact call
\* which a reviewer approved and which had not expired when it began,
\* whatever reviewers, other calls and the clock did meanwhile.
AllowedOnlyIfGranted ==
  \A e \in Evals :
    pc[e] = "done" /\ outcome[e] = "allow" =>
      /\ via[e] \in DOMAIN rows
      /\ rows[via[e]].key = key[e]
      /\ ApprovedBySomeone(via[e])
      /\ LiveAt(via[e], now[e])

\* The approval_request_id of an APPROVAL answer names a stored request for
\* that call, one that had not expired when the evaluation began.
AnswerNamesRequest ==
  \A e \in Evals :
    pc[e] = "done" /\ outcome[e] = "approval" =>
      /\ via[e] \in DOMAIN rows
      /\ rows[via[e]].key = key[e]
      /\ LiveAt(via[e], now[e])

\* e was told to wait for an approval although row i had been approved for
\* its call, unexpired and not rejected by anyone since.
Overlooked(e, i) ==
  /\ pc[e] = "done" /\ outcome[e] = "approval"
  /\ i \in ready[e] /\ ~RejectedBySomeone(i)

\* Once approved, the identical call returns ALLOW (docs/POLICY.md:99).
ApprovedCallAllowed == \A e \in Evals, i \in RequestIds : ~Overlooked(e, i)

\* An approved call is held up only by an older approval of the same call
\* that has expired: the SELECT for an approved row may return that one.
HonouredUnlessShadowed ==
  \A e \in Evals, i \in RequestIds :
    Overlooked(e, i) =>
      \E j \in DOMAIN rows \ {i} :
        rows[j].key = key[e] /\ ApprovedBySomeone(j) /\ ~LiveAt(j, now[e])

\* A request that has been decided is never taken up by another reviewer
\* (approvals/router.py:101, "approval already ..."): a second decision on a
\* request comes only from one who loaded it before the first was committed.
NoLateDecision ==
  [][\A d \in Deciders :
       dpc[d] # "deciding" /\ dpc'[d] = "deciding" => rows[target'[d]].decisions = {}]_vars
===============================================================================
