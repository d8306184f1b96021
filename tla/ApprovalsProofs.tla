---------------------------- MODULE ApprovalsProofs ----------------------------
(***************************************************************************)
(* Proofs about Approvals, for any number of callers, reviewers and calls. *)
(* An answer is backed (Backed) from the moment it is chosen: the row it   *)
(* names is stored, or is the evaluation's own uncommitted one.  Rows are  *)
(* never deleted, keep key and expiry, and only gain decisions, so backing *)
(* lasts; the unique request_id keeps two drafts apart (Apart).  A decision *)
(* takes its row out of pending for good (Undecided).                      *)
(***************************************************************************)
EXTENDS Approvals, TLAPS

\* The stored row that answer is about, fit for that answer.
Names(e) ==
  /\ via[e] \in DOMAIN rows
  /\ rows[via[e]].key = key[e]
  /\ LiveAt(via[e], now[e])

Backed ==
  \A e \in Evals : pc[e] \in {"closing", "done"} =>
    /\ outcome[e] = "allow" => Names(e) /\ ApprovedBySomeone(via[e])
    /\ outcome[e] = "approval" => Names(e) \/ Drafting(e)

Apart == \A e, f \in Evals : Drafting(e) /\ Drafting(f) /\ e # f => rid[e] # rid[f]

Aimed == \A d \in Deciders : dpc[d] = "deciding" => target[d] \in DOMAIN rows

Undecided == \A i \in DOMAIN rows : rows[i].status = "pending" => rows[i].decisions = {}

\* The approvals e could have had when it began are still there, approved
\* unless somebody has rejected them since.
Remembered ==
  \A e \in Evals : \A i \in ready[e] :
    /\ i \in DOMAIN rows /\ rows[i].key = key[e] /\ LiveAt(i, now[e])
    /\ rows[i].status = "approved" \/ RejectedBySomeone(i)

\* An expired approval of the call of e, other than i.
Shadow(e, i, j) ==
  j \in DOMAIN rows \ {i} /\ rows[j].key = key[e] /\ ApprovedBySomeone(j) /\ ~LiveAt(j, now[e])

\* Past the SELECT for an approved row without one, e has met a shadow of each.
Shadowed ==
  \A e \in Evals :
    pc[e] \in {"pending?", "insert", "closing", "done"} /\ outcome[e] \in {"none", "approval"} =>
      \A i \in ready[e] : RejectedBySomeone(i) \/ \E j \in RequestIds : Shadow(e, i, j)

Unanswered ==
  \A e \in Evals : pc[e] \in {"idle", "approved?", "pending?", "insert"} => outcome[e] = "none"

IInv == TypeOK /\ Backed /\ Apart /\ Aimed /\ Undecided /\ Remembered /\ Unanswered /\ Shadowed

-------------------------------------------------------------------------------
\* What a step does to a row: nothing, or a reviewer adds a decision.
Kept(i) ==
  /\ i \in DOMAIN rows'
  /\ rows'[i].key = rows[i].key
  /\ rows'[i].expires = rows[i].expires
  /\ rows[i].decisions \subseteq rows'[i].decisions

\* No step takes a row, its key, its expiry or a decision back.
LEMMA RowsKept ==
  ASSUME IInv, [Next]_vars
  PROVE  \A i \in DOMAIN rows : Kept(i)
<1>1. ASSUME NEW e \in Evals, Commit(e) PROVE \A i \in DOMAIN rows : Kept(i)
  BY <1>1 DEF Commit, Drafting, Kept
<1>2. ASSUME NEW d \in Deciders, Decide(d) PROVE \A i \in DOMAIN rows : Kept(i)
  <2>1. rows \in [DOMAIN rows -> Row] /\ target[d] \in DOMAIN rows
    BY <1>2 DEF Decide, IInv, TypeOK, Aimed
  <2> QED BY <2>1, <1>2 DEF Decide, Decided, Kept, Row
<1>3. CASE rows' = rows
  BY <1>3 DEF Kept
<1> QED
  BY <1>1, <1>2, <1>3 DEF Next, vars, Ask, CheckApproved, CheckPending, Insert, Fail,
     LoadRequest, DecideFails, Tick

LEMMA InitIInv == Init => IInv
<1> SUFFICES ASSUME Init PROVE IInv
  OBVIOUS
<1> USE DEF Init
<1>1. DOMAIN rows = {}
  OBVIOUS
<1>2. TypeOK
  BY <1>1, ApprovalAssumption DEF TypeOK, Outcomes
<1>3. Backed /\ Apart /\ Aimed /\ Undecided /\ Remembered /\ Unanswered /\ Shadowed
  BY <1>1 DEF Backed, Apart, Aimed, Undecided, Drafting, Remembered, Unanswered, Shadowed
<1> QED BY <1>2, <1>3 DEF IInv

LEMMA StepTypes == ASSUME IInv, [Next]_vars PROVE TypeOK'
<1> USE DEF IInv, TypeOK, Outcomes
<1> DEFINE Signed(f) ==
      \A i \in DOMAIN f :
        /\ f[i].status = "approved" => \E d \in Deciders : <<d, "approved">> \in f[i].decisions
        /\ f[i].status = "rejected" => \E d \in Deciders : <<d, "rejected">> \in f[i].decisions
<1>0. Signed(rows) /\ (Signed(rows') => \A i \in DOMAIN rows' :
        /\ rows'[i].status = "approved" => ApprovedBySomeone(i)'
        /\ rows'[i].status = "rejected" => RejectedBySomeone(i)')
  BY DEF ApprovedBySomeone, RejectedBySomeone
<1> HIDE DEF Signed
<1>1. ASSUME NEW e \in Evals, Ask(e) PROVE TypeOK'
  <2>1. {i \in Matching(key[e], "approved") : LiveAt(i, clock)} \subseteq RequestIds
    BY DEF Matching
  <2>2. clock \in Nat
    BY ApprovalAssumption
  <2> QED BY <1>0, <1>1, <2>1, <2>2 DEF Ask, deciders
<1>2. ASSUME NEW e \in Evals, CheckApproved(e) PROVE TypeOK'
  <2>1. Matching(key[e], "approved") \subseteq RequestIds
    BY DEF Matching
  <2> QED BY <1>0, <1>2, <2>1 DEF CheckApproved, Answer, deciders
<1>3. ASSUME NEW e \in Evals, CheckPending(e) PROVE TypeOK'
  <2>1. Matching(key[e], "pending") \subseteq RequestIds
    BY DEF Matching
  <2> QED BY <1>0, <1>3, <2>1 DEF CheckPending, Answer, deciders
<1>4. ASSUME NEW e \in Evals, Insert(e) PROVE TypeOK'
  BY <1>0, <1>4 DEF Insert, Answer, deciders
<1>5. ASSUME NEW e \in Evals, Commit(e) PROVE TypeOK'
  <2>1. Fresh(e) \in Row
    BY ApprovalAssumption DEF Fresh, Row
  <2>2. /\ DOMAIN rows' \subseteq RequestIds
        /\ rows' \in [DOMAIN rows' -> Row]
    BY <1>5, <2>1 DEF Commit
  <2>3. Signed(rows')
    BY <1>0, <1>5 DEF Commit, Fresh, Signed
  <2> QED BY <1>0, <1>5, <2>2, <2>3 DEF Commit, deciders
<1>6. ASSUME NEW e \in Evals, Fail(e) PROVE TypeOK'
  BY <1>0, <1>6 DEF Fail, deciders
<1>7. ASSUME NEW d \in Deciders, LoadRequest(d) PROVE TypeOK'
  BY <1>0, <1>7 DEF LoadRequest, evals
<1>8. ASSUME NEW d \in Deciders, Decide(d) PROVE TypeOK'
  <2> DEFINE t == target[d]
  <2>1. t \in DOMAIN rows /\ verdict[d] \in Verdicts
    BY <1>8 DEF Decide, Aimed
  <2>2. /\ Decided(t, d) \in Row
        /\ Decided(t, d).status = verdict[d]
        /\ <<d, verdict[d]>> \in Decided(t, d).decisions
    <3>1. rows[t] \in Row
      BY <2>1
    <3>2. rows[t].decisions \subseteq Deciders \X Verdicts /\ <<d, verdict[d]>> \in Deciders \X Verdicts
      BY <2>1, <3>1 DEF Row
    <3> DEFINE D == rows[t].decisions \cup {<<d, verdict[d]>>}
    <3>3. D \in SUBSET (Deciders \X Verdicts) /\ <<d, verdict[d]>> \in D
      BY <3>2
    <3>4. Decided(t, d) = [rows[t] EXCEPT !.status = verdict[d], !.decisions = D]
      BY DEF Decided
    <3> HIDE DEF D, TypeOK
    <3> QED BY <2>1, <3>1, <3>3, <3>4 DEF Row
  <2>3. rows' = [rows EXCEPT ![t] = Decided(t, d)]
    BY <1>8 DEF Decide
  <2> HIDE DEF t
  <2>4. DOMAIN rows' = DOMAIN rows /\ rows' \in [DOMAIN rows' -> Row]
    BY <2>1, <2>2, <2>3
  <2>5. Signed(rows')
    BY <1>0, <2>1, <2>2, <2>3 DEF Signed
  <2> QED BY <1>0, <1>8, <2>4, <2>5 DEF Decide, evals
<1>9. ASSUME NEW d \in Deciders, DecideFails(d) PROVE TypeOK'
  BY <1>0, <1>9 DEF DecideFails, evals
<1>10. CASE Tick
  BY <1>0, <1>10, ApprovalAssumption DEF Tick, evals, deciders
<1>11. CASE UNCHANGED vars
  BY <1>0, <1>11 DEF vars, evals, deciders
<1> QED
  BY <1>1, <1>2, <1>3, <1>4, <1>5, <1>6, <1>7, <1>8, <1>9, <1>10, <1>11 DEF Next

LEMMA StepApart == ASSUME IInv, [Next]_vars PROVE Apart'
<1>1. \A e \in Evals : Drafting(e)' => rid'[e] = rid[e] /\ (Drafting(e) \/ Insert(e))
  <2> SUFFICES ASSUME NEW e \in Evals, Drafting(e)'
               PROVE  rid'[e] = rid[e] /\ (Drafting(e) \/ Insert(e))
    OBVIOUS
  <2>1. ~(rid[e] \in DOMAIN rows) /\ rid' = rid
    BY RowsKept DEF Drafting, Kept, Next, vars, Ask, CheckApproved, CheckPending, Insert, Commit,
       Fail, LoadRequest, Decide, DecideFails, Tick, evals
  <2>2. ASSUME NEW f \in Evals,
               Ask(f) \/ CheckApproved(f) \/ CheckPending(f) \/ Insert(f) \/ Commit(f) \/ Fail(f)
        PROVE  Drafting(e) \/ Insert(e)
    <3>1. CASE f # e
      BY <2>1, <2>2, <3>1 DEF Drafting, IInv, TypeOK, Ask, CheckApproved, CheckPending, Insert,
         Commit, Fail, Answer
    <3>2. CASE f = e
      BY <2>1, <2>2, <3>2 DEF Drafting, IInv, TypeOK, Ask, CheckApproved, CheckPending, Insert,
         Commit, Fail, Answer, Matching
    <3> QED BY <3>1, <3>2
  <2>3. CASE UNCHANGED evals
    BY <2>1, <2>3 DEF Drafting, evals
  <2> QED BY <2>1, <2>2, <2>3 DEF Next, vars, LoadRequest, Decide, DecideFails, Tick
<1>2. \A e, f \in Evals : Insert(e) /\ Insert(f) => e = f
  BY DEF Insert, Answer, IInv, TypeOK
<1>3. \A e, f \in Evals : Insert(e) /\ Drafting(f) /\ e # f => rid[f] # rid[e]
  BY DEF Insert
<1> QED BY <1>1, <1>2, <1>3 DEF Apart, IInv

LEMMA StepBacked == ASSUME IInv, [Next]_vars PROVE Backed'
<1> USE DEF IInv
<1>1. \A e \in Evals : Names(e) /\ UNCHANGED <<via[e], key[e], now[e]>> => Names(e)'
  BY RowsKept DEF Names, Kept, LiveAt
<1>2. \A e \in Evals : via[e] \in DOMAIN rows /\ ApprovedBySomeone(via[e]) /\ UNCHANGED via[e]
        => ApprovedBySomeone(via[e])'
  BY RowsKept DEF Kept, ApprovedBySomeone
<1> DEFINE Good(e) == pc'[e] \in {"closing", "done"} =>
               /\ outcome'[e] = "allow" => Names(e)' /\ ApprovedBySomeone(via[e])'
               /\ outcome'[e] = "approval" => Names(e)' \/ Drafting(e)'
<1>4. CASE DOMAIN rows' = DOMAIN rows /\ UNCHANGED evals
  <2> SUFFICES ASSUME NEW e \in Evals PROVE Good(e)
    BY DEF Backed
  <2>1. UNCHANGED <<pc, outcome, via, key, now, rid>>
    BY <1>4 DEF evals
  <2> QED BY <1>1, <1>2, <1>4, <2>1 DEF Backed, Drafting, Names
<1>5. ASSUME NEW f \in Evals,
             Ask(f) \/ CheckApproved(f) \/ CheckPending(f) \/ Insert(f) \/ Fail(f)
      PROVE  Backed'
  <2>0. UNCHANGED <<rows, key, rid>>
    BY <1>5 DEF Ask, CheckApproved, CheckPending, Insert, Fail
  <2> SUFFICES ASSUME NEW e \in Evals PROVE Good(e)
    BY DEF Backed
  <2>1. CASE e # f
    <3>1. UNCHANGED <<pc[e], outcome[e], via[e], now[e]>>
      BY <2>1, <1>5 DEF Ask, CheckApproved, CheckPending, Insert, Fail, Answer, TypeOK
    <3> QED BY <1>1, <1>2, <2>0, <3>1 DEF Backed, Drafting, Names
  <2>2. CASE e = f
    <3>1. CASE Ask(e)
      BY <3>1 DEF Ask, TypeOK
    <3>2. CASE CheckApproved(e)
      BY <3>2 DEF CheckApproved, Answer, Names, Matching, LiveAt, ApprovedBySomeone, TypeOK
    <3>3. CASE CheckPending(e)
      BY <3>3 DEF CheckPending, Answer, Names, Matching, LiveAt, TypeOK
    <3>4. CASE Insert(e)
      BY <3>4 DEF Insert, Answer, Drafting, TypeOK
    <3>5. CASE Fail(e)
      BY <3>5 DEF Fail, TypeOK
    <3> QED BY <1>5, <2>2, <3>1, <3>2, <3>3, <3>4, <3>5
  <2> QED BY <2>1, <2>2
<1>6. ASSUME NEW f \in Evals, Commit(f) PROVE Backed'
  <2> SUFFICES ASSUME NEW e \in Evals PROVE Good(e)
    BY DEF Backed
  <2>0. UNCHANGED <<key, rid, now, outcome, via>>
    BY <1>6 DEF Commit
  <2>1. CASE e # f
    <3>1. Drafting(e) => Drafting(e)'
      <4>1. DOMAIN rows' \subseteq DOMAIN rows \cup (IF Drafting(f) THEN {rid[f]} ELSE {})
        BY <1>6 DEF Commit
      <4> QED BY <4>1, <2>0, <2>1, <1>6 DEF Commit, Drafting, Apart, TypeOK
    <3>2. pc'[e] = pc[e]
      BY <2>1, <1>6 DEF Commit, TypeOK
    <3> QED BY <1>1, <1>2, <2>0, <3>1, <3>2 DEF Backed, Names
  <2>2. CASE e = f
    <3>1. Drafting(e) => Names(e)'
      <4> SUFFICES ASSUME Drafting(e) PROVE Names(e)'
        OBVIOUS
      <4>1. rows' = [i \in DOMAIN rows \cup {rid[e]} |->
                      IF i = rid[e] THEN Fresh(e) ELSE rows[i]] /\ via[e] = rid[e]
        BY <1>6, <2>2 DEF Commit, Drafting
      <4>2. rid[e] \in DOMAIN rows' /\ rows'[rid[e]] = Fresh(e)
        BY <4>1
      <4>3. now[e] \in Nat /\ TTL \in Nat \ {0}
        BY ApprovalAssumption DEF TypeOK
      <4> QED BY <4>1, <4>2, <4>3, <2>0 DEF Names, LiveAt, Fresh
    <3>2. pc[e] = "closing"
      BY <1>6, <2>2 DEF Commit
    <3> QED BY <1>1, <1>2, <2>0, <3>1, <3>2 DEF Backed, Names
  <2> QED BY <2>1, <2>2
<1>7. ASSUME NEW d \in Deciders, Decide(d) PROVE DOMAIN rows' = DOMAIN rows /\ UNCHANGED evals
  BY <1>7 DEF Decide
<1> QED
  BY <1>4, <1>5, <1>6, <1>7 DEF Next, vars, LoadRequest, DecideFails, Tick

LEMMA StepAimed == ASSUME IInv, [Next]_vars PROVE Aimed'
<1> USE DEF IInv
<1>1. DOMAIN rows \subseteq DOMAIN rows'
  BY RowsKept DEF Kept
<1>2. ASSUME NEW d \in Deciders, LoadRequest(d) \/ Decide(d) \/ DecideFails(d) PROVE Aimed'
  BY <1>1, <1>2 DEF LoadRequest, Decide, DecideFails, Aimed, TypeOK
<1>3. CASE UNCHANGED deciders
  BY <1>1, <1>3 DEF deciders, Aimed
<1> QED
  BY <1>2, <1>3 DEF Next, vars, Ask, CheckApproved, CheckPending, Insert, Commit, Fail, Tick

LEMMA StepUndecided == ASSUME IInv, [Next]_vars PROVE Undecided'
<1> USE DEF IInv
<1>1. ASSUME NEW e \in Evals, Commit(e) PROVE Undecided'
  BY <1>1 DEF Commit, Fresh, Undecided
<1>2. ASSUME NEW d \in Deciders, Decide(d) PROVE Undecided'
  <2>1. verdict[d] # "pending" /\ target[d] \in DOMAIN rows /\ rows[target[d]] \in Row
    BY <1>2 DEF Decide, Aimed, TypeOK, Verdicts
  <2>2. Decided(target[d], d).status = verdict[d]
    BY <2>1 DEF Decided, Row
  <2> QED BY <1>2, <2>1, <2>2 DEF Decide, Undecided
<1>3. CASE rows' = rows
  BY <1>3 DEF Undecided
<1> QED
  BY <1>1, <1>2, <1>3 DEF Next, vars, Ask, CheckApproved, CheckPending, Insert, Fail,
     LoadRequest, DecideFails, Tick

\* What is known of a row outlasts every step.
LEMMA KnownLasts ==
  ASSUME IInv, [Next]_vars, NEW i \in DOMAIN rows
  PROVE  /\ i \in DOMAIN rows' /\ rows'[i].key = rows[i].key
         /\ \A t : LiveAt(i, t) => LiveAt(i, t)'
         /\ \A t : ~LiveAt(i, t) => ~LiveAt(i, t)'
         /\ ApprovedBySomeone(i) => ApprovedBySomeone(i)'
         /\ RejectedBySomeone(i) => RejectedBySomeone(i)'
BY RowsKept DEF Kept, LiveAt, ApprovedBySomeone, RejectedBySomeone

\* Only a reviewer changes the status of a row, and approves or rejects it.
LEMMA ApprovalLasts ==
  ASSUME IInv, [Next]_vars, NEW i \in DOMAIN rows, rows[i].status = "approved" \/ RejectedBySomeone(i)
  PROVE  rows'[i].status = "approved" \/ RejectedBySomeone(i)'
<1>1. RejectedBySomeone(i) => RejectedBySomeone(i)'
  BY KnownLasts
<1>2. ASSUME NEW e \in Evals, Commit(e) PROVE rows'[i] = rows[i]
  BY <1>2 DEF Commit, Drafting
<1>3. ASSUME NEW d \in Deciders, Decide(d), target[d] = i
      PROVE  rows'[i].status = "approved" \/ RejectedBySomeone(i)'
  <2>1. verdict[d] \in Verdicts /\ rows[i] \in Row
    BY DEF IInv, TypeOK
  <2>2. /\ Decided(i, d).status = verdict[d]
        /\ <<d, verdict[d]>> \in Decided(i, d).decisions
    BY <2>1 DEF Decided, Row
  <2>3. rows'[i] = Decided(i, d)
    BY <1>3 DEF Decide
  <2> QED BY <2>1, <2>2, <2>3 DEF Verdicts, RejectedBySomeone
<1>4. ASSUME NEW d \in Deciders, Decide(d), target[d] # i PROVE rows'[i] = rows[i]
  BY <1>4 DEF Decide
<1> QED
  BY <1>1, <1>2, <1>3, <1>4 DEF Next, vars, Ask, CheckApproved, CheckPending, Insert, Fail,
     LoadRequest, DecideFails, Tick

LEMMA StepRemembered == ASSUME IInv, [Next]_vars PROVE Remembered'
<1>1. ASSUME NEW e \in Evals, NEW i \in ready'[e] PROVE (i \in ready[e] /\ now'[e] = now[e]) \/ Ask(e)
  <2>1. CASE UNCHANGED <<ready, now>>
    BY <1>1, <2>1
  <2>2. ASSUME NEW x \in Evals, Ask(x) PROVE x = e \/ (ready'[e] = ready[e] /\ now'[e] = now[e])
    BY <2>2 DEF Ask, IInv, TypeOK
  <2>3. UNCHANGED <<ready, now>> \/ \E x \in Evals : Ask(x)
    BY DEF Next, vars, evals, CheckApproved, CheckPending, Insert, Commit,
       Fail, LoadRequest, Decide, DecideFails, Tick
  <2> QED BY <1>1, <2>1, <2>2, <2>3
<1>2. key' = key
  BY DEF Next, vars, evals, Ask, CheckApproved, CheckPending, Insert, Commit, Fail, LoadRequest,
     Decide, DecideFails, Tick
<1>3. ASSUME NEW e \in Evals, NEW i \in ready'[e]
      PROVE  /\ i \in DOMAIN rows' /\ rows'[i].key = key'[e] /\ LiveAt(i, now[e])'
             /\ rows'[i].status = "approved" \/ RejectedBySomeone(i)'
  <2>1. CASE i \in ready[e] /\ now'[e] = now[e]
    <3>1. /\ i \in DOMAIN rows /\ rows[i].key = key[e] /\ LiveAt(i, now[e])
          /\ rows[i].status = "approved" \/ RejectedBySomeone(i)
      BY <2>1 DEF IInv, Remembered
    <3>2. /\ i \in DOMAIN rows' /\ rows'[i].key = rows[i].key
          /\ rows'[i].expires = rows[i].expires
      BY <3>1, RowsKept DEF Kept
    <3>3. rows'[i].status = "approved" \/ RejectedBySomeone(i)'
      BY <3>1, ApprovalLasts
    <3> QED BY <1>2, <2>1, <3>1, <3>2, <3>3 DEF LiveAt
  <2>2. CASE Ask(e)
    <3>1. /\ ready'[e] = {j \in Matching(key[e], "approved") : LiveAt(j, clock)}
          /\ now'[e] = clock /\ rows' = rows
      BY <2>2 DEF Ask, IInv, TypeOK
    <3> QED BY <1>2, <1>3, <3>1 DEF Matching, LiveAt
  <2> QED BY <1>3, <1>1, <2>1, <2>2
<1> QED BY <1>3 DEF Remembered

LEMMA StepUnanswered == ASSUME IInv, [Next]_vars PROVE Unanswered'
<1> USE DEF IInv, TypeOK
<1>1. ASSUME NEW e \in Evals, Ask(e) \/ CheckApproved(e) \/ CheckPending(e) PROVE Unanswered'
  BY <1>1 DEF Ask, CheckApproved, CheckPending, Answer, Unanswered
<1>2. ASSUME NEW e \in Evals, Insert(e) \/ Commit(e) \/ Fail(e) PROVE Unanswered'
  BY <1>2 DEF Insert, Commit, Fail, Answer, Unanswered
<1>3. CASE UNCHANGED evals
  BY <1>3 DEF evals, Unanswered
<1> QED BY <1>1, <1>2, <1>3 DEF Next, vars, LoadRequest, Decide, DecideFails, Tick

LEMMA StepShadowed == ASSUME IInv, [Next]_vars PROVE Shadowed'
<1>1. key' = key
  BY DEF Next, vars, evals, Ask, CheckApproved, CheckPending, Insert, Commit, Fail, LoadRequest,
     Decide, DecideFails, Tick
<1>2. ASSUME NEW e \in Evals, pc'[e] \in {"pending?", "insert", "closing", "done"},
             outcome'[e] \in {"none", "approval"}
      PROVE  /\ ready'[e] = ready[e] /\ now'[e] = now[e]
             /\ \/ /\ pc[e] \in {"pending?", "insert", "closing", "done"}
                   /\ outcome[e] \in {"none", "approval"}
                \/ CheckApproved(e) /\ pc'[e] = "pending?"
  <2>1. ASSUME NEW f \in Evals, Ask(f) \/ CheckApproved(f) \/ CheckPending(f), f # e
        PROVE  UNCHANGED <<pc[e], outcome[e], ready[e], now[e]>>
    BY <2>1 DEF IInv, TypeOK, Answer, Ask, CheckApproved, CheckPending
  <2>2. ASSUME NEW f \in Evals, Insert(f) \/ Commit(f) \/ Fail(f), f # e
        PROVE  UNCHANGED <<pc[e], outcome[e], ready[e], now[e]>>
    BY <2>2 DEF IInv, TypeOK, Answer, Insert, Commit, Fail
  <2>3. ~Ask(e)
    BY <1>2 DEF Ask, IInv, TypeOK
  <2>4. CASE CheckApproved(e)
    <3>1. e \in DOMAIN pc /\ e \in DOMAIN outcome
      BY DEF IInv, TypeOK
    <3>2. \A i : ~Answer(e, "allow", i)
      BY <1>2, <3>1 DEF Answer
    <3>3. pc' = [pc EXCEPT ![e] = "pending?"] /\ UNCHANGED <<ready, now>>
      BY <2>4, <3>2 DEF CheckApproved
    <3> QED BY <2>4, <3>1, <3>3
  <2>5. CASE CheckPending(e)
    <3>1. pc[e] = "pending?" /\ UNCHANGED <<ready, now>>
      BY <2>5 DEF CheckPending
    <3>2. outcome[e] = "none"
      BY <3>1 DEF IInv, Unanswered
    <3> QED BY <3>1, <3>2
  <2>6. CASE Insert(e) \/ Commit(e) \/ Fail(e)
    BY <1>2, <2>6 DEF Insert, Commit, Fail, Answer, IInv, TypeOK, Unanswered
  <2>7. CASE UNCHANGED evals
    BY <1>2, <2>7 DEF evals
  <2> QED
    BY <1>2, <2>1, <2>2, <2>3, <2>4, <2>5, <2>6, <2>7 DEF Next, vars, LoadRequest, Decide, DecideFails, Tick
<1>3. ASSUME NEW e \in Evals, NEW i \in ready[e], NEW j \in RequestIds, Shadow(e, i, j), now'[e] = now[e]
      PROVE  Shadow(e, i, j)'
  <2>1. j \in DOMAIN rows
    BY <1>3 DEF Shadow
  <2>2. /\ j \in DOMAIN rows' /\ rows'[j].key = rows[j].key /\ rows'[j].expires = rows[j].expires
        /\ ApprovedBySomeone(j) => ApprovedBySomeone(j)'
    BY <2>1, RowsKept DEF Kept, ApprovedBySomeone
  <2> QED BY <1>1, <1>3, <2>2 DEF Shadow, LiveAt
<1>4. ASSUME NEW e \in Evals, NEW i \in ready[e], RejectedBySomeone(i)
      PROVE  RejectedBySomeone(i)'
  BY <1>4, KnownLasts DEF IInv, Remembered
<1>5. ASSUME NEW e \in Evals, NEW i \in ready[e], CheckApproved(e), pc'[e] = "pending?"
      PROVE  RejectedBySomeone(i) \/ \E j \in RequestIds : Shadow(e, i, j)
  <2>1. /\ i \in DOMAIN rows /\ rows[i].key = key[e] /\ LiveAt(i, now[e])
        /\ rows[i].status = "approved" \/ RejectedBySomeone(i)
    BY DEF IInv, Remembered
  <2>2. \/ Matching(key[e], "approved") = {}
        \/ \E j \in Matching(key[e], "approved") : ~LiveAt(j, now[e])
    BY <1>5 DEF CheckApproved, Answer, IInv, TypeOK
  <2>3. CASE Matching(key[e], "approved") = {}
    BY <2>1, <2>3 DEF Matching
  <2>4. ASSUME NEW j \in Matching(key[e], "approved"), ~LiveAt(j, now[e])
        PROVE  j \in RequestIds /\ Shadow(e, i, j)
    BY <2>1, <2>4 DEF Matching, Shadow, IInv, TypeOK
  <2> QED BY <2>2, <2>3, <2>4
<1>6. ASSUME NEW e \in Evals, NEW i \in ready[e], pc'[e] \in {"pending?", "insert", "closing", "done"},
             outcome'[e] \in {"none", "approval"}
      PROVE  RejectedBySomeone(i) \/ \E j \in RequestIds : Shadow(e, i, j)
  BY <1>2, <1>5, <1>6 DEF IInv, Shadowed
<1>7. ASSUME NEW e \in Evals, NEW i \in ready'[e], pc'[e] \in {"pending?", "insert", "closing", "done"},
             outcome'[e] \in {"none", "approval"}
      PROVE  RejectedBySomeone(i)' \/ \E j \in RequestIds : Shadow(e, i, j)'
  <2>1. i \in ready[e] /\ now'[e] = now[e]
    BY <1>2, <1>7
  <2> QED BY <1>3, <1>4, <1>6, <1>7, <2>1
<1> QED BY <1>7 DEF Shadowed

LEMMA Inductive == Spec => []IInv
<1>1. IInv /\ [Next]_vars => IInv'
  BY StepTypes, StepBacked, StepApart, StepAimed, StepUndecided, StepRemembered, StepUnanswered,
     StepShadowed DEF IInv
<1> QED BY InitIInv, <1>1, PTL DEF Spec

-------------------------------------------------------------------------------
\* The variables keep their types and every verdict is a recorded decision.
THEOREM TypeCorrect == Spec => []TypeOK
<1>1. IInv => TypeOK
  BY DEF IInv
<1> QED BY <1>1, Inductive, PTL

\* ALLOW rests on an approved, unexpired request for the exact call.
THEOREM AllowedOnlyIfGrantedHolds == Spec => []AllowedOnlyIfGranted
<1>1. IInv => AllowedOnlyIfGranted
  BY DEF IInv, Backed, Names, AllowedOnlyIfGranted
<1> QED BY <1>1, Inductive, PTL

\* APPROVAL names a stored request for the exact call that had not expired.
THEOREM AnswerNamesRequestHolds == Spec => []AnswerNamesRequest
<1>1. IInv => AnswerNamesRequest
  BY DEF IInv, Backed, Names, Drafting, AnswerNamesRequest
<1> QED BY <1>1, Inductive, PTL

\* Reviewers never take up a request that has been decided.
THEOREM NoLateDecisionHolds == Spec => NoLateDecision
<1> DEFINE Fresh1(d) == dpc[d] # "deciding" /\ dpc'[d] = "deciding" => rows[target'[d]].decisions = {}
<1>1. ASSUME IInv, [Next]_vars, NEW d \in Deciders PROVE Fresh1(d)
  <2>1. ASSUME NEW f \in Deciders, LoadRequest(f) PROVE Fresh1(d)
    <3>1. CASE f = d
      BY <1>1, <2>1, <3>1 DEF LoadRequest, IInv, TypeOK, Undecided
    <3>2. CASE f # d
      BY <1>1, <2>1, <3>2 DEF LoadRequest, IInv, TypeOK
    <3> QED BY <3>1, <3>2
  <2>2. ASSUME NEW f \in Deciders, Decide(f) \/ DecideFails(f) PROVE Fresh1(d)
    BY <1>1, <2>2 DEF Decide, DecideFails, IInv, TypeOK
  <2>3. CASE UNCHANGED deciders
    BY <2>3 DEF deciders
  <2> QED
    BY <1>1, <2>1, <2>2, <2>3 DEF Next, vars, Ask, CheckApproved, CheckPending, Insert, Commit,
       Fail, Tick
<1>2. IInv /\ [Next]_vars => [\A d \in Deciders : Fresh1(d)]_vars
  BY <1>1
<1> QED BY <1>2, Inductive, PTL DEF Spec, NoLateDecision

\* A caller whose call had been approved is told to wait for an approval only
\* if an expired approval of the same call came back in its place
\* (runtime/service.py, _resolve_approval: the SELECT has no ORDER BY and does
\* not look at expires_at).
THEOREM HonouredUnlessShadowedHolds == Spec => []HonouredUnlessShadowed
<1>1. ASSUME IInv, NEW e \in Evals, NEW i \in RequestIds, Overlooked(e, i)
      PROVE  \E j \in DOMAIN rows \ {i} :
               rows[j].key = key[e] /\ ApprovedBySomeone(j) /\ ~LiveAt(j, now[e])
  <2>1. PICK j \in RequestIds : Shadow(e, i, j)
    BY <1>1 DEF IInv, Shadowed, Overlooked
  <2> QED BY <2>1 DEF Shadow
<1>2. IInv => HonouredUnlessShadowed
  BY <1>1 DEF HonouredUnlessShadowed
<1> QED BY <1>2, Inductive, PTL
===============================================================================
