----------------------------- MODULE SessionsProofs -----------------------------
(***************************************************************************)
(* Proofs about Sessions, for any number of requests and sessions.         *)
(*                                                                         *)
(* From the SELECT of a purge on, every session that existed is revoked or *)
(* about to be (Covered).  A rotation is known to the purge, or it passed  *)
(* its check after the purge committed and so presented a session that the *)
(* purge did not find (Watched).  Hence whatever descends from a session   *)
(* the purge found has a link made by a rotation it knows of (Spread).     *)
(***************************************************************************)
EXTENDS Sessions, TLAPS

\* What a request has at each point of its way.
Shape(r) ==
  /\ pc[r] = "idle" => target[r] = NoSid
  /\ pc[r] \in {"idle", "rotate", "mark", "next", "sweep"} =>
       new[r] = NoSid /\ doomed[r] = {} /\ before[r] = {}
  /\ pc[r] = "rotate" => target[r] # NoSid
  /\ pc[r] \in {"mark", "next"} => cursor[r] # NoSid
  /\ pc[r] = "closing" =>
       /\ new[r] \notin DOMAIN rows
       /\ new[r] = NoSid \/ before[r] = {}
       /\ new[r] # NoSid /\ target[r] # NoSid => target[r] \in held[r]
  /\ pc[r] \in {"idle", "rotate", "done", "failed"} => held[r] = {}

Phases == \A r \in Requests : Shape(r)

\* No two requests insert the same id.
Distinct == \A q, r \in Requests : q # r /\ new[q] # NoSid => new[q] # new[r]

\* u has selected the live sessions and not failed since.
Purging(u) == pc[u] \in {"closing", "done"} /\ before[u] # {}

Covered ==
  \A u \in Requests : Purging(u) =>
    \A s \in before[u] : rows[s].revoked \/ (pc[u] = "closing" /\ s \in Revoked(u))

Watched ==
  \A u, r \in Requests : Purging(u) /\ Rotating(r) =>
    r \in racers[u] \/ (pc[u] = "done" /\ target[r] \notin before[u])

\* If s descends from a session u found, a rotation u knows of is between.
Traced(u, s) ==
  rows[s].line \cap before[u] # {} =>
    \E a \in rows[s].line \ before[u] : rows[a].by \in racers[u]

Spread ==
  \A u \in Requests : Purging(u) => \A s \in DOMAIN rows \ before[u] : Traced(u, s)

Lines == \A s \in DOMAIN rows : rows[s].line \subseteq DOMAIN rows

IInv == TypeOK /\ Phases /\ Distinct /\ LiveHasNoSuccessor /\ Lines /\ Covered /\ Watched /\ Spread

-------------------------------------------------------------------------------
\* What a step does to a row.
Kept(s) ==
  /\ s \in DOMAIN rows'
  /\ rows'[s].prev = rows[s].prev
  /\ rows'[s].line = rows[s].line
  /\ rows'[s].by = rows[s].by
  /\ rows[s].revoked => rows'[s].revoked

\* No step removes a session, changes what it descends from, or restores it.
LEMMA RowsKept ==
  ASSUME IInv, [Next]_vars
  PROVE  \A s \in DOMAIN rows : Kept(s)
<1>0. rows \in [DOMAIN rows -> Row]
  BY DEF IInv, TypeOK
<1>1. ASSUME NEW r \in Requests, Commit(r) PROVE \A s \in DOMAIN rows : Kept(s)
  <2>1. new[r] \notin DOMAIN rows
    BY <1>1 DEF Commit, IInv, Phases, Shape
  <2> QED BY <1>0, <1>1, <2>1 DEF Commit, Kept, Row
<1>2. ASSUME NEW c \in Sids, Expire(c) PROVE \A s \in DOMAIN rows : Kept(s)
  BY <1>0, <1>2 DEF Expire, Kept, Row
<1>3. CASE rows' = rows
  BY <1>3 DEF Kept
<1> QED
  BY <1>1, <1>2, <1>3 DEF Next, vars, Login, LogoutAll, Rotate, Mark, Follow, Sweep, Fail,
     Present, Logout

LEMMA InitIInv == Init => IInv
<1> SUFFICES ASSUME Init PROVE IInv
  OBVIOUS
<1> USE SessionAssumption DEF Init
<1>1. DOMAIN rows = Roots /\ \A s \in Roots : rows[s] \in Row /\ rows[s].line = {s} /\ rows[s].prev = NoSid
  BY DEF Row
<1>2. TypeOK
  BY <1>1 DEF TypeOK
<1>3. Phases /\ Distinct
  BY DEF Phases, Shape, Distinct
<1>4. LiveHasNoSuccessor /\ Lines
  BY <1>1 DEF LiveHasNoSuccessor, Lines
<1>5. Covered /\ Watched /\ Spread
  BY DEF Covered, Watched, Spread, Purging
<1> QED BY <1>2, <1>3, <1>4, <1>5 DEF IInv

\* The row a commit adds is well-formed.
LEMMA NewRowTypes ==
  ASSUME IInv, NEW r \in Requests, new[r] # NoSid
  PROVE  /\ NewRow(r) \in Row
         /\ NewRow(r).prev = target[r] /\ NewRow(r).revoked = FALSE /\ NewRow(r).by = r
         /\ NewRow(r).line = {new[r]} \cup (IF target[r] = NoSid THEN {} ELSE rows[target[r]].line)
<1> USE DEF IInv, TypeOK
<1>1. target[r] # NoSid => rows[target[r]] \in Row
  OBVIOUS
<1>2. ({new[r]} \cup IF target[r] = NoSid THEN {} ELSE rows[target[r]].line) \in SUBSET Sids
  BY <1>1 DEF Row
<1>3. target[r] \in Sids \cup {NoSid}
  OBVIOUS
<1> QED BY <1>2, <1>3 DEF NewRow, Row

\* The row a commit adds is the new one.
LEMMA CommitNew ==
  ASSUME IInv, NEW r \in Requests, Commit(r), new[r] \in DOMAIN rows'
  PROVE  rows'[new[r]] \in Row /\ rows'[new[r]].prev = target[r]
<1>1. DOMAIN rows \subseteq Sids /\ new[r] \notin DOMAIN rows
  BY DEF IInv, TypeOK, Phases, Shape, Commit
<1>2. new[r] # NoSid
  BY <1>1 DEF Commit
<1>3. rows'[new[r]] = NewRow(r)
  BY DEF Commit
<1>4. NewRow(r) \in Row /\ NewRow(r).prev = target[r]
  BY <1>2, NewRowTypes
<1> QED BY <1>3, <1>4

LEMMA StepTypes == ASSUME IInv, [Next]_vars PROVE TypeOK'
<1> USE DEF IInv, TypeOK
<1>1. ASSUME NEW r \in Requests, Login(r) PROVE TypeOK'
  BY <1>1 DEF Login, FreshSids
<1>2. ASSUME NEW r \in Requests, LogoutAll(r) PROVE TypeOK'
  BY <1>2 DEF LogoutAll
<1>3. ASSUME NEW r \in Requests, Rotate(r) PROVE TypeOK'
  <2>1. target[r] \in DOMAIN rows
    BY <1>3 DEF Rotate, Phases, Shape
  <2> QED BY <1>3, <2>1 DEF Rotate, FreshSids, Unlocked
<1>4. ASSUME NEW r \in Requests, Mark(r) PROVE TypeOK'
  <2>1. cursor[r] \in DOMAIN rows
    BY <1>4 DEF Mark, Phases, Shape
  <2> QED BY <1>4, <2>1 DEF Mark, Unlocked
<1>5. ASSUME NEW r \in Requests, Follow(r) PROVE TypeOK'
  BY <1>5 DEF Follow, Successors
<1>6. ASSUME NEW r \in Requests, Sweep(r) PROVE TypeOK'
  BY <1>6 DEF Sweep, SelectLive
<1>7. ASSUME NEW r \in Requests, Commit(r) PROVE TypeOK'
  <2>1. DOMAIN rows' = DOMAIN rows \cup ({new[r]} \ {NoSid})
    BY <1>7 DEF Commit
  <2>0. new[r] \in DOMAIN rows' => rows'[new[r]] \in Row /\ rows'[new[r]].prev = target[r]
    BY <1>7, CommitNew
  <2>2. \A s \in DOMAIN rows' : rows'[s] \in Row
    <3> SUFFICES ASSUME NEW s \in DOMAIN rows' PROVE rows'[s] \in Row
      OBVIOUS
    <3>1. CASE s = new[r]
      BY <2>0, <3>1
    <3>2. CASE s # new[r]
      <4>1. s \in DOMAIN rows /\ rows[s] \in Row
        BY <2>1, <3>2
      <4>2. [rows[s] EXCEPT !.revoked = TRUE] \in Row
        BY <4>1 DEF Row
      <4> QED BY <1>7, <3>2, <4>1, <4>2 DEF Commit
    <3> QED BY <3>1, <3>2
  <2>3. rows' \in [DOMAIN rows' -> Row]
    BY <1>7, <2>1, <2>2 DEF Commit
  <2>4. \A s \in DOMAIN rows' : rows'[s].prev \in DOMAIN rows' \cup {NoSid}
    <3> SUFFICES ASSUME NEW s \in DOMAIN rows' PROVE rows'[s].prev \in DOMAIN rows' \cup {NoSid}
      OBVIOUS
    <3>1. CASE s = new[r]
      BY <2>0, <2>1, <3>1
    <3>2. CASE s # new[r]
      BY <2>1, <3>2, RowsKept DEF Kept
    <3> QED BY <3>1, <3>2
  <2>5. DOMAIN rows \subseteq DOMAIN rows' /\ DOMAIN rows' \subseteq Sids
    BY <2>1
  <2> HIDE DEF IInv
  <2>6. /\ pc' \in [Requests -> {"idle", "rotate", "mark", "next", "sweep", "closing", "done", "failed"}]
        /\ held' \in [Requests -> SUBSET Sids]
        /\ doomed' \in [Requests -> SUBSET Sids]
        /\ \A q \in Requests : held'[q] \subseteq held[q] /\ doomed'[q] \subseteq doomed[q]
    BY <1>7 DEF Commit, IInv
  <2>7. UNCHANGED <<target, new, cursor, before, racers>>
    BY <1>7 DEF Commit
  <2>8. \A q \in Requests :
          {target[q], cursor[q]} \cup held'[q] \cup doomed'[q] \cup before[q]
            \subseteq DOMAIN rows' \cup {NoSid}
    BY <2>5, <2>6 DEF IInv
  <2>9. \A p, q \in Requests : p # q => held'[p] \cap held'[q] = {}
    BY <2>6 DEF IInv
  <2> QED BY <2>3, <2>4, <2>5, <2>6, <2>7, <2>8, <2>9 DEF IInv
<1>8. ASSUME NEW r \in Requests, Fail(r) PROVE TypeOK'
  BY <1>8 DEF Fail
<1>9. ASSUME NEW r \in Requests, NEW s \in Sids, Present(r, s) PROVE TypeOK'
  BY <1>9 DEF Present
<1>10. ASSUME NEW r \in Requests, NEW s \in Sids, Logout(r, s) PROVE TypeOK'
  BY <1>10 DEF Logout
<1>11. ASSUME NEW s \in Sids, Expire(s) PROVE TypeOK'
  <2>0. rows[s] \in Row
    BY <1>11 DEF Expire
  <2>1. [rows[s] EXCEPT !.expired = TRUE] \in Row
    BY <2>0 DEF Row
  <2>2. DOMAIN rows' = DOMAIN rows /\ rows' \in [DOMAIN rows' -> Row]
    BY <1>11, <2>1 DEF Expire
  <2>3. \A c \in DOMAIN rows' : rows'[c].prev = rows[c].prev
    BY <2>2, RowsKept DEF Kept
  <2> QED BY <1>11, <2>2, <2>3 DEF Expire
<1>12. CASE UNCHANGED vars
  BY <1>12 DEF vars
<1> QED
  BY <1>1, <1>2, <1>3, <1>4, <1>5, <1>6, <1>7, <1>8, <1>9, <1>10, <1>11, <1>12 DEF Next

LEMMA StepPhases == ASSUME IInv, [Next]_vars PROVE Phases'
<1> USE SessionAssumption DEF IInv, TypeOK
<1> SUFFICES ASSUME NEW q \in Requests PROVE Shape(q)'
  BY DEF Phases
<1>0. Shape(q) /\ DOMAIN rows \subseteq Sids
  BY DEF Phases
<1>1. ASSUME NEW r \in Requests, Login(r) PROVE Shape(q)'
  BY <1>0, <1>1 DEF Login, FreshSids, Shape
<1>2. ASSUME NEW r \in Requests, LogoutAll(r) PROVE Shape(q)'
  BY <1>0, <1>2 DEF LogoutAll, Shape
<1>3. ASSUME NEW r \in Requests, Rotate(r) PROVE Shape(q)'
  BY <1>0, <1>3 DEF Rotate, FreshSids, Shape
<1>4. ASSUME NEW r \in Requests, Mark(r) PROVE Shape(q)'
  BY <1>0, <1>4 DEF Mark, Shape
<1>5. ASSUME NEW r \in Requests, Follow(r) PROVE Shape(q)'
  BY <1>0, <1>5 DEF Follow, Successors, Shape
<1>6. ASSUME NEW r \in Requests, Sweep(r) PROVE Shape(q)'
  BY <1>0, <1>6 DEF Sweep, Shape
<1>7. ASSUME NEW r \in Requests, Commit(r) PROVE Shape(q)'
  <2>1. CASE q = r
    BY <1>0, <1>7, <2>1 DEF Commit, Shape
  <2>2. CASE q # r
    <3>1. pc'[q] = pc[q] /\ held'[q] = held[q] /\ doomed'[q] = doomed[q]
      BY <1>7, <2>2 DEF Commit
    <3>2. pc[q] = "closing" => new[q] \notin DOMAIN rows'
      BY <1>0, <1>7, <2>2 DEF Commit, Shape, Distinct
    <3> QED BY <1>0, <1>7, <3>1, <3>2 DEF Commit, Shape
  <2> QED BY <2>1, <2>2
<1>8. ASSUME NEW r \in Requests, Fail(r) PROVE Shape(q)'
  BY <1>0, <1>8 DEF Fail, Shape
<1>9. ASSUME NEW r \in Requests, NEW s \in Sids, Present(r, s) PROVE Shape(q)'
  BY <1>0, <1>9 DEF Present, Shape
<1>10. ASSUME NEW r \in Requests, NEW s \in Sids, Logout(r, s) PROVE Shape(q)'
  BY <1>0, <1>10 DEF Logout, Shape
<1>11. ASSUME NEW s \in Sids, Expire(s) PROVE Shape(q)'
  BY <1>0, <1>11 DEF Expire, Shape
<1>12. CASE UNCHANGED vars
  BY <1>0, <1>12 DEF vars, Shape
<1> QED
  BY <1>1, <1>2, <1>3, <1>4, <1>5, <1>6, <1>7, <1>8, <1>9, <1>10, <1>11, <1>12 DEF Next

LEMMA StepDistinct == ASSUME IInv, [Next]_vars PROVE Distinct'
<1> USE SessionAssumption DEF IInv, TypeOK
<1>1. ASSUME NEW r \in Requests, Login(r) \/ Rotate(r) PROVE Distinct'
  BY <1>1 DEF Login, Rotate, FreshSids, Distinct
<1>2. ASSUME NEW r \in Requests, Fail(r) PROVE Distinct'
  BY <1>2 DEF Fail, Distinct
<1>3. CASE UNCHANGED new
  BY <1>3 DEF Distinct
<1> QED
  BY <1>1, <1>2, <1>3 DEF Next, vars, LogoutAll, Mark, Follow, Sweep, Commit, Present, Logout,
     Expire

\* What a commit makes of the sessions: it adds one, if it has one, and
\* revokes those it updated.
LEMMA CommitRows ==
  ASSUME IInv, NEW r \in Requests, Commit(r)
  PROVE  /\ DOMAIN rows' = DOMAIN rows \cup ({new[r]} \ {NoSid})
         /\ new[r] # NoSid => rows'[new[r]] = NewRow(r)
         /\ new[r] \notin DOMAIN rows
         /\ \A s \in DOMAIN rows : s \in Revoked(r) => rows'[s].revoked
         /\ \A s \in DOMAIN rows : rows'[s].revoked => rows[s].revoked \/ s \in Revoked(r)
<1>1. new[r] \notin DOMAIN rows
  BY DEF Commit, IInv, Phases, Shape
<1>2. \A s \in DOMAIN rows : rows[s] \in Row
  BY DEF IInv, TypeOK
<1>3. ASSUME NEW s \in DOMAIN rows
      PROVE  rows'[s] = IF s \in Revoked(r) THEN [rows[s] EXCEPT !.revoked = TRUE] ELSE rows[s]
  BY <1>1 DEF Commit
<1>4. new[r] # NoSid => rows'[new[r]] = NewRow(r)
  BY DEF Commit
<1>5. DOMAIN rows' = DOMAIN rows \cup ({new[r]} \ {NoSid})
  BY DEF Commit
<1> QED BY <1>1, <1>2, <1>3, <1>4, <1>5 DEF Row

LEMMA StepSuccessors == ASSUME IInv, [Next]_vars PROVE LiveHasNoSuccessor' /\ Lines'
<1>1. ASSUME NEW r \in Requests, Commit(r) PROVE LiveHasNoSuccessor' /\ Lines'
  <2>1. \A s \in DOMAIN rows : Kept(s)
    BY RowsKept
  <2>2. ASSUME NEW s \in DOMAIN rows
        PROVE  /\ rows'[s].prev # NoSid => rows'[rows'[s].prev].revoked
               /\ rows'[s].line \subseteq DOMAIN rows'
    BY <2>1, <1>1, CommitRows DEF Kept, IInv, TypeOK, LiveHasNoSuccessor, Lines
  <2>3. ASSUME new[r] # NoSid
        PROVE  /\ rows'[new[r]].prev # NoSid => rows'[rows'[new[r]].prev].revoked
               /\ rows'[new[r]].line \subseteq DOMAIN rows'
    <3>1. target[r] # NoSid => target[r] \in held[r] /\ target[r] \in DOMAIN rows
      BY <1>1, <2>3 DEF Commit, IInv, TypeOK, Phases, Shape
    <3>2. /\ rows'[new[r]].prev = target[r]
          /\ rows'[new[r]].line =
               {new[r]} \cup (IF target[r] = NoSid THEN {} ELSE rows[target[r]].line)
      BY <1>1, <2>3, CommitRows, NewRowTypes
    <3>3. target[r] # NoSid => rows'[target[r]].revoked /\ rows[target[r]].line \subseteq DOMAIN rows
      BY <1>1, <3>1, CommitRows DEF Revoked, IInv, Lines
    <3> QED BY <1>1, <2>3, <3>2, <3>3, CommitRows
  <2>4. DOMAIN rows' = DOMAIN rows \cup ({new[r]} \ {NoSid})
    BY <1>1, CommitRows
  <2>5. ASSUME NEW s \in DOMAIN rows'
        PROVE  (rows'[s].prev # NoSid => rows'[rows'[s].prev].revoked) /\ rows'[s].line \subseteq DOMAIN rows'
    <3>1. CASE s \in DOMAIN rows
      BY <3>1, <2>2
    <3>2. CASE s = new[r] /\ new[r] # NoSid
      BY <3>2, <2>3
    <3> QED BY <3>1, <3>2, <2>4
  <2> HIDE <1>1
  <2> QED BY <2>5 DEF LiveHasNoSuccessor, Lines
<1>2. CASE DOMAIN rows' = DOMAIN rows
  <2>1. \A s \in DOMAIN rows : /\ rows'[s].prev = rows[s].prev /\ rows'[s].line = rows[s].line
                               /\ rows[s].revoked => rows'[s].revoked
    BY RowsKept DEF Kept
  <2>2. \A s \in DOMAIN rows : rows[s].prev \in DOMAIN rows \cup {NoSid}
    BY DEF IInv, TypeOK
  <2>3. LiveHasNoSuccessor'
    BY <1>2, <2>1, <2>2 DEF LiveHasNoSuccessor, IInv
  <2> QED BY <1>2, <2>1, <2>3 DEF Lines, IInv
<1> QED
  BY <1>1, <1>2 DEF Next, vars, Login, LogoutAll, Rotate, Mark, Follow, Sweep, Fail, Present,
     Logout, Expire

\* Only a Sweep or a Commit brings a request into the phases of a purge.
LEMMA StepPurging ==
  ASSUME IInv, [Next]_vars, NEW u \in Requests, Purging(u)', ~Sweep(u)
  PROVE  /\ Purging(u)
         /\ before'[u] = before[u]
         /\ racers[u] \subseteq racers'[u]
         /\ pc'[u] = pc[u] \/ Commit(u)
<1> USE DEF IInv, TypeOK, Phases, Shape, Purging
<1>1. ASSUME NEW r \in Requests, Login(r) \/ LogoutAll(r) \/ Rotate(r) \/ Mark(r) \/ Follow(r)
      PROVE  Purging(u) /\ before' = before /\ racers' = racers /\ pc'[u] = pc[u]
  BY <1>1 DEF Login, LogoutAll, Rotate, Mark, Follow
<1>2. ASSUME NEW r \in Requests, Sweep(r) PROVE Purging(u) /\ before'[u] = before[u] /\ racers'[u] = racers[u] /\ pc'[u] = pc[u]
  BY <1>2 DEF Sweep
<1>3. ASSUME NEW r \in Requests, Commit(r)
      PROVE  Purging(u) /\ before' = before /\ racers' = racers /\ (pc'[u] = pc[u] \/ Commit(u))
  BY <1>3 DEF Commit
<1>4. ASSUME NEW r \in Requests, Fail(r)
      PROVE  Purging(u) /\ before' = before /\ racers' = racers /\ pc'[u] = pc[u]
  BY <1>4 DEF Fail
<1>5. ASSUME NEW r \in Requests, NEW s \in Sids, Present(r, s) \/ Logout(r, s)
      PROVE  Purging(u) /\ before' = before /\ racers[u] \subseteq racers'[u] /\ pc'[u] = pc[u]
  BY <1>5 DEF Present, Logout
<1>6. CASE UNCHANGED <<pc, before, racers>>
  BY <1>6
<1> QED
  BY <1>1, <1>2, <1>3, <1>4, <1>5, <1>6 DEF Next, vars, Expire

LEMMA StepCovered == ASSUME IInv, [Next]_vars PROVE Covered'
<1> SUFFICES ASSUME NEW u \in Requests, Purging(u)', NEW s \in before'[u]
             PROVE  rows'[s].revoked \/ (pc'[u] = "closing" /\ s \in Revoked(u)')
  BY DEF Covered
<1>1. CASE Sweep(u)
  <2>1. s \in DOMAIN rows /\ rows' = rows /\ pc'[u] = "closing"
        /\ held' = held /\ doomed'[u] = SelectLive(u)
    BY <1>1 DEF Sweep, IInv, TypeOK
  <2> QED BY <2>1 DEF SelectLive, Revoked
<1>2. CASE ~Sweep(u)
  <2>1. /\ Purging(u) /\ s \in before[u] /\ (pc'[u] = pc[u] \/ Commit(u))
        /\ s \in DOMAIN rows
        /\ rows[s].revoked \/ (pc[u] = "closing" /\ s \in Revoked(u))
    <3>1. Purging(u) /\ s \in before[u] /\ (pc'[u] = pc[u] \/ Commit(u))
      BY <1>2, StepPurging
    <3>2. s \in DOMAIN rows
      BY <3>1, SessionAssumption DEF IInv, TypeOK
    <3> QED BY <3>1, <3>2 DEF IInv, Covered
  <2>2. CASE Commit(u)
    BY <2>1, <2>2, CommitRows, RowsKept DEF Kept
  <2>3. CASE pc[u] = "closing" /\ s \in Revoked(u) /\ ~Commit(u)
    <3>1. pc'[u] = "closing"
      BY <2>1, <2>3
    <3>2. held'[u] = held[u] /\ doomed'[u] = doomed[u]
      <4>1. ASSUME NEW q \in Requests,
                   Login(q) \/ LogoutAll(q) \/ Rotate(q) \/ Mark(q) \/ Follow(q) \/ Sweep(q)
            PROVE  held'[u] = held[u] /\ doomed'[u] = doomed[u]
        BY <2>3, <4>1 DEF Login, LogoutAll, Rotate, Mark, Follow, Sweep, IInv, TypeOK
      <4>2. ASSUME NEW q \in Requests, Commit(q) \/ Fail(q)
            PROVE  held'[u] = held[u] /\ doomed'[u] = doomed[u]
        BY <2>3, <3>1, <4>2 DEF Commit, Fail, IInv, TypeOK
      <4>3. ASSUME NEW q \in Requests, NEW c \in Sids, Present(q, c) \/ Logout(q, c)
            PROVE  held'[u] = held[u] /\ doomed'[u] = doomed[u]
        BY <2>3, <4>3 DEF Present, Logout, IInv, TypeOK
      <4>4. CASE UNCHANGED <<held, doomed>>
        BY <4>4
      <4> QED BY <4>1, <4>2, <4>3, <4>4 DEF Next, vars, Expire
    <3> QED BY <2>3, <3>1, <3>2 DEF Revoked
  <2>4. CASE rows[s].revoked
    BY <2>1, <2>4, RowsKept DEF Kept
  <2> QED BY <2>1, <2>2, <2>3, <2>4
<1> QED BY <1>1, <1>2

LEMMA StepWatched == ASSUME IInv, [Next]_vars PROVE Watched'
<1> SUFFICES ASSUME NEW u \in Requests, NEW r \in Requests, Purging(u)', Rotating(r)'
             PROVE  r \in racers'[u] \/ (pc'[u] = "done" /\ target'[r] \notin before'[u])
  BY DEF Watched
<1>1. (Rotating(r) /\ target'[r] = target[r]) \/ \E s \in Sids : Present(r, s) /\ Live(s)
  <2>1. ASSUME NEW q \in Requests, Login(q) \/ Rotate(q) \/ Commit(q) \/ Fail(q) \/ Sweep(q)
                                     \/ LogoutAll(q) \/ Mark(q) \/ Follow(q)
        PROVE  Rotating(r) /\ target'[r] = target[r]
    BY <2>1, SessionAssumption DEF Login, Rotate, Commit, Fail, Sweep, LogoutAll, Mark, Follow,
       Rotating, IInv, TypeOK, Phases, Shape
  <2>2. ASSUME NEW q \in Requests, NEW s \in Sids, Logout(q, s)
        PROVE  Rotating(r) /\ target'[r] = target[r]
    BY <2>2, SessionAssumption DEF Logout, Rotating, IInv, TypeOK, Phases, Shape
  <2>3. ASSUME NEW q \in Requests, NEW s \in Sids, Present(q, s)
        PROVE  (Rotating(r) /\ target'[r] = target[r]) \/ (Present(r, s) /\ Live(s))
    <3>1. CASE q = r
      <4>1. pc'[r] \in {"mark", "failed"} \/ Live(s)
        BY <2>3, <3>1 DEF Present, IInv, TypeOK
      <4> QED BY <2>3, <3>1, <4>1 DEF Rotating
    <3>2. CASE q # r
      <4>1. pc'[r] = pc[r] /\ target'[r] = target[r] /\ new'[r] = new[r]
        BY <2>3, <3>2 DEF Present, IInv, TypeOK
      <4> QED BY <4>1 DEF Rotating
    <3> QED BY <3>1, <3>2
  <2>4. CASE UNCHANGED <<pc, target, new>>
    BY <2>4 DEF Rotating
  <2> QED BY <2>1, <2>2, <2>3, <2>4 DEF Next, vars, Expire
<1>2. CASE Sweep(u)
  <2>1. Rotating(r)
    <3>1. ASSUME NEW s \in Sids, Present(r, s) PROVE FALSE
      <4>1. pc[r] = "idle" /\ pc'[r] \in {"mark", "failed", "rotate"}
        BY <3>1 DEF Present, IInv, TypeOK
      <4>2. pc'[r] \in {pc[r], "closing"}
        BY <1>2 DEF Sweep, IInv, TypeOK
      <4> QED BY <4>1, <4>2
    <3> QED BY <1>1, <3>1
  <2>2. racers'[u] = {q \in Requests : Rotating(q)}
    BY <1>2 DEF Sweep, IInv, TypeOK
  <2> QED BY <2>1, <2>2
<1>3. CASE ~Sweep(u)
  <2>1. Purging(u) /\ before'[u] = before[u] /\ racers[u] \subseteq racers'[u]
        /\ (pc'[u] = pc[u] \/ Commit(u))
    BY <1>3, StepPurging
  <2>2. CASE Rotating(r) /\ target'[r] = target[r]
    BY <2>1, <2>2 DEF IInv, Watched, Purging, Commit, TypeOK
  <2>3. ASSUME NEW s \in Sids, Present(r, s), Live(s)
        PROVE  r \in racers'[u] \/ (pc'[u] = "done" /\ target'[r] \notin before'[u])
    <3>1. CASE pc[u] = "closing"
      BY <2>3, <3>1 DEF Present, Live, IInv, TypeOK
    <3>2. CASE pc[u] = "done"
      <4>1. target'[r] = s /\ s \notin before[u]
        BY <2>1, <2>3, <3>2 DEF Present, Live, IInv, TypeOK, Covered
      <4>2. pc'[u] = "done"
        BY <2>1, <3>2 DEF Commit
      <4> QED BY <2>1, <4>1, <4>2
    <3> QED BY <2>1, <3>1, <3>2 DEF Purging
  <2> QED BY <1>1, <2>2, <2>3
<1> QED BY <1>2, <1>3

LEMMA StepSpread == ASSUME IInv, [Next]_vars PROVE Spread'
<1> SUFFICES ASSUME NEW u \in Requests, Purging(u)', NEW s \in DOMAIN rows' \ before'[u],
                    rows'[s].line \cap before'[u] # {}
             PROVE  \E a \in rows'[s].line \ before'[u] : rows'[a].by \in racers'[u]
  BY DEF Spread, Traced
<1>1. CASE Sweep(u)
  BY <1>1 DEF Sweep, IInv, TypeOK
<1>2. CASE ~Sweep(u)
  <2>1. Purging(u) /\ before'[u] = before[u] /\ racers[u] \subseteq racers'[u]
    BY <1>2, StepPurging
  <2>2. ASSUME NEW c \in DOMAIN rows \ before[u], rows[c].line \cap before[u] # {}
        PROVE  \E a \in rows[c].line \ before[u] : rows'[a].by \in racers'[u]
    <3>1. PICK a \in rows[c].line \ before[u] : rows[a].by \in racers[u]
      BY <2>1, <2>2 DEF IInv, Spread, Traced
    <3>2. a \in DOMAIN rows
      BY <3>1 DEF IInv, Lines
    <3> QED BY <2>1, <3>1, <3>2, RowsKept DEF Kept
  <2>3. CASE s \in DOMAIN rows
    BY <2>1, <2>2, <2>3, RowsKept DEF Kept
  <2>4. CASE s \notin DOMAIN rows
    <3>1. PICK r \in Requests : Commit(r)
      BY <2>4 DEF Next, vars, Login, LogoutAll, Rotate, Mark, Follow, Sweep, Fail, Present,
         Logout, Expire
    <3>0. /\ DOMAIN rows' = DOMAIN rows \cup ({new[r]} \ {NoSid})
          /\ new[r] # NoSid => rows'[new[r]] = NewRow(r)
      BY <3>1, CommitRows
    <3>2. s = new[r] /\ s # NoSid /\ s \notin before[u]
      BY <2>1, <2>4, <3>0
    <3>3. rows'[s].by = r
          /\ rows'[s].line = {s} \cup (IF target[r] = NoSid THEN {} ELSE rows[target[r]].line)
      BY <3>0, <3>2, NewRowTypes
    <3>4. target[r] # NoSid /\ rows[target[r]].line \cap before[u] # {}
      BY <2>1, <3>2, <3>3
    <3>5. Rotating(r) /\ target[r] \in DOMAIN rows
      BY <3>1, <3>2, <3>4 DEF Rotating, Commit, IInv, TypeOK
    <3>6. CASE r \in racers[u]
      BY <2>1, <3>2, <3>3, <3>6
    <3>7. CASE target[r] \notin before[u]
      <4>1. \E a \in rows[target[r]].line \ before[u] : rows'[a].by \in racers'[u]
        BY <2>2, <3>4, <3>5, <3>7
      <4> QED BY <2>1, <3>3, <3>4, <4>1
    <3> QED BY <2>1, <3>5, <3>6, <3>7 DEF IInv, Watched
  <2> QED BY <2>3, <2>4
<1> QED BY <1>1, <1>2

LEMMA Inductive == Spec => []IInv
<1>1. IInv /\ [Next]_vars => IInv'
  BY StepTypes, StepPhases, StepDistinct, StepSuccessors, StepCovered, StepWatched, StepSpread
     DEF IInv
<1> QED BY InitIInv, <1>1, PTL DEF Spec

-------------------------------------------------------------------------------
\* The variables keep their types, and row locks exclude each other.
THEOREM TypeCorrect == Spec => []TypeOK
<1>1. IInv => TypeOK
  BY DEF IInv
<1> QED BY <1>1, Inductive, PTL

\* A token that still works has not been exchanged.
THEOREM LiveHasNoSuccessorHolds == Spec => []LiveHasNoSuccessor
<1>1. IInv => LiveHasNoSuccessor
  BY DEF IInv
<1> QED BY <1>1, Inductive, PTL

\* Reuse detection and logout everywhere are final, but for rotations under way.
THEOREM PurgeIsFinalHolds == Spec => []PurgeIsFinal
<1>1. ASSUME IInv, NEW u \in Requests, Purged(u), NEW s \in DOMAIN rows, ~rows[s].revoked
      PROVE  /\ s \notin before[u]
             /\ rows[s].line \cap before[u] # {} =>
                  \E a \in rows[s].line \ before[u] : rows[a].by \in racers[u]
  <2>1. Purging(u) /\ pc[u] = "done"
    BY <1>1 DEF Purged, Purging
  <2>2. s \notin before[u]
    BY <1>1, <2>1 DEF IInv, Covered
  <2> QED BY <1>1, <2>1, <2>2 DEF IInv, Spread, Traced
<1>2. IInv => PurgeIsFinal
  BY <1>1 DEF PurgeIsFinal
<1> QED BY <1>2, Inductive, PTL
===============================================================================
