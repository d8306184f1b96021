-------------------------------- MODULE Sessions --------------------------------
(***************************************************************************)
(* The login sessions of one user (auth/service.py, auth/router.py):       *)
(* rotation of refresh tokens, detection of their reuse, logout.           *)
(*                                                                         *)
(* A session row stands for its refresh token.  Every request is one       *)
(* READ COMMITTED transaction: its SELECTs see what is committed, its      *)
(* UPDATEs wait for the transaction that last touched the row and then     *)
(* apply whatever that one did, and its rows show when it commits.         *)
(* rotate() checks the row before it updates it and the UPDATE does not    *)
(* repeat the check, so requests that pass the check together all rotate.  *)
(*                                                                         *)
(* line, by, before and racers are history; no step depends on them.       *)
(***************************************************************************)
EXTENDS Naturals, FiniteSets

CONSTANTS
  Requests,  \* requests of the user, or of whoever holds the tokens
  Sids,      \* session ids
  Roots,     \* sessions of earlier logins, live at the start
  NoSid,     \* a NULL previous_session_id, no session
  NoRequest  \* what made the sessions of earlier logins

ASSUME SessionAssumption ==
  /\ Roots \subseteq Sids
  /\ NoSid \notin Sids
  /\ NoRequest \notin Requests

VARIABLES
  rows,    \* sessions, as committed, by id
  pc,      \* pc[r]: where request r is
  target,  \* target[r]: the session r presents
  new,     \* new[r]: the session r has inserted, if any
  cursor,  \* cursor[r]: where r is in the family of a reused token
  held,    \* held[r]: rows r has updated, and so locked
  doomed,  \* doomed[r]: rows r has selected to revoke and not updated yet
  before,  \* before[r]: the sessions that existed when r selected the live ones
  racers   \* racers[r]: rotations under way between that SELECT and r's commit

vars == <<rows, pc, target, new, cursor, held, doomed, before, racers>>

Row == [prev : Sids \cup {NoSid}, revoked : BOOLEAN, expired : BOOLEAN,
        line : SUBSET Sids, by : Requests \cup {NoRequest}]

Live(s) == ~rows[s].revoked /\ ~rows[s].expired

\* An id of its own for each inserted session: they are uuid4.
FreshSids == Sids \ (DOMAIN rows \cup {new[r] : r \in Requests})

\* No other transaction has updated the row.
Unlocked_Ignored(s, r) == TRUE

Unlocked(s, r) == \A q \in Requests \ {r} : s \notin held[q]

\* A rotation that has passed its check and is not committed.
Rotating(r) == pc[r] = "rotate" \/ (pc[r] = "closing" /\ {target[r], new[r]} \subseteq Sids)

-------------------------------------------------------------------------------
Init ==
  /\ rows = [s \in Roots |-> [prev |-> NoSid, revoked |-> FALSE, expired |-> FALSE,
                              line |-> {s}, by |-> NoRequest]]
  /\ pc = [r \in Requests |-> "idle"]
  /\ target = [r \in Requests |-> NoSid]
  /\ new = [r \in Requests |-> NoSid]
  /\ cursor = [r \in Requests |-> NoSid]
  /\ held = [r \in Requests |-> {}]
  /\ doomed = [r \in Requests |-> {}]
  /\ before = [r \in Requests |-> {}]
  /\ racers = [r \in Requests |-> {}]

\* A new login, or a switch of organization: a session without a predecessor.
Login(r) ==
  /\ pc[r] = "idle"
  /\ \E s \in FreshSids : new' = [new EXCEPT ![r] = s]
  /\ pc' = [pc EXCEPT ![r] = "closing"]
  /\ UNCHANGED <<rows, target, cursor, held, doomed, before, racers>>

\* rotate: read the row of the presented token.  Revoked is taken for reuse,
\* before the expiry is looked at; expired is refused; live is rotated.
Present(r, s) ==
  /\ pc[r] = "idle"
  /\ s \in DOMAIN rows
  /\ target' = [target EXCEPT ![r] = s]
  /\ \/ /\ rows[s].revoked
        /\ pc' = [pc EXCEPT ![r] = "mark"]
        /\ cursor' = [cursor EXCEPT ![r] = s]
        /\ UNCHANGED racers
     \/ /\ ~rows[s].revoked /\ rows[s].expired
        /\ pc' = [pc EXCEPT ![r] = "failed"]
        /\ UNCHANGED <<cursor, racers>>
     \/ /\ Live(s)
        /\ pc' = [pc EXCEPT ![r] = "rotate"]
        /\ racers' = [u \in Requests |->
                        IF pc[u] = "closing" THEN racers[u] \cup {r} ELSE racers[u]]
        /\ UNCHANGED cursor
  /\ UNCHANGED <<rows, new, held, doomed, before>>

\* rotate: the flush of create_session revokes the old row, whatever has
\* become of it meanwhile, and inserts its successor.
Rotate(r) ==
  /\ pc[r] = "rotate"
  /\ Unlocked(target[r], r)
  /\ held' = [held EXCEPT ![r] = {target[r]}]
  /\ \E s \in FreshSids : new' = [new EXCEPT ![r] = s]
  /\ pc' = [pc EXCEPT ![r] = "closing"]
  /\ UNCHANGED <<rows, target, cursor, doomed, before, racers>>

\* _revoke_family: revoke the row under the cursor (flushed by the SELECT
\* for its successor).
Mark(r) ==
  /\ pc[r] = "mark"
  /\ Unlocked(cursor[r], r)
  /\ held' = [held EXCEPT ![r] = @ \cup {cursor[r]}]
  /\ pc' = [pc EXCEPT ![r] = "next"]
  /\ UNCHANGED <<rows, target, new, cursor, doomed, before, racers>>

Successors(s) == {c \in DOMAIN rows : rows[c].prev = s}

\* _revoke_family: on to a successor, one of them where there are several.
Follow(r) ==
  /\ pc[r] = "next"
  /\ \/ \E c \in Successors(cursor[r]) :
          /\ cursor' = [cursor EXCEPT ![r] = c]
          /\ pc' = [pc EXCEPT ![r] = "mark"]
     \/ /\ Successors(cursor[r]) = {}
        /\ pc' = [pc EXCEPT ![r] = "sweep"]
        /\ UNCHANGED cursor
  /\ UNCHANGED <<rows, target, new, held, doomed, before, racers>>

SelectLive_None(r) == {}

\* revoked_at IS NULL, as r sees it.
SelectLive(r) == {s \in DOMAIN rows : ~rows[s].revoked} \ held[r]

\* _revoke_family and revoke_all_for_user: select the user's live sessions.
Sweep(r) ==
  /\ pc[r] = "sweep"
  /\ doomed' = [doomed EXCEPT ![r] = SelectLive(r)]
  /\ before' = [before EXCEPT ![r] = DOMAIN rows]
  /\ racers' = [racers EXCEPT ![r] = {q \in Requests : Rotating(q)}]
  /\ pc' = [pc EXCEPT ![r] = "closing"]
  /\ UNCHANGED <<rows, target, new, cursor, held>>

\* The request comes with an access token of a live session.
Authenticated == \E s \in DOMAIN rows : Live(s)

\* logout, and DELETE /sessions/{id}: load one session, revoke it if it is not.
Logout(r, s) ==
  /\ pc[r] = "idle" /\ Authenticated
  /\ s \in DOMAIN rows
  /\ doomed' = [doomed EXCEPT ![r] = IF rows[s].revoked THEN {} ELSE {s}]
  /\ pc' = [pc EXCEPT ![r] = "closing"]
  /\ UNCHANGED <<rows, target, new, cursor, held, before, racers>>

\* logout with all_sessions.
LogoutAll(r) ==
  /\ pc[r] = "idle" /\ Authenticated
  /\ pc' = [pc EXCEPT ![r] = "sweep"]
  /\ UNCHANGED <<rows, target, new, cursor, held, doomed, before, racers>>

NewRow(r) ==
  [prev |-> target[r], revoked |-> FALSE, expired |-> FALSE, by |-> r,
   line |-> {new[r]} \cup IF target[r] = NoSid THEN {} ELSE rows[target[r]].line]

Revoked_PendingOnly(r) == doomed[r]

\* The rows r leaves revoked.
Revoked(r) == held[r] \cup doomed[r]

\* Flush what is pending, once no one else holds those rows, and commit: at
\* the end of the request, or in rotate() before it reports the reuse.
Commit(r) ==
  /\ pc[r] = "closing"
  /\ \A s \in doomed[r] : Unlocked(s, r)
  /\ rows' = [s \in DOMAIN rows \cup ({new[r]} \ {NoSid}) |->
       IF s = new[r] THEN NewRow(r)
       ELSE IF s \in Revoked(r) THEN [rows[s] EXCEPT !.revoked = TRUE]
       ELSE rows[s]]
  /\ held' = [held EXCEPT ![r] = {}]
  /\ doomed' = [doomed EXCEPT ![r] = {}]
  /\ pc' = [pc EXCEPT ![r] = "done"]
  /\ UNCHANGED <<target, new, cursor, before, racers>>

\* The request fails on its way (a lost connection, the victim of a database
\* deadlock) and its transaction is rolled back.
Fail(r) ==
  /\ pc[r] \in {"rotate", "mark", "next", "sweep", "closing"}
  /\ held' = [held EXCEPT ![r] = {}]
  /\ doomed' = [doomed EXCEPT ![r] = {}]
  /\ new' = [new EXCEPT ![r] = NoSid]
  /\ pc' = [pc EXCEPT ![r] = "failed"]
  /\ UNCHANGED <<rows, target, cursor, before, racers>>

\* expires_at passes.
Expire(s) ==
  /\ s \in DOMAIN rows /\ ~rows[s].expired
  /\ rows' = [rows EXCEPT ![s].expired = TRUE]
  /\ UNCHANGED <<pc, target, new, cursor, held, doomed, before, racers>>

Next ==
  \/ \E r \in Requests :
       \/ Login(r) \/ LogoutAll(r) \/ Rotate(r) \/ Mark(r) \/ Follow(r) \/ Sweep(r)
       \/ Commit(r) \/ Fail(r)
       \/ \E s \in Sids : Present(r, s) \/ Logout(r, s)
  \/ \E s \in Sids : Expire(s)

Spec == Init /\ [][Next]_vars

-------------------------------------------------------------------------------
\* Types; sessions succeed stored sessions; row locks exclude each other.
TypeOK ==
  /\ DOMAIN rows \subseteq Sids
  /\ rows \in [DOMAIN rows -> Row]
  /\ \A s \in DOMAIN rows : rows[s].prev \in DOMAIN rows \cup {NoSid}
  /\ pc \in [Requests -> {"idle", "rotate", "mark", "next", "sweep", "closing", "done", "failed"}]
  /\ target \in [Requests -> Sids \cup {NoSid}]
  /\ new \in [Requests -> Sids \cup {NoSid}]
  /\ cursor \in [Requests -> Sids \cup {NoSid}]
  /\ held \in [Requests -> SUBSET Sids]
  /\ doomed \in [Requests -> SUBSET Sids]
  /\ before \in [Requests -> SUBSET Sids]
  /\ racers \in [Requests -> SUBSET Requests]
  /\ \A r \in Requests :
       {target[r], cursor[r]} \cup held[r] \cup doomed[r] \cup before[r]
         \subseteq DOMAIN rows \cup {NoSid}
  /\ \A q, r \in Requests : q # r => held[q] \cap held[r] = {}

\* A token that still works has not been exchanged: every session with a
\* successor is revoked.  A token is exchanged twice only by requests that
\* both read it before either of them committed.  (auth/service.py, rotate)
LiveHasNoSuccessor ==
  \A s \in DOMAIN rows : rows[s].prev # NoSid => rows[rows[s].prev].revoked

\* r detected reuse, or logged out everywhere, and this is committed.
Purged(r) == pc[r] = "done" /\ before[r] # {}

\* Reuse detection and logout everywhere (_revoke_family, revoke_all_for_user)
\* are final, whatever rotations, logins, logouts and other purges run at the
\* same time: the sessions there were stay revoked, and a live session that
\* descends from one of them comes from a rotation that was under way between
\* the purge's SELECT and its commit.
PurgeIsFinal ==
  \A u \in Requests : Purged(u) =>
    \A s \in DOMAIN rows : ~rows[s].revoked =>
      /\ s \notin before[u]
      /\ rows[s].line \cap before[u] # {} =>
           \E a \in rows[s].line \ before[u] : rows[a].by \in racers[u]

\* Presenting an already-rotated refresh token revokes the entire session
\* family (docs/AUTH.md:28).
FamilyRevoked ==
  \A u \in Requests :
    Purged(u) /\ (\E c \in before[u] : rows[c].prev = target[u] /\ target[u] # NoSid) =>
      \A s \in DOMAIN rows : target[u] \in rows[s].line => rows[s].revoked
===============================================================================
