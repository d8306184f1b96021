------------------------------ MODULE AuditChain ------------------------------
(***************************************************************************)
(* The tamper-evident audit log of one organization                        *)
(* (agentguard_api/audit_log.py) as concurrent HTTP requests write it.     *)
(*                                                                         *)
(* Every request is one database transaction (db.get_session): it commits  *)
(* when the handler returns and rolls back when it raises.  Inside it,     *)
(* record() takes the organization's advisory lock, reads the newest       *)
(* visible row and inserts a row that hashes over it.  Two facts of the    *)
(* database decide the outcome: occurred_at is `now()`, the START of the   *)
(* transaction, and the lock is a transaction lock, held until its end.    *)
(*                                                                         *)
(* A digest is abstracted as the name of the row it covers, with the       *)
(* content it was computed from: row.prev is the predecessor's id and      *)
(* row.sealed the agent_id that was hashed.  Ids are unique, so this       *)
(* naming is as injective as SHA-256 is assumed to be.                     *)
(***************************************************************************)
EXTENDS Naturals, FiniteSets

CONSTANTS
  Requests,    \* the HTTP requests that write audit events
  Agents,      \* agents an event may be about
  Deletable,   \* the agents an operator may delete (DELETE /v1/agents/{id})
  Ids,         \* the uuid4 primary keys rows may get (bounds the number of rows)
  Records,     \* record() calls each request makes at most
  NoRequest,   \* the advisory lock is free
  NoAgent,     \* a NULL agent_id
  Genesis      \* the prev_hash of the first row

ASSUME AuditAssumption ==
  /\ Ids \subseteq Nat
  /\ Genesis \notin Ids
  /\ NoRequest \notin Requests
  /\ Deletable \subseteq Agents
  /\ NoAgent \notin Agents
  /\ Records \in [Requests -> Nat]

VARIABLES
  clock,    \* the database clock, one tick per transaction begun
  pc,       \* pc[r]: where request r is
  began,    \* began[r]: the now() of r's transaction
  calls,    \* calls[r]: record() calls r has completed
  seen,     \* seen[r]: the prev_hash r has read and not used yet
  lock,     \* the request holding pg_advisory_xact_lock(hashtext(org))
  pending,  \* pending[r]: rows r has flushed and not committed
  audit,    \* the committed rows of audit_events
  agents    \* the agents that exist

vars == <<clock, pc, began, calls, seen, lock, pending, audit, agents>>

Phases == {"idle", "open", "waiting", "locked", "read", "done"}

\* A row of audit_events; `agent` is the column, `sealed` what its hash covers.
Rows == [id : Ids, at : Nat, agent : Agents \cup {NoAgent},
         prev : Ids \cup {Genesis}, sealed : Agents \cup {NoAgent}]

InFlight(r) == pc[r] \in {"open", "waiting", "locked", "read"}

\* The order verify_chain walks: occurred_at, then the random id.
Before(x, y) == x.at < y.at \/ (x.at = y.at /\ x.id < y.id)

\* READ COMMITTED: what everyone committed and what this request flushed.
Visible(r) == audit \cup pending[r]

AllRows == audit \cup UNION {pending[r] : r \in Requests}

UsedIds == {x.id : x \in AllRows}

-------------------------------------------------------------------------------
Init ==
  /\ clock = 0
  /\ pc = [r \in Requests |-> "idle"]
  /\ began = [r \in Requests |-> 0]
  /\ calls = [r \in Requests |-> 0]
  /\ seen = [r \in Requests |-> Genesis]
  /\ lock = NoRequest
  /\ pending = [r \in Requests |-> {}]
  /\ audit = {}
  /\ agents = Agents

\* The request's first statement opens the transaction and fixes its now().
Begin(r) ==
  /\ pc[r] = "idle"
  /\ clock' = clock + 1
  /\ began' = [began EXCEPT ![r] = clock + 1]
  /\ pc' = [pc EXCEPT ![r] = "open"]
  /\ UNCHANGED <<calls, seen, lock, pending, audit, agents>>

\* The handler calls record(), which asks for the lock first.
Record(r) ==
  /\ pc[r] = "open"
  /\ calls[r] < Records[r]
  /\ pc' = [pc EXCEPT ![r] = "waiting"]
  /\ UNCHANGED <<clock, began, calls, seen, lock, pending, audit, agents>>

LockGranted_Ignored(r) == TRUE

\* An advisory lock is reentrant for its holder and excludes everyone else.
LockGranted(r) == lock \in {NoRequest, r}

\* record(): SELECT pg_advisory_xact_lock(hashtext(org)) returns.
AcquireLock(r) ==
  /\ pc[r] = "waiting"
  /\ LockGranted(r)
  /\ lock' = r
  /\ pc' = [pc EXCEPT ![r] = "locked"]
  /\ UNCHANGED <<clock, began, calls, seen, pending, audit, agents>>

IsNewest_NoTieBreak(x, S) == \A y \in S : y.at <= x.at

IsNewest_Oldest(x, S) == \A y \in S : y = x \/ Before(x, y)

\* ORDER BY occurred_at DESC, id DESC LIMIT 1.
IsNewest(x, S) == \A y \in S : y = x \/ Before(y, x)

\* record(): read the hash to link to, GENESIS when there is no row.
ReadPrev(r) ==
  /\ pc[r] = "locked"
  /\ \/ /\ Visible(r) = {}
        /\ seen' = [seen EXCEPT ![r] = Genesis]
     \/ \E x \in Visible(r) :
          /\ IsNewest(x, Visible(r))
          /\ seen' = [seen EXCEPT ![r] = x.id]
  /\ pc' = [pc EXCEPT ![r] = "read"]
  /\ UNCHANGED <<clock, began, calls, lock, pending, audit, agents>>

\* record(): hash and flush the new row; its lock stays held.
Insert(r) ==
  /\ pc[r] = "read"
  /\ \E id \in Ids \ UsedIds, a \in agents \cup {NoAgent} :
       pending' = [pending EXCEPT ![r] = @ \cup
         {[id |-> id, at |-> began[r], agent |-> a,
           prev |-> seen[r], sealed |-> a]}]
  /\ calls' = [calls EXCEPT ![r] = @ + 1]
  /\ pc' = [pc EXCEPT ![r] = "open"]
  /\ UNCHANGED <<clock, began, seen, lock, audit, agents>>

Released_Kept(r) == lock

\* A transaction lock goes with its transaction.
Released(r) == IF lock = r THEN NoRequest ELSE lock

\* get_session: the handler returned, commit.
Commit(r) ==
  /\ pc[r] = "open"
  /\ audit' = audit \cup pending[r]
  /\ pending' = [pending EXCEPT ![r] = {}]
  /\ lock' = Released(r)
  /\ pc' = [pc EXCEPT ![r] = "done"]
  /\ UNCHANGED <<clock, began, calls, seen, agents>>

\* get_session: the handler raised (or the process died), roll back.
Rollback(r) ==
  /\ InFlight(r)
  /\ pending' = [pending EXCEPT ![r] = {}]
  /\ lock' = Released(r)
  /\ pc' = [pc EXCEPT ![r] = "done"]
  /\ UNCHANGED <<clock, began, calls, seen, audit, agents>>

DeleteAgent_Dangling(a) ==
  /\ a \in agents \cap Deletable
  /\ \A r \in Requests : \A x \in pending[r] : x.agent # a
  /\ agents' = agents \ {a}
  /\ UNCHANGED <<clock, pc, began, calls, seen, lock, pending, audit>>

\* DELETE /v1/agents/{id}: the foreign key of audit_events is ON DELETE SET
\* NULL; the delete waits for transactions whose new rows reference the agent.
DeleteAgent(a) ==
  /\ a \in agents \cap Deletable
  /\ \A r \in Requests : \A x \in pending[r] : x.agent # a
  /\ agents' = agents \ {a}
  /\ audit' = {IF x.agent = a THEN [x EXCEPT !.agent = NoAgent] ELSE x : x \in audit}
  /\ UNCHANGED <<clock, pc, began, calls, seen, lock, pending>>

\* A request going on; Rollback is a failure and never owed.
Proceed(r) == Record(r) \/ AcquireLock(r) \/ ReadPrev(r) \/ Insert(r) \/ Commit(r)

Next ==
  \/ \E r \in Requests : Begin(r) \/ Proceed(r) \/ Rollback(r)
  \/ \E a \in Agents : DeleteAgent(a)

Spec == Init /\ [][Next]_vars

\* A begun request runs on while nothing blocks it: the statements it awaits
\* return, the lock request as soon as the lock is free for it.
FairSpec == Spec /\ \A r \in Requests : WF_vars(Proceed(r))

-------------------------------------------------------------------------------
(* What verify_chain computes, and what the log promises.                  *)

\* x is the row verify_chain visits just before y.
Precedes(x, y, S) ==
  Before(x, y) /\ \A z \in S : ~(Before(x, z) /\ Before(z, y))

\* verify_chain: every row links to the row visited before it (the first to
\* GENESIS) and re-hashing its content gives the stored entry_hash.
Verifies(S) ==
  \A y \in S :
    /\ y.sealed = y.agent
    /\ IF \E x \in S : Before(x, y)
         THEN \E x \in S : Precedes(x, y, S) /\ y.prev = x.id
         ELSE y.prev = Genesis

\* Types, and the foreign key audit_events.agent_id -> agents.id.
TypeOK ==
  /\ clock \in Nat
  /\ pc \in [Requests -> Phases]
  /\ began \in [Requests -> Nat]
  /\ calls \in [Requests -> Nat]
  /\ seen \in [Requests -> Ids \cup {Genesis}]
  /\ lock \in Requests \cup {NoRequest}
  /\ pending \in [Requests -> SUBSET Rows]
  /\ audit \in SUBSET Rows
  /\ agents \in SUBSET Agents
  /\ \A x \in audit : x.agent \in agents \cup {NoAgent}

\* However the requests interleave, the committed log starts only once: no
\* two rows claim to be the first one.  This is what the advisory lock,
\* taken before the newest row is read and held until the commit, buys.
SingleRoot ==
  \A x, y \in audit : x.prev = Genesis /\ y.prev = Genesis => x.id = y.id

\* The log is linear: no two rows follow the same row.
\* (audit_log.py:5, "so the chain stays linear")
ChainLinear == \A x, y \in audit : x.prev = y.prev => x.id = y.id

\* What GET /v1/audit/verify reports of the log nobody tampered with.
ChainIntact == Verifies(audit)

\* A row linked to a row that verify_chain visits later.
Inverted(x) == \E y \in AllRows : y.id = x.prev /\ ~Before(y, x)

\* An honest log fails verification only through an inversion, a row linked
\* to one with a later (occurred_at, id), or through a deleted agent: with
\* neither, any interleaving of requests leaves it linear and verifiable.
IntactUnlessInverted ==
  (\A x \in audit : ~Inverted(x) /\ x.sealed = x.agent) => ChainIntact /\ ChainLinear

\* The committed log in the order verify_chain walks it: so many rows come
\* before the k-th.
Links(S) == {[id |-> x.id, at |-> x.at, prev |-> x.prev] : x \in S}
Earlier(x, S) == {y \in S : Before(y, x)}
Nth(S, k) == CHOOSE x \in S : Cardinality(Earlier(x, S)) = k - 1
Walked(S) == [k \in 1..Cardinality(S) |-> [id |-> Nth(S, k).id, prev |-> Nth(S, k).prev]]
Walk == Walked(Links(audit))

Log == INSTANCE LinearLog WITH log <- Walk

\* The log, read in the order GET /v1/audit/verify walks it, is the abstract
\* append-only log, step for step, for as long as no committed row is linked
\* to one the walk visits later: transactions only add linked rows after the
\* last one (audit_log.py, record).
AppendsUnlessInverted ==
  /\ Log!Init
  /\ [][(\A x \in audit : ~Inverted(x))' => Log!Extend]_Walk

\* No writer waits for the advisory lock for ever: every request that began
\* ends, however the lock passes between them.
EveryRequestEnds == \A r \in Requests : InFlight(r) ~> pc[r] = "done"
===============================================================================
