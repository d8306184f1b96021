------------------------------ MODULE PolicyCache ------------------------------
(***************************************************************************)
(* The Redis cache of one organization's policy set                        *)
(* (agentguard_api/runtime/loader.py) under concurrent policy writes.      *)
(*                                                                         *)
(* The policy set in the database is abstracted to the set of write        *)
(* transactions it reflects (create, update, delete, bind, unbind, and an  *)
(* incident's block_tool).  A writer flushes, increments `pver:{org}` and  *)
(* only then commits; a reader takes four awaits: version, blob, database, *)
(* SET with a TTL.  Everything can happen between any two of them.         *)
(*                                                                         *)
(* Time passes in ticks.  Nothing in the code bounds the delay between a   *)
(* reader's database read and its SET; Hold is the bound the staleness     *)
(* properties assume.  `gap`, `must` and `restarts` are history, no step   *)
(* of the code depends on them.                                            *)
(***************************************************************************)
EXTENDS Integers, FiniteSets

CONSTANTS
  Writes,      \* policy writes, each one transaction
  Readers,     \* evaluations reading the policy set
  TTL,         \* _CACHE_TTL, in ticks
  Hold,        \* longest delay from a reader's database read to its SET
  MaxRestarts  \* times Redis may restart empty

ASSUME CacheAssumption ==
  /\ TTL \in Nat \ {0}
  /\ Hold \in Nat
  /\ MaxRestarts \in Nat

VARIABLES
  write,     \* write[w]: where the transaction of w is
  age,       \* age[w]: ticks since w committed, up to Bound
  pver,      \* Redis pver:{org}, 0 when the key is absent
  blobs,     \* Redis pset:{org}:v*, the blobs that have not expired
  pc,        \* pc[r]: the await reader r is at
  ver,       \* ver[r]: the version r has read
  got,       \* got[r]: the policy set r has (the writes it reflects)
  gap,       \* gap[r]: writes bumped and not committed when r read the database
  hold,      \* hold[r]: ticks since r read the database
  must,      \* must[r]: writes that were committed Bound ticks when r began
  restarts   \* Redis restarts so far

reader == <<pc, ver, got, gap, hold, must>>
vars == <<write, age, pver, blobs, reader, restarts>>

\* The longest a committed write may go unenforced.
Bound == TTL + Hold

Committed == {w \in Writes : write[w] = "committed"}
Bumped == {w \in Writes : write[w] = "bumped"}

Blobs == [ver : Nat, val : SUBSET Writes, gap : SUBSET Writes, left : 1..TTL]

-------------------------------------------------------------------------------
Init ==
  /\ write = [w \in Writes |-> "idle"]
  /\ age = [w \in Writes |-> 0]
  /\ pver = 0
  /\ blobs = {}
  /\ pc = [r \in Readers |-> "idle"]
  /\ ver = [r \in Readers |-> 0]
  /\ got = [r \in Readers |-> {}]
  /\ gap = [r \in Readers |-> {}]
  /\ hold = [r \in Readers |-> 0]
  /\ must = [r \in Readers |-> {}]
  /\ restarts = 0

\* Flush the rows (nobody sees them yet), then INCR pver:{org}.
Bump(w) ==
  /\ write[w] = "idle"
  /\ write' = [write EXCEPT ![w] = "bumped"]
  /\ pver' = pver + 1
  /\ UNCHANGED <<age, blobs, reader, restarts>>

\* The handler returns (after its audit record): get_session commits.
Commit(w) ==
  /\ write[w] = "bumped"
  /\ write' = [write EXCEPT ![w] = "committed"]
  /\ UNCHANGED <<age, pver, blobs, reader, restarts>>

\* The handler fails after the bump (its audit record raised, the process
\* died): the rows are gone, the increment is not.
Rollback(w) ==
  /\ write[w] = "bumped"
  /\ write' = [write EXCEPT ![w] = "aborted"]
  /\ UNCHANGED <<age, pver, blobs, reader, restarts>>

\* _cached_bindings: GET pver:{org}, "0" when there is none.
ReadVersion(r) ==
  /\ pc[r] = "idle"
  /\ ver' = [ver EXCEPT ![r] = pver]
  /\ must' = [must EXCEPT ![r] = {w \in Committed : age[w] >= Bound}]
  /\ pc' = [pc EXCEPT ![r] = "get"]
  /\ UNCHANGED <<write, age, pver, blobs, got, gap, hold, restarts>>

\* _cached_bindings: GET the blob of that version, a hit or a miss.
ReadBlob(r) ==
  /\ pc[r] = "get"
  /\ \/ \E b \in blobs :
          /\ b.ver = ver[r]
          /\ got' = [got EXCEPT ![r] = b.val]
          /\ pc' = [pc EXCEPT ![r] = "done"]
     \/ /\ \A b \in blobs : b.ver # ver[r]
        /\ pc' = [pc EXCEPT ![r] = "load"]
        /\ UNCHANGED got
  /\ UNCHANGED <<write, age, pver, blobs, ver, gap, hold, must, restarts>>

\* _load_bindings: one SELECT, which sees what is committed.
Load(r) ==
  /\ pc[r] = "load"
  /\ got' = [got EXCEPT ![r] = Committed]
  /\ gap' = [gap EXCEPT ![r] = Bumped]
  /\ hold' = [hold EXCEPT ![r] = 0]
  /\ pc' = [pc EXCEPT ![r] = "store"]
  /\ UNCHANGED <<write, age, pver, blobs, ver, must, restarts>>

Stored_Adds(b) == blobs \cup {b}

Stored_NewestOnly(b) ==
  {c \in blobs : c.ver # b.ver} \cup {[b EXCEPT !.ver = pver]}

\* Redis SET replaces the key.
Stored(b) == {c \in blobs : c.ver # b.ver} \cup {b}

\* SET pset:{org}:v{version} ... EX 30, under the version read at the start.
Store(r) ==
  /\ pc[r] = "store"
  /\ blobs' = Stored([ver |-> ver[r], val |-> got[r], gap |-> gap[r], left |-> TTL])
  /\ pc' = [pc EXCEPT ![r] = "done"]
  /\ UNCHANGED <<write, age, pver, ver, got, gap, hold, must, restarts>>

\* The evaluation is over with this policy set, or failed in one of the
\* awaits; another one may begin.
Finish(r) ==
  /\ pc[r] # "idle"
  /\ pc' = [pc EXCEPT ![r] = "idle"]
  /\ got' = [got EXCEPT ![r] = {}]
  /\ gap' = [gap EXCEPT ![r] = {}]
  /\ must' = [must EXCEPT ![r] = {}]
  /\ ver' = [ver EXCEPT ![r] = 0]
  /\ hold' = [hold EXCEPT ![r] = 0]
  /\ UNCHANGED <<write, age, pver, blobs, restarts>>

Expired_Never == blobs

\* A tick takes one off every TTL; a blob whose TTL is up is gone.
Expired == {[b EXCEPT !.left = b.left - 1] : b \in {c \in blobs : c.left > 1}}

\* Time passes, as far as Hold lets it.
Tick ==
  /\ \A r \in Readers : pc[r] = "store" => hold[r] < Hold
  /\ age' = [w \in Writes |->
       IF write[w] = "committed" /\ age[w] < Bound THEN age[w] + 1 ELSE age[w]]
  /\ hold' = [r \in Readers |-> IF pc[r] = "store" THEN hold[r] + 1 ELSE hold[r]]
  /\ blobs' = Expired
  /\ UNCHANGED <<write, pver, pc, ver, got, gap, must, restarts>>

\* Redis restarts without its data: versions begin again at 0.
Restart ==
  /\ restarts < MaxRestarts
  /\ restarts' = restarts + 1
  /\ pver' = 0
  /\ blobs' = {}
  /\ UNCHANGED <<write, age, reader>>

ReadStep(r) == ReadBlob(r) \/ Load(r) \/ Store(r)

Next ==
  \/ \E w \in Writes : Bump(w) \/ Commit(w) \/ Rollback(w)
  \/ \E r \in Readers : ReadVersion(r) \/ ReadStep(r) \/ Finish(r)
  \/ Tick
  \/ Restart

Spec == Init /\ [][Next]_vars

-------------------------------------------------------------------------------
\* Types, one blob per key, and Hold bounding the time from load to SET.
TypeOK ==
  /\ write \in [Writes -> {"idle", "bumped", "committed", "aborted"}]
  /\ age \in [Writes -> 0..Bound]
  /\ pver \in Nat
  /\ blobs \in SUBSET Blobs
  /\ \A b, c \in blobs : b.ver = c.ver => b = c
  /\ pc \in [Readers -> {"idle", "get", "load", "store", "done"}]
  /\ ver \in [Readers -> Nat]
  /\ got \in [Readers -> SUBSET Writes]
  /\ gap \in [Readers -> SUBSET Writes]
  /\ hold \in [Readers -> 0..Hold]
  /\ must \in [Readers -> SUBSET Writes]
  /\ restarts \in 0..MaxRestarts

\* Writers bump the version BEFORE they commit, so a reader between the two
\* caches the old policy set under the new version.  That window is the only
\* way the blob of the current version can miss a committed write: a write
\* bumped after the load has moved the version on.  (A Redis that restarts
\* reuses version numbers; then only the TTL bounds staleness.)
StaleOnlyInWindow ==
  restarts = 0 =>
    \A b \in blobs : b.ver = pver => Committed \ b.val \subseteq b.gap

\* A policy committed at least TTL + Hold before an evaluation looks up the
\* policy set is in the set that evaluation decides with, whatever the order
\* of bumps, commits, loads, SETs and Redis restarts in between.
EnforcedInTime == \A r \in Readers : pc[r] = "done" => must[r] \subseteq got[r]
===============================================================================
