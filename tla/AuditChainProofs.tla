--------------------------- MODULE AuditChainProofs ---------------------------
(***************************************************************************)
(* Proofs about AuditChain, for any number of requests, rows and agents:   *)
(* its types, the single first row, that an honest log verifies unless a    *)
(* row was linked to one with a later timestamp or an agent was deleted,   *)
(* and that until then it implements the append-only LinearLog.            *)
(*                                                                         *)
(* The argument: whoever has flushed rows or stands between reading the    *)
(* newest row and inserting holds the lock (Exclusive), so what it read is *)
(* still the newest row when it inserts (Fresh); a new row then follows    *)
(* the newest one, which keeps the log linked unless the new row is older. *)
(* For the refinement: without inversion all uncommitted rows come after    *)
(* all committed ones (Later), so a commit leaves the places of the latter  *)
(* in the walk and adds the others behind them (NthStays, WalkExtended).    *)
(***************************************************************************)
EXTENDS AuditChain, Sequences, FiniteSetTheorems, TLAPS

\* Only the holder of the lock has rows in flight or a link it has read.
Exclusive ==
  \A r \in Requests :
    pc[r] \in {"locked", "read"} \/ pending[r] # {} => lock = r

\* The link a request has read names the newest row that exists.
Fresh ==
  \A r \in Requests : pc[r] = "read" =>
    \/ seen[r] = Genesis /\ Visible(r) = {}
    \/ \E x \in Visible(r) : IsNewest(x, Visible(r)) /\ seen[r] = x.id

Unique(S) == \A x, y \in S : x.id = y.id => x = y

OneRoot(S) == \A x, y \in S : x.prev = Genesis /\ y.prev = Genesis => x.id = y.id

NoInversion(S) == \A x, y \in S : y.id = x.prev => Before(y, x)

Linked(S) ==
  \A y \in S :
    IF \E x \in S : Before(x, y)
      THEN \E x \in S : Precedes(x, y, S) /\ y.prev = x.id
      ELSE y.prev = Genesis

\* What holds of the rows that exist and of the rows that are committed.
Chain(S) == OneRoot(S) /\ Unique(S) /\ (NoInversion(S) => Linked(S))

Types ==
  /\ TypeOK
  /\ \A x \in AllRows : x.agent \in agents \cup {NoAgent}

IInv == Types /\ Exclusive /\ Fresh /\ Chain(AllRows) /\ Chain(audit)

-------------------------------------------------------------------------------
\* The order of verify_chain is a strict total order on rows with distinct ids.
LEMMA BeforeOrder ==
  ASSUME NEW x \in Rows, NEW y \in Rows, NEW z \in Rows
  PROVE  /\ ~Before(x, x)
         /\ Before(x, y) => ~Before(y, x)
         /\ Before(x, y) /\ Before(y, z) => Before(x, z)
         /\ x.id # y.id => Before(x, y) \/ Before(y, x)
<1>1. /\ x.at \in Nat /\ y.at \in Nat /\ z.at \in Nat
      /\ x.id \in Nat /\ y.id \in Nat /\ z.id \in Nat
  BY AuditAssumption DEF Rows
<1> QED BY <1>1 DEF Before

\* Inserting a row that names the newest row (or Genesis, when there is none)
\* keeps the rows a chain: record() between its read and its flush.
LEMMA InsertKeepsChain ==
  ASSUME NEW S \in SUBSET Rows, NEW n \in Rows, Chain(S),
         \A x \in S : x.id # n.id,
         \/ n.prev = Genesis /\ S = {}
         \/ \E m \in S : IsNewest(m, S) /\ n.prev = m.id
  PROVE  Chain(S \cup {n})
<1> DEFINE T == S \cup {n}
<1>1. CASE n.prev = Genesis /\ S = {}
  <2>1. T = {n} /\ ~Before(n, n)
    BY <1>1, BeforeOrder
  <2>2. OneRoot(T) /\ Unique(T)
    BY <2>1 DEF OneRoot, Unique
  <2>3. Linked(T)
    BY <2>1, <1>1 DEF Linked
  <2> QED BY <2>2, <2>3 DEF Chain
<1>2. CASE \E m \in S : IsNewest(m, S) /\ n.prev = m.id
  <2>1. PICK m \in S : IsNewest(m, S) /\ n.prev = m.id
    BY <1>2
  <2>2. n.prev # Genesis
    BY <2>1, AuditAssumption DEF Rows
  <2>3. OneRoot(T) /\ Unique(T)
    BY <2>2 DEF OneRoot, Unique, Chain
  <2>4. ASSUME NoInversion(T)
        PROVE  Linked(T)
    <3>1. Before(m, n)
      BY <2>4, <2>1 DEF NoInversion
    <3>2. Linked(S)
      BY <2>4 DEF NoInversion, Chain
    <3>3. \A z \in S : ~Before(m, z) /\ ~Before(n, z)
      BY <2>1, <3>1, BeforeOrder DEF IsNewest
    <3>4. ~Before(n, n)
      BY BeforeOrder
    <3>5. Precedes(m, n, T)
      BY <3>1, <3>3, <3>4 DEF Precedes
    <3>6. ASSUME NEW y \in S
          PROVE  IF \E x \in T : Before(x, y)
                   THEN \E x \in T : Precedes(x, y, T) /\ y.prev = x.id
                   ELSE y.prev = Genesis
      <4>1. CASE \E x \in S : Before(x, y)
        <5>1. PICK x \in S : Precedes(x, y, S) /\ y.prev = x.id
          BY <4>1, <3>2 DEF Linked
        <5>2. Precedes(x, y, T)
          BY <5>1, <3>3 DEF Precedes
        <5> QED BY <5>1, <5>2, <4>1
      <4>2. CASE ~\E x \in S : Before(x, y)
        BY <4>2, <3>2, <3>3 DEF Linked
      <4> QED BY <4>1, <4>2
    <3>7. IF \E x \in T : Before(x, n)
            THEN \E x \in T : Precedes(x, n, T) /\ n.prev = x.id
            ELSE n.prev = Genesis
      BY <2>1, <3>1, <3>5
    <3> QED BY <3>6, <3>7 DEF Linked
  <2> QED BY <2>3, <2>4 DEF Chain
<1> QED BY <1>1, <1>2

\* Whatever keeps id, timestamp and link of every row keeps the chain: the
\* foreign key of a deleted agent empties the column of its rows.
LEMMA ErasureKeepsChain ==
  ASSUME NEW S \in SUBSET Rows, NEW a \in Agents, Chain(S)
  PROVE  Chain({IF x.agent = a THEN [x EXCEPT !.agent = NoAgent] ELSE x : x \in S})
<1> DEFINE f(x) == IF x.agent = a THEN [x EXCEPT !.agent = NoAgent] ELSE x
           T == {f(x) : x \in S}
<1>1. \A x \in S : f(x).id = x.id /\ f(x).at = x.at /\ f(x).prev = x.prev
  BY DEF Rows
<1>2. \A x, y \in S : Before(f(x), f(y)) <=> Before(x, y)
  BY <1>1 DEF Before
<1>3. \A u \in T : \E x \in S : u = f(x)
  OBVIOUS
<1>4. \A x \in S : f(x) \in T
  OBVIOUS
<1> HIDE DEF f, T
<1>5. OneRoot(T) /\ Unique(T)
  BY <1>1, <1>3 DEF OneRoot, Unique, Chain
<1>6. ASSUME NoInversion(T)
      PROVE  Linked(T)
  <2>1. NoInversion(S)
    BY <1>6, <1>1, <1>2, <1>4 DEF NoInversion
  <2>2. Linked(S)
    BY <2>1 DEF Chain
  <2>3. ASSUME NEW y \in S
        PROVE  IF \E u \in T : Before(u, f(y))
                 THEN \E u \in T : Precedes(u, f(y), T) /\ f(y).prev = u.id
                 ELSE f(y).prev = Genesis
    <3>1. CASE \E x \in S : Before(x, y)
      <4>1. PICK x \in S : Precedes(x, y, S) /\ y.prev = x.id
        BY <3>1, <2>2 DEF Linked
      <4>2. Precedes(f(x), f(y), T)
        BY <4>1, <1>2, <1>3 DEF Precedes
      <4> QED BY <4>1, <4>2, <1>1, <1>2, <1>4, <3>1
    <3>2. CASE ~\E x \in S : Before(x, y)
      BY <3>2, <2>2, <1>1, <1>2, <1>3 DEF Linked
    <3> QED BY <3>1, <3>2
  <2> QED BY <2>3, <1>3 DEF Linked
<1>7. Chain(T)
  BY <1>5, <1>6 DEF Chain
<1> QED BY <1>7 DEF T, f

-------------------------------------------------------------------------------
LEMMA InitIInv == Init => IInv
BY AuditAssumption DEF Init, IInv, Types, TypeOK, Exclusive, Fresh, Chain, OneRoot, Unique,
     Linked, AllRows, Phases

LEMMA StepIInv == IInv /\ [Next]_vars => IInv'
<1> SUFFICES ASSUME IInv, [Next]_vars PROVE IInv'
  OBVIOUS
<1> USE DEF IInv
<1>1. ASSUME NEW r \in Requests, Begin(r) PROVE IInv'
  <2> USE <1>1 DEF Begin
  <2>1. Types'
    BY DEF Types, TypeOK, Phases, AllRows
  <2>2. Exclusive' /\ Fresh'
    BY DEF Exclusive, Fresh, Visible, Types, TypeOK
  <2>3. Chain(AllRows)' /\ Chain(audit)'
    BY DEF AllRows, Chain, OneRoot, Unique, NoInversion, Linked, Precedes, Before
  <2> QED BY <2>1, <2>2, <2>3
<1>2. ASSUME NEW r \in Requests, Record(r) PROVE IInv'
  <2> USE <1>2 DEF Record
  <2>1. Types'
    BY DEF Types, TypeOK, Phases, AllRows
  <2>2. Exclusive' /\ Fresh'
    BY DEF Exclusive, Fresh, Visible, Types, TypeOK
  <2>3. Chain(AllRows)' /\ Chain(audit)'
    BY DEF AllRows, Chain, OneRoot, Unique, NoInversion, Linked, Precedes, Before
  <2> QED BY <2>1, <2>2, <2>3
<1>3. ASSUME NEW r \in Requests, AcquireLock(r) PROVE IInv'
  <2> USE <1>3 DEF AcquireLock
  <2>1. Types'
    BY DEF Types, TypeOK, Phases, AllRows
  <2>2. Exclusive'
    BY AuditAssumption DEF Exclusive, LockGranted, Types, TypeOK
  <2>3. Fresh'
    BY DEF Fresh, Visible, Types, TypeOK
  <2>4. Chain(AllRows)' /\ Chain(audit)'
    BY DEF AllRows, Chain, OneRoot, Unique, NoInversion, Linked, Precedes, Before
  <2> QED BY <2>1, <2>2, <2>3, <2>4
<1>4. ASSUME NEW r \in Requests, ReadPrev(r) PROVE IInv'
  <2> USE <1>4 DEF ReadPrev
  <2>0. Visible(r) \in SUBSET Rows
    BY DEF Visible, Types, TypeOK
  <2>1. Types'
    BY <2>0 DEF Types, TypeOK, Phases, AllRows, Rows
  <2>2. Exclusive'
    BY DEF Exclusive, Types, TypeOK
  <2>3. Fresh'
    <3> SUFFICES ASSUME NEW q \in Requests, pc'[q] = "read"
                 PROVE  \/ seen'[q] = Genesis /\ Visible(q) = {}
                        \/ \E x \in Visible(q) : IsNewest(x, Visible(q)) /\ seen'[q] = x.id
      BY DEF Fresh, Visible, IsNewest, Before
    <3>1. CASE q = r
      BY <3>1 DEF Types, TypeOK
    <3>2. CASE q # r
      BY <3>2 DEF Fresh, Types, TypeOK
    <3> QED BY <3>1, <3>2
  <2>4. Chain(AllRows)' /\ Chain(audit)'
    BY DEF AllRows, Chain, OneRoot, Unique, NoInversion, Linked, Precedes, Before
  <2> QED BY <2>1, <2>2, <2>3, <2>4
<1>5. ASSUME NEW r \in Requests, Insert(r) PROVE IInv'
  <2>1. PICK id \in Ids \ UsedIds, a \in agents \cup {NoAgent} :
          pending' = [pending EXCEPT ![r] = @ \cup
            {[id |-> id, at |-> began[r], agent |-> a, prev |-> seen[r], sealed |-> a]}]
    BY <1>5 DEF Insert
  <2> DEFINE n == [id |-> id, at |-> began[r], agent |-> a, prev |-> seen[r], sealed |-> a]
  <2>2. n \in Rows
    BY DEF Types, TypeOK, Rows
  <2>3. /\ AllRows' = AllRows \cup {n}
        /\ pending' = [pending EXCEPT ![r] = pending[r] \cup {n}]
    BY <2>1, <1>5 DEF AllRows, Types, TypeOK, Insert
  <2>4. lock = r /\ pc[r] = "read" /\ Visible(r) = AllRows
    BY <1>5 DEF Insert, Exclusive, Visible, AllRows
  <2>5. Types'
    <3>1. pending' \in [Requests -> SUBSET Rows]
      BY <2>2, <2>3 DEF Types, TypeOK
    <3>2. \A x \in AllRows' : x.agent \in agents \cup {NoAgent}
      BY <2>3 DEF Types
    <3> QED BY <3>1, <3>2, <1>5 DEF Insert, Types, TypeOK, Phases
  <2>6. Exclusive'
    BY <2>3, <2>4, <1>5 DEF Insert, Exclusive, Types, TypeOK
  <2>7. Fresh'
    <3> SUFFICES ASSUME NEW q \in Requests, pc'[q] = "read" PROVE FALSE
      BY DEF Fresh
    <3> QED BY <2>4, <1>5 DEF Insert, Exclusive, Types, TypeOK
  <2>8. Chain(AllRows \cup {n})
    <3>1. AllRows \in SUBSET Rows
      BY DEF AllRows, Types, TypeOK
    <3>2. \A x \in AllRows : x.id # n.id
      BY DEF UsedIds
    <3>3. \/ n.prev = Genesis /\ AllRows = {}
          \/ \E m \in AllRows : IsNewest(m, AllRows) /\ n.prev = m.id
      BY <2>4 DEF Fresh
    <3> HIDE DEF n
    <3> QED BY <3>1, <3>2, <3>3, <2>2, InsertKeepsChain
  <2>9. Chain(AllRows)'
    BY <2>8, <2>3 DEF Chain, OneRoot, Unique, NoInversion, Linked, Precedes, Before
  <2>10. Chain(audit)'
    BY <1>5 DEF Insert, Chain, OneRoot, Unique, NoInversion, Linked, Precedes, Before
  <2> QED BY <2>5, <2>6, <2>7, <2>9, <2>10
<1>6. ASSUME NEW r \in Requests, Commit(r) PROVE IInv'
  <2> USE <1>6 DEF Commit
  <2>1. AllRows' = AllRows
    BY DEF AllRows, Types, TypeOK
  <2>2. audit' = audit \/ audit' = AllRows
    BY DEF AllRows, Exclusive
  <2>3. Types'
    BY <2>1, <2>2 DEF Types, TypeOK, Phases, Released, AllRows
  <2>4. Exclusive'
    BY DEF Exclusive, Released, Types, TypeOK
  <2>5. Fresh'
    <3> SUFFICES ASSUME NEW q \in Requests, pc'[q] = "read"
                 PROVE  /\ pc[q] = "read" /\ audit' = audit
                        /\ pending'[q] = pending[q] /\ seen'[q] = seen[q]
      BY DEF Fresh, Visible, IsNewest, Before
    <3> QED BY DEF Exclusive, Types, TypeOK
  <2>6. Chain(AllRows)'
    BY <2>1 DEF Chain, OneRoot, Unique, NoInversion, Linked, Precedes, Before
  <2>7. Chain(audit')
    BY <2>2
  <2>8. Chain(audit)'
    BY <2>7 DEF Chain, OneRoot, Unique, NoInversion, Linked, Precedes, Before
  <2> QED BY <2>3, <2>4, <2>5, <2>6, <2>8
<1>7. ASSUME NEW r \in Requests, Rollback(r) PROVE IInv'
  <2> USE <1>7 DEF Rollback
  <2>1. AllRows' = AllRows \/ AllRows' = audit
    BY DEF AllRows, Exclusive, Types, TypeOK
  <2>2. Types'
    BY <2>1 DEF Types, TypeOK, Phases, Released
  <2>3. Exclusive'
    BY DEF Exclusive, Released, Types, TypeOK
  <2>4. Fresh'
    <3> SUFFICES ASSUME NEW q \in Requests, pc'[q] = "read"
                 PROVE  /\ pc[q] = "read" /\ audit' = audit
                        /\ pending'[q] = pending[q] /\ seen'[q] = seen[q]
      BY DEF Fresh, Visible, IsNewest, Before
    <3> QED BY DEF Exclusive, Types, TypeOK
  <2>5. Chain(AllRows') /\ Chain(audit)
    BY <2>1
  <2>6. Chain(AllRows)' /\ Chain(audit)'
    BY <2>5 DEF Chain, OneRoot, Unique, NoInversion, Linked, Precedes, Before
  <2> QED BY <2>2, <2>3, <2>4, <2>6
<1>8. ASSUME NEW a \in Agents, DeleteAgent(a) PROVE IInv'
  <2> DEFINE f(x) == IF x.agent = a THEN [x EXCEPT !.agent = NoAgent] ELSE x
  <2> USE <1>8 DEF DeleteAgent
  <2>1. audit' = {f(x) : x \in audit}
    OBVIOUS
  <2>2. AllRows' = {f(x) : x \in AllRows}
    <3>1. \A q \in Requests : \A x \in pending[q] : f(x) = x
      OBVIOUS
    <3> QED BY <2>1, <3>1 DEF AllRows
  <2>3. AllRows \in SUBSET Rows /\ audit \in SUBSET Rows
    BY DEF AllRows, Types, TypeOK
  <2>4. \A x \in Rows : f(x) \in Rows /\ f(x).agent # a
    BY AuditAssumption DEF Rows
  <2>5. \A x \in Rows : /\ f(x).id = x.id /\ f(x).at = x.at
                        /\ f(x).agent \in {x.agent, NoAgent}
    BY DEF Rows
  <2>6. Types'
    <3>1. \A x \in AllRows' : x.agent \in agents' \cup {NoAgent}
      BY <2>2, <2>3, <2>4, <2>5 DEF Types
    <3>2. audit' \in SUBSET Rows
      BY <2>1, <2>3, <2>4
    <3>3. \A x \in audit' : x.agent \in agents' \cup {NoAgent}
      BY <3>1 DEF AllRows
    <3> QED BY <3>1, <3>2, <3>3 DEF Types, TypeOK
  <2>7. Exclusive'
    BY DEF Exclusive
  <2>8. Fresh'
    <3> SUFFICES ASSUME NEW q \in Requests, pc[q] = "read"
                 PROVE  \/ seen[q] = Genesis /\ Visible(q)' = {}
                        \/ \E x \in Visible(q)' : IsNewest(x, Visible(q)') /\ seen[q] = x.id
      BY DEF Fresh, IsNewest, Before
    <3>1. Visible(q)' = {f(x) : x \in Visible(q)} /\ Visible(q) \in SUBSET Rows
      BY <2>1, <2>3 DEF Visible, AllRows
    <3>2. CASE seen[q] = Genesis /\ Visible(q) = {}
      BY <3>1, <3>2
    <3>3. CASE \E x \in Visible(q) : IsNewest(x, Visible(q)) /\ seen[q] = x.id
      <4>1. PICK x \in Visible(q) : IsNewest(x, Visible(q)) /\ seen[q] = x.id
        BY <3>3
      <4> HIDE DEF f
      <4>2. IsNewest(f(x), Visible(q)') /\ f(x).id = x.id /\ f(x) \in Visible(q)'
        BY <4>1, <3>1, <2>5 DEF IsNewest, Before
      <4> QED BY <4>1, <4>2
    <3> QED BY <3>2, <3>3 DEF Fresh
  <2>9. Chain({f(x) : x \in AllRows}) /\ Chain({f(x) : x \in audit})
    BY <2>3, ErasureKeepsChain
  <2>10. Chain(AllRows') /\ Chain(audit')
    BY <2>1, <2>2, <2>9
  <2>11. Chain(AllRows)' /\ Chain(audit)'
    BY <2>10 DEF Chain, OneRoot, Unique, NoInversion, Linked, Precedes, Before
  <2> QED BY <2>6, <2>7, <2>8, <2>11
<1>9. CASE UNCHANGED vars
  BY <1>9 DEF vars, Types, TypeOK, Phases, Exclusive, Fresh, Visible, IsNewest, AllRows, Chain,
     OneRoot, Unique, NoInversion, Linked, Precedes, Before
<1> QED
  BY <1>1, <1>2, <1>3, <1>4, <1>5, <1>6, <1>7, <1>8, <1>9 DEF Next, Proceed

LEMMA Inductive == Spec => []IInv
BY InitIInv, StepIInv, PTL DEF Spec

-------------------------------------------------------------------------------
\* The variables keep their types and audit_events.agent_id never dangles.
THEOREM TypeCorrect == Spec => []TypeOK
<1>1. IInv => TypeOK
  BY DEF IInv, Types
<1> QED BY <1>1, Inductive, PTL

\* The committed log has one first row, however requests interleave: the
\* advisory lock of record() spans the read, the insert and the commit.
THEOREM SingleRootHolds == Spec => []SingleRoot
<1>1. IInv => SingleRoot
  BY DEF IInv, Chain, OneRoot, SingleRoot
<1> QED BY <1>1, Inductive, PTL

\* Only an inversion or a deleted agent makes GET /v1/audit/verify reject an
\* honest log, or makes two rows follow the same one.
THEOREM IntactUnlessInvertedHolds == Spec => []IntactUnlessInverted
<1>1. ASSUME IInv, \A x \in audit : ~Inverted(x) /\ x.sealed = x.agent
      PROVE  ChainIntact /\ ChainLinear
  <2>1. audit \subseteq AllRows /\ audit \in SUBSET Rows
    BY <1>1 DEF AllRows, IInv, Types, TypeOK
  <2>2. Linked(audit) /\ Unique(audit)
    BY <1>1, <2>1 DEF IInv, Chain, NoInversion, Inverted
  <2>3. ChainIntact
    BY <1>1, <2>2 DEF Linked, ChainIntact, Verifies
  <2>4. ChainLinear
    <3> SUFFICES ASSUME NEW x \in audit, NEW y \in audit, x.prev = y.prev, x.id # y.id
                 PROVE  FALSE
      BY DEF ChainLinear
    <3>1. x \in Rows /\ y \in Rows /\ (Before(x, y) \/ Before(y, x))
      BY <2>1, BeforeOrder
    <3>2. \A z \in audit : z.id # Genesis
      BY <2>1, AuditAssumption DEF Rows
    <3>3. CASE Before(x, y)
      <4>1. PICK u \in audit : Precedes(u, y, audit) /\ y.prev = u.id
        BY <3>3, <2>2 DEF Linked
      <4>2. Precedes(u, x, audit)
        BY <4>1, <3>2, <2>2 DEF Linked, Unique
      <4> QED BY <4>1, <4>2, <3>3 DEF Precedes
    <3>4. CASE Before(y, x)
      <4>1. PICK u \in audit : Precedes(u, x, audit) /\ x.prev = u.id
        BY <3>4, <2>2 DEF Linked
      <4>2. Precedes(u, y, audit)
        BY <4>1, <3>2, <2>2 DEF Linked, Unique
      <4> QED BY <4>1, <4>2, <3>4 DEF Precedes
    <3> QED BY <3>1, <3>3, <3>4
  <2> QED BY <2>3, <2>4
<1>2. IInv => IntactUnlessInverted
  BY <1>1 DEF IntactUnlessInverted
<1> QED BY <1>2, Inductive, PTL

-------------------------------------------------------------------------------
(* The walk, and the abstract log it implements.                           *)

\* Rows in a total order.
Ordered(S) ==
  /\ IsFiniteSet(S)
  /\ \A x, y, z \in S :
       /\ ~Before(x, x)
       /\ Before(x, y) /\ Before(y, z) => Before(x, z)
       /\ x # y => Before(x, y) \/ Before(y, x)

LEMMA NthIs ==
  ASSUME NEW S, Ordered(S)
  PROVE  /\ Cardinality(S) \in Nat
         /\ \A x \in S : Cardinality(Earlier(x, S)) \in 0..(Cardinality(S) - 1)
         /\ \A x, y \in S : Cardinality(Earlier(x, S)) = Cardinality(Earlier(y, S)) => x = y
         /\ \A k \in 1..Cardinality(S) : Nth(S, k) \in S /\ Cardinality(Earlier(Nth(S, k), S)) = k - 1
<1> DEFINE n == Cardinality(S)
           rank == [x \in S |-> Cardinality(Earlier(x, S)) + 1]
<1>1. IsFiniteSet(S) /\ n \in Nat
  BY FS_CardinalityType DEF Ordered
<1>2. \A x \in S : IsFiniteSet(Earlier(x, S)) /\ Cardinality(Earlier(x, S)) \in Nat
  <2>1. \A x \in S : Earlier(x, S) \in SUBSET S
    BY DEF Earlier
  <2> QED
    BY <1>1, <2>1, FS_Subset, FS_CardinalityType
<1>3. ASSUME NEW x \in S PROVE Cardinality(Earlier(x, S)) \in 0..(n - 1)
  <2>1. Earlier(x, S) \in SUBSET (S \ {x})
    BY DEF Earlier, Ordered
  <2>2. IsFiniteSet(S \ {x}) /\ Cardinality(S \ {x}) = n - 1
    BY <1>1, FS_RemoveElement
  <2>3. Cardinality(Earlier(x, S)) <= n - 1
    BY <2>1, <2>2, FS_Subset
  <2> QED
    BY <1>1, <1>2, <2>3
<1>4. ASSUME NEW x \in S, NEW y \in S, Before(x, y)
      PROVE  Cardinality(Earlier(x, S)) < Cardinality(Earlier(y, S))
  <2>1. Earlier(x, S) \in SUBSET Earlier(y, S)
    BY <1>4 DEF Earlier, Ordered
  <2>2. x \in Earlier(y, S) /\ x \notin Earlier(x, S)
    BY <1>4 DEF Earlier, Ordered
  <2>3. Cardinality(Earlier(x, S)) <= Cardinality(Earlier(y, S))
        /\ Cardinality(Earlier(x, S)) # Cardinality(Earlier(y, S))
    BY <1>2, <2>1, <2>2, FS_Subset
  <2> QED
    BY <1>2, <2>3
<1>5. ASSUME NEW x \in S, NEW y \in S, Cardinality(Earlier(x, S)) = Cardinality(Earlier(y, S))
      PROVE  x = y
  <2> SUFFICES ASSUME x # y PROVE FALSE
    OBVIOUS
  <2>1. Before(x, y) \/ Before(y, x)
    BY DEF Ordered
  <2> QED
    BY <1>2, <1>4, <1>5, <2>1
<1>6. rank \in Injection(S, 1..n)
  <2>1. \A x \in S : rank[x] \in 1..n
    BY <1>1, <1>3
  <2>2. \A x, y \in S : rank[x] = rank[y] => x = y
    BY <1>2, <1>5
  <2> QED
    BY <2>1, <2>2 DEF Injection, IsInjective
<1>7. IsFiniteSet(1..n) /\ Cardinality(1..n) = n
  BY <1>1, FS_Interval
<1>8. rank \in Surjection(S, 1..n)
  BY <1>6, <1>7, FS_Injection
<1>9. ASSUME NEW k \in 1..n PROVE Nth(S, k) \in S /\ Cardinality(Earlier(Nth(S, k), S)) = k - 1
  <2>1. PICK x \in S : rank[x] = k
    BY <1>8 DEF Surjection
  <2>2. Cardinality(Earlier(x, S)) = k - 1
    BY <1>2, <2>1
  <2> QED
    BY <2>2 DEF Nth
<1> QED
  BY <1>1, <1>3, <1>5, <1>9

LEMMA NthIsOnly ==
  ASSUME NEW S, Ordered(S), NEW x \in S, NEW k \in 1..Cardinality(S), Cardinality(Earlier(x, S)) = k - 1
  PROVE  Nth(S, k) = x
BY NthIs

\* What comes after all there is leaves the places there are.
LEMMA NthStays ==
  ASSUME NEW S, NEW T, Ordered(T), S \subseteq T, \A x \in S, y \in T \ S : Before(x, y)
  PROVE  /\ Ordered(S) /\ Cardinality(S) <= Cardinality(T) /\ (S # T => Cardinality(S) < Cardinality(T))
         /\ \A k \in 1..Cardinality(S) : Nth(S, k) = Nth(T, k)
<1>1. IsFiniteSet(T) /\ S \in SUBSET T
  BY DEF Ordered
<1>2. Ordered(S)
  BY <1>1, FS_Subset DEF Ordered
<1>3. /\ Cardinality(S) \in Nat /\ Cardinality(T) \in Nat /\ Cardinality(S) <= Cardinality(T)
      /\ (S # T => Cardinality(S) < Cardinality(T))
  BY <1>1, <1>2, NthIs, FS_Subset
<1>4. ASSUME NEW x \in S PROVE Earlier(x, S) = Earlier(x, T)
  BY DEF Earlier, Ordered
<1>5. ASSUME NEW k \in 1..Cardinality(S) PROVE Nth(S, k) = Nth(T, k)
  <2>1. Nth(S, k) \in S /\ Cardinality(Earlier(Nth(S, k), S)) = k - 1
    BY <1>2, NthIs
  <2>2. Nth(S, k) \in T /\ Cardinality(Earlier(Nth(S, k), T)) = k - 1 /\ k \in 1..Cardinality(T)
    BY <1>3, <1>4, <2>1
  <2> QED
    BY <2>2, NthIsOnly
<1> QED
  BY <1>2, <1>3, <1>5

\* A linked set of rows, walked, is linked.
LEMMA NthLinked ==
  ASSUME NEW S, Ordered(S), Linked(S), NEW k \in 1..Cardinality(S)
  PROVE  Nth(S, k).prev = IF k = 1 THEN Genesis ELSE Nth(S, k - 1).id
<1>1. PICK y : y = Nth(S, k)
  OBVIOUS
<1>2. y \in S /\ Cardinality(Earlier(y, S)) = k - 1 /\ Cardinality(S) \in Nat
  BY <1>1, NthIs
<1>3. IsFiniteSet(Earlier(y, S))
  <2>1. Earlier(y, S) \in SUBSET S /\ IsFiniteSet(S)
    BY DEF Earlier, Ordered
  <2> QED
    BY <2>1, FS_Subset
<1>4. CASE k = 1
  <2>1. Earlier(y, S) = {}
    BY <1>2, <1>3, <1>4, FS_EmptySet
  <2>2. ~\E x \in S : Before(x, y)
    BY <2>1 DEF Earlier
  <2>3. y.prev = Genesis
    BY <1>2, <2>2 DEF Linked
  <2> QED
    BY <1>1, <1>4, <2>3
<1>5. CASE k # 1
  <2>1. Earlier(y, S) # {}
    BY <1>2, <1>5, FS_EmptySet
  <2>2. \E x \in S : Before(x, y)
    BY <2>1 DEF Earlier
  <2>3. PICK x \in S : Precedes(x, y, S) /\ y.prev = x.id
    BY <1>2, <2>2 DEF Linked
  <2>4. Earlier(y, S) = Earlier(x, S) \cup {x} /\ x \notin Earlier(x, S)
    BY <1>2, <2>3 DEF Earlier, Precedes, Ordered
  <2>5. IsFiniteSet(Earlier(x, S)) /\ Cardinality(Earlier(x, S)) \in Nat
    <3>1. Earlier(x, S) \in SUBSET S /\ IsFiniteSet(S)
      BY DEF Earlier, Ordered
    <3> QED
      BY <3>1, FS_Subset, FS_CardinalityType
  <2>6. Cardinality(Earlier(x, S)) = (k - 1) - 1
    BY <1>2, <2>4, <2>5, FS_AddElement
  <2>7. k - 1 \in 1..Cardinality(S)
    BY <1>2, <1>5
  <2>8. Nth(S, k - 1) = x
    BY <2>6, <2>7, NthIsOnly
  <2> QED
    BY <1>1, <1>5, <2>3, <2>8
<1> QED
  BY <1>4, <1>5

LEMMA LinksOrdered ==
  ASSUME NEW S \in SUBSET Rows, Unique(S), IsFiniteSet(Links(S))
  PROVE  /\ Ordered(Links(S)) /\ (Linked(S) => Linked(Links(S)))
         /\ \A u \in Links(S) : u.id \in Ids /\ u.prev \in Ids \cup {Genesis}
<1> DEFINE f(x) == [id |-> x.id, at |-> x.at, prev |-> x.prev]
           T == Links(S)
<1>1. \A x \in S : f(x).id = x.id /\ f(x).at = x.at /\ f(x).prev = x.prev
  OBVIOUS
<1>2. \A x, y \in S : (Before(f(x), f(y)) <=> Before(x, y)) /\ (f(x) = f(y) <=> x = y)
  BY <1>1 DEF Before, Unique
<1>3. \A u \in T : \E x \in S : u = f(x)
  BY DEF Links
<1>4. \A x \in S : f(x) \in T
  BY DEF Links
<1>5. \A u \in T : u.id \in Ids /\ u.prev \in Ids \cup {Genesis}
  BY <1>3 DEF Rows
<1> HIDE DEF f, T
<1>6. \A x, y, z \in S : /\ ~Before(x, x)
                         /\ Before(x, y) /\ Before(y, z) => Before(x, z)
                         /\ x # y => Before(x, y) \/ Before(y, x)
  BY BeforeOrder DEF Unique
<1>7. Ordered(T)
  <2>1. ASSUME NEW u \in T, NEW v \in T, NEW w \in T
        PROVE  /\ ~Before(u, u)
               /\ Before(u, v) /\ Before(v, w) => Before(u, w)
               /\ u # v => Before(u, v) \/ Before(v, u)
    <3>1. PICK x \in S, y \in S, z \in S : u = f(x) /\ v = f(y) /\ w = f(z)
      BY <1>3
    <3> QED
      BY <1>2, <1>6, <3>1
  <2> QED
    BY <2>1 DEF Ordered, T
<1>8. ASSUME Linked(S) PROVE Linked(T)
  <2>1. ASSUME NEW y \in S
        PROVE  IF \E u \in T : Before(u, f(y))
                 THEN \E u \in T : Precedes(u, f(y), T) /\ f(y).prev = u.id
                 ELSE f(y).prev = Genesis
    <3>1. CASE \E x \in S : Before(x, y)
      <4>1. PICK x \in S : Precedes(x, y, S) /\ y.prev = x.id
        BY <3>1, <1>8 DEF Linked
      <4>2. Precedes(f(x), f(y), T)
        BY <4>1, <1>2, <1>3 DEF Precedes
      <4> QED
        BY <4>1, <4>2, <1>1, <1>2, <1>4, <3>1
    <3>2. CASE ~\E x \in S : Before(x, y)
      BY <3>2, <1>8, <1>1, <1>2, <1>3 DEF Linked
    <3> QED
      BY <3>1, <3>2
  <2> QED
    BY <2>1, <1>3 DEF Linked
<1> QED
  BY <1>5, <1>7, <1>8 DEF T

LEMMA LinksOf ==
  /\ Links({}) = {}
  /\ \A S, T : Links(S \cup T) = Links(S) \cup Links(T)
  /\ \A x : \E u : Links({x}) = {u}
BY DEF Links

\* There are finitely many rows, and while none is inverted the uncommitted
\* ones come after the committed ones.
Later ==
  /\ IsFiniteSet(Links(audit)) /\ \A r \in Requests : IsFiniteSet(Links(pending[r]))
  /\ NoInversion(AllRows) => \A r \in Requests : \A x \in audit, y \in pending[r] : Before(x, y)

LEMMA InitLater == Init => Later
BY LinksOf, FS_EmptySet DEF Init, Later

LEMMA SameLater ==
  ASSUME Later, UNCHANGED <<audit, pending>>
  PROVE  Later'
<1>1. audit' = audit /\ pending' = pending /\ AllRows' = AllRows
  BY DEF AllRows
<1>2. NoInversion(AllRows)' => NoInversion(AllRows)
  BY <1>1 DEF NoInversion, Before
<1>3. IsFiniteSet(Links(audit))' /\ \A r \in Requests : IsFiniteSet(Links(pending[r]))'
  BY <1>1 DEF Later, Links
<1>4. ASSUME NoInversion(AllRows)'
      PROVE  \A r \in Requests : \A x \in audit', y \in pending'[r] : Before(x, y)
  BY <1>1, <1>2, <1>4 DEF Later
<1> QED
  BY <1>3, <1>4 DEF Later, Before

LEMMA InsertLater ==
  ASSUME IInv, Later, NEW r \in Requests, Insert(r)
  PROVE  Later'
<1>1. PICK n : pending' = [pending EXCEPT ![r] = @ \cup {n}] /\ n.prev = seen[r]
  <2>1. PICK id \in Ids \ UsedIds, a \in agents \cup {NoAgent} :
          pending' = [pending EXCEPT ![r] = @ \cup
            {[id |-> id, at |-> began[r], agent |-> a, prev |-> seen[r], sealed |-> a]}]
    BY DEF Insert
  <2>2. PICK n : n = [id |-> id, at |-> began[r], agent |-> a, prev |-> seen[r], sealed |-> a]
    OBVIOUS
  <2>3. n.prev = seen[r]
    BY <2>2
  <2> QED
    BY <2>1, <2>2, <2>3
<1>2. /\ audit' = audit /\ pending'[r] = pending[r] \cup {n}
      /\ \A q \in Requests \ {r} : pending'[q] = pending[q]
      /\ AllRows' = AllRows \cup {n} /\ AllRows \in SUBSET Rows
  <2>1. /\ audit' = audit /\ pending'[r] = pending[r] \cup {n}
        /\ \A q \in Requests \ {r} : pending'[q] = pending[q]
    BY <1>1 DEF Insert, IInv, Types, TypeOK
  <2>2. AllRows \in SUBSET Rows
    BY DEF IInv, Types, TypeOK, AllRows
  <2> QED
    BY <2>1, <2>2 DEF AllRows
<1>3. IsFiniteSet(Links(audit')) /\ \A q \in Requests : IsFiniteSet(Links(pending'[q]))
  <2>1. IsFiniteSet(Links(pending[r] \cup {n}))
    <3>1. PICK u : Links({n}) = {u}
      BY LinksOf
    <3>2. Links(pending[r] \cup {n}) = Links(pending[r]) \cup {u}
      BY <3>1, LinksOf
    <3> QED
      BY <3>2, FS_AddElement DEF Later
  <2> QED
    BY <1>2, <2>1 DEF Later
<1>4. ASSUME NoInversion(AllRows \cup {n}), NEW x \in audit
      PROVE  Before(x, n)
  <2>1. lock = r /\ pc[r] = "read" /\ Visible(r) = AllRows /\ x \in AllRows
    BY DEF Insert, IInv, Exclusive, Visible, AllRows
  <2>2. PICK m \in AllRows : IsNewest(m, AllRows) /\ seen[r] = m.id
    BY <2>1 DEF IInv, Fresh
  <2>3. Before(m, n)
    BY <1>1, <1>4, <2>2 DEF NoInversion
  <2>4. x = m \/ Before(x, m)
    BY <2>1, <2>2 DEF IsNewest
  <2>5. n \in Rows
    <3>1. pending'[r] \in SUBSET Rows
      BY StepIInv DEF Next, Proceed, IInv, Types, TypeOK
    <3> QED
      BY <1>2, <3>1
  <2> QED
    BY <1>2, <2>1, <2>3, <2>4, <2>5, BeforeOrder
<1>5. NoInversion(AllRows \cup {n}) => NoInversion(AllRows)
  BY DEF NoInversion
<1>6. NoInversion(AllRows)' => NoInversion(AllRows \cup {n})
  BY <1>2 DEF NoInversion, Before
<1>7. ASSUME NoInversion(AllRows)', NEW q \in Requests, NEW x \in audit', NEW y \in pending'[q]
      PROVE  Before(x, y)
  BY <1>2, <1>4, <1>5, <1>6, <1>7 DEF Later
<1>8. IsFiniteSet(Links(audit))' /\ \A q \in Requests : IsFiniteSet(Links(pending[q]))'
  BY <1>3 DEF Links
<1> QED
  BY <1>7, <1>8 DEF Later, Before

\* Only the holder of the lock has uncommitted rows.
LEMMA EndLater ==
  ASSUME IInv, Later, NEW r \in Requests, Commit(r) \/ Rollback(r)
  PROVE  Later'
<1>1. /\ pending' = [pending EXCEPT ![r] = {}] /\ audit' \in {audit, audit \cup pending[r]}
      /\ pending'[r] = {} /\ \A q \in Requests \ {r} : pending'[q] = pending[q]
  BY DEF Commit, Rollback, IInv, Types, TypeOK
<1>2. IsFiniteSet(Links(audit')) /\ \A q \in Requests : IsFiniteSet(Links(pending'[q]))
  <2>1. Links(audit \cup pending[r]) = Links(audit) \cup Links(pending[r])
    BY LinksOf
  <2>2. IsFiniteSet(Links(audit) \cup Links(pending[r]))
    BY FS_Union DEF Later
  <2>3. IsFiniteSet(Links(pending'[r]))
    BY <1>1, LinksOf, FS_EmptySet
  <2>4. \A q \in Requests \ {r} : IsFiniteSet(Links(pending'[q]))
    BY <1>1 DEF Later
  <2> QED
    BY <1>1, <2>1, <2>2, <2>3, <2>4 DEF Later
<1>3. CASE pending[r] = {}
  <2>1. audit' = audit /\ \A q \in Requests : pending'[q] = pending[q]
    BY <1>1, <1>3
  <2>2. AllRows' = AllRows
    BY <2>1 DEF AllRows
  <2>3. NoInversion(AllRows)' => NoInversion(AllRows)
    BY <2>2 DEF NoInversion, Before
  <2> QED
    BY <1>2, <2>1, <2>3 DEF Later, Links, Before
<1>4. CASE pending[r] # {}
  <2>1. \A q \in Requests : pending'[q] = {}
    BY <1>1, <1>4 DEF IInv, Exclusive
  <2> QED
    BY <1>2, <2>1 DEF Later, Links
<1> QED
  BY <1>3, <1>4

LEMMA DeletionLater ==
  ASSUME IInv, Later, NEW a \in Agents, DeleteAgent(a)
  PROVE  Later' /\ Links(audit)' = Links(audit)
<1> DEFINE f(x) == IF x.agent = a THEN [x EXCEPT !.agent = NoAgent] ELSE x
<1>1. audit' = {f(x) : x \in audit} /\ pending' = pending /\ audit \in SUBSET Rows
  BY DEF DeleteAgent, IInv, Types, TypeOK
<1>2. \A x \in audit : f(x).id = x.id /\ f(x).at = x.at /\ f(x).prev = x.prev
  BY <1>1 DEF Rows
<1>3. (\A x \in audit : f(x) \in audit') /\ \A y \in audit' : \E x \in audit : y = f(x)
  BY <1>1
<1> HIDE DEF f
<1>4. Links(audit') = Links(audit)
  <2>1. \A u : u \in Links(audit) => u \in Links(audit')
    BY <1>2, <1>3 DEF Links
  <2>2. \A u : u \in Links(audit') => u \in Links(audit)
    BY <1>2, <1>3 DEF Links
  <2> QED
    BY <2>1, <2>2
<1>5. NoInversion(AllRows)' => NoInversion(AllRows)
  <2>1. \A x \in AllRows : \E y \in AllRows' : y.id = x.id /\ y.at = x.at /\ y.prev = x.prev
    BY <1>1, <1>2, <1>3 DEF AllRows
  <2> SUFFICES ASSUME NoInversion(AllRows)', NEW x \in AllRows, NEW y \in AllRows, y.id = x.prev
               PROVE  Before(y, x)
    BY DEF NoInversion
  <2>2. PICK u \in AllRows', v \in AllRows' :
          /\ u.id = x.id /\ u.at = x.at /\ u.prev = x.prev
          /\ v.id = y.id /\ v.at = y.at /\ v.prev = y.prev
    BY <2>1
  <2> QED
    BY <2>2 DEF NoInversion, Before
<1>6. ASSUME NoInversion(AllRows)', NEW q \in Requests, NEW x \in audit', NEW y \in pending'[q]
      PROVE  Before(x, y)
  <2>1. PICK z \in audit : x = f(z)
    BY <1>3
  <2>2. Before(z, y)
    BY <1>1, <1>5, <1>6 DEF Later
  <2> QED
    BY <1>2, <2>1, <2>2 DEF Before
<1> QED
  BY <1>1, <1>4, <1>6 DEF Later, Links, Before

LEMMA StepLater == IInv /\ Later /\ [Next]_vars => Later'
<1> SUFFICES ASSUME IInv, Later, [Next]_vars PROVE Later'
  OBVIOUS
<1>1. ASSUME NEW r \in Requests, Begin(r) \/ Record(r) \/ AcquireLock(r) \/ ReadPrev(r) PROVE Later'
  BY <1>1, SameLater DEF Begin, Record, AcquireLock, ReadPrev
<1>2. CASE UNCHANGED vars
  BY <1>2, SameLater DEF vars
<1> QED
  BY <1>1, <1>2, InsertLater, EndLater, DeletionLater DEF Next, Proceed

\* Where the rows of a step come after those there were, the walk is extended.
LEMMA WalkExtended ==
  ASSUME NEW S, NEW T, NEW s, NEW t, Ordered(T), Linked(T),
         S \subseteq T, S # T, \A x \in S, y \in T \ S : Before(x, y),
         \A u \in T : u.id \in Ids /\ u.prev \in Ids \cup {Genesis},
         s = Walked(S), t = Walked(T)
  PROVE  /\ t \in Seq(Log!Entries) /\ Len(t) > Len(s) /\ SubSeq(t, 1, Len(s)) = s /\ Log!Linked(t)
<1>0. /\ s = [k \in 1..Cardinality(S) |-> [id |-> Nth(S, k).id, prev |-> Nth(S, k).prev]]
      /\ t = [k \in 1..Cardinality(T) |-> [id |-> Nth(T, k).id, prev |-> Nth(T, k).prev]]
  BY DEF Walked
<1>1. /\ Cardinality(S) \in Nat /\ Cardinality(T) \in Nat /\ Cardinality(S) < Cardinality(T)
      /\ \A k \in 1..Cardinality(S) : Nth(S, k) = Nth(T, k)
  BY NthStays, NthIs
<1>2. \A k \in 1..Cardinality(T) : Nth(T, k) \in T
  BY NthIs
<1>3. \A k \in 1..Cardinality(T) : t[k] \in Log!Entries
  BY <1>0, <1>2 DEF Log!Entries
<1>4. t \in Seq(Log!Entries) /\ Len(t) = Cardinality(T)
  BY <1>0, <1>1, <1>3
<1>5. \A k \in 1..Cardinality(S) : s[k] \in Log!Entries
  BY <1>0, <1>1, <1>2 DEF Log!Entries
<1>6. s \in Seq(Log!Entries) /\ Len(s) = Cardinality(S)
  BY <1>0, <1>1, <1>5
<1>7. SubSeq(t, 1, Len(s)) = s
  <2>1. \A k \in 1..Cardinality(S) : s[k] = t[k]
    BY <1>0, <1>1
  <2> QED
    BY <1>0, <1>1, <1>4, <1>6, <2>1
<1>8. Log!Linked(t)
  <2>1. ASSUME NEW k \in 1..Cardinality(T) PROVE t[k].prev = IF k = 1 THEN Genesis ELSE t[k - 1].id
    <3>1. Nth(T, k).prev = IF k = 1 THEN Genesis ELSE Nth(T, k - 1).id
      BY NthLinked
    <3>2. k # 1 => k - 1 \in 1..Cardinality(T)
      BY <1>1
    <3> QED
      BY <1>0, <3>1, <3>2
  <2>2. DOMAIN t = 1..Cardinality(T)
    BY <1>0
  <2> QED
    BY <2>1, <2>2 DEF Log!Linked
<1> QED
  BY <1>1, <1>4, <1>6, <1>7, <1>8

\* Without rows the walk is empty.
LEMMA InitWalk == Init => Log!Init
<1> SUFFICES ASSUME Init PROVE Walk = <<>>
  BY DEF Log!Init
<1>1. Links(audit) = {} /\ Cardinality({}) = 0
  BY LinksOf, FS_EmptySet DEF Init
<1>2. Walk = [k \in 1..0 |-> [id |-> Nth({}, k).id, prev |-> Nth({}, k).prev]]
  BY <1>1 DEF Walk, Walked
<1> QED
  BY <1>2

LEMMA SameWalk ==
  ASSUME Links(audit)' = Links(audit)
  PROVE  Walk' = Walk
<1>1. PICK S : S = Links(audit)
  OBVIOUS
<1>2. Walk = Walked(S)
  BY <1>1 DEF Walk
<1>3. Walk' = Walked(S)
  BY <1>1 DEF Walk, Walked, Nth, Earlier, Before
<1> QED
  BY <1>2, <1>3

\* A commit extends the walk unless some committed row is inverted.
LEMMA CommitExtends ==
  ASSUME IInv, Later, IInv', Later', NEW r \in Requests, Commit(r), pending[r] # {}, (\A x \in audit : ~Inverted(x))'
  PROVE  Log!Extend
<1>1. audit' = audit \cup pending[r] /\ audit' = AllRows /\ AllRows' = AllRows
  <2>1. \A q \in Requests \ {r} : pending[q] = {}
    BY DEF IInv, Exclusive
  <2>2. audit' = audit \cup pending[r] /\ \A q \in Requests : pending'[q] = {}
    BY <2>1 DEF Commit, IInv, Types, TypeOK
  <2> QED
    BY <2>1, <2>2 DEF AllRows
<1>2. NoInversion(AllRows)
  BY <1>1 DEF NoInversion, Inverted, Before
<1>3. \A x \in audit, y \in pending[r] : Before(x, y)
  BY <1>2 DEF Later
<1>4. Linked(AllRows) /\ Unique(AllRows) /\ AllRows \in SUBSET Rows
  BY <1>2 DEF IInv, Chain, Types, TypeOK, AllRows
<1>5. PICK S, T : S = Links(audit) /\ T = Links(AllRows)
  OBVIOUS
<1>6. IsFiniteSet(T)
  BY <1>1, <1>5 DEF Later, Links
<1>7. /\ Ordered(T) /\ Linked(T)
      /\ \A u \in T : u.id \in Ids /\ u.prev \in Ids \cup {Genesis}
  BY <1>4, <1>5, <1>6, LinksOrdered
<1>8. T = S \cup Links(pending[r])
  BY <1>1, <1>5, LinksOf
<1>9. \A x \in S, y \in Links(pending[r]) : Before(x, y)
  BY <1>3, <1>5 DEF Links, Before
<1>10. S # T
  <2>1. PICK y : y \in Links(pending[r])
    BY DEF Links
  <2>2. y \in T /\ ~Before(y, y)
    BY <1>7, <1>8, <2>1 DEF Ordered
  <2> QED
    BY <1>9, <2>1, <2>2
<1>11. Walk = Walked(S)
  BY <1>5 DEF Walk
<1>12. Walk' = Walked(T)
  <2>1. Links(audit)' = T
    BY <1>1, <1>5 DEF Links
  <2> QED
    BY <2>1 DEF Walk, Walked, Nth, Earlier, Before
<1>13. \A x \in S, y \in T \ S : Before(x, y)
  BY <1>8, <1>9
<1>14. PICK s, t : s = Walk /\ t = Walk'
  OBVIOUS
<1>15. t \in Seq(Log!Entries) /\ Len(t) > Len(s) /\ SubSeq(t, 1, Len(s)) = s /\ Log!Linked(t)
  <2>1. /\ s = Walked(S)
        /\ t = Walked(T)
    BY <1>11, <1>12, <1>14
  <2>2. S \subseteq T
    BY <1>8
  <2> QED
    BY <1>7, <1>10, <1>13, <2>1, <2>2, WalkExtended
<1>16. Walk' \in Seq(Log!Entries) /\ Len(Walk') > Len(Walk) /\ SubSeq(Walk', 1, Len(Walk)) = Walk /\ Log!Linked(Walk')
  BY <1>14, <1>15
<1> QED
  BY <1>16 DEF Log!Extend, Log!Entries, Log!Linked

LEMMA StepExtends ==
  IInv /\ Later /\ IInv' /\ Later' /\ [Next]_vars =>
    [(\A x \in audit : ~Inverted(x))' => Log!Extend]_Walk
<1> SUFFICES ASSUME IInv, Later, IInv', Later', [Next]_vars, (\A x \in audit : ~Inverted(x))'
             PROVE  Log!Extend \/ Walk' = Walk
  OBVIOUS
<1>1. ASSUME UNCHANGED audit PROVE Walk' = Walk
  BY <1>1, SameWalk DEF Links
<1>2. ASSUME NEW r \in Requests, Commit(r) PROVE Log!Extend \/ Walk' = Walk
  BY <1>1, <1>2, CommitExtends DEF Commit
<1>3. ASSUME NEW r \in Requests, Begin(r) \/ Record(r) \/ AcquireLock(r) \/ ReadPrev(r) \/ Insert(r) \/ Rollback(r)
      PROVE  UNCHANGED audit
  BY <1>3 DEF Begin, Record, AcquireLock, ReadPrev, Insert, Rollback
<1>4. ASSUME NEW a \in Agents, DeleteAgent(a) PROVE Walk' = Walk
  BY <1>4, DeletionLater, SameWalk
<1>5. CASE UNCHANGED vars
  BY <1>1, <1>5 DEF vars
<1> QED
  BY <1>1, <1>2, <1>3, <1>4, <1>5 DEF Next, Proceed

\* The audit log implements the abstract append-only log: however requests
\* overlap, crash and delete agents, and as long as no row is linked to one the
\* walk visits later, the walk of verify_chain only grows at its end
\* (audit_log.py, record).
THEOREM AppendsUnlessInvertedHolds == Spec => AppendsUnlessInverted
<1>1. Init => IInv /\ Later /\ Log!Init
  BY InitIInv, InitLater, InitWalk
<1>2. IInv /\ Later /\ [Next]_vars => (IInv /\ Later)'
  BY StepIInv, StepLater
<1>3. Spec => [](IInv /\ Later)
  BY <1>1, <1>2, PTL DEF Spec
<1>4. Spec => [][(\A x \in audit : ~Inverted(x))' => Log!Extend]_Walk
  BY <1>3, StepExtends, PTL DEF Spec
<1> QED
  BY <1>1, <1>4, PTL DEF Spec, AppendsUnlessInverted
===============================================================================
