--------------------------- MODULE PolicyCacheProofs ---------------------------
(***************************************************************************)
(* Proofs about PolicyCache, for any number of writers, readers and Redis  *)
(* restarts and any TTL.                                                   *)
(*                                                                         *)
(* Staleness is a budget (Budget): a write missing from a blob is younger  *)
(* than Bound minus what the blob has left to live, a write missing from   *)
(* what a reader is about to store is younger than the time it has held    *)
(* it.  Each tick ages the write and spends the blob's TTL alike.  The     *)
(* version argument (Window) is separate: until the version moves on, all  *)
(* writes ever bumped are in the policy set or in its gap.                 *)
(***************************************************************************)
EXTENDS PolicyCache, TLAPS

Budget ==
  /\ \A b \in blobs : \A w \in Committed \ b.val : age[w] + b.left <= Bound
  /\ \A r \in Readers : pc[r] = "store" =>
       \A w \in Committed \ got[r] : age[w] <= hold[r]

\* Writes that were old when a reader began are old ever after.
Due == \A r \in Readers : must[r] \subseteq {w \in Committed : age[w] >= Bound}

Window ==
  restarts = 0 =>
    /\ \A b \in blobs :
         /\ b.ver <= pver
         /\ b.ver = pver => Committed \cup Bumped \subseteq b.val \cup b.gap
    /\ \A r \in Readers :
         /\ ver[r] <= pver
         /\ pc[r] = "store" /\ ver[r] = pver =>
              Committed \cup Bumped \subseteq got[r] \cup gap[r]

\* Age counts from the commit.
Young == \A w \in Writes : write[w] # "committed" => age[w] = 0

IInv == TypeOK /\ Budget /\ Due /\ Young /\ Window /\ EnforcedInTime

-------------------------------------------------------------------------------
LEMMA BoundIsNat == TTL \in Nat \ {0} /\ Hold \in Nat /\ Bound \in Nat /\ TTL <= Bound /\ Hold <= Bound
BY CacheAssumption DEF Bound

LEMMA InitIInv == Init => IInv
BY BoundIsNat, CacheAssumption DEF Init, IInv, TypeOK, Budget, Due, Young, Window, EnforcedInTime

LEMMA StepIInv == IInv /\ [Next]_vars => IInv'
<1> SUFFICES ASSUME IInv, [Next]_vars PROVE IInv'
  OBVIOUS
<1> USE BoundIsNat DEF IInv
<1>1. ASSUME NEW w \in Writes, Bump(w) PROVE IInv'
  <2> USE <1>1 DEF Bump, reader
  <2>0. Committed' = Committed /\ pver' = pver + 1 /\ pver \in Nat
    BY DEF Committed, TypeOK
  <2>1. TypeOK'
    BY DEF TypeOK
  <2>2. Budget' /\ Due' /\ EnforcedInTime' /\ Young'
    BY <2>0 DEF Budget, Due, EnforcedInTime, Young, TypeOK
  <2>3. Window'
    BY <2>0 DEF Window, TypeOK, Blobs
  <2> QED BY <2>1, <2>2, <2>3
<1>2. ASSUME NEW w \in Writes, Commit(w) PROVE IInv'
  <2> USE <1>2 DEF Commit, reader
  <2>0. /\ Committed' = Committed \cup {w}
        /\ Committed' \cup Bumped' = Committed \cup Bumped
    BY DEF Committed, Bumped, TypeOK
  <2>1. TypeOK'
    BY DEF TypeOK
  <2>2. Budget' /\ Due' /\ EnforcedInTime' /\ Young'
    BY <2>0 DEF Budget, Due, EnforcedInTime, Young, TypeOK, Blobs
  <2>3. Window'
    BY <2>0 DEF Window
  <2> QED BY <2>1, <2>2, <2>3
<1>3. ASSUME NEW w \in Writes, Rollback(w) PROVE IInv'
  <2> USE <1>3 DEF Rollback, reader
  <2>0. Committed' = Committed /\ Bumped' \subseteq Bumped
    BY DEF Committed, Bumped, TypeOK
  <2>1. TypeOK'
    BY DEF TypeOK
  <2>2. Budget' /\ Due' /\ EnforcedInTime' /\ Young'
    BY <2>0 DEF Budget, Due, EnforcedInTime, Young, TypeOK
  <2>3. Window'
    BY <2>0 DEF Window
  <2> QED BY <2>1, <2>2, <2>3
<1>4. ASSUME NEW r \in Readers, ReadVersion(r) PROVE IInv'
  <2> USE <1>4 DEF ReadVersion
  <2>0. Committed' = Committed /\ Bumped' = Bumped /\ Committed \subseteq Writes
    BY DEF Committed, Bumped
  <2>1. TypeOK'
    BY <2>0 DEF TypeOK
  <2>2. Budget' /\ Due' /\ EnforcedInTime' /\ Young'
    BY <2>0 DEF Budget, Due, EnforcedInTime, Young, TypeOK
  <2>3. Window'
    BY <2>0 DEF Window, TypeOK
  <2> QED BY <2>1, <2>2, <2>3
<1>5. ASSUME NEW r \in Readers, ReadBlob(r) PROVE IInv'
  <2> USE <1>5 DEF ReadBlob
  <2>0. Committed' = Committed /\ Bumped' = Bumped
    BY DEF Committed, Bumped
  <2>1. TypeOK'
    BY DEF TypeOK, Blobs
  <2>2. \A b \in blobs : must[r] \subseteq b.val
    BY DEF Budget, Due, TypeOK, Blobs
  <2>3. Budget' /\ Due' /\ Young'
    BY <2>0 DEF Budget, Due, Young, TypeOK
  <2>4. EnforcedInTime'
    BY <2>2 DEF EnforcedInTime, TypeOK
  <2>5. Window'
    BY <2>0 DEF Window, TypeOK
  <2> QED BY <2>1, <2>3, <2>4, <2>5
<1>6. ASSUME NEW r \in Readers, Load(r) PROVE IInv'
  <2> USE <1>6 DEF Load
  <2>0. /\ Committed' = Committed /\ Bumped' = Bumped
        /\ Committed \subseteq Writes /\ Bumped \subseteq Writes
    BY DEF Committed, Bumped
  <2>1. TypeOK'
    BY <2>0 DEF TypeOK
  <2>2. Budget' /\ Due' /\ EnforcedInTime' /\ Young'
    BY <2>0 DEF Budget, Due, EnforcedInTime, Young, TypeOK
  <2>3. Window'
    BY <2>0 DEF Window, TypeOK
  <2> QED BY <2>1, <2>2, <2>3
<1>7. ASSUME NEW r \in Readers, Store(r) PROVE IInv'
  <2> USE <1>7 DEF Store
  <2> DEFINE n == [ver |-> ver[r], val |-> got[r], gap |-> gap[r], left |-> TTL]
  <2>0. Committed' = Committed /\ Bumped' = Bumped /\ Committed \subseteq Writes
    BY DEF Committed, Bumped
  <2>1. /\ blobs' = {c \in blobs : c.ver # n.ver} \cup {n}
        /\ n \in Blobs
        /\ n.ver = ver[r] /\ n.val = got[r] /\ n.gap = gap[r] /\ n.left = TTL
    BY DEF Stored, TypeOK, Blobs
  <2> HIDE DEF n
  <2>2. TypeOK'
    BY <2>1 DEF TypeOK
  <2>3. \A w \in Committed \ n.val : age[w] + n.left <= Bound
    <3> SUFFICES ASSUME NEW w \in Committed \ n.val PROVE age[w] + n.left <= Bound
      OBVIOUS
    <3>1. age[w] <= hold[r]
      BY <2>1 DEF Budget
    <3>2. age[w] \in Nat /\ hold[r] \in Nat /\ hold[r] <= Hold
      BY <2>0 DEF TypeOK
    <3> QED BY <3>1, <3>2, <2>1 DEF Bound
  <2>4. Budget'
    <3>1. \A b \in blobs' : \A w \in Committed' \ b.val : age'[w] + b.left <= Bound
      BY <2>0, <2>1, <2>3 DEF Budget
    <3>2. \A q \in Readers : pc'[q] = "store" =>
            \A w \in Committed' \ got'[q] : age'[w] <= hold'[q]
      BY <2>0 DEF Budget, TypeOK
    <3> QED BY <3>1, <3>2 DEF Budget
  <2>5. must[r] \subseteq got[r]
    <3> SUFFICES ASSUME NEW w \in must[r], w \notin got[r] PROVE FALSE
      OBVIOUS
    <3>1. w \in Committed /\ age[w] >= Bound
      BY DEF Due
    <3>2. w \in Committed \ n.val /\ n.left = TTL
      BY <3>1, <2>1
    <3>3. age[w] + TTL <= Bound /\ age[w] \in Nat
      BY <3>2, <2>3, <2>0 DEF TypeOK
    <3> QED BY <3>1, <3>3
  <2>6. Due' /\ Young'
    BY <2>0 DEF Due, Young
  <2>7. EnforcedInTime'
    BY <2>5 DEF EnforcedInTime, TypeOK
  <2>8. Window'
    BY <2>0, <2>1 DEF Window, TypeOK
  <2> QED BY <2>2, <2>4, <2>6, <2>7, <2>8
<1>8. ASSUME NEW r \in Readers, Finish(r) PROVE IInv'
  <2> USE <1>8 DEF Finish
  <2>0. Committed' = Committed /\ Bumped' = Bumped
    BY DEF Committed, Bumped
  <2>1. TypeOK'
    BY DEF TypeOK
  <2>2. Budget' /\ Due' /\ EnforcedInTime' /\ Young'
    BY <2>0 DEF Budget, Due, EnforcedInTime, Young, TypeOK
  <2>3. Window'
    BY <2>0 DEF Window, TypeOK
  <2> QED BY <2>1, <2>2, <2>3
<1>9. CASE Tick
  <2> USE <1>9 DEF Tick
  <2> DEFINE f(b) == [b EXCEPT !.left = b.left - 1]
  <2>0. Committed' = Committed /\ Bumped' = Bumped /\ Committed \subseteq Writes
    BY DEF Committed, Bumped
  <2>1. \A w \in Writes : /\ age[w] \in Nat /\ age'[w] \in 0..Bound
                          /\ age'[w] = age[w] \/ age'[w] = age[w] + 1
                          /\ age'[w] >= age[w]
    BY DEF TypeOK
  <2>2. \A b \in blobs' : \E c \in blobs :
          /\ b.ver = c.ver /\ b.val = c.val /\ b.gap = c.gap
          /\ b.left = c.left - 1 /\ b \in Blobs /\ c.left \in Nat
    <3>1. \A c \in blobs : c.left > 1 =>
            /\ f(c) \in Blobs /\ c.left \in Nat /\ f(c).ver = c.ver /\ f(c).val = c.val
            /\ f(c).gap = c.gap /\ f(c).left = c.left - 1
      BY DEF TypeOK, Blobs
    <3>2. blobs' = {f(c) : c \in {d \in blobs : d.left > 1}}
      BY DEF Expired
    <3> HIDE DEF f
    <3> QED BY <3>1, <3>2
  <2>3. \A b, c \in blobs' : b.ver = c.ver => b = c
    <3>1. blobs' = {f(c) : c \in {d \in blobs : d.left > 1}}
      BY DEF Expired
    <3>2. \A c \in blobs : f(c).ver = c.ver
      BY DEF TypeOK, Blobs
    <3> HIDE DEF f
    <3> QED BY <3>1, <3>2 DEF TypeOK
  <2>4. hold' \in [Readers -> 0..Hold]
    BY DEF TypeOK
  <2>5. TypeOK'
    BY <2>1, <2>2, <2>3, <2>4 DEF TypeOK
  <2>6. Budget'
    <3>1. \A b \in blobs' : \A w \in Committed \ b.val : age'[w] + b.left <= Bound
      <4> SUFFICES ASSUME NEW b \in blobs', NEW w \in Committed \ b.val
                   PROVE  age'[w] + b.left <= Bound
        OBVIOUS
      <4>1. PICK c \in blobs : b.val = c.val /\ b.left = c.left - 1 /\ c.left \in Nat
        BY <2>2
      <4>2. age[w] + c.left <= Bound
        BY <4>1 DEF Budget
      <4> QED BY <4>1, <4>2, <2>0, <2>1
    <3>2. \A r \in Readers : pc'[r] = "store" =>
            \A w \in Committed \ got'[r] : age'[w] <= hold'[r]
      <4> SUFFICES ASSUME NEW r \in Readers, pc[r] = "store", NEW w \in Committed \ got[r]
                   PROVE  age'[w] <= hold'[r]
        OBVIOUS
      <4>1. age[w] <= hold[r] /\ hold'[r] = hold[r] + 1 /\ hold[r] \in Nat
        BY DEF Budget, TypeOK
      <4> QED BY <4>1, <2>0, <2>1
    <3> QED BY <3>1, <3>2, <2>0 DEF Budget
  <2>7. Due'
    <3> SUFFICES ASSUME NEW r \in Readers, NEW w \in must[r]
                 PROVE  w \in Committed /\ age'[w] >= Bound
      BY <2>0 DEF Due
    <3> QED BY <2>0, <2>1 DEF Due
  <2>8. Young'
    BY DEF Young, TypeOK
  <2>9. EnforcedInTime'
    BY DEF EnforcedInTime
  <2>10. Window'
    BY <2>0, <2>2 DEF Window
  <2> QED BY <2>5, <2>6, <2>7, <2>8, <2>9, <2>10
<1>10. CASE Restart
  <2> USE <1>10 DEF Restart, reader
  <2>0. Committed' = Committed /\ Bumped' = Bumped
    BY DEF Committed, Bumped
  <2>1. TypeOK'
    BY CacheAssumption DEF TypeOK
  <2>2. Budget' /\ Due' /\ EnforcedInTime' /\ Young'
    BY <2>0 DEF Budget, Due, EnforcedInTime, Young, TypeOK
  <2>3. Window'
    BY CacheAssumption DEF Window, TypeOK
  <2> QED BY <2>1, <2>2, <2>3
<1>11. CASE UNCHANGED vars
  BY <1>11 DEF vars, reader, TypeOK, Budget, Due, Young, Window, EnforcedInTime, Committed, Bumped
<1> QED
  BY <1>1, <1>2, <1>3, <1>4, <1>5, <1>6, <1>7, <1>8, <1>9, <1>10, <1>11 DEF Next, ReadStep

LEMMA Inductive == Spec => []IInv
BY InitIInv, StepIInv, PTL DEF Spec

-------------------------------------------------------------------------------
\* The variables keep their types and Redis holds one blob per key.
THEOREM TypeCorrect == Spec => []TypeOK
<1>1. IInv => TypeOK
  BY DEF IInv
<1> QED BY <1>1, Inductive, PTL

\* Only a load between a writer's bump and its commit can leave the blob of
\* the current version without a committed write, until Redis restarts.
THEOREM StaleOnlyInWindowHolds == Spec => []StaleOnlyInWindow
<1>1. IInv => StaleOnlyInWindow
  BY DEF IInv, Window, StaleOnlyInWindow
<1> QED BY <1>1, Inductive, PTL

\* Every evaluation decides with all policy writes committed TTL + Hold before
\* it began, across lost races with writers and across Redis restarts.
THEOREM EnforcedInTimeHolds == Spec => []EnforcedInTime
<1>1. IInv => EnforcedInTime
  BY DEF IInv
<1> QED BY <1>1, Inductive, PTL
===============================================================================
