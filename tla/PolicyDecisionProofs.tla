------------------------- MODULE PolicyDecisionProofs -------------------------
(***************************************************************************)
(* Proofs about PolicyDecision, for any set of policies, bindings and any  *)
(* call, in whatever order the rows of policy_bindings come.               *)
(*                                                                         *)
(* Covered is the loop invariant of load_policy_set: the compiled policies *)
(* are exactly the policies of the applicable bindings taken so far.  When *)
(* no row is left the engine therefore sees every applicable rule, and     *)
(* Strictest takes the strictest of what it and the others ask for.        *)
(***************************************************************************)
EXTENDS PolicyDecision, SequenceTheorems, WellFoundedInduction, TLAPS

Entries == [key : Keys, specificity : 0..4]

KeysOf(c) == {c[i].key : i \in DOMAIN c}

Distinct(c) == \A i, j \in DOMAIN c : c[i].key = c[j].key => i = j

\* load_policy_set's loop: what is compiled is what applied so far.
Covered == KeysOf(compiled) = {b.key : b \in {x \in bound \ rows : Applies(x)}}

\* Until evaluate() there is no result; afterwards it is at least as strict
\* as every rule that matched.  Nothing is answered before that.
Judged ==
  /\ phase \in {"combine", "done"} =>
       /\ policy.decision \in Effects
       /\ \A r \in MatchedRules : Rank[policy.decision] <= Rank[r.effect]
  /\ phase \in {"start", "load"} => decision = None /\ redactions = {}

IInv == TypeOK /\ Covered /\ Judged

-------------------------------------------------------------------------------
\* Strictest returns a member that no member outranks.
LEMMA StrictestIsLeast ==
  ASSUME NEW S \in SUBSET Effects, S # {}
  PROVE  Strictest(S) \in S /\ \A e \in S : Rank[Strictest(S)] <= Rank[e]
<1>1. \E d \in S : \A e \in S : Rank[d] <= Rank[e]
  <2>1. CASE "deny" \in S
    BY <2>1 DEF Effects, Rank
  <2>2. CASE "deny" \notin S /\ "approval" \in S
    BY <2>2 DEF Effects, Rank
  <2>3. CASE S \subseteq {"rate_limit", "redact", "allow"} /\ "rate_limit" \in S
    BY <2>3 DEF Effects, Rank
  <2>4. CASE S \subseteq {"redact", "allow"} /\ "redact" \in S
    BY <2>4 DEF Effects, Rank
  <2>5. CASE S = {"allow"}
    BY <2>5 DEF Effects, Rank
  <2> QED BY <2>1, <2>2, <2>3, <2>4, <2>5 DEF Effects
<1> QED BY <1>1 DEF Strictest

LEMMA NatMinimum ==
  ASSUME NEW T \in SUBSET Nat, T # {}
  PROVE  \E x \in T : \A y \in T : x <= y
<1> DEFINE R == OpToRel(<, Nat)
<1>1. \A x, y \in Nat : <<y, x>> \notin R => x <= y
  BY DEF OpToRel
<1>2. IsWellFoundedOn(R, Nat)
  BY NatLessThanWellFounded
<1> HIDE DEF R
<1> QED BY <1>1, <1>2, WFMin, Zenon

\* A non-empty set of compiled policies has one that sorts before the others.
LEMMA ForemostExists ==
  ASSUME TypeOK, NEW T \in SUBSET DOMAIN compiled, T # {}
  PROVE  \E i \in T : \A j \in T \ {i} : Sooner(compiled, i, j)
<1> DEFINE sp(i) == compiled[i].specificity
           pr(i) == Priority(compiled[i])
<1>1. \A i \in T : i \in Nat /\ sp(i) \in 0..4 /\ pr(i) \in Nat
  <2>0. compiled \in Seq(Entries)
    BY DEF TypeOK, Entries
  <2>1. \A i \in DOMAIN compiled : i \in Nat /\ compiled[i] \in Entries
    BY <2>0, LenProperties, ElementOfSeq
  <2>2. \A k \in Keys : spec[k].priority \in Nat
    BY DecisionAssumption DEF TypeOK, ValidSpec
  <2> QED BY <2>1, <2>2 DEF Entries, Priority
<1>2. PICK d \in {4 - sp(i) : i \in T} : \A e \in {4 - sp(i) : i \in T} : d <= e
  <2>1. {4 - sp(i) : i \in T} \in SUBSET Nat /\ {4 - sp(i) : i \in T} # {}
    BY <1>1
  <2> HIDE DEF sp
  <2> QED BY <2>1, NatMinimum
<1> DEFINE D == {i \in T : 4 - sp(i) = d}
<1>3. PICK p \in {pr(i) : i \in D} : \A q \in {pr(i) : i \in D} : p <= q
  <2>1. {pr(i) : i \in D} \in SUBSET Nat /\ {pr(i) : i \in D} # {}
    BY <1>1, <1>2
  <2> HIDE DEF pr, D
  <2> QED BY <2>1, NatMinimum
<1> DEFINE P == {i \in D : pr(i) = p}
<1>4. PICK i \in P : \A j \in P : i <= j
  <2>1. P \in SUBSET Nat /\ P # {}
    BY <1>1, <1>3
  <2> HIDE DEF P
  <2> QED BY <2>1, NatMinimum
<1>5. ASSUME NEW j \in T \ {i} PROVE Sooner(compiled, i, j)
  <2>1. 4 - sp(i) <= 4 - sp(j)
    BY <1>2, <1>4
  <2>2. 4 - sp(i) = 4 - sp(j) => pr(i) <= pr(j)
    BY <1>3, <1>4
  <2>3. 4 - sp(i) = 4 - sp(j) /\ pr(i) = pr(j) => i <= j
    BY <1>4
  <2>4. i \in T /\ j \in T
    BY <1>4
  <2> QED BY <2>1, <2>2, <2>3, <2>4, <1>1 DEF Sooner
<1> QED BY <1>4, <1>5

\* One binding: the policy's key is compiled, no key twice, no key lost.
LEMMA CompiledWithAdds ==
  ASSUME NEW c \in Seq(Entries), Distinct(c), NEW b \in Bindings
  PROVE  /\ CompiledWith(c, b) \in Seq(Entries)
         /\ Distinct(CompiledWith(c, b))
         /\ KeysOf(CompiledWith(c, b)) = KeysOf(c) \cup {b.key}
<1> DEFINE new == [key |-> b.key, specificity |-> Specificity[b.scope]]
           n == Len(c)
           raised == [i \in DOMAIN c |->
                        IF c[i].key = b.key /\ Specificity[b.scope] > c[i].specificity
                          THEN [c[i] EXCEPT !.specificity = Specificity[b.scope]]
                          ELSE c[i]]
<1>1. new \in Entries /\ new.key = b.key
  BY DecisionAssumption DEF Entries, Specificity
<1>2. n \in Nat /\ DOMAIN c = 1..n /\ \A i \in 1..n : c[i] \in Entries
  BY LenProperties, ElementOfSeq
<1>3. CASE \E i \in DOMAIN c : c[i].key = b.key
  <2>1. CompiledWith(c, b) = raised
    BY <1>3 DEF CompiledWith
  <2>2. \A i \in 1..n : raised[i] \in Entries /\ raised[i].key = c[i].key
    BY <1>1, <1>2 DEF Entries
  <2>3. DOMAIN raised = 1..n /\ raised \in [1..n -> Entries]
    BY <1>2, <2>2
  <2> HIDE DEF raised, n
  <2>4. raised \in Seq(Entries)
    BY <2>3, <1>2, SeqDef
  <2>5. Distinct(raised) /\ KeysOf(raised) = KeysOf(c)
    BY <2>2, <2>3, <1>2 DEF Distinct, KeysOf
  <2> QED BY <2>1, <2>4, <2>5, <1>3 DEF KeysOf
<1>4. CASE \A i \in DOMAIN c : c[i].key # b.key
  <2> DEFINE longer == Append(c, new)
  <2>1. CompiledWith(c, b) = longer
    BY <1>4 DEF CompiledWith
  <2> HIDE DEF new
  <2>2. /\ longer \in Seq(Entries)
        /\ Len(longer) = n + 1
        /\ \A i \in 1..n : longer[i] = c[i]
        /\ longer[n + 1] = new
    BY <1>1, AppendProperties
  <2> HIDE DEF longer, n
  <2>3. DOMAIN longer = 1..(n + 1)
    BY <2>2, LenProperties
  <2>4. Distinct(longer)
    BY <2>2, <2>3, <1>1, <1>2, <1>4 DEF Distinct
  <2>5. KeysOf(longer) = KeysOf(c) \cup {b.key}
    BY <2>2, <2>3, <1>1, <1>2 DEF KeysOf
  <2> QED BY <2>1, <2>2, <2>4, <2>5
<1> QED BY <1>3, <1>4

-------------------------------------------------------------------------------
\* A rule that matched, by its place in the compiled policies.
LEMMA MatchesAreMatched ==
  ASSUME KeysOf(compiled) = Applicable
  PROVE  MatchedRules = {Rule(compiled, h) : h \in Matches(compiled)}
<1>1. ASSUME NEW r \in MatchedRules
      PROVE  r \in {Rule(compiled, h) : h \in Matches(compiled)}
  <2>1. PICK k \in Applicable :
          \E i \in DOMAIN spec[k].rules : /\ r = spec[k].rules[i]
                                          /\ r.names /\ r.when = "holds"
    BY <1>1 DEF MatchedRules
  <2>2. PICK i \in DOMAIN spec[k].rules : r = spec[k].rules[i] /\ r.names /\ r.when = "holds"
    BY <2>1
  <2>3. PICK j \in DOMAIN compiled : compiled[j].key = k
    BY DEF KeysOf
  <2>4. <<j, i>> \in Rules(compiled) /\ Rule(compiled, <<j, i>>) = r
    BY <2>2, <2>3 DEF Rules, Rule
  <2> QED BY <2>2, <2>4 DEF Matches
<1>2. ASSUME NEW h \in Matches(compiled)
      PROVE  Rule(compiled, h) \in MatchedRules
  <2>1. PICK j \in DOMAIN compiled : \E i \in DOMAIN spec[compiled[j].key].rules : h = <<j, i>>
    BY <1>2 DEF Matches, Rules
  <2>2. PICK i \in DOMAIN spec[compiled[j].key].rules : h = <<j, i>>
    BY <2>1
  <2>3. compiled[j].key \in Applicable
    BY DEF KeysOf
  <2> QED BY <1>2, <2>2, <2>3 DEF MatchedRules, Rule, Matches
<1> QED BY <1>1, <1>2

\* evaluate() returns a decision no matching rule is stricter than, and only
\* a redact decision comes with paths.
LEMMA EvaluatedIsStrictest ==
  ASSUME TypeOK
  PROVE  /\ Evaluated(compiled).decision \in Effects
         /\ \A h \in Matches(compiled) :
              Rank[Evaluated(compiled).decision] <= Rank[Rule(compiled, h).effect]
<1> DEFINE S == {Rule(compiled, h).effect : h \in Matches(compiled)}
<1>0. \A i \in DOMAIN compiled : spec[compiled[i].key] \in Specs
  <2>1. compiled \in Seq(Entries)
    BY DEF TypeOK, Entries
  <2>2. \A i \in DOMAIN compiled : compiled[i] \in Entries
    BY <2>1, LenProperties, ElementOfSeq
  <2> QED BY <2>2 DEF TypeOK, Entries
<1>1. S \in SUBSET Effects
  BY <1>0, DecisionAssumption DEF Matches, Rules, Rule, ValidSpec, ValidRule
<1>2. CASE Matches(compiled) = {}
  <2> DEFINE Having == {i \in DOMAIN compiled : spec[compiled[i].key].default # None}
  <2>1. Evaluated(compiled).decision = DefaultEffect(compiled)
    BY <1>2 DEF Evaluated, NoResult
  <2>2. CASE Having = {}
    BY <2>1, <2>2, <1>2 DEF DefaultEffect, Effects
  <2>3. CASE Having # {}
    <3> DEFINE i == CHOOSE i \in Having : \A j \in Having \ {i} : Sooner(compiled, i, j)
    <3>1. i \in Having
      BY <2>3, ForemostExists
    <3>2. DefaultEffect(compiled) = spec[compiled[i].key].default
      BY <2>3 DEF DefaultEffect
    <3>3. spec[compiled[i].key].default \in {"allow", "deny", "approval"}
      BY <3>1, <1>0, DecisionAssumption DEF ValidSpec
    <3> QED BY <2>1, <3>2, <3>3, <1>2 DEF Effects
  <2> QED BY <2>2, <2>3
<1>3. CASE Matches(compiled) # {}
  <2>1. Evaluated(compiled).decision = Strictest(S)
    BY <1>3 DEF Evaluated
  <2>2. Strictest(S) \in S /\ \A e \in S : Rank[Strictest(S)] <= Rank[e]
    BY <1>1, <1>3, StrictestIsLeast
  <2> QED BY <2>1, <2>2, <1>1
<1> QED BY <1>2, <1>3

\* combine() returns a decision none of its candidates is stricter than.
LEMMA CombineIsStrictest ==
  ASSUME NEW p \in Effects, NEW x, NEW r
  PROVE  /\ Combine(p, x, r) \in Effects
         /\ \A e \in {p} \cup DlpCandidates(x) \cup RiskCandidates(r) :
              Rank[Combine(p, x, r)] <= Rank[e]
<1> DEFINE S == {p} \cup DlpCandidates(x) \cup RiskCandidates(r)
<1>1. S \in SUBSET Effects /\ S # {}
  BY DEF Effects, DlpCandidates, RiskCandidates
<1>2. Combine(p, x, r) = Strictest(S)
  BY DEF Combine
<1> HIDE DEF S
<1>3. Strictest(S) \in S /\ \A e \in S : Rank[Strictest(S)] <= Rank[e]
  BY <1>1, StrictestIsLeast
<1> QED BY <1>1, <1>2, <1>3 DEF S

-------------------------------------------------------------------------------
LEMMA InitIInv == Init => IInv
<1> SUFFICES ASSUME Init PROVE IInv
  OBVIOUS
<1>1. TypeOK
  BY EmptySeq DEF Init, TypeOK, Effects, NoResult, Scans, Applicable
<1>2. Covered
  BY DEF Init, Covered, KeysOf
<1>3. Judged
  BY DEF Init, Judged
<1> QED BY <1>1, <1>2, <1>3 DEF IInv

LEMMA StepIInv == IInv /\ [Next]_vars => IInv'
<1> SUFFICES ASSUME IInv, [Next]_vars PROVE IInv'
  OBVIOUS
<1> USE DEF IInv
<1>1. CASE Scan
  <2> USE <1>1 DEF Scan
  <2>0. Applicable' = Applicable /\ MatchedRules' = MatchedRules
    BY DEF Applicable, MatchedRules, Applies
  <2>1. TypeOK'
    BY <2>0 DEF TypeOK, Effects, Judged
  <2>2. Covered'
    BY DEF Covered, KeysOf, Applies
  <2>3. Judged'
    BY DEF Judged
  <2> QED BY <2>1, <2>2, <2>3
<1>2. CASE Compile
  <2> USE <1>2 DEF Compile
  <2>0. Applicable' = Applicable /\ MatchedRules' = MatchedRules
    BY DEF Applicable, MatchedRules, Applies
  <2>1. PICK b \in rows :
          /\ rows' = rows \ {b}
          /\ compiled' = IF Applies(b) THEN CompiledWith(compiled, b) ELSE compiled
    OBVIOUS
  <2>2. b \in Bindings /\ compiled \in Seq(Entries) /\ Distinct(compiled)
    BY DEF TypeOK, Entries, Distinct
  <2>3. /\ compiled' \in Seq(Entries) /\ Distinct(compiled')
        /\ KeysOf(compiled') = KeysOf(compiled) \cup (IF Applies(b) THEN {b.key} ELSE {})
    BY <2>1, <2>2, CompiledWithAdds
  <2>4. Covered'
    <3>1. bound \ rows' = (bound \ rows) \cup {b}
      BY <2>1 DEF TypeOK
    <3>2. \A x : Applies(x)' = Applies(x)
      BY DEF Applies
    <3>3. KeysOf(compiled)' = KeysOf(compiled')
      BY DEF KeysOf
    <3> QED BY <3>1, <3>2, <3>3, <2>3 DEF Covered
  <2>5. TypeOK'
    <3>1. KeysOf(compiled') \subseteq Applicable'
      BY <2>4 DEF Covered, KeysOf, Applicable, TypeOK, Applies
    <3>2. rows' \subseteq bound'
      BY <2>1 DEF TypeOK
    <3> QED BY <3>1, <3>2, <2>3 DEF TypeOK, Entries, Distinct, KeysOf
  <2>6. Judged'
    BY <2>0 DEF Judged
  <2> QED BY <2>4, <2>5, <2>6
<1>3. CASE Evaluate
  <2> USE <1>3 DEF Evaluate
  <2>0. Applicable' = Applicable /\ MatchedRules' = MatchedRules
    BY DEF Applicable, MatchedRules, Applies
  <2>1. Covered'
    BY DEF Covered, KeysOf, Applies
  <2>2. CASE Raises(compiled) /\ phase' = "raised" /\ UNCHANGED policy
    <3>1. TypeOK'
      BY <2>2, <2>0 DEF TypeOK
    <3>2. Judged'
      BY <2>2 DEF Judged
    <3> QED BY <3>1, <3>2, <2>1
  <2>3. CASE policy' = Evaluated(compiled) /\ phase' = "combine"
    <3>1. /\ policy'.decision \in Effects
          /\ \A h \in Matches(compiled) :
               Rank[policy'.decision] <= Rank[Rule(compiled, h).effect]
      BY <2>3, EvaluatedIsStrictest
    <3>2. MatchedRules = {Rule(compiled, h) : h \in Matches(compiled)}
      <4>1. KeysOf(compiled) = Applicable
        BY DEF Covered, Applicable, TypeOK
      <4> QED BY <4>1, MatchesAreMatched
    <3>3. TypeOK'
      <4>1. decision = None /\ redactions = {}
        BY DEF TypeOK, Judged
      <4> QED BY <4>1, <3>1, <2>3, <2>0 DEF TypeOK
    <3>4. Judged'
      BY <2>3, <3>1, <3>2, <2>0 DEF Judged
    <3> QED BY <2>1, <3>3, <3>4
  <2> QED BY <2>2, <2>3
<1>4. CASE Conclude
  <2> USE <1>4 DEF Conclude
  <2>0. Applicable' = Applicable /\ MatchedRules' = MatchedRules
    BY DEF Applicable, MatchedRules, Applies
  <2>1. Covered'
    BY DEF Covered, KeysOf, Applies
  <2>2. /\ policy.decision \in Effects
        /\ \A r \in MatchedRules : Rank[policy.decision] <= Rank[r.effect]
    BY DEF Judged
  <2>3. decision' \in Effects
    BY <2>2, CombineIsStrictest
  <2>4. TypeOK'
    <3>1. redactions' \subseteq policy.redactions \cup dlp.paths
      BY DEF Redactions
    <3> QED BY <3>1, <2>0, <2>3 DEF TypeOK
  <2>5. Judged'
    BY <2>0, <2>2 DEF Judged
  <2> QED BY <2>1, <2>4, <2>5
<1>5. CASE UNCHANGED vars
  <2>1. Applicable' = Applicable /\ MatchedRules' = MatchedRules
    BY <1>5 DEF vars, Applicable, MatchedRules, Applies
  <2>2. TypeOK' /\ Covered'
    BY <1>5, <2>1 DEF vars, TypeOK, Covered, KeysOf, Applies
  <2>3. Judged'
    BY <1>5, <2>1 DEF vars, Judged
  <2> QED BY <2>2, <2>3
<1> QED BY <1>1, <1>2, <1>3, <1>4, <1>5 DEF Next

LEMMA Invariance == Spec => []IInv
BY InitIInv, StepIInv, PTL DEF Spec

\* The state keeps its shape; in particular load_policy_set never compiles a
\* policy twice, nor one that no applicable binding names.
THEOREM TypeCorrect == Spec => []TypeOK
BY Invariance, PTL DEF IInv

-------------------------------------------------------------------------------
(* The answer itself: which rule or default_effect it comes from.  The     *)
(* engine reads specificities off the compiled policies, the properties    *)
(* off the bindings; Deepest, the second loop invariant of                 *)
(* load_policy_set, says that the two agree.                               *)

\* How specifically the bindings of S that apply bind policy k.
DepthsIn(k, S) == {Specificity[b.scope] : b \in {x \in S : Applies(x) /\ x.key = k}}

Greatest(d, D) == d \in D /\ \A e \in D : e <= d

\* A compiled policy is at its most specific binding taken so far.
Deepest ==
  \A i \in DOMAIN compiled :
    Greatest(compiled[i].specificity, DepthsIn(compiled[i].key, bound \ rows))

\* A limit is the one of the first matching rate_limit rule of a policy that
\* no other limiting policy outranks.
LimitComesFromForemost ==
  \E k \in LimitingPolicies :
    /\ Foremost(k, LimitingPolicies)
    /\ policy.limit = spec[k].rules[FirstLimiting(k)].limit

\* The paths of a redact decision: some, and those of every matching rule.
PathsComplete(paths) ==
  /\ paths # {}
  /\ \A r \in MatchedRules : r.effect = "redact" => r.redactions \subseteq paths

\* What the engine returned, once it has.
Answered ==
  phase \in {"combine", "done"} =>
    /\ policy.decision \in PolicyAsks
    /\ policy.decision = "rate_limit" => LimitComesFromForemost
    /\ policy.decision = "redact" => PathsComplete(policy.redactions)

Outcome == DecisionIsStrictest /\ LimitIsForemost /\ RedactNamesPaths

LEMMA CompiledShape ==
  ASSUME TypeOK
  PROVE  /\ compiled \in Seq(Entries) /\ Distinct(compiled)
         /\ \A i \in DOMAIN compiled :
              /\ i \in Nat
              /\ compiled[i].key \in Keys /\ compiled[i].specificity \in 0..4
              /\ spec[compiled[i].key] \in Specs
              /\ ValidSpec(spec[compiled[i].key])
<1>1. compiled \in Seq(Entries) /\ Distinct(compiled)
  BY DEF TypeOK, Entries, Distinct
<1>2. \A i \in DOMAIN compiled : i \in Nat /\ compiled[i] \in Entries
  BY <1>1, LenProperties, ElementOfSeq
<1>3. \A k \in Keys : spec[k] \in Specs
  BY DEF TypeOK
<1>4. \A s \in Specs : ValidSpec(s)
  BY DecisionAssumption
<1> QED BY <1>1, <1>2, <1>3, <1>4 DEF Entries

\* One binding deepens the entry of its policy to the greater of the two, or
\* starts it; other entries keep theirs.
LEMMA CompiledWithDeepens ==
  ASSUME NEW c \in Seq(Entries), Distinct(c), NEW b \in Bindings
  PROVE  \A i \in DOMAIN CompiledWith(c, b) :
           LET e == CompiledWith(c, b)[i] IN
             \/ /\ e.key = b.key /\ b.key \notin KeysOf(c)
                /\ e.specificity = Specificity[b.scope]
             \/ /\ i \in DOMAIN c /\ e.key = c[i].key
                /\ \/ e.specificity = c[i].specificity
                   \/ e.key = b.key /\ e.specificity = Specificity[b.scope]
                /\ e.specificity >= c[i].specificity
                /\ e.key = b.key => e.specificity >= Specificity[b.scope]
<1>1. Specificity[b.scope] \in 0..4
  BY DecisionAssumption DEF Specificity
<1>2. Len(c) \in Nat /\ DOMAIN c = 1..Len(c) /\ \A i \in 1..Len(c) : c[i] \in Entries
  BY LenProperties, ElementOfSeq
<1> DEFINE d == Specificity[b.scope]
<1> HIDE DEF d
<1>3. CASE \E i \in DOMAIN c : c[i].key = b.key
  <2>1. CompiledWith(c, b) = [i \in DOMAIN c |-> IF c[i].key = b.key /\ d > c[i].specificity
                                                THEN [c[i] EXCEPT !.specificity = d]
                                                ELSE c[i]]
    BY <1>3 DEF CompiledWith, d
  <2>2. d \in 0..4
    BY <1>1 DEF d
  <2>3. ASSUME NEW i \in DOMAIN c
        PROVE  /\ CompiledWith(c, b)[i].key = c[i].key
               /\ \/ CompiledWith(c, b)[i].specificity = c[i].specificity
                  \/ c[i].key = b.key /\ CompiledWith(c, b)[i].specificity = d
               /\ CompiledWith(c, b)[i].specificity >= c[i].specificity
               /\ c[i].key = b.key => CompiledWith(c, b)[i].specificity >= d
    <3>1. c[i] \in Entries
      BY <1>2
    <3> QED BY <2>1, <2>2, <3>1 DEF Entries
  <2>4. DOMAIN CompiledWith(c, b) = DOMAIN c
    BY <2>1
  <2> QED BY <2>3, <2>4 DEF d
<1>4. CASE \A i \in DOMAIN c : c[i].key # b.key
  <2> DEFINE new == [key |-> b.key, specificity |-> d]
  <2>1. CompiledWith(c, b) = Append(c, new)
    BY <1>4 DEF CompiledWith, d
  <2>2. new \in Entries /\ new.key = b.key /\ new.specificity = d
    BY <1>1, DecisionAssumption DEF Entries, d
  <2> HIDE DEF new
  <2>3. /\ Len(Append(c, new)) = Len(c) + 1 /\ Append(c, new) \in Seq(Entries)
        /\ \A i \in 1..Len(c) : Append(c, new)[i] = c[i]
        /\ Append(c, new)[Len(c) + 1] = new
    BY <2>2, AppendProperties
  <2>4. DOMAIN Append(c, new) = 1..(Len(c) + 1)
    BY <2>3, LenProperties
  <2>5. b.key \notin KeysOf(c)
    BY <1>4 DEF KeysOf
  <2>6. ASSUME NEW i \in DOMAIN c
        PROVE  /\ Append(c, new)[i] = c[i] /\ c[i].key # b.key
               /\ c[i].specificity >= c[i].specificity
    BY <1>2, <1>4, <2>3 DEF Entries
  <2>7. \A i \in DOMAIN Append(c, new) : i = Len(c) + 1 \/ i \in DOMAIN c
    BY <1>2, <2>4
  <2> QED BY <2>1, <2>2, <2>3, <2>5, <2>6, <2>7 DEF d
<1> QED BY <1>3, <1>4

\* With no row left, an entry is as specific as its policy is bound.
LEMMA DepthIsCompiled ==
  ASSUME TypeOK, Deepest, rows = {}, NEW i \in DOMAIN compiled
  PROVE  Depth(compiled[i].key) = compiled[i].specificity
<1> DEFINE k == compiled[i].key
           D == DepthsIn(k, bound)
<1>1. bound \ rows = bound
  OBVIOUS
<1>2. Greatest(compiled[i].specificity, D)
  BY <1>1 DEF Deepest
<1>3. D \subseteq 0..4
  BY DecisionAssumption DEF DepthsIn, Specificity, TypeOK
<1>4. Depth(k) = CHOOSE d \in D : \A e \in D : e <= d
  BY DEF Depth, DepthsIn
<1> HIDE DEF D, k
<1>5. Depth(k) \in D /\ \A e \in D : e <= Depth(k)
  BY <1>2, <1>4 DEF Greatest
<1>6. \A m, n \in D : m <= n /\ n <= m => m = n
  BY <1>3
<1> QED BY <1>2, <1>5, <1>6 DEF Greatest, k

\* What the sort puts first among some compiled policies, no other of them
\* outranks.
LEMMA SoonerIsForemost ==
  ASSUME TypeOK, Deepest, rows = {},
         NEW T \in SUBSET DOMAIN compiled, NEW i \in T,
         \A j \in T \ {i} : Sooner(compiled, i, j)
  PROVE  Foremost(compiled[i].key, {compiled[j].key : j \in T})
<1> SUFFICES ASSUME NEW j \in T
             PROVE  \/ Depth(compiled[j].key) < Depth(compiled[i].key)
                    \/ /\ Depth(compiled[j].key) = Depth(compiled[i].key)
                       /\ spec[compiled[i].key].priority <= spec[compiled[j].key].priority
  BY DEF Foremost
<1>1. /\ Depth(compiled[i].key) = compiled[i].specificity
      /\ Depth(compiled[j].key) = compiled[j].specificity
  BY DepthIsCompiled
<1>2. /\ compiled[i].specificity \in 0..4 /\ compiled[j].specificity \in 0..4
      /\ spec[compiled[i].key].priority \in Nat /\ spec[compiled[j].key].priority \in Nat
  BY CompiledShape DEF ValidSpec
<1>3. CASE j = i
  BY <1>1, <1>2, <1>3
<1>4. CASE j # i
  BY <1>1, <1>2, <1>4 DEF Sooner, Priority
<1> QED BY <1>3, <1>4

\* With no row left, every default_effect in force is compiled; the first of
\* the sorted policies is one that none outranks.
LEMMA DefaultIsAsked ==
  ASSUME TypeOK, Deepest, rows = {}, KeysOf(compiled) = Applicable, MatchedRules = {}
  PROVE  DefaultEffect(compiled) \in PolicyAsks
<1> DEFINE Having == {i \in DOMAIN compiled : spec[compiled[i].key].default # None}
           having == {k \in Applicable : spec[k].default # None}
<1>1. having = {compiled[j].key : j \in Having}
  BY DEF KeysOf
<1>2. PolicyAsks = IF having = {} THEN {"allow"}
                   ELSE {spec[k].default : k \in {x \in having : Foremost(x, having)}}
  BY DEF PolicyAsks
<1>3. CASE Having = {}
  BY <1>1, <1>2, <1>3 DEF DefaultEffect
<1>4. CASE Having # {}
  <2> DEFINE i == CHOOSE i \in Having : \A j \in Having \ {i} : Sooner(compiled, i, j)
  <2>1. DefaultEffect(compiled) = spec[compiled[i].key].default
    BY <1>4 DEF DefaultEffect
  <2>2. i \in Having /\ \A j \in Having \ {i} : Sooner(compiled, i, j)
    BY <1>4, ForemostExists
  <2>3. Having \in SUBSET DOMAIN compiled
    OBVIOUS
  <2> HIDE DEF i, Having, having
  <2>4. PICK h : h = i
    OBVIOUS
  <2>5. Foremost(compiled[h].key, {compiled[j].key : j \in Having})
    BY <2>2, <2>3, <2>4, SoonerIsForemost
  <2>6. compiled[h].key \in having /\ Foremost(compiled[h].key, having)
    BY <1>1, <2>2, <2>4, <2>5
  <2>7. having # {}
    BY <2>6
  <2> QED BY <1>2, <2>1, <2>4, <2>6, <2>7
<1> QED BY <1>3, <1>4

\* No default_effect is a rate limit or a redaction: those come from rules.
LEMMA DefaultNeedsNoDetail ==
  ASSUME TypeOK
  PROVE  DefaultEffect(compiled) \in {"allow", "deny", "approval"}
<1> DEFINE Having == {i \in DOMAIN compiled : spec[compiled[i].key].default # None}
<1>1. CASE Having = {}
  BY <1>1 DEF DefaultEffect
<1>2. CASE Having # {}
  <2> DEFINE i == CHOOSE i \in Having : \A j \in Having \ {i} : Sooner(compiled, i, j)
  <2>1. i \in Having
    BY <1>2, ForemostExists
  <2>2. DefaultEffect(compiled) = spec[compiled[i].key].default
    BY <1>2 DEF DefaultEffect
  <2> QED BY <2>1, <2>2, CompiledShape DEF ValidSpec
<1> QED BY <1>1, <1>2

\* The places of the rules with an effect that match, by policy and rule.
LEMMA HitsArePlaces ==
  ASSUME TypeOK, NEW effect, NEW h \in Hits(compiled, effect)
  PROVE  /\ h = <<h[1], h[2]>>
         /\ h[1] \in DOMAIN compiled
         /\ h[2] \in DOMAIN spec[compiled[h[1]].key].rules
         /\ h[2] \in Nat
<1>1. PICK i \in DOMAIN compiled : \E j \in DOMAIN spec[compiled[i].key].rules : h = <<i, j>>
  BY DEF Hits, Matches, Rules
<1>2. PICK j \in DOMAIN spec[compiled[i].key].rules : h = <<i, j>>
  BY <1>1
<1>3. j \in Nat
  BY CompiledShape DEF ValidSpec
<1> QED BY <1>2, <1>3

\* Among the places of some rules, one is yielded before all others.
LEMMA FirstHitExists ==
  ASSUME TypeOK, NEW effect, Hits(compiled, effect) # {}
  PROVE  \E h \in Hits(compiled, effect) :
           \A g \in Hits(compiled, effect) \ {h} : Earlier(compiled, h, g)
<1> DEFINE H == Hits(compiled, effect)
           P == {h[1] : h \in H}
<1>1. \A h \in H : /\ h = <<h[1], h[2]>> /\ h[1] \in DOMAIN compiled /\ h[2] \in Nat
  BY HitsArePlaces
<1> HIDE DEF H
<1>2. P \in SUBSET DOMAIN compiled /\ P # {}
  BY <1>1 DEF H
<1>3. PICK i \in P : \A j \in P \ {i} : Sooner(compiled, i, j)
  BY <1>2, ForemostExists
<1> DEFINE R == {h[2] : h \in {x \in H : x[1] = i}}
<1>4. R \in SUBSET Nat /\ R # {}
  BY <1>1
<1> HIDE DEF R
<1>5. PICK j \in R : \A x \in R : j <= x
  BY <1>4, NatMinimum
<1> USE DEF R
<1>6. <<i, j>> \in H
  BY <1>1, <1>5
<1>7. ASSUME NEW g \in H \ {<<i, j>>} PROVE Earlier(compiled, <<i, j>>, g)
  <2>1. CASE g[1] # i
    BY <1>3, <2>1 DEF Earlier
  <2>2. CASE g[1] = i
    <3>1. g[2] \in R /\ g[2] # j /\ g[2] \in Nat /\ j \in Nat
      BY <1>1, <1>4, <2>2, <1>7
    <3>2. j < g[2]
      BY <1>5, <3>1
    <3> QED BY <2>2, <3>2 DEF Earlier
  <2> QED BY <2>1, <2>2
<1> QED BY <1>6, <1>7 DEF H

\* The first rate_limit rule yielded is the first one that matches of a
\* policy no other limiting policy outranks.
LEMMA FirstLimitIsForemost ==
  ASSUME TypeOK, Deepest, rows = {}, KeysOf(compiled) = Applicable,
         NEW h \in Hits(compiled, "rate_limit"),
         \A g \in Hits(compiled, "rate_limit") \ {h} : Earlier(compiled, h, g)
  PROVE  /\ compiled[h[1]].key \in LimitingPolicies
         /\ Foremost(compiled[h[1]].key, LimitingPolicies)
         /\ FirstLimiting(compiled[h[1]].key) = h[2]
<1> DEFINE H == Hits(compiled, "rate_limit")
           P == {g[1] : g \in H}
           k == compiled[h[1]].key
<1>1. \A g \in H : /\ g = <<g[1], g[2]>> /\ g[1] \in DOMAIN compiled /\ g[2] \in Nat
                   /\ g[2] \in DOMAIN spec[compiled[g[1]].key].rules
  BY HitsArePlaces
<1>2. \A i \in DOMAIN compiled : \A j :
        <<i, j>> \in H <=> j \in Limiting(compiled[i].key)
  <2> SUFFICES ASSUME NEW i \in DOMAIN compiled, NEW j
               PROVE  <<i, j>> \in H <=> j \in Limiting(compiled[i].key)
    OBVIOUS
  <2>1. <<i, j>> \in Rules(compiled) <=> j \in DOMAIN spec[compiled[i].key].rules
    BY DEF Rules
  <2>2. Rule(compiled, <<i, j>>) = spec[compiled[i].key].rules[j]
    BY DEF Rule
  <2> QED BY <2>1, <2>2 DEF Hits, Matches, Limiting
<1>3. LimitingPolicies = {compiled[i].key : i \in P}
  <2>1. \A i \in P : i \in DOMAIN compiled /\ Limiting(compiled[i].key) # {}
    BY <1>1, <1>2
  <2>2. \A i \in DOMAIN compiled : Limiting(compiled[i].key) # {} => i \in P
    <3> SUFFICES ASSUME NEW i \in DOMAIN compiled, NEW j \in Limiting(compiled[i].key)
                 PROVE  i \in P
      OBVIOUS
    <3>1. <<i, j>> \in H /\ <<i, j>>[1] = i
      BY <1>2
    <3> QED BY <3>1
  <2> QED BY <2>1, <2>2 DEF LimitingPolicies, KeysOf
<1>4. h[1] \in P
  OBVIOUS
<1>5. \A i \in P \ {h[1]} : Sooner(compiled, h[1], i)
  BY DEF Earlier
<1>6. Foremost(k, LimitingPolicies)
  <2>1. P \in SUBSET DOMAIN compiled
    BY <1>1
  <2> HIDE DEF P, H
  <2>2. PICK m : m = h[1]
    OBVIOUS
  <2>3. Foremost(compiled[m].key, {compiled[j].key : j \in P})
    BY <1>4, <1>5, <2>1, <2>2, SoonerIsForemost
  <2> QED BY <1>3, <2>2, <2>3
<1>7. h[2] \in Limiting(k) /\ \A j \in Limiting(k) : h[2] <= j
  <2>1. h[2] \in Limiting(k)
    BY <1>1, <1>2
  <2>2. ASSUME NEW j \in Limiting(k) PROVE h[2] <= j
    <3>1. <<h[1], j>> \in H
      BY <1>1, <1>2
    <3>2. j \in Nat /\ h[2] \in Nat
      BY <3>1, <1>1
    <3>3. CASE j = h[2]
      BY <3>2, <3>3
    <3>4. CASE j # h[2]
      <4>1. Earlier(compiled, h, <<h[1], j>>)
        BY <3>1, <3>4
      <4>2. ~Sooner(compiled, h[1], h[1])
        BY <1>1, CompiledShape DEF Sooner, Priority, ValidSpec
      <4> QED BY <4>1, <4>2, <3>2 DEF Earlier
    <3> QED BY <3>3, <3>4
  <2> QED BY <2>1, <2>2
<1>8. FirstLimiting(k) = h[2]
  <2>1. Limiting(k) \subseteq Nat
    BY <1>1, CompiledShape DEF Limiting, ValidSpec
  <2> HIDE DEF k
  <2>2. \A m \in Limiting(k) : (\A j \in Limiting(k) : m <= j) => m = h[2]
    BY <1>7, <2>1
  <2> QED BY <1>7, <2>2 DEF FirstLimiting
<1> QED BY <1>3, <1>4, <1>6, <1>8

\* What evaluate() returns once every row is compiled.
LEMMA EvaluatedIsAnswer ==
  ASSUME TypeOK, Deepest, rows = {}, KeysOf(compiled) = Applicable
  PROVE  LET e == Evaluated(compiled) IN
         /\ e.decision \in PolicyAsks
         /\ e.decision = "rate_limit" =>
              \E k \in LimitingPolicies :
                /\ Foremost(k, LimitingPolicies)
                /\ e.limit = spec[k].rules[FirstLimiting(k)].limit
         /\ e.decision = "redact" => PathsComplete(e.redactions)
<1> DEFINE M == Matches(compiled)
           S == {Rule(compiled, h).effect : h \in M}
           d == Strictest(S)
           first == CHOOSE h \in Hits(compiled, d) :
                      \A g \in Hits(compiled, d) \ {h} : Earlier(compiled, h, g)
<1>1. MatchedRules = {Rule(compiled, h) : h \in M}
  BY MatchesAreMatched
<1>2. CASE M = {}
  <2>1. Evaluated(compiled).decision = DefaultEffect(compiled)
    BY <1>2 DEF Evaluated, NoResult
  <2>2. MatchedRules = {}
    BY <1>1, <1>2
  <2> HIDE DEF M
  <2>3. DefaultEffect(compiled) \in PolicyAsks
    BY <2>2, DefaultIsAsked
  <2>4. DefaultEffect(compiled) \notin {"rate_limit", "redact"}
    BY DefaultNeedsNoDetail
  <2> QED BY <2>1, <2>3, <2>4
<1>3. CASE M # {}
  <2>0. \A h \in M : h[1] \in DOMAIN compiled /\ ValidRule(Rule(compiled, h))
    <3> SUFFICES ASSUME NEW h \in M PROVE h[1] \in DOMAIN compiled /\ ValidRule(Rule(compiled, h))
      OBVIOUS
    <3>1. h \in Hits(compiled, Rule(compiled, h).effect)
      BY DEF Hits
    <3>2. h[1] \in DOMAIN compiled /\ h[2] \in DOMAIN spec[compiled[h[1]].key].rules
      BY <3>1, HitsArePlaces
    <3> QED BY <3>2, CompiledShape DEF Rule, ValidSpec
  <2>1. S \in SUBSET Effects /\ S # {}
    BY <1>3, <2>0 DEF ValidRule
  <2>2. d \in S
    BY <2>1, StrictestIsLeast
  <2>3. Hits(compiled, d) # {}
    BY <2>2 DEF Hits
  <2>4. /\ Evaluated(compiled).decision = d
        /\ d = "redact" => Evaluated(compiled).redactions =
                             UNION {Rule(compiled, h).redactions : h \in Hits(compiled, d)}
        /\ d = "rate_limit" => Evaluated(compiled).limit = Rule(compiled, first).limit
    BY <1>3 DEF Evaluated
  <2>5. d \in PolicyAsks
    <3>1. S = {r.effect : r \in MatchedRules} /\ MatchedRules # {}
      BY <1>1, <1>3
    <3> QED BY <3>1 DEF PolicyAsks
  <2>6. ASSUME d = "rate_limit"
        PROVE  \E k \in LimitingPolicies :
                 /\ Foremost(k, LimitingPolicies)
                 /\ Evaluated(compiled).limit = spec[k].rules[FirstLimiting(k)].limit
    <3>1. /\ first \in Hits(compiled, "rate_limit")
          /\ \A g \in Hits(compiled, "rate_limit") \ {first} : Earlier(compiled, first, g)
      BY <2>3, <2>6, FirstHitExists
    <3>2. Evaluated(compiled).limit = Rule(compiled, first).limit
      BY <2>4, <2>6
    <3> HIDE DEF first, d
    <3>3. PICK h : h = first
      OBVIOUS
    <3>4. /\ compiled[h[1]].key \in LimitingPolicies
          /\ Foremost(compiled[h[1]].key, LimitingPolicies)
          /\ FirstLimiting(compiled[h[1]].key) = h[2]
      BY <3>1, <3>3, FirstLimitIsForemost
    <3> QED BY <3>2, <3>3, <3>4 DEF Rule
  <2>7. ASSUME d = "redact"
        PROVE  PathsComplete(Evaluated(compiled).redactions)
    <3> DEFINE H == Hits(compiled, "redact")
    <3>1. Evaluated(compiled).redactions = UNION {Rule(compiled, h).redactions : h \in H}
      BY <2>4, <2>7
    <3>2. \A h \in H : Rule(compiled, h).redactions # {}
      BY <2>0 DEF Hits, ValidRule
    <3>3. H # {}
      BY <2>3, <2>7
    <3>4. \A r \in MatchedRules : r.effect = "redact" => \E h \in H : r = Rule(compiled, h)
      BY <1>1 DEF Hits
    <3> HIDE DEF H
    <3>5. Evaluated(compiled).redactions # {}
      BY <3>1, <3>2, <3>3
    <3> QED BY <3>1, <3>4, <3>5 DEF PathsComplete
  <2> HIDE DEF d
  <2> QED BY <2>4, <2>5, <2>6, <2>7
<1> QED BY <1>2, <1>3

\* What does not touch the policies or the bindings leaves every statement
\* about them alone.
LEMMA StatementsKeep ==
  ASSUME UNCHANGED <<spec, bound>>
  PROVE  /\ PolicyAsks' = PolicyAsks /\ MatchedRules' = MatchedRules
         /\ LimitingPolicies' = LimitingPolicies
         /\ \A k, K : Foremost(k, K)' = Foremost(k, K)
         /\ \A k : FirstLimiting(k)' = FirstLimiting(k)
         /\ \A paths : PathsComplete(paths)' = PathsComplete(paths)
         /\ \A k, S : DepthsIn(k, S)' = DepthsIn(k, S)
<1>1. Applicable' = Applicable /\ \A k : Depth(k)' = Depth(k)
  BY DEF Applicable, Applies, Depth
<1>2. MatchedRules' = MatchedRules
  BY <1>1 DEF MatchedRules
<1>3. \A k, K : Foremost(k, K)' = Foremost(k, K)
  BY <1>1 DEF Foremost
<1>4. \A k : Limiting(k)' = Limiting(k)
  BY DEF Limiting
<1>5. LimitingPolicies' = LimitingPolicies /\ \A k : FirstLimiting(k)' = FirstLimiting(k)
  BY <1>1, <1>4 DEF LimitingPolicies, FirstLimiting
<1>6. PolicyAsks' = PolicyAsks
  BY <1>1, <1>2, <1>3 DEF PolicyAsks
<1>7. \A paths : PathsComplete(paths)' = PathsComplete(paths)
  BY <1>2 DEF PathsComplete
<1>8. \A k, S : DepthsIn(k, S)' = DepthsIn(k, S)
  BY DEF DepthsIn, Applies
<1> QED BY <1>2, <1>3, <1>5, <1>6, <1>7, <1>8

LEMMA AnsweredKeeps ==
  ASSUME Answered, UNCHANGED <<spec, bound, policy>>,
         phase' \in {"combine", "done"} => phase \in {"combine", "done"}
  PROVE  Answered'
<1>1. LimitComesFromForemost' = LimitComesFromForemost
  BY StatementsKeep DEF LimitComesFromForemost
<1> QED BY <1>1, StatementsKeep DEF Answered

\* The next row keeps every compiled policy at its deepest binding so far.
LEMMA CompileDeepens ==
  ASSUME TypeOK, Covered, Deepest, NEW b \in rows,
         rows' = rows \ {b}, UNCHANGED <<spec, bound>>,
         compiled' = IF Applies(b) THEN CompiledWith(compiled, b) ELSE compiled
  PROVE  Deepest'
<1> DEFINE T == bound \ rows
           U == bound \ rows'
<1>1. U = T \cup {b} /\ b \in Bindings
  BY DEF TypeOK
<1>2. \A k : DepthsIn(k, U) = DepthsIn(k, T) \cup
                 (IF Applies(b) /\ b.key = k THEN {Specificity[b.scope]} ELSE {})
  BY <1>1 DEF DepthsIn
<1>3. \A k, S : DepthsIn(k, S)' = DepthsIn(k, S)
  BY StatementsKeep
<1>4. SUFFICES ASSUME NEW i \in DOMAIN compiled'
               PROVE  Greatest(compiled'[i].specificity, DepthsIn(compiled'[i].key, U))
  <2> HIDE DEF U
  <2>1. U = (bound \ rows)'
    BY DEF U
  <2> QED BY <1>3, <1>4, <2>1 DEF Deepest, Greatest
<1>5. CASE ~Applies(b)
  BY <1>2, <1>5 DEF Deepest
<1>6. CASE Applies(b)
  <2> DEFINE e == compiled'[i]
             s == Specificity[b.scope]
  <2>1. compiled \in Seq(Entries) /\ Distinct(compiled)
    BY CompiledShape
  <2>2. \/ /\ e.key = b.key /\ b.key \notin KeysOf(compiled)
           /\ e.specificity = s
        \/ /\ i \in DOMAIN compiled /\ e.key = compiled[i].key
           /\ \/ e.specificity = compiled[i].specificity
              \/ e.key = b.key /\ e.specificity = s
           /\ e.specificity >= compiled[i].specificity
           /\ e.key = b.key => e.specificity >= s
    BY <1>1, <1>6, <2>1, CompiledWithDeepens
  <2>3. s \in 0..4
    BY <1>1, DecisionAssumption DEF Specificity
  <2>4. CASE e.key = b.key /\ b.key \notin KeysOf(compiled) /\ e.specificity = s
    <3>1. DepthsIn(b.key, T) = {}
      BY <2>4 DEF Covered, DepthsIn
    <3>2. DepthsIn(b.key, U) = {s}
      BY <3>1, <1>2, <1>6
    <3> QED BY <2>3, <2>4, <3>2 DEF Greatest
  <2>5. CASE /\ i \in DOMAIN compiled /\ e.key = compiled[i].key
             /\ \/ e.specificity = compiled[i].specificity
                \/ e.key = b.key /\ e.specificity = s
             /\ e.specificity >= compiled[i].specificity
             /\ e.key = b.key => e.specificity >= s
    <3>1. Greatest(compiled[i].specificity, DepthsIn(e.key, T))
      BY <2>5 DEF Deepest
    <3>2. DepthsIn(e.key, T) \subseteq 0..4 /\ compiled[i].specificity \in 0..4
      <4>1. T \subseteq Bindings
        BY DEF TypeOK
      <4>2. DepthsIn(e.key, T) \subseteq 0..4
        BY <4>1, DecisionAssumption DEF DepthsIn, Specificity
      <4> QED BY <4>2, <2>5, CompiledShape
    <3>3. DepthsIn(e.key, U) = DepthsIn(e.key, T) \cup (IF b.key = e.key THEN {s} ELSE {})
      BY <1>2, <1>6
    <3> HIDE DEF s, T, U
    <3>4. e.specificity \in 0..4
      BY <2>3, <2>5, <3>2
    <3> DEFINE n == e.specificity
               m == compiled[i].specificity
    <3>5. n \in DepthsIn(e.key, U)
      BY <2>5, <3>1, <3>3 DEF Greatest
    <3>6. ASSUME NEW x \in DepthsIn(e.key, U) PROVE x <= n
      <4>1. CASE x \in DepthsIn(e.key, T)
        <5>1. x <= m /\ x \in 0..4
          BY <4>1, <3>1, <3>2 DEF Greatest
        <5> QED BY <5>1, <2>5, <3>2, <3>4
      <4>2. CASE b.key = e.key /\ x = s
        BY <4>2, <2>3, <2>5, <3>4
      <4>3. x \in DepthsIn(e.key, T) \/ (b.key = e.key /\ x = s)
        BY <3>3, <3>6
      <4> QED BY <4>1, <4>2, <4>3
    <3> QED BY <3>5, <3>6 DEF Greatest
  <2> QED BY <2>2, <2>4, <2>5
<1> QED BY <1>5, <1>6

LEMMA DeepestKeeps ==
  ASSUME Deepest, UNCHANGED <<spec, bound, rows, compiled>>
  PROVE  Deepest'
BY StatementsKeep DEF Deepest, Greatest

LEMMA InitOutcome == Init => Deepest /\ Answered /\ Outcome
<1> SUFFICES ASSUME Init PROVE Deepest /\ Answered /\ Outcome
  OBVIOUS
<1>1. Deepest
  BY DEF Init, Deepest
<1>2. Answered
  BY DEF Init, Answered
<1>3. Outcome
  BY DEF Init, Outcome, DecisionIsStrictest, LimitIsForemost, RedactNamesPaths
<1> QED BY <1>1, <1>2, <1>3

\* A rate limit or a redaction of the combined decision is the policies' own,
\* or the scan's.
LEMMA CombinedFrom ==
  ASSUME NEW p \in Effects, NEW x, NEW r
  PROVE  /\ Combine(p, x, r) = "rate_limit" => p = "rate_limit"
         /\ Combine(p, x, r) = "redact" => p = "redact" \/ x.action = "redact"
<1> DEFINE S == {p} \cup DlpCandidates(x) \cup RiskCandidates(r)
<1>1. S \in SUBSET Effects /\ S # {}
  BY DEF Effects, DlpCandidates, RiskCandidates
<1>2. Strictest(S) \in S
  BY <1>1, StrictestIsLeast
<1>3. Combine(p, x, r) = Strictest(S)
  BY DEF Combine
<1> HIDE DEF S
<1>4. Combine(p, x, r) \in S
  BY <1>2, <1>3
<1>5. \A e \in S : e = p \/ e \in DlpCandidates(x) \/ e \in {"deny", "approval"}
  BY DEF S, RiskCandidates
<1>6. \A e \in DlpCandidates(x) : e \in {"deny", "approval"} \/ (e = "redact" /\ x.action = "redact")
  BY DEF DlpCandidates
<1> QED BY <1>4, <1>5, <1>6

\* combine() and the redactions reported with what it returns.
LEMMA ConcludeOutcome ==
  ASSUME IInv, Answered, Conclude
  PROVE  Outcome'
<1> USE DEF Conclude
<1>0. /\ UNCHANGED <<spec, bound>>
      /\ policy.decision \in Effects
      /\ policy.decision \in PolicyAsks
      /\ policy.decision = "rate_limit" => LimitComesFromForemost
      /\ policy.decision = "redact" => PathsComplete(policy.redactions)
      /\ dlp \in Scans
  BY DEF IInv, Judged, Answered, TypeOK
<1>1. DecisionIsStrictest'
  <2>1. decision' = Strictest({policy.decision} \cup DlpCandidates(dlp) \cup RiskCandidates(risk'))
    BY DEF Combine
  <2>2. DlpCandidates(dlp)' = DlpCandidates(dlp) /\ RiskCandidates(risk)' = RiskCandidates(risk')
    BY DEF DlpCandidates, RiskCandidates
  <2> QED BY <1>0, <2>1, <2>2, StatementsKeep DEF DecisionIsStrictest
<1>2. LimitIsForemost'
  <2>1. ASSUME decision' = "rate_limit" PROVE LimitComesFromForemost
    BY <1>0, <2>1, CombinedFrom
  <2> QED BY <1>0, <2>1, StatementsKeep DEF LimitIsForemost, LimitComesFromForemost
<1>3. RedactNamesPaths'
  <2>1. SUFFICES ASSUME decision' = "redact"
                 PROVE  PathsComplete(redactions') /\ dlp.paths \subseteq redactions'
    BY <1>0, StatementsKeep DEF RedactNamesPaths, PathsComplete
  <2>2. redactions' = policy.redactions \cup dlp.paths
    BY <2>1 DEF Redactions
  <2>3. CASE policy.decision = "redact"
    BY <1>0, <2>2, <2>3 DEF PathsComplete
  <2>4. CASE policy.decision # "redact"
    <3>1. dlp.action = "redact"
      BY <1>0, <2>1, <2>4, CombinedFrom
    <3>2. dlp.paths # {}
      BY <1>0, <3>1 DEF Scans
    <3>3. ASSUME NEW r \in MatchedRules, r.effect = "redact" PROVE FALSE
      <4>1. Rank[decision'] <= Rank[policy.decision] /\ decision' = "redact"
        BY <1>0, <2>1, CombineIsStrictest
      <4>2. Rank[policy.decision] <= Rank["redact"]
        BY <3>3 DEF IInv, Judged
      <4> QED BY <1>0, <2>4, <4>1, <4>2 DEF Rank, Effects
    <3> QED BY <2>2, <3>2, <3>3 DEF PathsComplete
  <2> QED BY <2>3, <2>4
<1> QED BY <1>1, <1>2, <1>3 DEF Outcome

\* Only Conclude makes a decision of core_decision's own; elsewhere it is not
\* done or nothing changes.
LEMMA NotDoneOutcome ==
  ASSUME phase' # "done"
  PROVE  Outcome'
BY DEF Outcome, DecisionIsStrictest, LimitIsForemost, RedactNamesPaths

LEMMA StepOutcome ==
  IInv /\ IInv' /\ Deepest /\ Answered /\ Outcome /\ [Next]_vars
    => (Deepest /\ Answered /\ Outcome)'
<1> SUFFICES ASSUME IInv, Deepest, Answered, Outcome, [Next]_vars
             PROVE  Deepest' /\ Answered' /\ Outcome'
  OBVIOUS
<1>0. TypeOK /\ Covered
  BY DEF IInv
<1>1. CASE Scan
  <2> USE <1>1 DEF Scan
  <2>1. Deepest' /\ Answered'
    BY DeepestKeeps, AnsweredKeeps
  <2> QED BY <2>1, NotDoneOutcome
<1>2. CASE Compile
  <2> USE <1>2 DEF Compile
  <2>1. PICK b \in rows :
          /\ rows' = rows \ {b}
          /\ compiled' = IF Applies(b) THEN CompiledWith(compiled, b) ELSE compiled
    OBVIOUS
  <2>2. Deepest'
    BY <1>0, <2>1, CompileDeepens
  <2>3. Answered'
    BY AnsweredKeeps
  <2> QED BY <2>2, <2>3, NotDoneOutcome
<1>3. CASE Evaluate
  <2> USE <1>3 DEF Evaluate
  <2>1. Deepest'
    BY DeepestKeeps
  <2>2. Outcome'
    BY NotDoneOutcome
  <2>3. CASE phase' = "raised"
    BY <2>1, <2>2, <2>3 DEF Answered
  <2>4. CASE policy' = Evaluated(compiled) /\ phase' = "combine"
    <3>1. KeysOf(compiled) = Applicable
      BY <1>0 DEF Covered, Applicable, TypeOK
    <3>2. /\ policy'.decision \in PolicyAsks
          /\ policy'.decision = "rate_limit" =>
               \E k \in LimitingPolicies :
                 /\ Foremost(k, LimitingPolicies)
                 /\ policy'.limit = spec[k].rules[FirstLimiting(k)].limit
          /\ policy'.decision = "redact" => PathsComplete(policy'.redactions)
      BY <1>0, <2>4, <3>1, EvaluatedIsAnswer
    <3>3. Answered'
      BY <3>2, StatementsKeep DEF Answered, LimitComesFromForemost
    <3> QED BY <2>1, <2>2, <3>3
  <2> QED BY <2>3, <2>4
<1>4. CASE Conclude
  <2>1. Outcome'
    BY <1>4, ConcludeOutcome
  <2>2. Deepest' /\ Answered'
    BY <1>4, DeepestKeeps, AnsweredKeeps DEF Conclude
  <2> QED BY <2>1, <2>2
<1>5. CASE UNCHANGED vars
  <2> USE <1>5 DEF vars
  <2>1. Deepest' /\ Answered'
    BY DeepestKeeps, AnsweredKeeps
  <2>2. DlpCandidates(dlp)' = DlpCandidates(dlp) /\ RiskCandidates(risk)' = RiskCandidates(risk)
    BY DEF DlpCandidates, RiskCandidates
  <2>3. Outcome'
    BY <2>2, StatementsKeep DEF Outcome, DecisionIsStrictest, LimitIsForemost, RedactNamesPaths
  <2> QED BY <2>1, <2>3
<1> QED BY <1>1, <1>2, <1>3, <1>4, <1>5 DEF Next

LEMMA OutcomeInvariance == Spec => [](Deepest /\ Answered /\ Outcome)
BY InitOutcome, StepOutcome, Invariance, PTL DEF Spec

\* However the rows of policy_bindings come, core_decision answers exactly
\* the strictest of what the matched rules, or the default_effect of a policy
\* that none outranks, the DLP scan and the risk engine ask for.
THEOREM DecisionIsStrictestHolds == Spec => []DecisionIsStrictest
BY OutcomeInvariance, PTL DEF Outcome

\* In any order of the rows, a rate-limited call gets the limit of the first
\* matching rate_limit rule of a policy that no other limiting policy outranks,
\* by specificity of its deepest applicable binding, then by priority.
THEOREM LimitIsForemostHolds == Spec => []LimitIsForemost
BY OutcomeInvariance, PTL DEF Outcome

\* core_decision never answers redact without a path: it names those of every
\* matching redact rule and those the DLP scan found.
THEOREM RedactNamesPathsHolds == Spec => []RedactNamesPaths
BY OutcomeInvariance, PTL DEF Outcome
===============================================================================
