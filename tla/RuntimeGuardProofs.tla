-------------------------- MODULE RuntimeGuardProofs --------------------------
(***************************************************************************)
(* Proofs about RuntimeGuard, for any agents, keys, calls and officers.    *)
(*                                                                         *)
(* The many steps of an evaluation are of three kinds: it walks one edge   *)
(* of its way on (Walk), it ends without a commit (Abort), or it commits.  *)
(* The invariants say what holds at each point of the way; each of them is *)
(* kept by every kind of step.                                             *)
(*                                                                         *)
(* IInv is about threats, incidents, the limiter, the SDK and the events;  *)
(* RInv, which rests on it, about why evaluations fail, what the counters  *)
(* count, and the types.                                                   *)
(***************************************************************************)
EXTENDS RuntimeGuard, FiniteSetTheorems, SequenceTheorems, TLAPS

EvFields  == {"pc", "call", "key", "uses", "snap", "win", "dec", "score", "raise", "row", "end"}
ReqFields == {"op", "pc", "row", "to", "end"}
IsEval(x)    == DOMAIN x = EvFields /\ x = [f \in EvFields |-> x[f]]
IsRequest(x) == DOMAIN x = ReqFields /\ x = [f \in ReqFields |-> x[f]]

Edges ==
  {<<"core", "window">>, <<"core", "approve">>, <<"core", "record">>, <<"window", "consume">>,
   <<"consume", "record">>, <<"approve", "record">>, <<"record", "reload">>, <<"record", "learn">>,
   <<"reload", "learn">>, <<"learn", "threat">>, <<"learn", "finish">>, <<"threat", "finish">>,
   <<"threat", "alarm">>, <<"alarm", "open">>, <<"alarm", "finish">>, <<"open", "finish">>,
   <<"finish", "commit">>}

\* Functions and records are what they seem.
Shape ==
  /\ ev = [e \in Evals |-> ev[e]] /\ sdk = [e \in Evals |-> sdk[e]]
  /\ req = [o \in Officers |-> req[o]]
  /\ held = [p \in Procs |-> held[p]] /\ met = [p \in Procs |-> met[p]]
  /\ \A e \in Evals : IsEval(ev[e])
  /\ \A o \in Officers : IsRequest(req[o])

\* What a walk leaves in out: a threat's event only at its alarm, an incident's
\* only at its insertion, a denial's at the end.
Tells(e) ==
  /\ out \subseteq out'
  /\ \A f : <<"threat", f>> \in out' /\ <<"threat", f>> \notin out => f = e /\ ev[e].pc = "alarm"
  /\ \A f : <<"incident", f>> \in out' /\ <<"incident", f>> \notin out => f = e /\ ev[e].pc = "open"
  /\ ev[e].pc = "finish" /\ ev[e].dec = "deny" => <<"blocked", e>> \in out'

\* A walk takes the lock it asks for, which nobody else holds.
Locks(e) ==
  \/ held' = held /\ ev[e].pc \notin {"core", "learn", "alarm", "open"}
  \/ \E l \in Wants(e) : Take(e, l) /\ Free(e, l)

\* What a walk changes of the evaluation.
Kept(x, y) == y.call = x.call /\ y.key = x.key /\ y.uses = x.uses

Turns(x, y) ==
  /\ <<x.pc, y.pc>> \in Edges
  /\ Kept(x, y) /\ y.end = x.end
  /\ x.pc \notin {"core", "consume", "approve"} => y.dec = x.dec
  /\ y.dec \in Decisions \cup {x.dec, x.call.outcome}
  /\ y.snap = IF x.pc \in {"core", "reload"} THEN prof[x.call.agent] ELSE x.snap
  /\ y.row = IF x.pc # "alarm" THEN x.row ELSE IF y.pc = "open" THEN NextKey ELSE 0
  /\ x.pc = "record" => (y.pc = "reload" <=> x.snap = NoProfile)
  /\ x.pc # "core" => y.score = x.score
  /\ x.pc # "threat" => y.raise = x.raise
  /\ y.win = IF x.pc = "window" THEN window ELSE x.win
  /\ x.pc = "learn" => (y.pc = "threat" <=> Anomalous(x.score))

Walk(e) ==
  /\ \E y : /\ IsEval(y) /\ Become(e, y) /\ Turns(ev[e], y)
            /\ ev[e].pc = "threat" =>
                 IF OpenThreats(Of(e)) = {} THEN y.raise = "new" /\ y.pc = "alarm"
                 ELSE y.raise = "fold" /\ y.pc = "finish"
            /\ ev[e].pc = "approve" /\ held' # held => y.dec = "approval"
  /\ Tells(e) /\ Locks(e)
  /\ UNCHANGED <<DeskRows, met, sdk, uses, prof, asks, base>>

Ends(pc) ==
  {"crash"} \cup (IF pc = "learn" THEN {"profile"} ELSE {}) \cup (IF pc = "open" THEN {"key"} ELSE {})
    \cup (IF pc = "approve" THEN {"ask"} ELSE {})
    \cup (IF pc \in {"core", "approve", "record", "learn", "alarm"} THEN {"deadlock"} ELSE {})

Cause(e, how) ==
  /\ how = "key" => ev[e].row \in DOMAIN incs
  /\ how = "ask" => Filed(ev[e].call.id)
  /\ how = "profile" => ev[e].snap = NoProfile /\ prof[Of(e)] # NoProfile
  /\ how = "deadlock" => \E f \in Evals : WaitsFor(e, f) /\ WaitsFor(f, e)

Abort(e) ==
  /\ Running(e)
  /\ \E how \in Ends(ev[e].pc) : Cause(e, how) /\ Stop(e, how)
  /\ UNCHANGED <<DeskRows, met, sdk, out, uses, prof, asks, base>>

-------------------------------------------------------------------------------
\* Records after an assignment.
LEMMA BecomeShape ==
  ASSUME Shape, NEW e \in Evals, NEW y, Become(e, y)
  PROVE  ev'[e] = y /\ ev' = [f \in Evals |-> ev'[f]] /\ \A f \in Evals \ {e} : ev'[f] = ev[f]
BY DEF Shape, Become

LEMMA ToShape ==
  ASSUME NEW x, IsEval(x), NEW pc
  PROVE  LET y == [x EXCEPT !.pc = pc] IN
           /\ IsEval(y) /\ y.pc = pc /\ Kept(x, y) /\ y.end = x.end /\ y.dec = x.dec
           /\ y.score = x.score /\ y.raise = x.raise /\ y.win = x.win
           /\ y.snap = x.snap /\ y.row = x.row
BY DEF IsEval, Kept, EvFields

Halted(x, how) == [x EXCEPT !.pc = "done", !.end = how]

LEMMA StopShape ==
  ASSUME NEW x, IsEval(x), NEW how
  PROVE  LET y == Halted(x, how) IN
           /\ IsEval(y) /\ y.pc = "done" /\ Kept(x, y) /\ y.end = how /\ y.dec = x.dec
           /\ y.score = x.score /\ y.raise = x.raise /\ y.win = x.win
           /\ y.snap = x.snap /\ y.row = x.row
BY DEF IsEval, Kept, EvFields, Halted

InWindow(x, pc, w) == [x EXCEPT !.pc = pc, !.win = w]

LEMMA WinShape ==
  ASSUME NEW x, IsEval(x), NEW pc, NEW w
  PROVE  LET y == InWindow(x, pc, w) IN
           /\ IsEval(y) /\ y.pc = pc /\ Kept(x, y) /\ y.end = x.end /\ y.dec = x.dec
           /\ y.score = x.score /\ y.raise = x.raise /\ y.win = w
           /\ y.snap = x.snap /\ y.row = x.row
BY DEF IsEval, Kept, EvFields, InWindow

WithDecision(x, pc, d) == [x EXCEPT !.pc = pc, !.dec = d]

LEMMA DecShape ==
  ASSUME NEW x, IsEval(x), NEW pc, NEW d
  PROVE  LET y == WithDecision(x, pc, d) IN
           /\ IsEval(y) /\ y.pc = pc /\ Kept(x, y) /\ y.end = x.end /\ y.dec = d
           /\ y.score = x.score /\ y.raise = x.raise /\ y.win = x.win
           /\ y.snap = x.snap /\ y.row = x.row
BY DEF IsEval, Kept, EvFields, WithDecision

WithProfile(x, pc, p) == [x EXCEPT !.pc = pc, !.snap = p]

LEMMA SnapShape ==
  ASSUME NEW x, IsEval(x), NEW pc, NEW p
  PROVE  LET y == WithProfile(x, pc, p) IN
           /\ IsEval(y) /\ y.pc = pc /\ Kept(x, y) /\ y.end = x.end /\ y.dec = x.dec
           /\ y.score = x.score /\ y.raise = x.raise /\ y.win = x.win
           /\ y.snap = p /\ y.row = x.row
BY DEF IsEval, Kept, EvFields, WithProfile

WithThreat(x, pc, r) == [x EXCEPT !.pc = pc, !.raise = r]

LEMMA RaiseShape ==
  ASSUME NEW x, IsEval(x), NEW pc, NEW r
  PROVE  LET y == WithThreat(x, pc, r) IN
           /\ IsEval(y) /\ y.pc = pc /\ Kept(x, y) /\ y.end = x.end /\ y.dec = x.dec
           /\ y.score = x.score /\ y.raise = r /\ y.win = x.win
           /\ y.snap = x.snap /\ y.row = x.row
BY DEF IsEval, Kept, EvFields, WithThreat

WithKey(x, pc, k) == [x EXCEPT !.pc = pc, !.row = k]

LEMMA RowShape ==
  ASSUME NEW x, IsEval(x), NEW pc, NEW k
  PROVE  LET y == WithKey(x, pc, k) IN
           /\ IsEval(y) /\ y.pc = pc /\ Kept(x, y) /\ y.end = x.end /\ y.dec = x.dec
           /\ y.score = x.score /\ y.raise = x.raise /\ y.win = x.win
           /\ y.snap = x.snap /\ y.row = k
BY DEF IsEval, Kept, EvFields, WithKey

\* What core_decision assigns.
Decided(x, p, s, d, pc) == [x EXCEPT !.snap = p, !.score = s, !.dec = d, !.pc = pc]

LEMMA DecidedShape ==
  ASSUME NEW x, IsEval(x), NEW p, NEW s, NEW d, NEW pc
  PROVE  LET y == Decided(x, p, s, d, pc) IN
           /\ IsEval(y) /\ y.pc = pc /\ Kept(x, y) /\ y.end = x.end
           /\ y.raise = x.raise /\ y.win = x.win /\ y.snap = p /\ y.row = x.row /\ y.dec = d
<1> DEFINE a == [x EXCEPT !.snap = p, !.score = s]
           y == [a EXCEPT !.dec = d, !.pc = pc]
<1>1. /\ IsEval(a) /\ Kept(x, a) /\ a.end = x.end /\ a.raise = x.raise /\ a.win = x.win
      /\ a.snap = p /\ a.row = x.row
  BY DEF IsEval, EvFields, Kept
<1> HIDE DEF a
<1>2. /\ IsEval(y) /\ y.pc = pc /\ Kept(x, y) /\ y.end = x.end
      /\ y.raise = x.raise /\ y.win = x.win /\ y.snap = p /\ y.row = x.row /\ y.dec = d
  BY <1>1 DEF IsEval, EvFields, Kept
<1> HIDE DEF y
<1> QED
  BY <1>2 DEF y, a, Decided
-------------------------------------------------------------------------------
\* Every step of an evaluation before its commit is a walk or an abort.
LEMMA TellsNothing ==
  ASSUME out' = out, NEW e \in Evals, ev[e].pc # "finish"
  PROVE  Tells(e)
BY DEF Tells

LEMMA CoreWalks ==
  ASSUME Shape, NEW e \in Evals, Core(e)
  PROVE  Walk(e)
<1>1. PICK d \in Decisions \cup {ev[e].call.outcome} : LET dec == IF agent[Of(e)] = "paused" THEN "deny" ELSE d IN
         Become(e, [ev[e] EXCEPT !.snap = prof[Of(e)], !.score = Score(prof[Of(e)], ev[e].call),
                                 !.dec = dec,
                                 !.pc = CASE dec = "rate_limit" -> "window"
                                          [] dec = "approval"   -> "approve"
                                          [] OTHER              -> "record"])
  BY DEF Core, Decisions
<1> DEFINE dec == IF agent[Of(e)] = "paused" THEN "deny" ELSE d
           pc == CASE dec = "rate_limit" -> "window"
                   [] dec = "approval"   -> "approve"
                   [] OTHER              -> "record"
           p == prof[Of(e)]
           sc == Score(p, ev[e].call)
           y == Decided(ev[e], p, sc, dec, pc)
<1>2. Become(e, y)
  BY <1>1 DEF Decided
<1>3. pc \in {"window", "approve", "record"}
  <2> HIDE DEF dec
  <2> QED
    OBVIOUS
<1>10. dec \in Decisions \cup {ev[e].call.outcome} /\ p = prof[ev[e].call.agent]
  BY DEF Decisions, Of
<1> HIDE DEF dec, pc, p, sc
<1>4. ev[e].pc = "core" /\ IsEval(ev[e])
  BY DEF Core, Shape
<1>5. /\ IsEval(y) /\ y.pc = pc /\ Kept(ev[e], y) /\ y.end = ev[e].end
      /\ y.raise = ev[e].raise /\ y.win = ev[e].win /\ y.snap = p /\ y.row = ev[e].row /\ y.dec = dec
  BY <1>4, DecidedShape
<1> HIDE DEF y
<1>6. Turns(ev[e], y)
  BY <1>3, <1>4, <1>5, <1>10 DEF Turns, Edges
<1>7. Tells(e)
  BY <1>4, TellsNothing DEF Core
<1>8. Locks(e)
  BY <1>4 DEF Core, KeyFree, Locks, Wants
<1>9. UNCHANGED <<DeskRows, met, sdk, uses, prof, asks, base>>
  BY DEF Limiter, Core
<1> QED
  BY <1>2, <1>4, <1>5, <1>6, <1>7, <1>8, <1>9 DEF Walk

\* The steps that read, count or look something up, and write nothing.
LEMMA LooksWalk ==
  ASSUME Shape, NEW e \in Evals, NEW y, IsEval(y), Become(e, y), Turns(ev[e], y),
         ev[e].pc \in {"window", "consume", "approve", "reload"}, held' = held, out' = out,
         UNCHANGED <<DeskRows, met, sdk, uses, prof, asks, base>>
  PROVE  Walk(e)
BY TellsNothing DEF Walk, Locks

LEMMA ReadWindowWalks ==
  ASSUME Shape, NEW e \in Evals, ReadWindow(e)
  PROVE  Walk(e)
<1> DEFINE y == InWindow(ev[e], "consume", window)
<1>1. IsEval(ev[e]) /\ ev[e].pc = "window" /\ Become(e, y)
  BY DEF ReadWindow, Shape, InWindow
<1>2. /\ IsEval(y) /\ y.pc = "consume" /\ Kept(ev[e], y) /\ y.end = ev[e].end
      /\ y.dec = ev[e].dec /\ y.score = ev[e].score /\ y.raise = ev[e].raise /\ y.win = window
      /\ y.snap = ev[e].snap /\ y.row = ev[e].row
  BY <1>1, WinShape
<1> HIDE DEF y
<1>3. Turns(ev[e], y)
  BY <1>1, <1>2 DEF Turns, Edges
<1> QED
  BY <1>1, <1>2, <1>3, LooksWalk DEF Limiter, ReadWindow, deskVars, DeskRows

LEMMA DecWalks ==
  ASSUME Shape, NEW e \in Evals, ev[e].pc \in {"consume", "approve"}, NEW d \in Decisions \cup {ev[e].dec},
         Become(e, [ev[e] EXCEPT !.pc = "record", !.dec = d]), UNCHANGED <<deskVars, sdk, out, uses, prof, asks, base>>
  PROVE  Walk(e)
<1> DEFINE y == WithDecision(ev[e], "record", d)
<1>1. IsEval(ev[e]) /\ Become(e, y)
  BY DEF Shape, WithDecision
<1>2. /\ IsEval(y) /\ y.pc = "record" /\ Kept(ev[e], y) /\ y.end = ev[e].end
      /\ y.win = ev[e].win /\ y.score = ev[e].score /\ y.raise = ev[e].raise
      /\ y.snap = ev[e].snap /\ y.row = ev[e].row /\ y.dec = d
  BY <1>1, DecShape
<1> HIDE DEF y
<1>3. Turns(ev[e], y)
  BY <1>2 DEF Turns, Edges
<1> QED
  BY <1>1, <1>2, <1>3, LooksWalk DEF deskVars, DeskRows

LEMMA ReloadWalks ==
  ASSUME Shape, NEW e \in Evals, Reload(e)
  PROVE  Walk(e)
<1> DEFINE y == WithProfile(ev[e], "learn", prof[Of(e)])
<1>1. IsEval(ev[e]) /\ ev[e].pc = "reload" /\ Become(e, y)
  BY DEF Reload, Shape, WithProfile
<1>2. /\ IsEval(y) /\ y.pc = "learn" /\ Kept(ev[e], y) /\ y.end = ev[e].end
      /\ y.dec = ev[e].dec /\ y.score = ev[e].score /\ y.raise = ev[e].raise /\ y.win = ev[e].win
      /\ y.snap = prof[Of(e)] /\ y.row = ev[e].row
  BY <1>1, SnapShape
<1> HIDE DEF y
<1>3. Turns(ev[e], y)
  BY <1>1, <1>2 DEF Turns, Edges, Of
<1> QED
  BY <1>1, <1>2, <1>3, LooksWalk DEF Limiter, Reload, deskVars, DeskRows

LEMMA RecordWalks ==
  ASSUME Shape, NEW e \in Evals, Record(e)
  PROVE  Walk(e)
<1> DEFINE to == IF ev[e].snap = NoProfile THEN "reload" ELSE "learn"
           y == [ev[e] EXCEPT !.pc = to]
<1>1. /\ IsEval(ev[e]) /\ ev[e].pc = "record" /\ Become(e, y) /\ to \in {"reload", "learn"}
      /\ to = "reload" <=> ev[e].snap = NoProfile
  BY DEF Record, Shape, To
<1> HIDE DEF to
<1>2. /\ IsEval(y) /\ y.pc = to /\ Kept(ev[e], y) /\ y.end = ev[e].end
      /\ y.dec = ev[e].dec /\ y.score = ev[e].score /\ y.raise = ev[e].raise /\ y.win = ev[e].win
      /\ y.snap = ev[e].snap /\ y.row = ev[e].row
  BY <1>1, ToShape
<1> HIDE DEF y
<1>3. Turns(ev[e], y)
  BY <1>1, <1>2 DEF Turns, Edges
<1>4. Tells(e)
  BY <1>1 DEF Record, Tells, Emit, Meter
<1>5. Locks(e)
  BY <1>1 DEF Record, Locks, AuditFree, Wants
<1>6. UNCHANGED <<DeskRows, met, sdk, uses, prof, asks, base>>
  BY DEF Limiter, Record
<1> QED
  BY <1>1, <1>2, <1>3, <1>4, <1>5, <1>6 DEF Walk

LEMMA LearnGoesOn ==
  ASSUME Shape, NEW e \in Evals, Learn(e)
  PROVE  Walk(e) \/ Abort(e)
<1> DEFINE to == IF Anomalous(ev[e].score) THEN "threat" ELSE "finish"
           y == [ev[e] EXCEPT !.pc = to]
<1>1. /\ IsEval(ev[e]) /\ ev[e].pc = "learn" /\ to \in {"threat", "finish"}
      /\ to = "threat" <=> Anomalous(ev[e].score)
      /\ UNCHANGED <<DeskRows, met, sdk, out, uses, prof, asks, base>>
  BY DEF Limiter, Learn, Shape
<1>2. CASE ev[e].snap = NoProfile /\ prof[Of(e)] # NoProfile
  <2>1. Stop(e, "profile")
    BY <1>2 DEF Learn
  <2> QED
    BY <1>1, <1>2, <2>1 DEF Abort, Cause, Running, Ends
<1>3. CASE Take(e, <<"profile", Of(e)>>) /\ To(e, to)
  <2>1. Become(e, y)
    BY <1>3 DEF To
  <2> HIDE DEF to
  <2>2. /\ IsEval(y) /\ y.pc = to /\ Kept(ev[e], y) /\ y.end = ev[e].end
        /\ y.dec = ev[e].dec /\ y.score = ev[e].score /\ y.raise = ev[e].raise /\ y.win = ev[e].win
        /\ y.snap = ev[e].snap /\ y.row = ev[e].row
    BY <1>1, ToShape
  <2> HIDE DEF y
  <2>3. Turns(ev[e], y)
    BY <1>1, <2>2 DEF Turns, Edges
  <2>4. Tells(e)
    BY <1>1, TellsNothing
  <2>5. Locks(e)
    BY <1>1, <1>3 DEF Learn, Locks, ProfileFree, Wants
  <2> QED
    BY <1>1, <2>1, <2>2, <2>3, <2>4, <2>5 DEF Walk
<1> QED
  BY <1>2, <1>3 DEF Learn

LEMMA DetectWalks ==
  ASSUME Shape, NEW e \in Evals, Detect(e)
  PROVE  Walk(e)
<1>1. /\ IsEval(ev[e]) /\ ev[e].pc = "threat" /\ Tells(e) /\ Locks(e)
      /\ UNCHANGED <<DeskRows, met, sdk, uses, prof, asks, base>>
  <2>1. ev[e].pc = "threat" /\ UNCHANGED <<deskVars, sdk, out, uses, prof, asks, base>>
    BY DEF Detect, Limiter
  <2> QED
    BY <2>1, TellsNothing DEF Shape, deskVars, DeskRows, Locks
<1>2. CASE OpenThreats(Of(e)) = {}
  <2> DEFINE y == WithThreat(ev[e], "alarm", "new")
  <2>1. Become(e, y)
    BY <1>2 DEF Detect, WithThreat
  <2>2. /\ IsEval(y) /\ y.pc = "alarm" /\ Kept(ev[e], y) /\ y.end = ev[e].end
        /\ y.dec = ev[e].dec /\ y.score = ev[e].score /\ y.raise = "new" /\ y.win = ev[e].win
        /\ y.snap = ev[e].snap /\ y.row = ev[e].row
    BY <1>1, RaiseShape
  <2> HIDE DEF y
  <2>3. Turns(ev[e], y)
    BY <1>1, <2>2 DEF Turns, Edges
  <2> QED
    BY <1>1, <1>2, <2>1, <2>2, <2>3 DEF Walk
<1>3. CASE OpenThreats(Of(e)) # {}
  <2> DEFINE y == WithThreat(ev[e], "finish", "fold")
  <2>1. Become(e, y)
    BY <1>3 DEF Detect, WithThreat
  <2>2. /\ IsEval(y) /\ y.pc = "finish" /\ Kept(ev[e], y) /\ y.end = ev[e].end
        /\ y.dec = ev[e].dec /\ y.score = ev[e].score /\ y.raise = "fold" /\ y.win = ev[e].win
        /\ y.snap = ev[e].snap /\ y.row = ev[e].row
    BY <1>1, RaiseShape
  <2> HIDE DEF y
  <2>3. Turns(ev[e], y)
    BY <1>1, <2>2 DEF Turns, Edges
  <2> QED
    BY <1>1, <1>3, <2>1, <2>2, <2>3 DEF Walk
<1> QED
  BY <1>2, <1>3

LEMMA AlarmWalks ==
  ASSUME Shape, NEW e \in Evals, Alarm(e)
  PROVE  Walk(e)
<1> DEFINE to == IF Severe(e) THEN "open" ELSE "finish"
           k == IF Severe(e) THEN NextKey ELSE 0
           y == WithKey(ev[e], to, k)
<1>1. IsEval(ev[e]) /\ ev[e].pc = "alarm" /\ Become(e, y) /\ to \in {"open", "finish"}
      /\ k = IF to = "open" THEN NextKey ELSE 0
  BY DEF Alarm, Shape, WithKey
<1> HIDE DEF to, k
<1>2. /\ IsEval(y) /\ y.pc = to /\ Kept(ev[e], y) /\ y.end = ev[e].end
      /\ y.dec = ev[e].dec /\ y.score = ev[e].score /\ y.raise = ev[e].raise /\ y.win = ev[e].win
      /\ y.snap = ev[e].snap /\ y.row = k
  BY <1>1, RowShape
<1> HIDE DEF y
<1>3. Turns(ev[e], y)
  BY <1>1, <1>2 DEF Turns, Edges
<1>4. Tells(e)
  BY <1>1 DEF Alarm, Tells, Announced, Publish
<1>5. Locks(e)
  BY <1>1 DEF Alarm, Locks, AuditFree, Wants
<1>6. UNCHANGED <<DeskRows, met, sdk, uses, prof, asks, base>>
  BY DEF Limiter, Alarm
<1> QED
  BY <1>1, <1>2, <1>3, <1>4, <1>5, <1>6 DEF Walk

LEMMA OpenIncidentGoesOn ==
  ASSUME Shape, NEW e \in Evals, OpenIncident(e)
  PROVE  Walk(e) \/ Abort(e)
<1>1. IsEval(ev[e]) /\ ev[e].pc = "open" /\ UNCHANGED <<DeskRows, met, sdk, uses, prof, asks, base>>
  BY DEF Limiter, OpenIncident, Shape
<1>2. CASE ev[e].row \in DOMAIN incs
  <2>1. Stop(e, "key") /\ UNCHANGED out
    BY <1>2 DEF OpenIncident
  <2> QED
    BY <1>1, <1>2, <2>1 DEF Abort, Cause, Running, Ends
<1>3. CASE Take(e, <<"key", ev[e].row>>) /\ To(e, "finish") /\ out' = out \cup Publish("incident", e)
  <2> DEFINE y == [ev[e] EXCEPT !.pc = "finish"]
  <2>1. Become(e, y)
    BY <1>3 DEF To
  <2>2. /\ IsEval(y) /\ y.pc = "finish" /\ Kept(ev[e], y) /\ y.end = ev[e].end
        /\ y.dec = ev[e].dec /\ y.score = ev[e].score /\ y.raise = ev[e].raise /\ y.win = ev[e].win
        /\ y.snap = ev[e].snap /\ y.row = ev[e].row
    BY <1>1, ToShape
  <2> HIDE DEF y
  <2>3. Turns(ev[e], y)
    BY <1>1, <2>2 DEF Turns, Edges
  <2>4. Tells(e)
    BY <1>1, <1>3 DEF Tells, Publish
  <2>5. Locks(e)
    BY <1>1, <1>3 DEF OpenIncident, Locks, Wants
  <2> QED
    BY <1>1, <2>1, <2>2, <2>3, <2>4, <2>5 DEF Walk
<1> QED
  BY <1>2, <1>3 DEF OpenIncident

LEMMA FinishWalks ==
  ASSUME Shape, NEW e \in Evals, Finish(e)
  PROVE  Walk(e)
<1> DEFINE y == [ev[e] EXCEPT !.pc = "commit"]
<1>1. IsEval(ev[e]) /\ ev[e].pc = "finish" /\ Become(e, y)
  BY DEF Finish, Shape, To
<1>2. /\ IsEval(y) /\ y.pc = "commit" /\ Kept(ev[e], y) /\ y.end = ev[e].end
      /\ y.dec = ev[e].dec /\ y.score = ev[e].score /\ y.raise = ev[e].raise /\ y.win = ev[e].win
      /\ y.snap = ev[e].snap /\ y.row = ev[e].row
  BY <1>1, ToShape
<1> HIDE DEF y
<1>3. Turns(ev[e], y)
  BY <1>1, <1>2 DEF Turns, Edges
<1>4. Tells(e)
  <2>1. \/ ev[e].dec = "deny" /\ out' = out \cup {<<"denials", e>>} \cup {<<"blocked", e>>}
        \/ ev[e].dec # "deny" /\ out' = out \cup {<<"asked", e>>}
        \/ ev[e].dec # "deny" /\ out' = out
    BY DEF Finish, Meter, Publish
  <2> QED
    BY <1>1, <2>1 DEF Tells
<1>5. held' = held /\ UNCHANGED <<DeskRows, met, sdk, uses, prof, asks, base>>
  BY DEF Limiter, Finish, deskVars, DeskRows
<1> QED
  BY <1>1, <1>2, <1>3, <1>4, <1>5 DEF Walk, Locks

LEMMA VictimAborts ==
  ASSUME Shape, NEW e \in Evals, Victim(e), \A f \in Evals : \A k : <<"key", k>> \in held[f] => Wants(f) = {}
  PROVE  Abort(e)
<1>1. PICK f \in Evals : WaitsFor(e, f) /\ WaitsFor(f, e)
  BY DEF Victim
<1>2. ev[e].pc \in {"core", "approve", "record", "learn", "alarm", "open"}
  BY <1>1 DEF WaitsFor, Wants
<1>3. ev[e].pc # "open"
  <2> SUFFICES ASSUME ev[e].pc = "open" PROVE FALSE
    OBVIOUS
  <2>1. Wants(e) = {<<"key", ev[e].row>>}
    BY DEF Wants
  <2>2. <<"key", ev[e].row>> \in held[f]
    BY <1>1, <2>1 DEF WaitsFor
  <2>3. Wants(f) = {}
    BY <2>2
  <2> QED
    BY <1>1, <2>3 DEF WaitsFor
<1>4. "deadlock" \in Ends(ev[e].pc) /\ Cause(e, "deadlock")
  BY <1>1, <1>2, <1>3 DEF Ends, Cause
<1>5. UNCHANGED <<DeskRows, met, sdk, out, uses, prof, asks, base>> /\ Stop(e, "deadlock")
  BY DEF Victim, Limiter
<1> QED
  BY <1>2, <1>4, <1>5 DEF Abort, Running

LEMMA AskGoesOn ==
  ASSUME Shape, NEW e \in Evals, Ask(e)
  PROVE  Walk(e) \/ Abort(e)
<1>1. IsEval(ev[e]) /\ ev[e].pc = "approve" /\ UNCHANGED <<DeskRows, met, sdk, out, uses, prof, asks, base>>
  BY DEF Limiter, Ask, Shape
<1>2. CASE Filed(ev[e].call.id)
  <2>1. Stop(e, "ask")
    BY <1>2 DEF Ask
  <2> QED
    BY <1>1, <1>2, <2>1 DEF Abort, Cause, Running, Ends
<1>3. CASE ~Filed(ev[e].call.id)
  <2> DEFINE y == WithDecision(ev[e], "record", "approval")
  <2>1. Become(e, y)
    BY <1>3 DEF Ask, WithDecision
  <2>2. /\ IsEval(y) /\ y.pc = "record" /\ Kept(ev[e], y) /\ y.end = ev[e].end
        /\ y.win = ev[e].win /\ y.score = ev[e].score /\ y.raise = ev[e].raise
        /\ y.snap = ev[e].snap /\ y.row = ev[e].row /\ y.dec = "approval"
    BY <1>1, DecShape
  <2> HIDE DEF y
  <2>3. Turns(ev[e], y)
    BY <1>1, <2>2 DEF Turns, Edges, Decisions
  <2>4. Tells(e)
    BY <1>1, TellsNothing
  <2>5. Locks(e)
    <3>1. held' = [held EXCEPT ![e] = @ \cup AskLock(e)] /\ \A l \in AskLock(e) : Free(e, l)
      BY <1>3 DEF Ask
    <3>2. CASE AskLock(e) = {}
      <4>1. held' = held
        BY <3>1, <3>2 DEF Shape
      <4> QED
        BY <1>1, <4>1 DEF Locks
    <3>3. CASE AskLock(e) = {<<"ask", ev[e].call.id>>}
      BY <1>1, <3>1, <3>3 DEF Locks, Wants, Take
    <3> QED
      BY <3>2, <3>3 DEF AskLock
  <2> QED
    BY <1>1, <2>1, <2>2, <2>3, <2>4, <2>5 DEF Walk
<1> QED
  BY <1>2, <1>3

\* An evaluation's locks on incident keys are taken last.
KeysLast == \A e \in Evals : \A k : <<"key", k>> \in held[e] => ev[e].pc \in {"finish", "commit"}

LEMMA EvaluationKinds ==
  ASSUME Shape, KeysLast, NEW e \in Evals, Evaluate(e) \/ Crash(e)
  PROVE  Walk(e) \/ Abort(e) \/ CommitEval(e)
<1>1. ASSUME Consume(e) PROVE Walk(e)
  <2>1. ev[e].pc = "consume" /\ UNCHANGED <<deskVars, sdk, out, uses, prof, asks, base>>
    BY <1>1 DEF Consume
  <2>2. PICK d \in Decisions \cup {ev[e].dec} : Become(e, [ev[e] EXCEPT !.pc = "record", !.dec = d])
    BY <1>1 DEF Consume, Decisions
  <2> QED
    BY <2>1, <2>2, DecWalks
<1>2. ASSUME Approve(e) PROVE Walk(e)
  <2>1. ev[e].pc = "approve" /\ UNCHANGED <<deskVars, sdk, out, uses, prof, asks, base>>
    BY <1>2 DEF Approve, Limiter
  <2>2. PICK d \in Decisions \cup {ev[e].dec} : Become(e, [ev[e] EXCEPT !.pc = "record", !.dec = d])
    BY <1>2 DEF Approve, Decisions
  <2> QED
    BY <2>1, <2>2, DecWalks
<1>3. ASSUME Crash(e) PROVE Abort(e)
  BY <1>3 DEF Crash, Abort, Ends, Cause, Limiter
<1>4. ASSUME Victim(e) PROVE Abort(e)
  <2>1. \A f \in Evals : \A k : <<"key", k>> \in held[f] => Wants(f) = {}
    BY DEF KeysLast, Wants
  <2> QED
    BY <1>4, <2>1, VictimAborts
<1> QED
  BY <1>1, <1>2, <1>3, <1>4, CoreWalks, ReadWindowWalks, ReloadWalks, RecordWalks, LearnGoesOn,
     AskGoesOn, DetectWalks, AlarmWalks, OpenIncidentGoesOn, FinishWalks DEF Evaluate

-------------------------------------------------------------------------------
\* Every step of an officer's request before its commit is a Work step.
Grabs(p) ==
  \/ held' = held
  \/ held' = [held EXCEPT ![p] = {}]
  \/ \E l : Take(p, l) /\ Free(p, l)

Works(x, y) ==
  /\ x.pc \in {"read", "write", "audit"} /\ y.pc \in {"write", "audit", "commit", "done"}
  /\ y.op = x.op
  /\ x.pc # "read" => y.row = x.row /\ y.to = x.to
  /\ x.pc = "read" /\ x.op = "move" /\ y.pc # "done" =>
       y.row \in DOMAIN incs /\ y.to \in Statuses /\ incs[y.row].status # "closed"

Work(o) ==
  /\ \E y : IsRequest(y) /\ Go(o, y) /\ Works(req[o], y)
  /\ Grabs(o)
  /\ UNCHANGED <<agent, threats, incs, blocked, met>>

Placed(x, pc, row) == [x EXCEPT !.pc = pc, !.row = row]
Aimed(x, pc, row, to) == [x EXCEPT !.row = row, !.to = to, !.pc = pc]
Ended(x, how) == [x EXCEPT !.pc = "done", !.end = how]

LEMMA GoneShape ==
  ASSUME NEW x, IsRequest(x), NEW pc
  PROVE  LET y == [x EXCEPT !.pc = pc] IN
           IsRequest(y) /\ y.pc = pc /\ y.op = x.op /\ y.row = x.row /\ y.to = x.to
BY DEF IsRequest, ReqFields

LEMMA PlacedShape ==
  ASSUME NEW x, IsRequest(x), NEW pc, NEW row
  PROVE  LET y == Placed(x, pc, row) IN
           IsRequest(y) /\ y.pc = pc /\ y.op = x.op /\ y.row = row /\ y.to = x.to
BY DEF IsRequest, ReqFields, Placed

LEMMA EndedShape ==
  ASSUME NEW x, IsRequest(x), NEW how
  PROVE  LET y == Ended(x, how) IN
           IsRequest(y) /\ y.pc = "done" /\ y.op = x.op /\ y.row = x.row /\ y.to = x.to
BY DEF IsRequest, ReqFields, Ended

LEMMA AimedShape ==
  ASSUME NEW x, IsRequest(x), NEW pc, NEW row, NEW to
  PROVE  LET y == Aimed(x, pc, row, to) IN
           IsRequest(y) /\ y.pc = pc /\ y.op = x.op /\ y.row = row /\ y.to = to
<1> DEFINE a == [x EXCEPT !.row = row, !.to = to]
           y == [a EXCEPT !.pc = pc]
<1>1. IsRequest(a) /\ a.op = x.op /\ a.row = row /\ a.to = to
  BY DEF IsRequest, ReqFields
<1> HIDE DEF a
<1>2. IsRequest(y) /\ y.pc = pc /\ y.op = x.op /\ y.row = row /\ y.to = to
  BY <1>1 DEF IsRequest, ReqFields
<1> HIDE DEF y
<1> QED
  BY <1>2 DEF y, a, Aimed

\* A request that is refused or that fails.
LEMMA EndWorks ==
  ASSUME Shape, NEW o \in Officers, req[o].pc \in {"read", "write", "audit"}, NEW how, End(o, how),
         UNCHANGED <<agent, threats, incs, blocked, met>>
  PROVE  Work(o)
<1> DEFINE y == Ended(req[o], how)
<1>1. Go(o, y) /\ Grabs(o)
  BY DEF End, Ended, Grabs
<1>2. IsRequest(req[o])
  BY DEF Shape
<1>3. IsRequest(y) /\ y.pc = "done" /\ y.op = req[o].op /\ y.row = req[o].row /\ y.to = req[o].to
  BY <1>2, EndedShape
<1> HIDE DEF y
<1>4. Works(req[o], y)
  BY <1>3 DEF Works
<1> QED
  BY <1>1, <1>3, <1>4 DEF Work

\* A request that goes on with its row, under a lock.
LEMMA GoOnWorks ==
  ASSUME Shape, NEW o \in Officers, req[o].pc \in {"write", "audit"},
         NEW pc \in {"audit", "commit"}, Go(o, [req[o] EXCEPT !.pc = pc]), Grabs(o),
         UNCHANGED <<agent, threats, incs, blocked, met>>
  PROVE  Work(o)
<1> DEFINE y == [req[o] EXCEPT !.pc = pc]
<1>1. IsRequest(req[o]) /\ Go(o, y)
  BY DEF Shape
<1>2. IsRequest(y) /\ y.pc = pc /\ y.op = req[o].op /\ y.row = req[o].row /\ y.to = req[o].to
  BY <1>1, GoneShape
<1> HIDE DEF y
<1>3. Works(req[o], y)
  BY <1>2 DEF Works
<1> QED
  BY <1>1, <1>2, <1>3 DEF Work

\* A request that has read what it asks for.
LEMMA ReadWorks ==
  ASSUME Shape, NEW o \in Officers, req[o].pc = "read", req[o].op # "move",
         NEW y, IsRequest(y), Go(o, y), y.pc \in {"write", "audit", "commit"}, y.op = req[o].op, Grabs(o),
         UNCHANGED <<agent, threats, incs, blocked, met>>
  PROVE  Work(o)
BY DEF Work, Works

LEMMA ReadStatusWorks ==
  ASSUME Shape, NEW o \in Officers, ReadStatus(o)
  PROVE  Work(o)
<1>1. PICK k \in DOMAIN incs, s \in Statuses :
        IF s \in Transitions[incs[k].status]
        THEN Go(o, [req[o] EXCEPT !.pc = "write", !.row = k, !.to = s]) /\ UNCHANGED held
        ELSE End(o, "refused")
  BY DEF ReadStatus
<1>2. IsRequest(req[o]) /\ req[o].pc = "read" /\ UNCHANGED <<agent, threats, incs, blocked, met>>
  BY DEF Shape, ReadStatus
<1>3. CASE s \notin Transitions[incs[k].status]
  BY <1>1, <1>2, <1>3, EndWorks
<1>4. CASE s \in Transitions[incs[k].status]
  <2> DEFINE y == Aimed(req[o], "write", k, s)
  <2>1. Go(o, y)
    <3>1. y = [req[o] EXCEPT !.pc = "write", !.row = k, !.to = s]
      BY DEF Aimed
    <3> QED
      BY <1>1, <1>4, <3>1
  <2>2. IsRequest(y) /\ y.pc = "write" /\ y.op = req[o].op /\ y.row = k /\ y.to = s
    BY <1>2, AimedShape
  <2> HIDE DEF y
  <2>3. incs[k].status # "closed"
    BY <1>4 DEF Transitions, Statuses
  <2>4. Works(req[o], y)
    BY <1>2, <2>2, <2>3 DEF Works
  <2>5. Grabs(o)
    BY <1>1, <1>4 DEF Grabs
  <2> QED
    BY <1>2, <2>1, <2>2, <2>4, <2>5 DEF Work
<1> QED
  BY <1>3, <1>4

LEMMA AimWorks ==
  ASSUME Shape, NEW o \in Officers, req[o].pc = "read", req[o].op # "move", NEW k, NEW to,
         NEW pc \in {"write", "audit"}, Go(o, [req[o] EXCEPT !.row = k, !.to = to, !.pc = pc]),
         held' = held, UNCHANGED <<agent, threats, incs, blocked, met>>
  PROVE  Work(o)
<1> DEFINE y == Aimed(req[o], pc, k, to)
<1>1. IsRequest(req[o]) /\ Go(o, y) /\ Grabs(o)
  BY DEF Shape, Aimed, Grabs
<1>2. IsRequest(y) /\ y.pc = pc /\ y.op = req[o].op
  BY <1>1, AimedShape
<1> HIDE DEF y
<1> QED
  BY <1>1, <1>2, ReadWorks

LEMMA PlaceWorks ==
  ASSUME Shape, NEW o \in Officers, req[o].pc = "read", req[o].op # "move", NEW k,
         NEW pc \in {"write", "audit", "commit"}, Go(o, [req[o] EXCEPT !.pc = pc, !.row = k]),
         Grabs(o), UNCHANGED <<agent, threats, incs, blocked, met>>
  PROVE  Work(o)
<1> DEFINE y == Placed(req[o], pc, k)
<1>1. IsRequest(req[o]) /\ Go(o, y)
  BY DEF Shape, Placed
<1>2. IsRequest(y) /\ y.pc = pc /\ y.op = req[o].op
  BY <1>1, PlacedShape
<1> HIDE DEF y
<1> QED
  BY <1>1, <1>2, ReadWorks

LEMMA ServeKinds ==
  ASSUME Shape, NEW o \in Officers, Serve(o)
  PROVE  Work(o) \/ Commit(o)
<1>1. ASSUME Missing(o) PROVE Work(o)
  BY <1>1, EndWorks DEF Missing
<1>2. ASSUME CountForOpen(o) PROVE Work(o)
  <2>1. /\ req[o].pc = "read" /\ req[o].op # "move" /\ Go(o, [req[o] EXCEPT !.pc = "write", !.row = NextKey])
        /\ Grabs(o) /\ UNCHANGED <<agent, threats, incs, blocked, met>>
    BY <1>2 DEF CountForOpen, Grabs
  <2> QED
    BY <2>1, PlaceWorks
<1>3. ASSUME Insert(o) PROVE Work(o)
  <2>1. req[o].pc = "write" /\ UNCHANGED <<agent, threats, incs, blocked, met>>
    BY <1>3 DEF Insert
  <2>2. CASE End(o, "key")
    BY <2>1, <2>2, EndWorks
  <2>3. CASE Take(o, <<"key", req[o].row>>) /\ Go(o, [req[o] EXCEPT !.pc = "commit"])
    <3>1. Grabs(o)
      BY <1>3, <2>3 DEF Insert, Grabs
    <3> QED
      BY <2>1, <2>3, <3>1, GoOnWorks
  <2> QED
    BY <1>3, <2>2, <2>3 DEF Insert
<1>4. ASSUME WriteStatus(o) PROVE Work(o)
  <2>1. /\ req[o].pc = "write" /\ Go(o, [req[o] EXCEPT !.pc = "commit"]) /\ Grabs(o)
        /\ UNCHANGED <<agent, threats, incs, blocked, met>>
    BY <1>4 DEF WriteStatus, Grabs
  <2> QED
    BY <2>1, GoOnWorks
<1>5. ASSUME ReadAgent(o) PROVE Work(o)
  <2>1. /\ req[o].pc = "read" /\ req[o].op # "move" /\ held' = held
        /\ UNCHANGED <<agent, threats, incs, blocked, met>>
    BY <1>5 DEF ReadAgent
  <2>2. \E k, to : \E pc \in {"write", "audit"} : Go(o, [req[o] EXCEPT !.row = k, !.to = to, !.pc = pc])
    BY <1>5 DEF ReadAgent
  <2> QED
    BY <2>1, <2>2, AimWorks
<1>6. ASSUME WriteAgent(o) PROVE Work(o)
  <2>1. /\ req[o].pc = "write" /\ Go(o, [req[o] EXCEPT !.pc = "audit"]) /\ Grabs(o)
        /\ UNCHANGED <<agent, threats, incs, blocked, met>>
    BY <1>6 DEF WriteAgent, Grabs
  <2> QED
    BY <2>1, GoOnWorks
<1>7. ASSUME Notify(o) PROVE Work(o)
  <2>1. /\ req[o].pc = "read" /\ req[o].op # "move" /\ Grabs(o)
        /\ UNCHANGED <<agent, threats, incs, blocked, met>>
    BY <1>7 DEF Notify, Grabs
  <2>2. PICK k : Go(o, [req[o] EXCEPT !.pc = "audit", !.row = k])
    BY <1>7 DEF Notify
  <2> QED
    BY <2>1, <2>2, PlaceWorks
<1>8. ASSUME LookForPolicy(o) PROVE Work(o)
  <2>1. /\ req[o].pc = "read" /\ req[o].op # "move" /\ held' = held
        /\ UNCHANGED <<agent, threats, incs, blocked, met>>
    BY <1>8 DEF LookForPolicy
  <2>2. \E k, to : \E pc \in {"write", "audit"} : Go(o, [req[o] EXCEPT !.row = k, !.to = to, !.pc = pc])
    BY <1>8 DEF LookForPolicy
  <2> QED
    BY <2>1, <2>2, AimWorks
<1>9. ASSUME WritePolicy(o) PROVE Work(o)
  <2>1. req[o].pc = "write" /\ UNCHANGED <<agent, threats, incs, blocked, met>>
    BY <1>9 DEF WritePolicy
  <2>2. CASE End(o, "policy")
    BY <2>1, <2>2, EndWorks
  <2>3. CASE Grabs(o) /\ Go(o, [req[o] EXCEPT !.pc = "audit"])
    BY <2>1, <2>3, GoOnWorks
  <2> QED
    BY <1>9, <2>2, <2>3 DEF WritePolicy, Grabs
<1>10. ASSUME AuditAction(o) PROVE Work(o)
  <2>1. /\ req[o].pc = "audit" /\ Go(o, [req[o] EXCEPT !.pc = "commit"]) /\ Grabs(o)
        /\ UNCHANGED <<agent, threats, incs, blocked, met>>
    BY <1>10 DEF AuditAction, AuditFree, Grabs
  <2> QED
    BY <2>1, GoOnWorks
<1>11. ASSUME ResolveThreat(o) PROVE Work(o)
  <2>1. /\ req[o].pc = "read" /\ req[o].op # "move" /\ Grabs(o)
        /\ UNCHANGED <<agent, threats, incs, blocked, met>>
    BY <1>11 DEF ResolveThreat, Grabs
  <2>2. PICK k : Go(o, [req[o] EXCEPT !.pc = "commit", !.row = k])
    BY <1>11 DEF ResolveThreat
  <2> QED
    BY <2>1, <2>2, PlaceWorks
<1> QED
  BY <1>1, <1>2, <1>3, <1>4, <1>5, <1>6, <1>7, <1>8, <1>9, <1>10, <1>11, ReadStatusWorks DEF Serve

-------------------------------------------------------------------------------
\* The other steps.
Anew(y) ==
  /\ y.pc = "core" /\ y.call \in Contents /\ y.key \in Keys /\ y.uses = uses[y.key]
  /\ y.end = "none" /\ y.raise = "none" /\ y.dec = "none" /\ y.snap = NoProfile /\ y.row = 0

Sent(e) ==
  /\ ev[e].pc = "idle"
  /\ \E y : IsEval(y) /\ Become(e, y) /\ Anew(y)
  /\ sdk' = [sdk EXCEPT ![e] = "waiting"]
  /\ Meet(e, Busy)
  /\ UNCHANGED <<DeskRows, held, out, uses, prof, asks, base>>

Called(x, c, k, n) == [x EXCEPT !.pc = "core", !.call = c, !.key = k, !.uses = n]

LEMMA QuietShape ==
  /\ IsEval(Quiet) /\ Quiet.pc = "idle" /\ Quiet.end = "none" /\ Quiet.raise = "none"
  /\ Quiet.dec = "none" /\ Quiet.snap = NoProfile /\ Quiet.row = 0
BY DEF Quiet, IsEval, EvFields

LEMMA CalledShape ==
  ASSUME NEW x, IsEval(x), NEW c, NEW k, NEW n
  PROVE  LET y == Called(x, c, k, n) IN
           /\ IsEval(y) /\ y.pc = "core" /\ y.call = c /\ y.key = k /\ y.uses = n /\ y.end = x.end
           /\ y.raise = x.raise /\ y.dec = x.dec /\ y.snap = x.snap /\ y.row = x.row
<1> DEFINE a == [x EXCEPT !.pc = "core", !.call = c]
           y == [a EXCEPT !.key = k, !.uses = n]
<1>1. /\ IsEval(a) /\ a.pc = "core" /\ a.call = c /\ a.end = x.end
      /\ a.raise = x.raise /\ a.dec = x.dec /\ a.snap = x.snap /\ a.row = x.row
  BY DEF IsEval, EvFields
<1> HIDE DEF a
<1>2. /\ IsEval(y) /\ y.pc = "core" /\ y.call = c /\ y.key = k /\ y.uses = n /\ y.end = x.end
      /\ y.raise = x.raise /\ y.dec = x.dec /\ y.snap = x.snap /\ y.row = x.row
  BY <1>1 DEF IsEval, EvFields
<1> HIDE DEF y
<1> QED
  BY <1>2 DEF y, a, Called

LEMMA SendKind ==
  ASSUME NEW e \in Evals, Send(e)
  PROVE  Sent(e)
<1>1. PICK c \in Contents, k \in Keys :
        Become(e, Authenticated(c, k)) /\ sdk' = [sdk EXCEPT ![e] = "waiting"]
  BY DEF Send
<1> DEFINE n == uses[k]
           y == Called(Quiet, c, k, n)
<1>2. Become(e, y)
  BY <1>1 DEF Authenticated, Called
<1>3. n = uses[k]
  OBVIOUS
<1> HIDE DEF n
<1>4. /\ IsEval(y) /\ y.pc = "core" /\ y.call = c /\ y.key = k /\ y.uses = n /\ y.end = "none"
      /\ y.raise = "none" /\ y.dec = "none" /\ y.snap = NoProfile /\ y.row = 0
  BY QuietShape, CalledShape
<1> HIDE DEF y
<1>5. Anew(y)
  BY <1>3, <1>4 DEF Anew
<1>6. UNCHANGED <<DeskRows, held, out, uses, prof, asks, base>>
  BY DEF Send, Limiter
<1> QED
  BY <1>1, <1>2, <1>4, <1>5, <1>6 DEF Send, Sent

Started(o) ==
  /\ req[o].pc = "idle"
  /\ \E y : IsRequest(y) /\ Go(o, y) /\ y.pc = "read" /\ y.op \in Ops /\ y.row = 0
  /\ Meet(o, Busy)
  /\ UNCHANGED <<agent, threats, incs, blocked, held>>

LEMMA BlankShape == IsRequest(Blank) /\ Blank.pc = "idle" /\ Blank.op = "none" /\ Blank.row = 0
BY DEF Blank, IsRequest, ReqFields

Asked(x, op) == [x EXCEPT !.op = op, !.pc = "read"]

LEMMA AskedShape ==
  ASSUME NEW x, IsRequest(x), NEW op
  PROVE  LET y == Asked(x, op) IN IsRequest(y) /\ y.pc = "read" /\ y.op = op /\ y.row = x.row
BY DEF Asked, IsRequest, ReqFields

LEMMA StartKind ==
  ASSUME NEW o \in Officers, NEW op \in Ops, Start(o, op, Busy)
  PROVE  Started(o)
<1> DEFINE y == Asked(Blank, op)
<1>1. Go(o, y)
  BY DEF Start, Asked
<1>2. IsRequest(y) /\ y.pc = "read" /\ y.op = op /\ y.row = 0
  BY BlankShape, AskedShape
<1> HIDE DEF y
<1> QED
  BY <1>1, <1>2 DEF Start, Started

\* What a stop leaves.
Halts(x, y) ==
  /\ Kept(x, y) /\ y.call = x.call /\ y.dec = x.dec /\ y.raise = x.raise
  /\ y.snap = x.snap /\ y.row = x.row

LEMMA StopKind ==
  ASSUME Shape, NEW e \in Evals, NEW how, Stop(e, how)
  PROVE  /\ \E y : /\ IsEval(y) /\ Become(e, y) /\ y.pc = "done" /\ y.end = how
                   /\ Halts(ev[e], y)
         /\ held' = [held EXCEPT ![e] = {}]
<1> DEFINE y == Halted(ev[e], how)
<1>1. Become(e, y) /\ held' = [held EXCEPT ![e] = {}]
  BY DEF Stop, Halted
<1>2. IsEval(ev[e])
  BY DEF Shape
<1>3. IsEval(y) /\ y.pc = "done" /\ y.end = how /\ Halts(ev[e], y)
  BY <1>2, StopShape DEF Halts, Kept
<1> HIDE DEF y
<1> QED
  BY <1>1, <1>3

LEMMA EndKind ==
  ASSUME Shape, NEW o \in Officers, NEW how, End(o, how)
  PROVE  /\ \E y : /\ IsRequest(y) /\ Go(o, y) /\ y.pc = "done"
                   /\ y.op = req[o].op /\ y.row = req[o].row
         /\ held' = [held EXCEPT ![o] = {}]
<1> DEFINE y == Ended(req[o], how)
<1>1. Go(o, y) /\ held' = [held EXCEPT ![o] = {}]
  BY DEF End, Ended
<1>2. IsRequest(req[o])
  BY DEF Shape
<1>3. IsRequest(y) /\ y.pc = "done" /\ y.op = req[o].op /\ y.row = req[o].row
  BY <1>2, EndedShape
<1> HIDE DEF y
<1> QED
  BY <1>1, <1>3

\* Steps that touch neither the evaluations nor the officers' requests.
Clock ==
  /\ \/ Tick
     \/ \E w \in Windows : Expire(w)
     \/ \E i \in RequestIds : AskElsewhere(i)
     \/ \E i \in DOMAIN threats : Age(i) /\ UNCHANGED guardVars
  /\ UNCHANGED <<agent, incs, blocked, req, held, met, ev, sdk, out>>

LEMMA Kinds ==
  ASSUME Shape, KeysLast, Next
  PROVE  \/ \E e \in Evals : Sent(e) \/ Walk(e) \/ Abort(e) \/ CommitEval(e) \/ Respond(e)
         \/ \E o \in Officers : (Started(o) \/ Work(o) \/ Commit(o)) /\ UNCHANGED guardVars
         \/ Clock
<1>1. ASSUME NEW o \in Officers, Handle(o)
      PROVE  (Started(o) \/ Work(o) \/ Commit(o)) /\ UNCHANGED guardVars
  BY <1>1, ServeKinds, StartKind DEF Handle
<1>2. ASSUME NEW e \in Evals, Send(e) \/ Evaluate(e) \/ Crash(e) \/ Respond(e)
      PROVE  Sent(e) \/ Walk(e) \/ Abort(e) \/ CommitEval(e) \/ Respond(e)
  BY <1>2, SendKind, EvaluationKinds
<1>3. ASSUME NEW i \in DOMAIN threats, Age(i) /\ UNCHANGED guardVars
      PROVE  Clock
  BY <1>3 DEF Clock, Age, guardVars
<1>4. ASSUME Tick PROVE Clock
  BY <1>4 DEF Tick, Clock, deskVars
<1>5. ASSUME NEW w \in Windows, Expire(w) PROVE Clock
  BY <1>5 DEF Expire, Clock, deskVars
<1>6. ASSUME NEW i \in RequestIds, AskElsewhere(i) PROVE Clock
  BY <1>6 DEF AskElsewhere, Clock, deskVars
<1> QED
  BY <1>1, <1>2, <1>3, <1>4, <1>5, <1>6 DEF Next

-------------------------------------------------------------------------------
\* Locks exclude one another.
Exclusive == \A p, q \in Procs : p # q => held[p] \cap held[q] = {}

Placing == Shape /\ KeysLast /\ Exclusive

LEMMA HeldKept ==
  ASSUME Shape, NEW p \in Procs, Grabs(p)
  PROVE  /\ held' = [q \in Procs |-> held'[q]]
         /\ \A q \in Procs \ {p} : held'[q] = held[q]
         /\ Exclusive => Exclusive'
<1>1. held = [q \in Procs |-> held[q]]
  BY DEF Shape
<1>2. CASE held' = held
  BY <1>1, <1>2 DEF Exclusive
<1>3. CASE held' = [held EXCEPT ![p] = {}]
  BY <1>1, <1>3 DEF Exclusive
<1>4. ASSUME NEW l, Take(p, l), Free(p, l)
      PROVE  /\ held' = [q \in Procs |-> held'[q]]
             /\ \A q \in Procs \ {p} : held'[q] = held[q]
             /\ Exclusive => Exclusive'
  <2>1. held' = [held EXCEPT ![p] = @ \cup {l}] /\ \A q \in Procs \ {p} : l \notin held[q]
    BY <1>4 DEF Take, Free
  <2>2. \A q \in Procs \ {p} : held'[q] = held[q]
    BY <1>1, <2>1
  <2>3. held'[p] = held[p] \cup {l} /\ held' = [q \in Procs |-> held'[q]]
    BY <1>1, <2>1
  <2> QED
    BY <2>1, <2>2, <2>3 DEF Exclusive
<1> QED
  BY <1>2, <1>3, <1>4 DEF Grabs

LEMMA ProcsAreDisjoint ==
  /\ \A e \in Evals : e \in Procs /\ e \notin Officers
  /\ \A o \in Officers : o \in Procs /\ o \notin Evals
BY OfficersAssumption DEF Procs

LEMMA WalkGrabs ==
  ASSUME NEW e \in Evals, Walk(e)
  PROVE  /\ Grabs(e)
         /\ \E y : IsEval(y) /\ Become(e, y) /\ Turns(ev[e], y)
         /\ req' = req /\ met' = met /\ sdk' = sdk
BY DEF Walk, Grabs, Locks, DeskRows

LEMMA AbortGrabs ==
  ASSUME Shape, NEW e \in Evals, Abort(e)
  PROVE  /\ held' = [held EXCEPT ![e] = {}] /\ Grabs(e) /\ Running(e)
         /\ \E y : /\ IsEval(y) /\ Become(e, y) /\ y.pc = "done" /\ y.end \in Ends(ev[e].pc)
                   /\ y.call = ev[e].call /\ y.dec = ev[e].dec /\ Halts(ev[e], y) /\ Cause(e, y.end)
         /\ req' = req /\ met' = met /\ sdk' = sdk /\ out' = out
         /\ threats' = threats /\ incs' = incs
<1>1. PICK how \in Ends(ev[e].pc) : Cause(e, how) /\ Stop(e, how)
  BY DEF Abort
<1>2. \E y : /\ IsEval(y) /\ Become(e, y) /\ y.pc = "done" /\ y.end = how
             /\ y.call = ev[e].call /\ y.dec = ev[e].dec /\ Halts(ev[e], y)
  BY <1>1, StopKind DEF Halts
<1>3. held' = [held EXCEPT ![e] = {}]
  BY <1>1, StopKind
<1> QED
  BY <1>1, <1>2, <1>3 DEF Abort, Grabs, DeskRows

LEMMA CommitEvalGrabs ==
  ASSUME Shape, NEW e \in Evals, CommitEval(e)
  PROVE  /\ held' = [held EXCEPT ![e] = {}] /\ Grabs(e) /\ ev[e].pc = "commit"
         /\ \E y : /\ IsEval(y) /\ Become(e, y) /\ y.pc = "done" /\ y.end = "ok"
                   /\ y.call = ev[e].call /\ y.dec = ev[e].dec /\ Halts(ev[e], y)
         /\ req' = req /\ met' = met /\ sdk' = sdk /\ out' = out
<1>1. Stop(e, "ok")
  BY DEF CommitEval
<1>2. \E y : /\ IsEval(y) /\ Become(e, y) /\ y.pc = "done" /\ y.end = "ok"
             /\ y.call = ev[e].call /\ y.dec = ev[e].dec /\ Halts(ev[e], y)
  BY <1>1, StopKind DEF Halts
<1>3. held' = [held EXCEPT ![e] = {}]
  BY <1>1, StopKind
<1> QED
  BY <1>2, <1>3 DEF CommitEval, Grabs

LEMMA CommitGrabs ==
  ASSUME Shape, NEW o \in Officers, Commit(o)
  PROVE  /\ held' = [held EXCEPT ![o] = {}] /\ Grabs(o) /\ req[o].pc = "commit" /\ met' = met
         /\ \E y : IsRequest(y) /\ Go(o, y) /\ y.pc = "done" /\ y.op = req[o].op /\ y.row = req[o].row
<1>1. End(o, "ok") /\ req[o].pc = "commit" /\ met' = met
  BY DEF Commit
<1>2. \E y : IsRequest(y) /\ Go(o, y) /\ y.pc = "done" /\ y.op = req[o].op /\ y.row = req[o].row
  BY <1>1, EndKind
<1>3. held' = [held EXCEPT ![o] = {}]
  BY <1>1, EndKind
<1> QED
  BY <1>1, <1>2, <1>3 DEF Grabs

LEMMA GoShape ==
  ASSUME Shape, NEW o \in Officers, NEW y, Go(o, y)
  PROVE  req'[o] = y /\ req' = [p \in Officers |-> req'[p]] /\ \A p \in Officers \ {o} : req'[p] = req[p]
BY DEF Shape, Go

\* A step of an evaluation keeps the shapes.
LEMMA EvalShapeKept ==
  ASSUME Placing, NEW e \in Evals, NEW y, IsEval(y), Become(e, y), Grabs(e), req' = req,
         sdk' = [f \in Evals |-> sdk'[f]], met' = [p \in Procs |-> met'[p]],
         \A k : <<"key", k>> \in held'[e] => y.pc \in {"finish", "commit"}
  PROVE  Placing'
<1>1. Shape /\ KeysLast /\ Exclusive /\ e \in Procs
  BY ProcsAreDisjoint DEF Placing
<1>2. ev'[e] = y /\ ev' = [f \in Evals |-> ev'[f]] /\ \A f \in Evals \ {e} : ev'[f] = ev[f]
  BY <1>1, BecomeShape
<1>3. /\ held' = [q \in Procs |-> held'[q]] /\ Exclusive'
      /\ \A q \in Procs \ {e} : held'[q] = held[q]
  BY <1>1, HeldKept
<1>4. Shape'
  BY <1>1, <1>2, <1>3 DEF Shape, IsEval, IsRequest
<1>5. KeysLast'
  BY <1>1, <1>2, <1>3, ProcsAreDisjoint DEF KeysLast
<1> QED
  BY <1>3, <1>4, <1>5 DEF Placing

LEMMA RequestShapeKept ==
  ASSUME Placing, NEW o \in Officers, NEW y, IsRequest(y), Go(o, y), Grabs(o), ev' = ev,
         sdk' = sdk, met' = [p \in Procs |-> met'[p]]
  PROVE  Placing'
<1>1. Shape /\ KeysLast /\ Exclusive /\ o \in Procs
  BY ProcsAreDisjoint DEF Placing
<1>2. req'[o] = y /\ req' = [p \in Officers |-> req'[p]] /\ \A p \in Officers \ {o} : req'[p] = req[p]
  BY <1>1, GoShape
<1>3. /\ held' = [q \in Procs |-> held'[q]] /\ Exclusive'
      /\ \A q \in Procs \ {o} : held'[q] = held[q]
  BY <1>1, HeldKept
<1>4. Shape'
  BY <1>1, <1>2, <1>3 DEF Shape, IsEval, IsRequest
<1>5. KeysLast'
  BY <1>1, <1>3, ProcsAreDisjoint DEF KeysLast
<1> QED
  BY <1>3, <1>4, <1>5 DEF Placing

LEMMA MeetShape ==
  ASSUME NEW p \in Procs, NEW busy, Meet(p, busy)
  PROVE  met' = [q \in Procs |-> met'[q]]
BY DEF Meet

LEMMA PlacingKept ==
  ASSUME Placing, Next
  PROVE  Placing'
<1>1. Shape /\ KeysLast /\ Exclusive
  BY DEF Placing
<1>2. held = [q \in Procs |-> held[q]] /\ met = [q \in Procs |-> met[q]] /\ sdk = [f \in Evals |-> sdk[f]]
  BY <1>1 DEF Shape
<1>3. ASSUME NEW e \in Evals, Sent(e) PROVE Placing'
  <2>1. PICK y : IsEval(y) /\ Become(e, y)
    BY <1>3 DEF Sent
  <2>2. Grabs(e) /\ held' = held /\ req' = req /\ sdk' = [f \in Evals |-> sdk'[f]]
    BY <1>2, <1>3 DEF Sent, Grabs, DeskRows
  <2>3. met' = [p \in Procs |-> met'[p]]
    BY <1>3, MeetShape, ProcsAreDisjoint DEF Sent
  <2>4. \A k : <<"key", k>> \notin held[e]
    BY <1>1, <1>3 DEF KeysLast, Sent
  <2> QED
    BY <2>1, <2>2, <2>3, <2>4, EvalShapeKept
<1>4. ASSUME NEW e \in Evals, Walk(e) PROVE Placing'
  <2>1. PICK y : IsEval(y) /\ Become(e, y) /\ Turns(ev[e], y)
    BY <1>4 DEF Walk
  <2>2. Grabs(e) /\ req' = req /\ met' = met /\ sdk' = sdk
    BY <1>4, WalkGrabs
  <2>3. ASSUME NEW k, <<"key", k>> \in held'[e] PROVE y.pc \in {"finish", "commit"}
    <3>1. CASE <<"key", k>> \in held[e]
      BY <1>1, <2>1, <3>1 DEF KeysLast, Turns, Edges
    <3>2. CASE <<"key", k>> \notin held[e]
      <4>1. e \in Procs
        BY ProcsAreDisjoint
      <4>2. ev[e].pc = "open"
        BY <1>2, <1>4, <2>3, <3>2, <4>1 DEF Walk, Locks, Take, Wants, AskLock
      <4> QED
        BY <2>1, <4>2 DEF Turns, Edges
    <3> QED
      BY <3>1, <3>2
  <2> QED
    BY <1>2, <2>1, <2>2, <2>3, EvalShapeKept
<1>5. ASSUME NEW e \in Evals, Abort(e) \/ CommitEval(e) PROVE Placing'
  <2>1. /\ held' = [held EXCEPT ![e] = {}] /\ Grabs(e) /\ req' = req /\ met' = met /\ sdk' = sdk
        /\ \E y : IsEval(y) /\ Become(e, y)
    BY <1>1, <1>5, AbortGrabs, CommitEvalGrabs
  <2>2. held'[e] = {}
    BY <1>2, <2>1, ProcsAreDisjoint
  <2> QED
    BY <1>2, <2>1, <2>2, EvalShapeKept
<1>6. ASSUME NEW e \in Evals, Respond(e) PROVE Placing'
  <2>1. UNCHANGED <<req, held, met, ev>> /\ \E a : sdk' = [sdk EXCEPT ![e] = a]
    BY <1>6 DEF Respond, Answer, Error, GiveUp, deskVars
  <2>2. sdk' = [f \in Evals |-> sdk'[f]]
    BY <1>2, <2>1
  <2> QED
    BY <1>1, <2>1, <2>2 DEF Placing, Shape, KeysLast, Exclusive, IsEval, IsRequest
<1>7. ASSUME NEW o \in Officers, Started(o), UNCHANGED guardVars PROVE Placing'
  <2>1. PICK y : IsRequest(y) /\ Go(o, y)
    BY <1>7 DEF Started
  <2>2. Grabs(o) /\ ev' = ev /\ sdk' = sdk
    BY <1>7 DEF Started, Grabs, guardVars
  <2>3. met' = [p \in Procs |-> met'[p]]
    BY <1>7, MeetShape, ProcsAreDisjoint DEF Started
  <2> QED
    BY <2>1, <2>2, <2>3, RequestShapeKept
<1>8. ASSUME NEW o \in Officers, Work(o) \/ Commit(o), UNCHANGED guardVars PROVE Placing'
  <2>1. Grabs(o) /\ met' = met /\ ev' = ev /\ sdk' = sdk /\ \E y : IsRequest(y) /\ Go(o, y)
    BY <1>1, <1>8, CommitGrabs DEF Work, guardVars
  <2> QED
    BY <1>2, <2>1, RequestShapeKept
<1>9. ASSUME Clock PROVE Placing'
  BY <1>1, <1>9 DEF Clock, Placing, Shape, KeysLast, Exclusive, IsEval, IsRequest
<1> QED
  BY <1>1, <1>3, <1>4, <1>5, <1>6, <1>7, <1>8, <1>9, Kinds

-------------------------------------------------------------------------------
\* The SDK: a tool runs under fail mode closed only on an answer, and an answer
\* is given when the decision can no longer change.
Answers ==
  \A e \in Evals :
    /\ ev[e].pc # "done" => ev[e].end = "none"
    /\ sdk[e] = "ran" /\ FailMode[e] = "closed" =>
         /\ ev[e].dec \in {"allow", "redact"}
         /\ ev[e].pc = "commit" \/ (ev[e].pc = "done" /\ ev[e].end \in {"ok", "crash"})

\* The event bus: what has been published of e at each point of its way.
Told ==
  \A e \in Evals :
    /\ <<"threat", e>> \in out =>
         ev[e].pc \in {"open", "finish", "commit"} \/ (ev[e].pc = "done" /\ ev[e].end \in {"ok", "crash", "key"})
    /\ <<"incident", e>> \in out =>
         ev[e].pc \in {"finish", "commit"} \/ (ev[e].pc = "done" /\ ev[e].end \in {"ok", "crash"})
    /\ (ev[e].pc = "commit" \/ (ev[e].pc = "done" /\ ev[e].end = "ok")) /\ ev[e].dec = "deny" =>
         <<"blocked", e>> \in out

LEMMA AnswersKept ==
  ASSUME Placing, Answers, Next
  PROVE  Answers'
<1>1. Shape /\ KeysLast /\ sdk = [f \in Evals |-> sdk[f]]
  BY DEF Placing, Shape
<1>2. ASSUME NEW e \in Evals, NEW y, Become(e, y), sdk' = sdk \/ sdk' = [sdk EXCEPT ![e] = "waiting"],
             y.pc # "done" => y.end = "none",
             sdk'[e] = "ran" /\ FailMode[e] = "closed" =>
               /\ y.dec \in {"allow", "redact"}
               /\ y.pc = "commit" \/ (y.pc = "done" /\ y.end \in {"ok", "crash"})
      PROVE  Answers'
  <2>1. ev'[e] = y /\ \A f \in Evals \ {e} : ev'[f] = ev[f]
    BY <1>1, <1>2, BecomeShape
  <2>2. \A f \in Evals \ {e} : sdk'[f] = sdk[f]
    BY <1>1, <1>2
  <2> QED
    BY <1>2, <2>1, <2>2 DEF Answers
<1>3. ASSUME NEW e \in Evals, Sent(e) PROVE Answers'
  <2>1. PICK y : Become(e, y) /\ y.pc = "core" /\ y.end = "none"
    BY <1>3 DEF Sent, Anew
  <2>2. sdk' = [sdk EXCEPT ![e] = "waiting"] /\ sdk'[e] = "waiting"
    BY <1>1, <1>3 DEF Sent
  <2> QED
    BY <1>2, <2>1, <2>2
<1>4. ASSUME NEW e \in Evals, Walk(e) PROVE Answers'
  <2>1. PICK y : Become(e, y) /\ Turns(ev[e], y)
    BY <1>4, WalkGrabs
  <2>2. sdk' = sdk
    BY <1>4, WalkGrabs
  <2>3. y.pc # "done" /\ ev[e].pc \notin {"commit", "done"} /\ y.end = ev[e].end
    BY <2>1 DEF Turns, Edges
  <2> QED
    BY <1>2, <2>1, <2>2, <2>3 DEF Answers
<1>5. ASSUME NEW e \in Evals, Abort(e) PROVE Answers'
  <2>1. PICK y : Become(e, y) /\ y.pc = "done" /\ y.end \in Ends(ev[e].pc) /\ y.dec = ev[e].dec
    BY <1>1, <1>5, AbortGrabs
  <2>2. sdk' = sdk /\ ev[e].pc # "done"
    BY <1>1, <1>5, AbortGrabs DEF Running
  <2>3. ev[e].pc = "commit" => y.end = "crash"
    BY <2>1 DEF Ends
  <2> QED
    BY <1>2, <2>1, <2>2, <2>3 DEF Answers
<1>6. ASSUME NEW e \in Evals, CommitEval(e) PROVE Answers'
  <2>1. PICK y : Become(e, y) /\ y.pc = "done" /\ y.end = "ok" /\ y.dec = ev[e].dec
    BY <1>1, <1>6, CommitEvalGrabs
  <2>2. sdk' = sdk
    BY <1>1, <1>6, CommitEvalGrabs
  <2> QED
    BY <1>2, <2>1, <2>2 DEF Answers
<1>7. ASSUME NEW e \in Evals, Respond(e) PROVE Answers'
  <2>1. ev' = ev /\ sdk[e] = "waiting"
    BY <1>7 DEF Respond, Answer, Error, GiveUp
  <2>2. ASSUME Answer(e) PROVE Answers'
    <3>1. sdk'[e] = Enforced(ev[e].dec) /\ \A f \in Evals \ {e} : sdk'[f] = sdk[f]
      BY <1>1, <2>2 DEF Answer
    <3>2. ev[e].pc = "commit" \/ ev[e].end = "ok"
      BY <2>2 DEF Answer
    <3>3. sdk'[e] = "ran" => ev[e].dec \in {"allow", "redact"}
      BY <3>1 DEF Enforced
    <3> QED
      BY <2>1, <3>1, <3>2, <3>3 DEF Answers
  <2>3. ASSUME Error(e) \/ GiveUp(e) PROVE Answers'
    <3>1. sdk'[e] \in {"raised", Fallback(e)} /\ \A f \in Evals \ {e} : sdk'[f] = sdk[f]
      BY <1>1, <2>3 DEF Error, GiveUp
    <3>2. FailMode[e] = "closed" => sdk'[e] # "ran"
      BY <3>1 DEF Fallback
    <3> QED
      BY <2>1, <3>1, <3>2 DEF Answers
  <2> QED
    BY <1>7, <2>2, <2>3 DEF Respond
<1>8. ASSUME ev' = ev, sdk' = sdk PROVE Answers'
  BY <1>8 DEF Answers
<1> QED
  BY <1>1, <1>3, <1>4, <1>5, <1>6, <1>7, <1>8, Kinds DEF Clock, guardVars

LEMMA ToldKept ==
  ASSUME Placing, Told, Next
  PROVE  Told'
<1>1. Shape /\ KeysLast
  BY DEF Placing
<1>2. ASSUME NEW e \in Evals, NEW y, Become(e, y), out \subseteq out',
             \A f \in Evals \ {e} : (<<"threat", f>> \in out' => <<"threat", f>> \in out)
                                    /\ (<<"incident", f>> \in out' => <<"incident", f>> \in out),
             <<"threat", e>> \in out' =>
               y.pc \in {"open", "finish", "commit"} \/ (y.pc = "done" /\ y.end \in {"ok", "crash", "key"}),
             <<"incident", e>> \in out' =>
               y.pc \in {"finish", "commit"} \/ (y.pc = "done" /\ y.end \in {"ok", "crash"}),
             (y.pc = "commit" \/ (y.pc = "done" /\ y.end = "ok")) /\ y.dec = "deny" => <<"blocked", e>> \in out'
      PROVE  Told'
  <2>1. ev'[e] = y /\ \A f \in Evals \ {e} : ev'[f] = ev[f]
    BY <1>1, <1>2, BecomeShape
  <2>2. ASSUME NEW f \in Evals \ {e}
        PROVE  /\ <<"threat", f>> \in out' =>
                    ev'[f].pc \in {"open", "finish", "commit"} \/ (ev'[f].pc = "done" /\ ev'[f].end \in {"ok", "crash", "key"})
               /\ <<"incident", f>> \in out' =>
                    ev'[f].pc \in {"finish", "commit"} \/ (ev'[f].pc = "done" /\ ev'[f].end \in {"ok", "crash"})
               /\ (ev'[f].pc = "commit" \/ (ev'[f].pc = "done" /\ ev'[f].end = "ok")) /\ ev'[f].dec = "deny" =>
                    <<"blocked", f>> \in out'
    BY <1>2, <2>1, <2>2 DEF Told
  <2> QED
    BY <1>2, <2>1, <2>2 DEF Told
<1>3. ASSUME NEW e \in Evals, Sent(e) PROVE Told'
  <2>1. PICK y : Become(e, y) /\ y.pc = "core" /\ y.end = "none"
    BY <1>3 DEF Sent, Anew
  <2>2. out' = out /\ ev[e].pc = "idle"
    BY <1>3 DEF Sent
  <2>3. <<"threat", e>> \notin out /\ <<"incident", e>> \notin out
    BY <2>2 DEF Told
  <2> QED
    BY <1>2, <2>1, <2>2, <2>3
<1>4. ASSUME NEW e \in Evals, Walk(e) PROVE Told'
  <2>1. PICK y : Become(e, y) /\ Turns(ev[e], y)
    BY <1>4, WalkGrabs
  <2>2. Tells(e)
    BY <1>4 DEF Walk
  <2>3. <<"threat", e>> \in out' => y.pc \in {"open", "finish", "commit"}
    <3>1. CASE <<"threat", e>> \in out
      BY <2>1, <3>1 DEF Told, Turns, Edges
    <3>2. CASE <<"threat", e>> \notin out
      BY <2>1, <2>2, <3>2 DEF Tells, Turns, Edges
    <3> QED
      BY <3>1, <3>2
  <2>4. <<"incident", e>> \in out' => y.pc \in {"finish", "commit"}
    <3>1. CASE <<"incident", e>> \in out
      BY <2>1, <3>1 DEF Told, Turns, Edges
    <3>2. CASE <<"incident", e>> \notin out
      BY <2>1, <2>2, <3>2 DEF Tells, Turns, Edges
    <3> QED
      BY <3>1, <3>2
  <2>5. y.pc = "commit" /\ y.dec = "deny" => <<"blocked", e>> \in out'
    BY <2>1, <2>2 DEF Tells, Turns, Edges
  <2>6. y.pc # "done"
    BY <2>1 DEF Turns, Edges
  <2>7. \A f \in Evals \ {e} : (<<"threat", f>> \in out' => <<"threat", f>> \in out)
                               /\ (<<"incident", f>> \in out' => <<"incident", f>> \in out)
    <3> TAKE f \in Evals \ {e}
    <3>1. f # e
      OBVIOUS
    <3>2. <<"threat", f>> \in out' => <<"threat", f>> \in out
      BY <2>2, <3>1 DEF Tells
    <3>3. <<"incident", f>> \in out' => <<"incident", f>> \in out
      BY <2>2, <3>1 DEF Tells
    <3> QED
      BY <3>2, <3>3
  <2> QED
    BY <1>2, <2>1, <2>2, <2>3, <2>4, <2>5, <2>6, <2>7 DEF Tells
<1>5. ASSUME NEW e \in Evals, Abort(e) PROVE Told'
  <2>1. PICK y : Become(e, y) /\ y.pc = "done" /\ y.end \in Ends(ev[e].pc)
    BY <1>1, <1>5, AbortGrabs
  <2>2. out' = out /\ ev[e].pc # "done"
    BY <1>1, <1>5, AbortGrabs DEF Running
  <2>3. y.end # "ok"
    BY <2>1 DEF Ends
  <2>4. <<"threat", e>> \in out => y.end \in {"crash", "key"}
    BY <2>1, <2>2 DEF Told, Ends
  <2>5. <<"incident", e>> \in out => y.end = "crash"
    BY <2>1, <2>2 DEF Told, Ends
  <2> QED
    BY <1>2, <2>1, <2>2, <2>3, <2>4, <2>5
<1>6. ASSUME NEW e \in Evals, CommitEval(e) PROVE Told'
  <2>1. PICK y : Become(e, y) /\ y.pc = "done" /\ y.end = "ok" /\ y.dec = ev[e].dec
    BY <1>1, <1>6, CommitEvalGrabs
  <2>2. out' = out /\ ev[e].pc = "commit"
    BY <1>1, <1>6, CommitEvalGrabs
  <2>3. y.dec = "deny" => <<"blocked", e>> \in out
    BY <2>1, <2>2 DEF Told
  <2> QED
    BY <1>2, <2>1, <2>2, <2>3
<1>7. ASSUME ev' = ev, out' = out PROVE Told'
  BY <1>7 DEF Told
<1>8. ASSUME NEW e \in Evals, Respond(e) PROVE ev' = ev /\ out' = out
  BY <1>8 DEF Respond, Answer, Error, GiveUp
<1> QED
  BY <1>1, <1>3, <1>4, <1>5, <1>6, <1>7, <1>8, Kinds DEF Clock, guardVars

-------------------------------------------------------------------------------
\* What a step does to one evaluation.
Past == {"threat", "alarm", "open", "finish", "commit"}

Rests(f)  == ev'[f] = ev[f] /\ held'[f] = held[f]
Begins(f) ==
  /\ ev[f].pc = "idle" /\ ev'[f].pc = "core" /\ ev'[f].raise = "none" /\ ev'[f].call \in Contents
  /\ Anew(ev'[f]) /\ Sent(f) /\ held'[f] = held[f]
Advances(f) ==
  /\ Walk(f) /\ Turns(ev[f], ev'[f]) /\ ev'[f].call = ev[f].call
  /\ held[f] \subseteq held'[f] /\ held'[f] \subseteq held[f] \cup Wants(f)
  /\ ev[f].pc \in {"core", "learn", "alarm", "open"} => Wants(f) \subseteq held'[f]
  /\ ev[f].pc = "learn" => <<"profile", Of(f)>> \in held'[f]
  /\ ev[f].pc = "threat" =>
       IF OpenThreats(Of(f)) = {} THEN ev'[f].raise = "new" /\ ev'[f].pc = "alarm"
       ELSE ev'[f].raise = "fold" /\ ev'[f].pc = "finish"
  /\ ev[f].pc = "approve" /\ held'[f] # held[f] => ev'[f].dec = "approval"
Leaves(f) ==
  /\ \/ Abort(f) /\ ev'[f].end \in Ends(ev[f].pc) /\ Cause(f, ev'[f].end)
     \/ CommitEval(f) /\ ev'[f].end = "ok"
  /\ ev'[f].pc = "done" /\ ev'[f].call = ev[f].call /\ Halts(ev[f], ev'[f]) /\ held'[f] = {}

LEMMA EachEvaluation ==
  ASSUME NEW f \in Evals, Placing, Next
  PROVE  Rests(f) \/ Begins(f) \/ Advances(f) \/ Leaves(f)
<1>1. Shape /\ KeysLast /\ held = [p \in Procs |-> held[p]] /\ f \in Procs
  BY ProcsAreDisjoint DEF Placing, Shape
<1>2. ASSUME NEW e \in Evals \ {f}, Sent(e) \/ Walk(e) \/ Abort(e) \/ CommitEval(e)
      PROVE  Rests(f)
  <2>1. \E y : Become(e, y)
    BY <1>1, <1>2, WalkGrabs, AbortGrabs, CommitEvalGrabs DEF Sent
  <2>2. Grabs(e)
    BY <1>1, <1>2, WalkGrabs, AbortGrabs, CommitEvalGrabs DEF Sent, Grabs
  <2> QED
    BY <1>1, <2>1, <2>2, BecomeShape, HeldKept, ProcsAreDisjoint DEF Rests
<1>3. ASSUME Sent(f)
      PROVE  Begins(f)
  <2>1. PICK y : Become(f, y) /\ Anew(y)
    BY <1>3 DEF Sent
  <2>2. ev'[f] = y
    BY <1>1, <2>1, BecomeShape
  <2> QED
    BY <1>1, <1>3, <2>1, <2>2 DEF Sent, Begins, Anew
<1>4. ASSUME Walk(f) PROVE Advances(f)
  <2>1. PICK y : /\ Become(f, y) /\ Turns(ev[f], y)
                 /\ ev[f].pc = "threat" =>
                      IF OpenThreats(Of(f)) = {} THEN y.raise = "new" /\ y.pc = "alarm"
                      ELSE y.raise = "fold" /\ y.pc = "finish"
                 /\ ev[f].pc = "approve" /\ held' # held => y.dec = "approval"
    BY <1>4 DEF Walk
  <2>2. ev'[f] = y
    BY <1>1, <2>1, BecomeShape
  <2>3. Locks(f)
    BY <1>4 DEF Walk
  <2>4. /\ held[f] \subseteq held'[f] /\ held'[f] \subseteq held[f] \cup Wants(f)
        /\ ev[f].pc \in {"core", "learn", "alarm", "open"} => Wants(f) \subseteq held'[f]
    <3>1. CASE held' = held /\ ev[f].pc \notin {"core", "learn", "alarm", "open"}
      BY <3>1
    <3>2. ASSUME NEW l \in Wants(f), Take(f, l)
          PROVE  /\ held[f] \subseteq held'[f] /\ held'[f] \subseteq held[f] \cup Wants(f)
                 /\ ev[f].pc \in {"core", "learn", "alarm", "open"} => Wants(f) \subseteq held'[f]
      <4>1. held'[f] = held[f] \cup {l}
        BY <1>1, <3>2 DEF Take
      <4>2. Wants(f) = {l}
        BY <3>2 DEF Wants, AskLock
      <4> QED
        BY <3>2, <4>1, <4>2
    <3> QED
      BY <2>3, <3>1, <3>2 DEF Locks
  <2>5. ev[f].pc = "learn" => <<"profile", Of(f)>> \in held'[f]
    BY <2>4 DEF Wants
  <2>6. y.call = ev[f].call
    BY <2>1 DEF Turns, Kept
  <2> QED
    BY <1>4, <2>1, <2>2, <2>4, <2>5, <2>6 DEF Advances
<1>5. ASSUME Abort(f) \/ CommitEval(f) PROVE Leaves(f)
  <2>1. held'[f] = {}
    BY <1>1, <1>5, AbortGrabs, CommitEvalGrabs
  <2>2. CASE Abort(f)
    <3>1. PICK y : /\ Become(f, y) /\ y.pc = "done" /\ y.call = ev[f].call /\ Halts(ev[f], y)
                   /\ y.end \in Ends(ev[f].pc) /\ Cause(f, y.end)
      BY <1>1, <2>2, AbortGrabs
    <3>2. ev'[f] = y
      BY <1>1, <3>1, BecomeShape
    <3> QED
      BY <2>1, <2>2, <3>1, <3>2 DEF Leaves
  <2>3. CASE CommitEval(f)
    <3>1. PICK y : /\ Become(f, y) /\ y.pc = "done" /\ y.call = ev[f].call /\ Halts(ev[f], y)
                   /\ y.end = "ok"
      BY <1>1, <2>3, CommitEvalGrabs
    <3>2. ev'[f] = y
      BY <1>1, <3>1, BecomeShape
    <3> QED
      BY <2>1, <2>3, <3>1, <3>2 DEF Leaves
  <2> QED
    BY <1>5, <2>2, <2>3
<1>6. ASSUME NEW e \in Evals, Respond(e) PROVE Rests(f)
  BY <1>6 DEF Respond, Answer, Error, GiveUp, deskVars, Rests
<1>7. ASSUME NEW o \in Officers, Started(o) \/ Work(o) \/ Commit(o), UNCHANGED guardVars
      PROVE  Rests(f)
  <2>1. Grabs(o) /\ ev' = ev /\ o \in Procs /\ o # f
    BY <1>1, <1>7, CommitGrabs, ProcsAreDisjoint DEF Started, Work, guardVars, Grabs
  <2> QED
    BY <1>1, <2>1, HeldKept DEF Rests
<1>8. ASSUME Clock PROVE Rests(f)
  BY <1>8 DEF Clock, Rests
<1> QED
  BY <1>1, <1>2, <1>3, <1>4, <1>5, <1>6, <1>7, <1>8, Kinds

\* What an evaluation has in hand: its call, the profile's lock, its threat.
InHand ==
  \A e \in Evals :
    /\ ev[e].pc # "idle" => ev[e].call \in Contents
    /\ ev[e].pc \in Past => <<"profile", Of(e)>> \in held[e]
    /\ ev[e].pc \in {"alarm", "open"} => ev[e].raise = "new"
    /\ ev[e].pc \notin (Past \ {"threat"}) \cup {"done"} => ev[e].raise = "none"
    /\ ev[e].pc \in {"finish", "commit"} /\ Anomalous(ev[e].score) => ev[e].raise \in {"new", "fold"}

LEMMA InHandKept ==
  ASSUME Placing, InHand, Next
  PROVE  InHand'
<1> SUFFICES ASSUME NEW f \in Evals
             PROVE  /\ ev'[f].pc # "idle" => ev'[f].call \in Contents
                    /\ ev'[f].pc \in Past => <<"profile", ev'[f].call.agent>> \in held'[f]
                    /\ ev'[f].pc \in {"alarm", "open"} => ev'[f].raise = "new"
                    /\ ev'[f].pc \notin (Past \ {"threat"}) \cup {"done"} => ev'[f].raise = "none"
                    /\ ev'[f].pc \in {"finish", "commit"} /\ Anomalous(ev'[f].score) =>
                         ev'[f].raise \in {"new", "fold"}
  BY DEF InHand, Of
<1>1. CASE Rests(f)
  BY <1>1 DEF InHand, Of, Rests
<1>2. CASE Begins(f)
  BY <1>2 DEF Past, Begins
<1>3. CASE Advances(f)
  <2>1. /\ <<ev[f].pc, ev'[f].pc>> \in Edges /\ ev'[f].call = ev[f].call
        /\ ev[f].pc # "core" => ev'[f].score = ev[f].score
        /\ ev[f].pc # "threat" => ev'[f].raise = ev[f].raise
        /\ ev[f].pc = "learn" => (ev'[f].pc = "threat" <=> Anomalous(ev[f].score))
    BY <1>3 DEF Turns, Advances
  <2>2. ev'[f].pc # "idle" => ev'[f].call \in Contents
    BY <2>1 DEF InHand, Edges
  <2>3. ev'[f].pc \in Past => <<"profile", ev'[f].call.agent>> \in held'[f]
    BY <1>3, <2>1 DEF Advances, InHand, Edges, Past, Of
  <2>4. ev'[f].pc \in {"alarm", "open"} => ev'[f].raise = "new"
    BY <1>3, <2>1 DEF Advances, InHand, Edges
  <2>5. ev'[f].pc \notin (Past \ {"threat"}) \cup {"done"} => ev'[f].raise = "none"
    BY <2>1 DEF InHand, Edges, Past
  <2>6. ev'[f].pc \in {"finish", "commit"} /\ Anomalous(ev'[f].score) => ev'[f].raise \in {"new", "fold"}
    <3>1. CASE ev[f].pc = "learn"
      BY <2>1, <3>1 DEF Edges
    <3>2. CASE ev[f].pc = "threat"
      BY <1>3, <3>2 DEF Advances
    <3>3. CASE ev[f].pc \in {"alarm", "open"}
      BY <2>1, <3>3 DEF InHand
    <3>4. CASE ev[f].pc \in {"finish", "commit"}
      BY <2>1, <3>4 DEF InHand
    <3>5. CASE ev[f].pc \notin Past \cup {"learn"}
      BY <2>1, <3>5 DEF Edges, Past
    <3> QED
      BY <3>1, <3>2, <3>3, <3>4, <3>5 DEF Past
  <2> QED
    BY <2>2, <2>3, <2>4, <2>5, <2>6
<1>4. CASE Leaves(f)
  <2>1. ev[f].pc # "idle"
    BY <1>4 DEF Leaves, Abort, Running, CommitEval
  <2> QED
    BY <1>4, <2>1 DEF Leaves, InHand, Past
<1> QED
  BY <1>1, <1>2, <1>3, <1>4, EachEvaluation

-------------------------------------------------------------------------------
\* Transactions that are under way together have met.
AllMet == \A p, q \in Busy : p # q => q \in met[p]

LEMMA BusyIs ==
  ASSUME NEW p \in Procs
  PROVE  p \in Busy <=> (p \in Officers /\ Desk(p)) \/ (p \in Evals /\ Running(p))
BY DEF Busy

LEMMA MeetKeeps ==
  ASSUME Shape, AllMet, NEW p \in Procs, p \notin Busy, Meet(p, Busy), Busy' \subseteq Busy \cup {p}
  PROVE  AllMet' /\ \A q \in Procs : met[q] \subseteq met'[q]
<1>1. \A q \in Procs : met'[q] = IF q = p THEN met[q] \cup Busy
                                 ELSE IF q \in Busy THEN met[q] \cup {p} ELSE met[q]
  BY DEF Meet
<1>2. Busy \subseteq Procs
  BY DEF Busy, Procs
<1> QED
  BY <1>1, <1>2 DEF AllMet

LEMMA AllMetKept ==
  ASSUME Placing, AllMet, Next
  PROVE  AllMet' /\ \A q \in Procs : met[q] \subseteq met'[q]
<1>1. Shape /\ KeysLast
  BY DEF Placing
<1>2. ASSUME Busy' \subseteq Busy, met' = met
      PROVE  AllMet' /\ \A q \in Procs : met[q] \subseteq met'[q]
  BY <1>2 DEF AllMet
<1>3. ASSUME NEW e \in Evals, NEW y, Become(e, y), req' = req
      PROVE  /\ Busy' \subseteq Busy \cup {e}
             /\ y.pc \in {"idle", "done"} \/ e \in Busy => Busy' \subseteq Busy
  <2>1. ev'[e] = y /\ \A f \in Evals \ {e} : ev'[f] = ev[f]
    BY <1>1, <1>3, BecomeShape
  <2> QED
    BY <1>3, <2>1 DEF Busy, Desk, Running
<1>4. ASSUME NEW o \in Officers, NEW y, Go(o, y), ev' = ev
      PROVE  /\ Busy' \subseteq Busy \cup {o}
             /\ y.pc \in {"idle", "done"} \/ o \in Busy => Busy' \subseteq Busy
  <2>1. req'[o] = y /\ \A p \in Officers \ {o} : req'[p] = req[p]
    BY <1>1, <1>4, GoShape
  <2> QED
    BY <1>4, <2>1 DEF Busy, Desk, Running
<1>5. ASSUME NEW e \in Evals, Sent(e)
      PROVE  AllMet' /\ \A q \in Procs : met[q] \subseteq met'[q]
  <2>1. PICK y : Become(e, y)
    BY <1>5 DEF Sent
  <2>2. Meet(e, Busy) /\ req' = req /\ e \notin Busy /\ e \in Procs
    BY <1>5, ProcsAreDisjoint DEF Sent, Busy, Running, DeskRows
  <2> QED
    BY <1>1, <1>3, <2>1, <2>2, MeetKeeps
<1>6. ASSUME NEW e \in Evals, Walk(e) \/ Abort(e) \/ CommitEval(e)
      PROVE  AllMet' /\ \A q \in Procs : met[q] \subseteq met'[q]
  <2>1. PICK y : Become(e, y)
    BY <1>1, <1>6, WalkGrabs, AbortGrabs, CommitEvalGrabs
  <2>2. req' = req /\ met' = met
    BY <1>1, <1>6, WalkGrabs, AbortGrabs, CommitEvalGrabs
  <2>3. ev[e].pc \notin {"idle", "done"}
    <3>1. CASE Walk(e)
      BY <3>1, WalkGrabs DEF Turns, Edges
    <3>2. CASE Abort(e) \/ CommitEval(e)
      BY <1>1, <3>2, AbortGrabs, CommitEvalGrabs DEF Running
    <3> QED
      BY <1>6, <3>1, <3>2
  <2>4. e \in Busy
    BY <2>3 DEF Busy, Running
  <2> QED
    BY <1>2, <1>3, <2>1, <2>2, <2>4
<1>7. ASSUME NEW o \in Officers, Started(o), UNCHANGED guardVars
      PROVE  AllMet' /\ \A q \in Procs : met[q] \subseteq met'[q]
  <2>1. PICK y : Go(o, y)
    BY <1>7 DEF Started
  <2>2. Meet(o, Busy) /\ ev' = ev /\ o \notin Busy /\ o \in Procs
    BY <1>7, ProcsAreDisjoint DEF Started, Busy, Desk, guardVars
  <2> QED
    BY <1>1, <1>4, <2>1, <2>2, MeetKeeps
<1>8. ASSUME NEW o \in Officers, Work(o) \/ Commit(o), UNCHANGED guardVars
      PROVE  AllMet' /\ \A q \in Procs : met[q] \subseteq met'[q]
  <2>1. PICK y : Go(o, y)
    BY <1>1, <1>8, CommitGrabs DEF Work
  <2>2. ev' = ev /\ met' = met
    BY <1>1, <1>8, CommitGrabs DEF Work, guardVars
  <2>3. o \in Busy
    BY <1>8 DEF Work, Works, Commit, Busy, Desk
  <2> QED
    BY <1>2, <1>4, <2>1, <2>2, <2>3
<1>9. ASSUME UNCHANGED <<ev, req, met>> PROVE AllMet' /\ \A q \in Procs : met[q] \subseteq met'[q]
  BY <1>9 DEF AllMet, Busy, Desk, Running
<1>10. ASSUME NEW e \in Evals, Respond(e) PROVE UNCHANGED <<ev, req, met>>
  BY <1>10 DEF Respond, Answer, Error, GiveUp, deskVars
<1> QED
  BY <1>1, <1>5, <1>6, <1>7, <1>8, <1>9, <1>10, Kinds DEF Clock

-------------------------------------------------------------------------------
\* What a step does to the threats: a commit of an evaluation may append one,
\* an officer's commit may close one, and time lets one fade.
Shrunk ==
  /\ threats' \in Seq(Threat) /\ DOMAIN threats' = DOMAIN threats
  /\ \A i \in DOMAIN threats :
       /\ threats'[i].agent = threats[i].agent
       /\ threats'[i].open => threats[i].open
       /\ threats'[i].recent => threats[i].recent

Lasts == \A i \in DOMAIN threats : threats[i].open => threats'[i].open

LEMMA FadedThreat ==
  ASSUME NEW T \in Seq(Threat), NEW i \in DOMAIN T
  PROVE  LET U == [T EXCEPT ![i].recent = FALSE] IN
           /\ U \in Seq(Threat) /\ DOMAIN U = DOMAIN T
           /\ \A j \in DOMAIN T : U[j].agent = T[j].agent /\ U[j].open = T[j].open
                                  /\ (U[j].recent => T[j].recent)
<1> DEFINE r == [T[i] EXCEPT !.recent = FALSE]
           U == [T EXCEPT ![i] = r]
<1>1. T[i] \in Threat
  OBVIOUS
<1>2. r \in Threat /\ r.agent = T[i].agent /\ r.open = T[i].open /\ ~r.recent
  BY <1>1 DEF Threat
<1> HIDE DEF r
<1>3. /\ U \in Seq(Threat) /\ DOMAIN U = DOMAIN T
      /\ \A j \in DOMAIN T : U[j] = IF j = i THEN r ELSE T[j]
  BY <1>2
<1> QED
  BY <1>2, <1>3 DEF r

LEMMA ClosedThreat ==
  ASSUME NEW T \in Seq(Threat), NEW i
  PROVE  LET U == [T EXCEPT ![i].open = FALSE] IN
           /\ U \in Seq(Threat) /\ DOMAIN U = DOMAIN T
           /\ \A j \in DOMAIN T : U[j].agent = T[j].agent /\ U[j].recent = T[j].recent
                                  /\ (U[j].open => T[j].open)
<1> DEFINE r == [T[i] EXCEPT !.open = FALSE]
           U == [T EXCEPT ![i] = r]
<1>1. CASE i \in DOMAIN T
  <2>1. T[i] \in Threat
    BY <1>1
  <2>2. r \in Threat /\ r.agent = T[i].agent /\ r.recent = T[i].recent /\ ~r.open
    BY <2>1 DEF Threat
  <2> HIDE DEF r
  <2>3. /\ U \in Seq(Threat) /\ DOMAIN U = DOMAIN T
        /\ \A j \in DOMAIN T : U[j] = IF j = i THEN r ELSE T[j]
    BY <1>1, <2>2
  <2> QED
    BY <2>2, <2>3 DEF r
<1>2. CASE i \notin DOMAIN T
  <2>1. U = T
    BY <1>2
  <2> QED
    BY <2>1
<1> QED
  BY <1>1, <1>2

Appends(e) == /\ CommitEval(e) /\ ev[e].raise = "new"
              /\ threats' = Append(threats, [agent |-> Of(e), open |-> TRUE, recent |-> TRUE])
Resolves(o) == Commit(o) /\ req[o].op = "resolve" /\ UNCHANGED guardVars

LEMMA ThreatSteps ==
  ASSUME Placing, threats \in Seq(Threat), Next
  PROVE  \/ Shrunk /\ Lasts
         \/ Shrunk /\ \E o \in Officers : Resolves(o)
         \/ \E e \in Evals : Appends(e)
<1>1. Shape /\ KeysLast
  BY DEF Placing
<1>2. ASSUME threats' = threats PROVE Shrunk /\ Lasts
  BY <1>2 DEF Shrunk, Lasts
<1>3. ASSUME NEW e \in Evals, Sent(e) \/ Walk(e) \/ Abort(e) PROVE threats' = threats
  BY <1>3 DEF Sent, Walk, Abort, DeskRows
<1>4. ASSUME NEW e \in Evals, Respond(e) PROVE threats' = threats
  BY <1>4 DEF Respond, Answer, Error, GiveUp, deskVars
<1>5. ASSUME NEW e \in Evals, CommitEval(e) PROVE Appends(e) \/ threats' = threats
  BY <1>5 DEF CommitEval, Appends
<1>6. ASSUME NEW o \in Officers, Started(o) \/ Work(o) PROVE threats' = threats
  BY <1>6 DEF Started, Work
<1>7. ASSUME NEW o \in Officers, Commit(o), UNCHANGED guardVars
      PROVE  threats' = threats \/ (Shrunk /\ Resolves(o))
  <2>1. CASE req[o].op # "resolve"
    BY <1>7, <2>1 DEF Commit
  <2>2. CASE req[o].op = "resolve"
    <3> DEFINE i == req[o].row
    <3>1. threats' = [threats EXCEPT ![i].open = FALSE]
      BY <1>7, <2>2 DEF Commit
    <3> HIDE DEF i
    <3>2. Shrunk
      BY <3>1, ClosedThreat DEF Shrunk
    <3> QED
      BY <1>7, <2>2, <3>2 DEF Resolves
  <2> QED
    BY <2>1, <2>2
<1>8. ASSUME Clock PROVE Shrunk /\ Lasts
  <2>1. CASE \E i \in DOMAIN threats : Age(i)
    <3>1. PICK i \in DOMAIN threats : threats' = [threats EXCEPT ![i].recent = FALSE]
      BY <2>1 DEF Age
    <3> QED
      BY <3>1, FadedThreat DEF Shrunk, Lasts
  <2>2. CASE Tick \/ (\E w \in Windows : Expire(w)) \/ \E i \in RequestIds : AskElsewhere(i)
    BY <1>2, <2>2 DEF Tick, Expire, AskElsewhere, deskVars
  <2> QED
    BY <1>8, <2>1, <2>2 DEF Clock
<1> QED
  BY <1>1, <1>2, <1>3, <1>4, <1>5, <1>6, <1>7, <1>8, Kinds

-------------------------------------------------------------------------------
\* An agent's evaluations look for open threats and add one while they hold its
\* profile's lock.
Guarded ==
  /\ threats \in Seq(Threat)
  /\ \A a \in Agents : \A i, j \in OpenThreats(a) : i = j
  /\ \A e \in Evals : ev[e].pc \in Past \ {"threat"} /\ ev[e].raise = "new" => OpenThreats(Of(e)) = {}

LEMMA CallsAgent == ASSUME NEW c \in Contents PROVE c.agent \in Agents
BY ContentAssumption DEF Content

\* An evaluation about to add a threat has found none.
LEMMA AboutToAlarm ==
  ASSUME Placing, InHand, Guarded, Next, NEW f \in Evals,
         ev'[f].pc \in Past \ {"threat"}, ev'[f].raise = "new"
  PROVE  ev'[f].call.agent = Of(f) /\ OpenThreats(Of(f)) = {}
<1>1. CASE Rests(f)
  BY <1>1 DEF Rests, Guarded, Of
<1>2. CASE Begins(f)
  BY <1>2 DEF Begins, Past
<1>3. CASE Advances(f)
  <2>1. /\ <<ev[f].pc, ev'[f].pc>> \in Edges /\ ev'[f].call = ev[f].call
        /\ ev[f].pc # "threat" => ev'[f].raise = ev[f].raise
    BY <1>3 DEF Advances, Turns
  <2>2. CASE ev[f].pc = "threat"
    BY <1>3, <2>1, <2>2 DEF Advances, Of
  <2>3. CASE ev[f].pc # "threat"
    <3>1. ev[f].raise = "new" /\ ev[f].pc # "done"
      BY <2>1, <2>3 DEF Edges
    <3>2. ev[f].pc \in Past \ {"threat"}
      BY <3>1 DEF InHand
    <3> QED
      BY <2>1, <3>1, <3>2 DEF Guarded, Of
  <2> QED
    BY <2>2, <2>3
<1>4. CASE Leaves(f)
  BY <1>4 DEF Leaves, Past
<1> QED
  BY <1>1, <1>2, <1>3, <1>4, EachEvaluation

LEMMA GuardedKept ==
  ASSUME Placing, InHand, Guarded, Next
  PROVE  Guarded'
<1> DEFINE Open(T, a) == {i \in DOMAIN T : T[i].agent = a /\ T[i].open /\ T[i].recent}
<1>1. threats \in Seq(Threat) /\ \A a : OpenThreats(a) = Open(threats, a)
  BY DEF Guarded, OpenThreats
<1>2. ASSUME /\ threats' \in Seq(Threat)
             /\ \A a \in Agents : \A i, j \in Open(threats', a) : i = j
             /\ \A f \in Evals : ev'[f].pc \in Past \ {"threat"} /\ ev'[f].raise = "new" =>
                  Open(threats', ev'[f].call.agent) = {}
      PROVE  Guarded'
  BY <1>2 DEF Guarded, OpenThreats, Of
<1>5. \A a \in Agents : \A i, j \in Open(threats, a) : i = j
  <2> HIDE DEF Open
  <2> QED
    BY <1>1 DEF Guarded
<1>3. CASE Shrunk
  <2>1. \A a : Open(threats', a) \subseteq Open(threats, a)
    BY <1>3 DEF Shrunk
  <2> HIDE DEF Open
  <2>2. \A a \in Agents : \A i, j \in Open(threats', a) : i = j
    BY <1>5, <2>1
  <2>3. ASSUME NEW f \in Evals, ev'[f].pc \in Past \ {"threat"}, ev'[f].raise = "new"
        PROVE  Open(threats', ev'[f].call.agent) = {}
    <3>1. ev'[f].call.agent = Of(f) /\ OpenThreats(Of(f)) = {}
      BY <2>3, AboutToAlarm
    <3>2. Open(threats, Of(f)) = {}
      BY <1>1, <3>1
    <3> QED
      BY <2>1, <3>1, <3>2
  <2> QED
    BY <1>2, <1>3, <2>2, <2>3 DEF Shrunk
<1>4. ASSUME NEW e \in Evals, Appends(e) PROVE Guarded'
  <2> DEFINE t == [agent |-> Of(e), open |-> TRUE, recent |-> TRUE]
  <2>1. /\ CommitEval(e) /\ ev[e].raise = "new" /\ ev[e].pc = "commit"
        /\ threats' = Append(threats, t)
    BY <1>4 DEF Appends, CommitEval
  <2>2. Of(e) \in Agents /\ t \in Threat
    BY <2>1, CallsAgent DEF InHand, Of, Threat
  <2>3. Open(threats, Of(e)) = {}
    BY <1>1, <2>1 DEF Guarded, Past
  <2>4. t.agent = Of(e)
    OBVIOUS
  <2> HIDE DEF t
  <2>5. /\ threats' \in Seq(Threat)
        /\ DOMAIN threats' = DOMAIN threats \cup {Len(threats) + 1}
        /\ threats'[Len(threats) + 1] = t
        /\ \A i \in DOMAIN threats : threats'[i] = threats[i]
    BY <1>1, <2>1, <2>2
  <2>6. Open(threats', Of(e)) \subseteq {Len(threats) + 1}
    BY <2>3, <2>5
  <2>7. \A a : a # Of(e) => Open(threats', a) = Open(threats, a)
    BY <2>4, <2>5
  <2>8. \A a \in Agents : \A i, j \in Open(threats', a) : i = j
    <3> HIDE DEF Open
    <3> QED
      BY <1>5, <2>6, <2>7
  <2>9. ASSUME NEW f \in Evals, ev'[f].pc \in Past \ {"threat"}, ev'[f].raise = "new"
        PROVE  Open(threats', ev'[f].call.agent) = {}
    <3>1. f # e /\ ev'[f] = ev[f]
      <4>1. Shape
        BY DEF Placing
      <4>2. PICK y : Become(e, y) /\ y.pc = "done"
        BY <2>1, <4>1, CommitEvalGrabs
      <4>3. ev'[e] = y /\ \A g \in Evals \ {e} : ev'[g] = ev[g]
        BY <4>1, <4>2, BecomeShape
      <4> QED
        BY <2>9, <4>2, <4>3 DEF Past
    <3>2. <<"profile", Of(f)>> \in held[f] /\ <<"profile", Of(e)>> \in held[e]
      BY <2>1, <2>9, <3>1 DEF InHand, Past
    <3>3. e \in Procs /\ f \in Procs /\ held[e] \cap held[f] = {}
      BY <3>1, ProcsAreDisjoint DEF Placing, Exclusive
    <3>4. Of(f) # Of(e)
      BY <3>2, <3>3
    <3>5. Open(threats, Of(f)) = {}
      BY <1>1, <2>9, <3>1 DEF Guarded
    <3>6. ev'[f].call.agent = Of(f)
      BY <3>1 DEF Of
    <3> HIDE DEF Open
    <3> QED
      BY <2>7, <3>4, <3>5, <3>6
  <2> HIDE DEF Open
  <2> QED
    BY <1>2, <2>5, <2>8, <2>9
<1> HIDE DEF Open
<1> QED
  BY <1>1, <1>3, <1>4, ThreatSteps

\* An anomalous call that found a threat leaves it open, or meets whoever
\* resolves it.
Visible(e) ==
  \/ \E i \in DOMAIN threats : threats[i].agent = Of(e) /\ threats[i].open
  \/ \E o \in met[e] \cap Officers : req[o].op = "resolve"

Seen == \A e \in Evals : ev[e].pc \in {"finish", "commit"} /\ ev[e].raise = "fold" => Visible(e)

\* Officers who have not started ask for nothing.
Rows ==
  \A o \in Officers :
    /\ req[o].pc = "idle" => req[o].op = "none"
    /\ req[o].pc \in {"idle", "read"} => req[o].row = 0

\* What a step does to one officer's request.
Same(o)  == req'[o] = req[o]
Opens(o) == req[o].pc = "idle" /\ req'[o].pc = "read" /\ req'[o].op \in Ops /\ req'[o].row = 0
Goes(o)  == Work(o) /\ Works(req[o], req'[o])
Shuts(o) == Commit(o) /\ req'[o].pc = "done" /\ req'[o].op = req[o].op /\ req'[o].row = req[o].row

LEMMA EachOfficer ==
  ASSUME Placing, Next, NEW o \in Officers
  PROVE  Same(o) \/ Opens(o) \/ Goes(o) \/ Shuts(o)
<1>1. Shape /\ KeysLast
  BY DEF Placing
<1>2. ASSUME NEW p \in Officers \ {o}, Started(p) \/ Work(p) \/ Commit(p) PROVE Same(o)
  <2>1. \E y : Go(p, y)
    BY <1>1, <1>2, CommitGrabs DEF Started, Work
  <2> QED
    BY <1>1, <2>1, GoShape DEF Same
<1>3. ASSUME Started(o) PROVE Opens(o)
  <2>1. PICK y : Go(o, y) /\ y.pc = "read" /\ y.op \in Ops /\ y.row = 0
    BY <1>3 DEF Started
  <2> QED
    BY <1>1, <1>3, <2>1, GoShape DEF Started, Opens
<1>4. ASSUME Work(o) PROVE Goes(o)
  <2>1. PICK y : Go(o, y) /\ Works(req[o], y)
    BY <1>4 DEF Work
  <2> QED
    BY <1>1, <1>4, <2>1, GoShape DEF Goes
<1>5. ASSUME Commit(o) PROVE Shuts(o)
  <2>1. PICK y : Go(o, y) /\ y.pc = "done" /\ y.op = req[o].op /\ y.row = req[o].row
    BY <1>1, <1>5, CommitGrabs
  <2> QED
    BY <1>1, <1>5, <2>1, GoShape DEF Shuts
<1>6. ASSUME NEW e \in Evals, Sent(e) \/ Walk(e) \/ Abort(e) \/ CommitEval(e) \/ Respond(e) PROVE Same(o)
  BY <1>6 DEF Sent, Walk, Abort, CommitEval, Respond, Answer, Error, GiveUp, DeskRows, deskVars, Same
<1>7. ASSUME Clock PROVE Same(o)
  BY <1>7 DEF Clock, Same
<1> QED
  BY <1>1, <1>2, <1>3, <1>4, <1>5, <1>6, <1>7, Kinds

LEMMA RowsKept ==
  ASSUME Placing, Rows, Next
  PROVE  Rows' /\ \A o \in Officers : req[o].op # "none" => req'[o].op = req[o].op
<1> SUFFICES ASSUME NEW o \in Officers
             PROVE  /\ req'[o].pc = "idle" => req'[o].op = "none"
                    /\ req'[o].pc \in {"idle", "read"} => req'[o].row = 0
                    /\ req[o].op # "none" => req'[o].op = req[o].op
  BY DEF Rows
<1>1. CASE Same(o)
  BY <1>1 DEF Same, Rows
<1>2. CASE Opens(o)
  BY <1>2 DEF Opens, Rows
<1>3. CASE Goes(o) \/ Shuts(o)
  BY <1>3 DEF Goes, Works, Shuts
<1> QED
  BY <1>1, <1>2, <1>3, EachOfficer

LEMMA SeenKept ==
  ASSUME Placing, InHand, Guarded, AllMet, Rows, Seen, Next
  PROVE  Seen'
<1>1. \A q \in Procs : met[q] \subseteq met'[q]
  BY AllMetKept
<1>2. \A o \in Officers : req[o].op # "none" => req'[o].op = req[o].op
  BY RowsKept
<1>3. threats \in Seq(Threat)
  BY DEF Guarded
<1> SUFFICES ASSUME NEW f \in Evals, ev'[f].pc \in {"finish", "commit"}, ev'[f].raise = "fold"
             PROVE  \/ \E i \in DOMAIN threats' : threats'[i].agent = ev'[f].call.agent /\ threats'[i].open
                    \/ \E o \in met'[f] \cap Officers : req'[o].op = "resolve"
  BY DEF Seen, Visible, Of
<1>4. /\ ev'[f].call = ev[f].call /\ f \in Busy
      /\ \/ Visible(f)
         \/ \E i \in DOMAIN threats : threats[i].agent = Of(f) /\ threats[i].open
  <2>1. CASE Rests(f)
    BY <2>1 DEF Rests, Seen, Busy, Running
  <2>2. CASE Begins(f)
    BY <2>2 DEF Begins
  <2>3. CASE Advances(f)
    <3>1. /\ <<ev[f].pc, ev'[f].pc>> \in Edges /\ ev'[f].call = ev[f].call
          /\ ev[f].pc # "threat" => ev'[f].raise = ev[f].raise
      BY <2>3 DEF Advances, Turns
    <3>2. CASE ev[f].pc = "threat"
      <4>1. OpenThreats(Of(f)) # {}
        BY <2>3, <3>2 DEF Advances
      <4> QED
        BY <3>1, <3>2, <4>1 DEF OpenThreats, Busy, Running
    <3>3. CASE ev[f].pc # "threat"
      <4>1. ev[f].pc \in {"finish"}
        BY <3>1, <3>3 DEF Edges, InHand, Past
      <4> QED
        BY <3>1, <3>3, <4>1 DEF Seen, Busy, Running
    <3> QED
      BY <3>2, <3>3
  <2>4. CASE Leaves(f)
    BY <2>4 DEF Leaves
  <2> QED
    BY <2>1, <2>2, <2>3, <2>4, EachEvaluation
<1>5. CASE \E o \in met[f] \cap Officers : req[o].op = "resolve"
  <2>1. PICK o \in met[f] \cap Officers : req[o].op = "resolve"
    BY <1>5
  <2>2. o \in met'[f] /\ req'[o].op = "resolve"
    BY <1>1, <1>2, <2>1, ProcsAreDisjoint
  <2> QED
    BY <2>1, <2>2
<1>6. ASSUME NEW i \in DOMAIN threats, threats[i].agent = Of(f), threats[i].open
      PROVE  \/ \E j \in DOMAIN threats' : threats'[j].agent = ev'[f].call.agent /\ threats'[j].open
             \/ \E o \in met'[f] \cap Officers : req'[o].op = "resolve"
  <2>1. CASE Shrunk /\ Lasts
    BY <1>4, <1>6, <2>1 DEF Shrunk, Lasts, Of
  <2>2. ASSUME NEW o \in Officers, Resolves(o)
        PROVE  \E p \in met'[f] \cap Officers : req'[p].op = "resolve"
    <3>1. o \in Busy /\ o # f /\ req[o].op = "resolve" /\ f \in Procs
      BY <2>2, ProcsAreDisjoint DEF Resolves, Commit, Busy, Desk
    <3>2. o \in met[f]
      BY <1>4, <3>1 DEF AllMet
    <3> QED
      BY <1>1, <1>2, <3>1, <3>2
  <2>3. ASSUME NEW e \in Evals, Appends(e)
        PROVE  \E j \in DOMAIN threats' : threats'[j].agent = ev'[f].call.agent /\ threats'[j].open
    <3> DEFINE t == [agent |-> Of(e), open |-> TRUE, recent |-> TRUE]
    <3>1. threats' = Append(threats, t)
      BY <2>3 DEF Appends
    <3> HIDE DEF t
    <3>2. i \in DOMAIN threats' /\ threats'[i] = threats[i]
      BY <1>3, <3>1
    <3> QED
      BY <1>4, <1>6, <3>2 DEF Of
  <2> QED
    BY <1>3, <2>1, <2>2, <2>3, ThreatSteps
<1> QED
  BY <1>4, <1>5, <1>6 DEF Visible

-------------------------------------------------------------------------------
\* Two moves of incident k overlap.
Overlapped(k) ==
  \E o, p \in Officers : p \in met[o] /\ {req[o].op, req[p].op} = {"move"}
                         /\ req[o].row = k /\ req[p].row = k

Moving(o) == req[o].op = "move" /\ req[o].pc \in {"write", "audit", "commit"}

\* A move has found its incident open, which it still is but for another move.
Settled ==
  /\ incs \in Seq(Incident)
  /\ \A o \in Officers : Moving(o) =>
       /\ req[o].row \in DOMAIN incs /\ req[o].to \in Statuses
       /\ "closed" \in incs[req[o].row].stamps => Overlapped(req[o].row)
  /\ \A k \in DOMAIN incs :
       "closed" \in incs[k].stamps => incs[k].status = "closed" \/ Overlapped(k)

LEMMA RowStays ==
  ASSUME Placing, Rows, Next, NEW o \in Officers, req[o].row # 0
  PROVE  req'[o].row = req[o].row
<1>1. CASE Same(o) \/ Shuts(o)
  BY <1>1 DEF Same, Shuts
<1>2. CASE Opens(o)
  BY <1>2 DEF Opens, Rows
<1>3. CASE Goes(o)
  BY <1>3 DEF Goes, Works, Rows
<1> QED
  BY <1>1, <1>2, <1>3, EachOfficer

LEMMA OverlapStays ==
  ASSUME Placing, AllMet, Rows, Next, NEW k, k # 0, Overlapped(k)
  PROVE  Overlapped(k)'
<1>1. PICK o \in Officers, p \in Officers :
        p \in met[o] /\ {req[o].op, req[p].op} = {"move"} /\ req[o].row = k /\ req[p].row = k
  BY DEF Overlapped
<1>2. req[o].op = "move" /\ req[p].op = "move"
  BY <1>1
<1>3. req'[o].op = "move" /\ req'[p].op = "move"
  BY <1>2, RowsKept
<1>4. p \in met'[o]
  BY <1>1, AllMetKept, ProcsAreDisjoint
<1>5. req'[o].row = k /\ req'[p].row = k
  BY <1>1, RowStays
<1> QED
  BY <1>3, <1>4, <1>5 DEF Overlapped

LEMMA MoverWas ==
  ASSUME Placing, Next, NEW o \in Officers, Moving(o)'
  PROVE  \/ Moving(o) /\ req'[o].row = req[o].row /\ req'[o].to = req[o].to
         \/ /\ incs' = incs /\ req'[o].row \in DOMAIN incs /\ req'[o].to \in Statuses
            /\ incs[req'[o].row].status # "closed"
<1>1. req'[o].op = "move" /\ req'[o].pc \in {"write", "audit", "commit"}
  BY DEF Moving
<1>2. CASE Same(o)
  BY <1>1, <1>2 DEF Same, Moving
<1>3. CASE Opens(o) \/ Shuts(o)
  BY <1>1, <1>3 DEF Opens, Shuts
<1>4. CASE Goes(o)
  BY <1>1, <1>4 DEF Goes, Works, Work, Moving
<1> QED
  BY <1>2, <1>3, <1>4, EachOfficer

Opened == \E a \in Agents : incs' = Append(incs, NewIncident(a))
MoveMade(o) ==
  Commit(o) /\ Moving(o) /\ incs' = [incs EXCEPT ![req[o].row] = Moved(@, req[o].to)]

LEMMA IncidentSteps ==
  ASSUME Placing, InHand, Next
  PROVE  incs' = incs \/ Opened \/ \E o \in Officers : MoveMade(o)
<1>1. Shape /\ KeysLast
  BY DEF Placing
<1>2. ASSUME NEW e \in Evals, CommitEval(e) PROVE incs' = incs \/ Opened
  <2>1. Of(e) \in Agents
    BY <1>2, CallsAgent DEF CommitEval, InHand, Of
  <2> QED
    BY <1>2, <2>1 DEF CommitEval, Opened
<1>3. ASSUME NEW e \in Evals, Sent(e) \/ Walk(e) \/ Abort(e) \/ Respond(e) PROVE incs' = incs
  BY <1>3 DEF Sent, Walk, Abort, Respond, Answer, Error, GiveUp, DeskRows, deskVars
<1>4. ASSUME NEW o \in Officers, Started(o) \/ Work(o) PROVE incs' = incs
  BY <1>4 DEF Started, Work
<1>5. ASSUME NEW o \in Officers, Commit(o) PROVE incs' = incs \/ Opened \/ MoveMade(o)
  <2>1. CASE req[o].op = "open"
    BY <1>5, <2>1 DEF Commit, Opened
  <2>2. CASE req[o].op = "move"
    BY <1>5, <2>2 DEF Commit, MoveMade, Moving
  <2>3. CASE req[o].op \notin {"open", "move"}
    BY <1>5, <2>3 DEF Commit
  <2> QED
    BY <2>1, <2>2, <2>3
<1>6. ASSUME Clock PROVE incs' = incs
  BY <1>6 DEF Clock
<1> QED
  BY <1>1, <1>2, <1>3, <1>4, <1>5, <1>6, Kinds

LEMMA MovedIs ==
  ASSUME NEW i \in Incident, NEW s \in Statuses
  PROVE  /\ Moved(i, s) \in Incident /\ Moved(i, s).status = s
         /\ Moved(i, s).stamps = i.stamps \cup ({s} \cap Stamped)
BY DEF Moved, Incident

LEMMA SettledKept ==
  ASSUME Placing, InHand, AllMet, Rows, Settled, Next
  PROVE  Settled'
<1>1. incs \in Seq(Incident)
  BY DEF Settled
<1>2. \A k \in DOMAIN incs : k # 0 /\ (Overlapped(k) => Overlapped(k)')
  BY <1>1, OverlapStays
<1>3. CASE incs' = incs
  <2>1. ASSUME NEW o \in Officers, Moving(o)'
        PROVE  /\ req'[o].row \in DOMAIN incs /\ req'[o].to \in Statuses
               /\ "closed" \in incs[req'[o].row].stamps => Overlapped(req'[o].row)
    BY <2>1, MoverWas DEF Settled
  <2>2. ASSUME NEW o \in Officers, Moving(o)', "closed" \in incs[req'[o].row].stamps
        PROVE  Overlapped(req[o].row)'
    BY <1>2, <2>1, <2>2 DEF Overlapped
  <2> QED
    BY <1>1, <1>2, <1>3, <2>1, <2>2 DEF Settled
<1>4. CASE Opened
  <2>1. PICK a \in Agents : incs' = Append(incs, NewIncident(a))
    BY <1>4 DEF Opened
  <2> DEFINE i == NewIncident(a)
  <2>2. i \in Incident /\ i.stamps = {}
    BY DEF NewIncident, Incident, Statuses
  <2> HIDE DEF i
  <2>3. /\ incs' \in Seq(Incident) /\ incs'[Len(incs) + 1] = i
        /\ DOMAIN incs' = DOMAIN incs \cup {Len(incs) + 1}
        /\ \A k \in DOMAIN incs : incs'[k] = incs[k]
    <3>1. incs' = Append(incs, i)
      BY <2>1 DEF i
    <3> QED
      BY <1>1, <2>2, <3>1
  <2>4. incs' # incs
    <3>1. Len(incs) + 1 \in DOMAIN incs' /\ Len(incs) + 1 \notin DOMAIN incs
      BY <1>1, <2>3
    <3> QED
      BY <3>1
  <2>5. ASSUME NEW o \in Officers, Moving(o)'
        PROVE  /\ req'[o].row \in DOMAIN incs /\ req'[o].to \in Statuses
               /\ "closed" \in incs[req'[o].row].stamps => Overlapped(req'[o].row)
    BY <2>4, <2>5, MoverWas DEF Settled
  <2>6. ASSUME NEW o \in Officers, Moving(o)', "closed" \in incs'[req'[o].row].stamps
        PROVE  Overlapped(req[o].row)'
    BY <1>2, <2>3, <2>5, <2>6 DEF Overlapped
  <2>7. ASSUME NEW k \in DOMAIN incs', "closed" \in incs'[k].stamps
        PROVE  incs'[k].status = "closed" \/ Overlapped(k)'
    BY <1>2, <2>2, <2>3, <2>7 DEF Settled
  <2> QED
    BY <2>3, <2>5, <2>6, <2>7 DEF Settled
<1>5. ASSUME NEW o \in Officers, MoveMade(o) PROVE Settled'
  <2> PICK r \in DOMAIN incs, s \in Statuses : req[o].row = r /\ req[o].to = s
    BY <1>5 DEF MoveMade, Settled
  <2> DEFINE i == Moved(incs[r], s)
  <2>1. Moving(o) /\ Commit(o) /\ r \in DOMAIN incs /\ s \in Statuses /\ incs[r] \in Incident
    BY <1>1, <1>5 DEF MoveMade
  <2>2. i \in Incident /\ i.status = s /\ i.stamps = incs[r].stamps \cup ({s} \cap Stamped)
    BY <2>1, MovedIs
  <2> HIDE DEF i
  <2>3. /\ incs' \in Seq(Incident) /\ DOMAIN incs' = DOMAIN incs /\ incs'[r] = i
        /\ \A k \in DOMAIN incs \ {r} : incs'[k] = incs[k]
    <3>1. incs' = [incs EXCEPT ![r] = i]
      BY <1>5 DEF MoveMade, i
    <3> QED
      BY <1>1, <2>1, <2>2, <3>1
  <2>4. "closed" \in incs[r].stamps => Overlapped(r)'
    BY <1>2, <2>1 DEF Settled
  <2>5. i.status = "closed" \/ "closed" \notin i.stamps \/ Overlapped(r)'
    BY <2>2, <2>4
  <2>6. ASSUME NEW p \in Officers, Moving(p)'
        PROVE  Moving(p) /\ req'[p].row = req[p].row /\ req'[p].to = req[p].to /\ p # o
    <3>1. p # o
      <4>1. Shape
        BY DEF Placing
      <4>2. PICK y : Go(o, y) /\ y.pc = "done"
        BY <2>1, <4>1, CommitGrabs
      <4>3. req'[o] = y
        BY <4>1, <4>2, GoShape
      <4> QED
        BY <2>6, <4>2, <4>3 DEF Moving
    <3>2. Same(p)
      <4>1. Shape
        BY DEF Placing
      <4>2. PICK y : Go(o, y)
        BY <2>1, <4>1, CommitGrabs
      <4> QED
        BY <3>1, <4>1, <4>2, GoShape DEF Same
    <3> QED
      BY <2>6, <3>1, <3>2 DEF Same, Moving
  <2>7. ASSUME NEW p \in Officers, Moving(p)', req[p].row = r
        PROVE  Overlapped(r)'
    <3>1. Moving(p) /\ p # o
      BY <2>6, <2>7
    <3>2. p \in met[o]
      BY <2>1, <3>1, ProcsAreDisjoint DEF AllMet, Busy, Desk, Moving
    <3>3. Overlapped(r)
      BY <2>1, <2>7, <3>1, <3>2 DEF Overlapped, Moving
    <3> QED
      BY <1>2, <2>1, <3>3
  <2>8. ASSUME NEW p \in Officers, Moving(p)', "closed" \in incs'[req'[p].row].stamps
        PROVE  Overlapped(req[p].row)'
    <3>1. CASE req[p].row = r
      <4>1. req'[p].row = r /\ Overlapped(r)'
        BY <2>6, <2>7, <2>8, <3>1
      <4> QED
        BY <4>1 DEF Overlapped
    <3>2. CASE req[p].row # r
      <4>1. /\ Moving(p) /\ req'[p].row = req[p].row /\ req[p].row \in DOMAIN incs
            /\ "closed" \in incs[req[p].row].stamps
        BY <2>3, <2>6, <2>8, <3>2 DEF Settled
      <4>2. PICK k \in DOMAIN incs : k = req[p].row
        BY <4>1
      <4>3. Overlapped(k)
        <5>1. Overlapped(req[p].row)
          BY <4>1 DEF Settled
        <5> QED
          BY <4>2, <5>1
      <4>4. Overlapped(k)' /\ req'[p].row = k
        BY <1>2, <4>1, <4>2, <4>3
      <4> QED
        BY <4>4 DEF Overlapped
    <3> QED
      BY <3>1, <3>2
  <2>9. ASSUME NEW k \in DOMAIN incs', "closed" \in incs'[k].stamps
        PROVE  incs'[k].status = "closed" \/ Overlapped(k)'
    BY <1>2, <2>3, <2>5, <2>9 DEF Settled
  <2> QED
    BY <2>3, <2>6, <2>8, <2>9 DEF Settled
<1> QED
  BY <1>3, <1>4, <1>5, IncidentSteps

-------------------------------------------------------------------------------
\* The limiter: calls on their way to a window's counter, and a counter that
\* covers what it let through until it has expired with nobody on the way.
Pending(f, w) == ev[f].pc = "consume" /\ ev[f].win = w
Over(w) == w < window /\ \A f \in Evals : ~Pending(f, w)

Covered(w) ==
  /\ IsFiniteSet(spent[w]) /\ Cardinality(spent[w]) <= Budget
  /\ Cardinality(spent[w]) <= bucket[w] \/ Over(w)

Counted ==
  /\ window \in Windows /\ bucket \in [Windows -> Nat] /\ spent = [w \in Windows |-> spent[w]]
  /\ \A w \in Windows : w \in lapsed \/ Covered(w)

LEMMA LimiterSteps ==
  ASSUME Next
  PROVE  \/ \E e \in Evals : Consume(e)
         \/ Tick
         \/ \E w \in Windows : Expire(w)
         \/ UNCHANGED <<window, bucket, spent, lapsed>>
<1>1. ASSUME NEW o \in Officers, Handle(o) PROVE UNCHANGED <<window, bucket, spent, lapsed>>
  BY <1>1 DEF Handle, guardVars
<1>2. ASSUME NEW e \in Evals, Send(e) \/ Crash(e) \/ Respond(e)
      PROVE  UNCHANGED <<window, bucket, spent, lapsed>>
  BY <1>2 DEF Send, Crash, Respond, Answer, Error, GiveUp, Limiter
<1>3. ASSUME NEW e \in Evals, Core(e) \/ ReadWindow(e) \/ Approve(e) \/ Ask(e) \/ Record(e) \/ Reload(e) \/ Learn(e)
      PROVE  UNCHANGED <<window, bucket, spent, lapsed>>
  BY <1>3 DEF Core, ReadWindow, Approve, Ask, Record, Reload, Learn, Limiter
<1>4. ASSUME NEW e \in Evals, Detect(e) \/ Alarm(e) \/ OpenIncident(e) \/ Finish(e) \/ CommitEval(e) \/ Victim(e)
      PROVE  UNCHANGED <<window, bucket, spent, lapsed>>
  BY <1>4 DEF Detect, Alarm, OpenIncident, Finish, CommitEval, Victim, Limiter
<1> QED
  BY <1>1, <1>2, <1>3, <1>4 DEF Next, Evaluate, guardVars, AskElsewhere, Limiter

\* Who is on the way to a counter either was, or has just read its time.
LEMMA PendingWas ==
  ASSUME Placing, Next, NEW f \in Evals, NEW w, Pending(f, w)'
  PROVE  Pending(f, w) \/ w = window
<1>1. ev'[f].pc = "consume" /\ ev'[f].win = w
  BY DEF Pending
<1>2. CASE Rests(f)
  BY <1>1, <1>2 DEF Rests, Pending
<1>3. CASE Begins(f) \/ Leaves(f)
  BY <1>1, <1>3 DEF Begins, Leaves
<1>4. CASE Advances(f)
  BY <1>1, <1>4 DEF Advances, Turns, Edges
<1> QED
  BY <1>2, <1>3, <1>4, EachEvaluation

LEMMA CountedKept ==
  ASSUME Placing, Counted, Next
  PROVE  Counted'
<1>1. /\ window \in Nat /\ LastWindow \in Nat /\ Budget \in Nat
      /\ \A w \in Windows : w \in Nat /\ bucket[w] \in Nat
  BY BudgetAssumption DEF Counted, Windows
<1>2. ASSUME NEW w \in Windows, Over(w), window' \in Nat, window <= window'
      PROVE  Over(w)'
  <2>1. \A f \in Evals : ~Pending(f, w)'
    BY <1>1, <1>2, PendingWas DEF Over
  <2>2. w < window'
    BY <1>1, <1>2 DEF Over
  <2> QED
    BY <2>1, <2>2 DEF Over
<1>3. CASE UNCHANGED <<window, bucket, spent, lapsed>>
  BY <1>1, <1>2, <1>3 DEF Counted, Covered
<1>4. CASE Tick
  <2>1. window' = window + 1 /\ UNCHANGED <<bucket, spent, lapsed>> /\ window < LastWindow
    BY <1>4 DEF Tick
  <2>2. window' \in Windows /\ window' \in Nat /\ window <= window'
    BY <1>1, <2>1 DEF Windows
  <2> QED
    BY <1>2, <2>1, <2>2 DEF Counted, Covered
<1>5. ASSUME NEW v \in Windows, Expire(v) PROVE Counted'
  <2>1. /\ v < window /\ bucket' = [bucket EXCEPT ![v] = 0] /\ UNCHANGED <<window, spent, ev>>
        /\ lapsed' = IF \E f \in Evals : Pending(f, v) THEN lapsed \cup {v} ELSE lapsed
    BY <1>5 DEF Expire, Pending
  <2>2. bucket' \in [Windows -> Nat] /\ \A w \in Windows \ {v} : bucket'[w] = bucket[w]
    BY <2>1 DEF Counted
  <2>3. v \in lapsed' \/ (\A f \in Evals : ~Pending(f, v))
    BY <2>1
  <2>4. v \in lapsed' \/ Over(v)'
    BY <2>1, <2>3 DEF Over, Pending
  <2>5. ASSUME NEW w \in Windows, w \notin lapsed' PROVE Covered(w)'
    <3>1. Covered(w)
      BY <2>1, <2>5 DEF Counted
    <3>2. CASE w = v
      BY <2>1, <2>4, <2>5, <3>1, <3>2 DEF Covered
    <3>3. CASE w # v
      BY <1>1, <1>2, <2>1, <2>2, <3>1, <3>3 DEF Covered
    <3> QED
      BY <3>2, <3>3
  <2> QED
    BY <2>1, <2>2, <2>5 DEF Counted
<1>6. ASSUME NEW e \in Evals, Consume(e) PROVE Counted'
  <2> PICK v : v = ev[e].win
    OBVIOUS
  <2>1. /\ bucket' = [bucket EXCEPT ![v] = @ + 1] /\ UNCHANGED <<window, lapsed>>
        /\ spent' = IF Within(v) THEN [spent EXCEPT ![v] = @ \cup {e}] ELSE spent
    BY <1>6 DEF Consume
  <2>2. Pending(e, v)
    BY <1>6 DEF Consume, Pending
  <2>3. /\ bucket' \in [Windows -> Nat] /\ spent' = [w \in Windows |-> spent'[w]]
        /\ \A w \in Windows : bucket'[w] = IF w = v THEN bucket[w] + 1 ELSE bucket[w]
        /\ \A w \in Windows : spent'[w] = IF w = v /\ Within(v) THEN spent[w] \cup {e} ELSE spent[w]
    <3>1. bucket \in [Windows -> Nat] /\ spent = [w \in Windows |-> spent[w]]
      BY DEF Counted
    <3>2. bucket' \in [Windows -> Nat]
      <4>1. CASE v \in Windows
        <5>1. bucket[v] + 1 \in Nat
          BY <1>1, <4>1
        <5> QED
          BY <2>1, <3>1, <4>1, <5>1
      <4>2. CASE v \notin Windows
        BY <2>1, <3>1, <4>2
      <4> QED
        BY <4>1, <4>2
    <3>3. \A w \in Windows : bucket'[w] = IF w = v THEN bucket[w] + 1 ELSE bucket[w]
      BY <2>1, <3>1
    <3>4. CASE Within(v)
      <4>1. spent' = [spent EXCEPT ![v] = @ \cup {e}]
        BY <2>1, <3>4
      <4>2. /\ spent' = [w \in Windows |-> spent'[w]]
            /\ \A w \in Windows : spent'[w] = IF w = v THEN spent[w] \cup {e} ELSE spent[w]
        BY <3>1, <4>1
      <4> QED
        BY <3>2, <3>3, <3>4, <4>2
    <3>5. CASE ~Within(v)
      BY <2>1, <3>1, <3>2, <3>3, <3>5
    <3> QED
      BY <3>4, <3>5
  <2>4. ASSUME NEW w \in Windows, w \notin lapsed' PROVE Covered(w)'
    <3>1. Covered(w)
      BY <2>1, <2>4 DEF Counted
    <3>2. CASE w # v
      BY <1>1, <1>2, <2>1, <2>3, <3>1, <3>2 DEF Covered
    <3>3. CASE w = v /\ ~Within(v)
      <4>1. Cardinality(spent[w]) <= bucket[w] /\ Cardinality(spent[w]) \in Nat
        BY <2>2, <3>1, <3>3, FS_CardinalityType DEF Covered, Over
      <4> QED
        BY <1>1, <2>3, <3>1, <3>3, <4>1 DEF Covered
    <3>4. CASE w = v /\ Within(v)
      <4>1. /\ Cardinality(spent[w]) <= bucket[w] /\ Cardinality(spent[w]) \in Nat
            /\ bucket[w] + 1 <= Budget /\ IsFiniteSet(spent[w])
        BY <2>2, <3>1, <3>4, FS_CardinalityType DEF Covered, Over, Within
      <4>2. /\ IsFiniteSet(spent[w] \cup {e})
            /\ Cardinality(spent[w] \cup {e}) = IF e \in spent[w] THEN Cardinality(spent[w]) ELSE Cardinality(spent[w]) + 1
        BY <4>1, FS_AddElement
      <4>3. spent'[w] = spent[w] \cup {e} /\ bucket'[w] = bucket[w] + 1
        BY <2>3, <3>4
      <4>4. Cardinality(spent[w] \cup {e}) <= bucket[w] + 1
        BY <1>1, <4>1, <4>2
      <4>5. Cardinality(spent[w] \cup {e}) <= Budget
        BY <1>1, <4>1, <4>2
      <4> QED
        BY <4>2, <4>3, <4>4, <4>5 DEF Covered
    <3> QED
      BY <3>2, <3>3, <3>4
  <2> QED
    BY <2>1, <2>3, <2>4 DEF Counted
<1> QED
  BY <1>3, <1>4, <1>5, <1>6, LimiterSteps

-------------------------------------------------------------------------------
IInv ==
  /\ Placing /\ InHand /\ AllMet
  /\ Answers /\ Told
  /\ Guarded /\ Rows /\ Seen
  /\ Settled /\ Counted

\* To start with nothing is under way, no agent has two open threats, a closed
\* incident is closed, and no budget is used (the named assumptions).
THEOREM InitIInv == InitGuard => IInv
<1> SUFFICES ASSUME InitGuard PROVE IInv
  OBVIOUS
<1>1. /\ ev = [e \in Evals |-> Quiet] /\ sdk = [e \in Evals |-> "idle"] /\ out = {}
      /\ req = [o \in Officers |-> Blank]
      /\ held = [p \in Procs |-> {}] /\ met = [p \in Procs |-> {}]
  BY DEF InitGuard, Init
<1>2. /\ \A e \in Evals : ev[e] = Quiet /\ sdk[e] = "idle"
      /\ \A o \in Officers : req[o] = Blank
      /\ \A p \in Procs : held[p] = {}
  BY <1>1
<1>3. Shape
  BY <1>1, QuietShape, BlankShape DEF Shape
<1>4. Placing
  BY <1>2, <1>3, ProcsAreDisjoint DEF Placing, KeysLast, Exclusive
<1>5. InHand /\ Answers /\ Told /\ Seen
  BY <1>1, <1>2, QuietShape DEF InHand, Answers, Told, Seen, Past
<1>6. Rows /\ Busy = {}
  BY <1>2, QuietShape, BlankShape DEF Rows, Busy, Desk, Running
<1>7. AllMet
  BY <1>6 DEF AllMet
<1>8. Guarded
  <2>1. PICK s \in Earlier : threats = s
    BY DEF InitGuard, Init
  <2>2. /\ threats \in Seq(Threat)
        /\ \A i, j \in DOMAIN threats :
             /\ threats[i].open /\ threats[i].recent /\ threats[j].open /\ threats[j].recent
             /\ threats[i].agent = threats[j].agent
             => i = j
    BY <2>1, EarlierAssumption
  <2>3. \A a \in Agents : \A i, j \in OpenThreats(a) : i = j
    BY <2>2 DEF OpenThreats
  <2>4. \A e \in Evals : ev[e].pc \notin Past
    BY <1>2, QuietShape DEF Past
  <2> QED
    BY <2>2, <2>3, <2>4 DEF Guarded
<1>9. Settled
  <2>1. \A o \in Officers : ~Moving(o)
    BY <1>2, BlankShape DEF Moving
  <2> QED
    BY <2>1, StandingAssumption DEF Settled, InitGuard, Init
<1>10. Counted
  <2>1. window = 0 /\ bucket = [w \in Windows |-> 0] /\ spent = [w \in Windows |-> {}]
    BY DEF InitGuard
  <2>2. IsFiniteSet({}) /\ Cardinality({}) = 0
    BY FS_EmptySet
  <2>3. \A w \in Windows : Covered(w)
    BY <2>1, <2>2, BudgetAssumption DEF Covered
  <2> QED
    BY <2>1, <2>3, BudgetAssumption DEF Counted, Windows
<1> QED
  BY <1>4, <1>5, <1>6, <1>7, <1>8, <1>9, <1>10 DEF IInv

\* No step of an evaluation, an officer, the clock or the SDK breaks it.
THEOREM NextIInv == IInv /\ [Next]_vars => IInv'
<1> SUFFICES ASSUME IInv, [Next]_vars PROVE IInv'
  OBVIOUS
<1>1. CASE Next
  <2>1. Placing /\ InHand /\ AllMet /\ Answers /\ Told /\ Guarded /\ Rows /\ Seen /\ Settled /\ Counted
    BY DEF IInv
  <2>2. Placing' /\ InHand' /\ AllMet' /\ Answers' /\ Told'
    BY <1>1, <2>1, PlacingKept, InHandKept, AllMetKept, AnswersKept, ToldKept
  <2>3. Guarded' /\ Rows' /\ Seen' /\ Settled' /\ Counted'
    BY <1>1, <2>1, GuardedKept, RowsKept, SeenKept, SettledKept, CountedKept
  <2> QED
    BY <2>2, <2>3 DEF IInv
<1>2. CASE UNCHANGED vars
  <2> USE <1>2 DEF vars, deskVars, guardVars, IInv
  <2>1. Placing' /\ AllMet' /\ Rows'
    BY DEF Placing, Shape, KeysLast, Exclusive, AllMet, Busy, Desk, Running, Rows, IsEval, IsRequest
  <2>2. InHand' /\ Answers' /\ Told'
    BY DEF InHand, Answers, Told, Of
  <2>3. Guarded' /\ Seen'
    BY DEF Guarded, OpenThreats, Seen, Visible, Of
  <2>4. Settled'
    <3>1. UNCHANGED <<incs, req, met>> /\ Settled
      OBVIOUS
    <3>2. \A o \in Officers : Moving(o)' <=> Moving(o)
      BY <3>1 DEF Moving
    <3>3. \A k : Overlapped(k)' <=> Overlapped(k)
      BY <3>1 DEF Overlapped
    <3>4. \A o \in Officers : Overlapped(req[o].row)' <=> Overlapped(req[o].row)
      BY <3>1 DEF Overlapped
    <3> QED
      BY <3>1, <3>2, <3>3, <3>4 DEF Settled
  <2>5. Counted'
    BY DEF Counted, Covered, Over, Pending
  <2> QED
    BY <2>1, <2>2, <2>3, <2>4, <2>5
<1> QED
  BY <1>1, <1>2

\* With fail mode closed a tool runs only on an answer that permits it, however
\* the SDK's timeout and the evaluation race (packages/sdk-python guard.py).
THEOREM FailClosedHolds == Spec => []FailClosed
<1>1. IInv => FailClosed
  <2> SUFFICES ASSUME IInv, NEW e \in Evals, sdk[e] = "ran", FailMode[e] = "closed"
               PROVE  ev[e].dec \in {"allow", "redact"} /\ ev[e].end \in {"none", "ok", "crash"}
    BY DEF FailClosed
  <2> QED
    BY DEF IInv, Answers
<1> QED
  BY <1>1, InitIInv, NextIInv, PTL DEF Spec

\* What the event bus says of a threat or an incident that is not there is
\* explained by how the evaluation ended, and a committed denial was told.
THEOREM PhantomEventsHolds == Spec => []PhantomEvents
<1>1. IInv => PhantomEvents
  BY DEF IInv, Told, PhantomEvents, Ok
<1> QED
  BY <1>1, InitIInv, NextIInv, PTL DEF Spec

\* The profile's row lock keeps an agent from having two recent open threats.
THEOREM OneOpenThreatHolds == Spec => []OneOpenThreat
<1>1. IInv => OneOpenThreat
  <2> SUFFICES ASSUME IInv, NEW a \in Agents PROVE Cardinality(OpenThreats(a)) <= 1
    BY DEF OneOpenThreat
  <2>1. \A i, j \in OpenThreats(a) : i = j
    BY DEF IInv, Guarded
  <2>2. CASE OpenThreats(a) = {}
    BY <2>2, FS_EmptySet
  <2>3. CASE OpenThreats(a) # {}
    <3>1. PICK i : OpenThreats(a) = {i}
      BY <2>1, <2>3
    <3> QED
      BY <3>1, FS_Singleton
  <2> QED
    BY <2>2, <2>3
<1> QED
  BY <1>1, InitIInv, NextIInv, PTL DEF Spec

\* A closed incident stays closed unless two moves of it overlapped.
THEOREM ClosedUnlessOverlapHolds == Spec => []ClosedUnlessOverlap
<1>1. IInv => ClosedUnlessOverlap
  BY DEF IInv, Settled, ClosedUnlessOverlap, Overlapped
<1> QED
  BY <1>1, InitIInv, NextIInv, PTL DEF Spec

\* A rate-limit window lets through its budget at most, unless its counter
\* expired before a call that had read the clock came to increment it.
THEOREM WithinBudgetHolds == Spec => []WithinBudget
<1>1. IInv => WithinBudget
  <2> SUFFICES ASSUME IInv, NEW w \in Windows, Cardinality(spent[w]) > Budget PROVE w \in lapsed
    BY DEF WithinBudget
  <2>1. w \in lapsed \/ Covered(w)
    BY DEF IInv, Counted
  <2>2. ASSUME Covered(w) PROVE FALSE
    <3>1. Cardinality(spent[w]) \in Nat /\ Cardinality(spent[w]) <= Budget
      BY <2>2, FS_CardinalityType DEF Covered
    <3> QED
      BY <3>1, BudgetAssumption
  <2> QED
    BY <2>1, <2>2
<1> QED
  BY <1>1, InitIInv, NextIInv, PTL DEF Spec

\* An anomalous call that commits leaves its agent an open threat, unless one
\* was being resolved meanwhile.
LEMMA AnomalousCommit ==
  ASSUME IInv, Next, NEW e \in Evals, ~Ok(e), Ok(e)', Anomalous(ev[e].score)
  PROVE  \/ \E i \in DOMAIN threats' : threats'[i].agent = Of(e) /\ threats'[i].open
         \/ \E o \in met[e] \cap Officers : req[o].op = "resolve"
<1>1. /\ Placing /\ InHand /\ Seen /\ threats \in Seq(Threat) /\ Shape
      /\ ev[e].end # "ok" /\ ev'[e].end = "ok"
  BY DEF IInv, Guarded, Ok, Placing
<1>2. ev'[e].pc = "done"
  <2>1. Answers'
    BY AnswersKept DEF IInv
  <2> QED
    BY <1>1, <2>1 DEF Answers
<1>3. CommitEval(e)
  <2>1. Leaves(e)
    BY <1>1, <1>2, EachEvaluation DEF Rests, Begins, Advances, Turns, Edges
  <2>2. ASSUME Abort(e) PROVE FALSE
    <3>1. PICK y : Become(e, y) /\ y.end \in Ends(ev[e].pc)
      BY <1>1, <2>2, AbortGrabs
    <3>2. ev'[e] = y
      BY <1>1, <3>1, BecomeShape
    <3> QED
      BY <1>1, <3>1, <3>2 DEF Ends
  <2> QED
    BY <2>1, <2>2 DEF Leaves
<1>4. ev[e].pc = "commit"
  BY <1>3 DEF CommitEval
<1>5. CASE ev[e].raise = "new"
  <2> DEFINE t == [agent |-> Of(e), open |-> TRUE, recent |-> TRUE]
  <2>1. threats' = Append(threats, t)
    BY <1>3, <1>5 DEF CommitEval
  <2>2. t.agent = Of(e) /\ t.open
    OBVIOUS
  <2> HIDE DEF t
  <2>3. Len(threats) + 1 \in DOMAIN threats' /\ threats'[Len(threats) + 1] = t
    BY <1>1, <2>1
  <2> QED
    BY <2>2, <2>3
<1>6. CASE ev[e].raise = "fold"
  <2>1. threats' = threats
    BY <1>3, <1>6 DEF CommitEval
  <2>2. Visible(e)
    BY <1>1, <1>4, <1>6 DEF Seen
  <2> QED
    BY <2>1, <2>2 DEF Visible
<1> QED
  BY <1>1, <1>4, <1>5, <1>6 DEF InHand

\* The same of every step of every behavior.
THEOREM AnomalyIsVisibleHolds == Spec => AnomalyIsVisible
<1>1. IInv /\ [Next]_vars =>
        [\A e \in Evals :
           ~Ok(e) /\ Ok(e)' /\ Anomalous(ev[e].score) =>
             \/ \E i \in DOMAIN threats' : threats'[i].agent = Of(e) /\ threats'[i].open
             \/ \E o \in met[e] \cap Officers : req[o].op = "resolve"]_vars
  BY AnomalousCommit
<1> QED
  BY <1>1, InitIInv, NextIInv, PTL DEF Spec, AnomalyIsVisible

-------------------------------------------------------------------------------
\* What an evaluation holds at each point of its way: its key's row once it has
\* decided, nothing but its request_id more until it records, no profile before it
\* has learned; a request_id only if it answers APPROVAL; and an incident's key is
\* chosen, and kept until the end, under the audit lock.
RowLock(e) == <<"row", ev[e].key>>
AuditLock  == <<"audit", 0>>

Holding(x, h) ==
  /\ x.pc \in {"idle", "core", "done"} => h = {}
  /\ x.pc \notin {"idle", "core", "done"} => <<"row", x.key>> \in h
  /\ x.pc \in {"window", "consume", "approve"} => h \subseteq {<<"row", x.key>>}
  /\ x.pc = "record" => h \subseteq {<<"row", x.key>>, <<"ask", x.call.id>>}
  /\ x.pc \in {"reload", "learn"} => h \subseteq {<<"row", x.key>>, <<"ask", x.call.id>>, AuditLock}
  /\ \A i : <<"ask", i>> \in h => i = x.call.id /\ x.dec = "approval"
  /\ x.pc \notin {"open", "finish", "commit", "done"} => x.row = 0
  /\ x.pc = "open" \/ (x.row # 0 /\ x.pc # "done") => AuditLock \in h

Grip == \A e \in Evals : Holding(ev[e], held[e])

LEMMA GripKept ==
  ASSUME Placing, Grip, Next
  PROVE  Grip'
<1> SUFFICES ASSUME NEW f \in Evals PROVE Holding(ev'[f], held'[f])
  BY DEF Grip, Holding, AuditLock
<1>1. Holding(ev[f], held[f])
  BY DEF Grip
<1>2. CASE Rests(f)
  BY <1>1, <1>2 DEF Rests
<1>3. CASE Begins(f)
  BY <1>1, <1>3 DEF Begins, Anew, Holding
<1>4. CASE Advances(f)
  <2>1. /\ Turns(ev[f], ev'[f]) /\ ev'[f].key = ev[f].key
        /\ held[f] \subseteq held'[f] /\ held'[f] \subseteq held[f] \cup Wants(f)
        /\ ev[f].pc \in {"core", "learn", "alarm", "open"} => Wants(f) \subseteq held'[f]
    BY <1>4 DEF Advances, Turns, Kept
  <2>2. \A i : <<"ask", i>> \in held'[f] => i = ev'[f].call.id /\ ev'[f].dec = "approval"
    <3> SUFFICES ASSUME NEW i, <<"ask", i>> \in held'[f]
                 PROVE  i = ev[f].call.id /\ ev'[f].dec = "approval"
      BY <2>1 DEF Turns, Kept
    <3>1. CASE <<"ask", i>> \in held[f]
      <4>1. i = ev[f].call.id /\ ev[f].dec = "approval" /\ ev[f].pc \notin {"core", "window", "consume", "approve"}
        BY <1>1, <3>1 DEF Holding
      <4> QED
        BY <2>1, <4>1 DEF Turns
    <3>2. CASE <<"ask", i>> \notin held[f]
      <4>1. <<"ask", i>> \in Wants(f)
        BY <2>1, <3>2
      <4>2. ev[f].pc = "approve" /\ <<"ask", i>> \in AskLock(f)
        BY <4>1 DEF Wants
      <4>3. i = ev[f].call.id
        BY <4>2 DEF AskLock
      <4>4. ev'[f].dec = "approval"
        BY <1>4, <3>2, <4>2 DEF Advances
      <4> QED
        BY <4>3, <4>4
    <3> QED
      BY <3>1, <3>2
  <2>3. CASE ev[f].pc = "core"
    <3>1. Wants(f) = {<<"row", ev[f].key>>} /\ held[f] = {} /\ ev[f].row = 0
      BY <1>1, <2>3 DEF Wants, Holding
    <3>2. held'[f] = {<<"row", ev[f].key>>}
      BY <2>1, <2>3, <3>1
    <3>3. ev'[f].pc \in {"window", "approve", "record"} /\ ev'[f].row = 0
      BY <2>1, <2>3, <3>1 DEF Turns, Edges
    <3> QED
      BY <2>1, <2>2, <3>2, <3>3 DEF Holding
  <2>4. CASE ev[f].pc \in {"window", "consume"}
    <3>1. Wants(f) = {} /\ held[f] = {<<"row", ev[f].key>>} /\ ev[f].row = 0
      BY <1>1, <2>4 DEF Wants, Holding
    <3>2. held'[f] = {<<"row", ev[f].key>>}
      BY <2>1, <3>1
    <3>3. ev'[f].pc \in {"consume", "record"} /\ ev'[f].row = 0
      BY <2>1, <2>4, <3>1 DEF Turns, Edges
    <3> QED
      BY <2>1, <2>2, <3>2, <3>3 DEF Holding
  <2>5. CASE ev[f].pc = "approve"
    <3>1. Wants(f) \subseteq {<<"ask", ev[f].call.id>>} /\ held[f] = {<<"row", ev[f].key>>} /\ ev[f].row = 0
      BY <1>1, <2>5 DEF Wants, AskLock, Holding
    <3>2. <<"row", ev[f].key>> \in held'[f] /\ held'[f] \subseteq {<<"row", ev[f].key>>, <<"ask", ev[f].call.id>>}
      BY <2>1, <3>1
    <3>3. ev'[f].pc = "record" /\ ev'[f].row = 0 /\ ev'[f].call = ev[f].call
      BY <2>1, <2>5, <3>1 DEF Turns, Edges, Kept
    <3> QED
      BY <2>1, <2>2, <3>2, <3>3 DEF Holding
  <2>6. CASE ev[f].pc \in {"record", "reload"}
    <3>1. /\ Wants(f) \subseteq {AuditLock} /\ <<"row", ev[f].key>> \in held[f] /\ ev[f].row = 0
          /\ held[f] \subseteq {<<"row", ev[f].key>>, <<"ask", ev[f].call.id>>, AuditLock}
      BY <1>1, <2>6 DEF Wants, Holding, AuditLock
    <3>2. ev'[f].pc \in {"reload", "learn"} /\ ev'[f].row = 0 /\ ev'[f].call = ev[f].call
      BY <2>1, <2>6, <3>1 DEF Turns, Edges, Kept
    <3> QED
      BY <2>1, <2>2, <3>1, <3>2 DEF Holding
  <2>7. CASE ev[f].pc \in {"learn", "threat"}
    <3>1. <<"row", ev[f].key>> \in held[f] /\ ev[f].row = 0
      BY <1>1, <2>7 DEF Holding
    <3>2. ev'[f].pc \in {"threat", "finish", "alarm"} /\ ev'[f].row = 0
      BY <2>1, <2>7, <3>1 DEF Turns, Edges
    <3> QED
      BY <2>1, <2>2, <3>1, <3>2 DEF Holding
  <2>8. CASE ev[f].pc = "alarm"
    <3>1. <<"row", ev[f].key>> \in held[f] /\ Wants(f) = {AuditLock}
      BY <1>1, <2>8 DEF Holding, Wants, AuditLock
    <3>2. AuditLock \in held'[f] /\ <<"row", ev[f].key>> \in held'[f]
      BY <2>1, <2>8, <3>1
    <3>3. ev'[f].pc \in {"open", "finish"}
      BY <2>1, <2>8 DEF Turns, Edges
    <3> QED
      BY <2>1, <2>2, <3>2, <3>3 DEF Holding
  <2>9. CASE ev[f].pc \in {"open", "finish"}
    <3>1. <<"row", ev[f].key>> \in held[f] /\ (ev[f].row # 0 => AuditLock \in held[f])
      BY <1>1, <2>9 DEF Holding
    <3>2. ev'[f].pc \in {"finish", "commit"} /\ ev'[f].row = ev[f].row
      BY <2>1, <2>9 DEF Turns, Edges
    <3> QED
      BY <2>1, <2>2, <3>1, <3>2 DEF Holding
  <2> QED
    BY <2>1, <2>3, <2>4, <2>5, <2>6, <2>7, <2>8, <2>9 DEF Turns, Edges
<1>5. CASE Leaves(f)
  BY <1>5 DEF Leaves, Holding
<1> QED
  BY <1>2, <1>3, <1>4, <1>5, EachEvaluation

\* Whoever has overlapped something has begun, and what has begun keeps its
\* call, its key and, at the end, how it ended and whether it raised a threat.
Begun ==
  \A p \in Procs : \A q \in met[p] :
    q \in Procs /\ q # p /\ (p \in Evals => ev[p].pc # "idle") /\ (q \in Evals => ev[q].pc # "idle")

LEMMA KeepsOn ==
  ASSUME Placing, InHand, Next, NEW f \in Evals, ev[f].pc # "idle"
  PROVE  /\ ev'[f].pc # "idle" /\ ev'[f].key = ev[f].key /\ ev'[f].call = ev[f].call
         /\ ev'[f].uses = ev[f].uses
         /\ ev[f].pc = "done" => ev'[f] = ev[f]
         /\ ev[f].raise = "new" => ev'[f].raise = "new"
<1>1. CASE Rests(f)
  BY <1>1 DEF Rests
<1>2. CASE Advances(f)
  <2>1. Turns(ev[f], ev'[f])
    BY <1>2 DEF Advances
  <2>2. ev[f].raise = "new" => ev[f].pc # "threat"
    BY DEF InHand, Past
  <2> QED
    BY <2>1, <2>2 DEF Turns, Edges, Kept
<1>3. CASE Leaves(f)
  <2>1. ev[f].pc # "done"
    BY <1>3 DEF Leaves, Abort, Running, CommitEval
  <2> QED
    BY <1>3, <2>1 DEF Leaves, Halts, Kept
<1> QED
  BY <1>1, <1>2, <1>3, EachEvaluation DEF Begins

LEMMA NewlyMet ==
  ASSUME Placing, Next, NEW p \in Procs, NEW q \in met'[p] \ met[p]
  PROVE  \E x \in Procs :
           /\ (x \in Evals /\ Sent(x)) \/ (x \in Officers /\ Started(x))
           /\ (p = x /\ q \in Busy) \/ (q = x /\ p \in Busy)
<1>1. Shape /\ KeysLast
  BY DEF Placing
<1>2. ASSUME NEW x \in Procs, Meet(x, Busy)
      PROVE  (p = x /\ q \in Busy) \/ (q = x /\ p \in Busy)
  <2>1. met'[p] = IF p = x THEN met[p] \cup Busy ELSE IF p \in Busy THEN met[p] \cup {x} ELSE met[p]
    BY <1>2 DEF Meet
  <2> QED
    BY <2>1
<1>3. ASSUME NEW e \in Evals, Sent(e)
      PROVE  e \in Procs /\ Meet(e, Busy)
  BY <1>3, ProcsAreDisjoint DEF Sent
<1>4. ASSUME NEW o \in Officers, Started(o)
      PROVE  o \in Procs /\ Meet(o, Busy)
  BY <1>4, ProcsAreDisjoint DEF Started
<1>5. ASSUME NEW e \in Evals, Walk(e) \/ Abort(e) \/ CommitEval(e) \/ Respond(e) PROVE met' = met
  BY <1>5 DEF Walk, Abort, CommitEval, Respond, Answer, Error, GiveUp, deskVars
<1>6. ASSUME NEW o \in Officers, Work(o) \/ Commit(o) PROVE met' = met
  BY <1>6 DEF Work, Commit
<1>7. ASSUME Clock PROVE met' = met
  BY <1>7 DEF Clock
<1> QED
  BY <1>1, <1>2, <1>3, <1>4, <1>5, <1>6, <1>7, Kinds

LEMMA SentBegins ==
  ASSUME Placing, NEW e \in Evals, Sent(e)
  PROVE  ev[e].pc = "idle" /\ ev'[e].pc = "core" /\ Anew(ev'[e])
<1>1. Shape
  BY DEF Placing
<1>2. PICK y : Become(e, y) /\ Anew(y)
  BY DEF Sent
<1> QED
  BY <1>1, <1>2, BecomeShape DEF Sent, Anew

LEMMA BegunKept ==
  ASSUME Placing, InHand, Begun, Next
  PROVE  Begun'
<1> SUFFICES ASSUME NEW p \in Procs, NEW q \in met'[p]
             PROVE  /\ q \in Procs /\ q # p
                    /\ p \in Evals => ev'[p].pc # "idle"
                    /\ q \in Evals => ev'[q].pc # "idle"
  BY DEF Begun
<1>1. CASE q \in met[p]
  BY <1>1, KeepsOn DEF Begun
<1>2. CASE q \notin met[p]
  <2>1. PICK x \in Procs :
           /\ (x \in Evals /\ Sent(x)) \/ (x \in Officers /\ Started(x))
           /\ (p = x /\ q \in Busy) \/ (q = x /\ p \in Busy)
    BY <1>2, NewlyMet
  <2>2. x \notin Busy
    BY <2>1, ProcsAreDisjoint DEF Busy, Desk, Running, Sent, Started
  <2>3. x \in Evals => ev'[x].pc # "idle"
    BY <2>1, SentBegins, ProcsAreDisjoint
  <2>4. \A b \in Busy : b \in Procs /\ (b \in Evals => ev'[b].pc # "idle")
    BY KeepsOn, ProcsAreDisjoint DEF Busy, Running, Procs
  <2> QED
    BY <2>1, <2>2, <2>3, <2>4
<1> QED
  BY <1>1, <1>2

-------------------------------------------------------------------------------
\* Profiles are profiles.
LEMMA LastFewIs ==
  ASSUME NEW S, NEW s \in Seq(S)
  PROVE  LastFew(s) \in Seq(S)
<1> DEFINE m == Larger(1, Len(s) - LoopLen + 1)
<1>1. m \in Int /\ m >= 1 /\ Len(s) \in Int
  BY DEF Larger, LoopLen
<1>2. \A i \in m .. Len(s) : s[i] \in S
  BY <1>1
<1> HIDE DEF m
<1>3. SubSeq(s, m, Len(s)) \in Seq(S)
  BY <1>1, <1>2, SubSeqProperties
<1> QED
  BY <1>3 DEF LastFew, m

LEMMA FreshIs == Fresh \in Profile /\ Fresh.calls = 0
<1>1. <<>> \in Seq(Tools)
  OBVIOUS
<1> QED
  BY <1>1 DEF Fresh, Profile

LEMMA LearnedIs ==
  ASSUME NEW p \in Profile, NEW c \in Contents
  PROVE  Learned(p, c) \in Profile /\ Learned(p, c).calls = p.calls + 1
<1>1. /\ p.calls \in Nat /\ p.counts \in [Tools -> Nat] /\ p.vol \in [Tools -> Nat]
      /\ p.dests \subseteq Dests /\ p.classes \subseteq Classes /\ p.recent \in Seq(Tools)
  BY DEF Profile
<1>2. c.tool \in Tools /\ c.vol \in Nat /\ c.dest \in Dests /\ c.class \in Classes
  BY ContentAssumption DEF Content, Dests, Classes
<1>3. [p.counts EXCEPT ![c.tool] = @ + 1] \in [Tools -> Nat]
  BY <1>1, <1>2
<1>4. [p.vol EXCEPT ![c.tool] = Larger(@, c.vol)] \in [Tools -> Nat]
  <2>1. Larger(p.vol[c.tool], c.vol) \in Nat
    BY <1>1, <1>2 DEF Larger
  <2> QED
    BY <1>1, <1>2, <2>1
<1>5. LastFew(Append(p.recent, c.tool)) \in Seq(Tools)
  <2>1. Append(p.recent, c.tool) \in Seq(Tools)
    BY <1>1, <1>2
  <2> QED
    BY <2>1, LastFewIs
<1> QED
  BY <1>1, <1>2, <1>3, <1>4, <1>5 DEF Learned, Profile

LEMMA WrittenIs ==
  ASSUME NEW old \in Profile, NEW p \in Profile, NEW c \in Contents
  PROVE  Written(old, p, c) \in Profile /\ Written(old, p, c).calls = p.calls + 1
<1> DEFINE new == Learned(p, c)
           vol == IF new.vol # p.vol THEN new.vol ELSE old.vol
           dests == IF new.dests # p.dests THEN new.dests ELSE old.dests
           classes == IF new.classes # p.classes THEN new.classes ELSE old.classes
<1>1. new \in Profile /\ new.calls = p.calls + 1
  BY LearnedIs
<1>2. Written(old, p, c) = [new EXCEPT !.vol = vol, !.dests = dests, !.classes = classes]
  BY DEF Written
<1> HIDE DEF new
<1>3. vol \in [Tools -> Nat] /\ dests \in SUBSET Dests /\ classes \in SUBSET Classes
  BY <1>1 DEF Profile
<1> HIDE DEF vol, dests, classes
<1> DEFINE a == [new EXCEPT !.vol = vol]
<1>4. a \in Profile /\ a.calls = new.calls
  BY <1>1, <1>3 DEF Profile
<1> HIDE DEF a
<1> DEFINE b == [a EXCEPT !.dests = dests]
<1>5. b \in Profile /\ b.calls = new.calls
  BY <1>3, <1>4 DEF Profile
<1> HIDE DEF b
<1> DEFINE d == [b EXCEPT !.classes = classes]
<1>6. d \in Profile /\ d.calls = new.calls
  BY <1>3, <1>5 DEF Profile
<1>7. Written(old, p, c) = d
  BY <1>2 DEF a, b
<1> HIDE DEF d
<1> QED
  BY <1>1, <1>6, <1>7

\* What is stored, and what an evaluation has loaded of it: once it has loaded a
\* profile the agent has one.
Stored ==
  /\ uses \in [Keys -> Nat]
  /\ prof \in [Agents -> Profile \cup {NoProfile}] /\ base \in [Agents -> Profile \cup {NoProfile}]
  /\ \A e \in Evals :
       /\ ev[e].snap \in Profile \cup {NoProfile}
       /\ ev[e].dec \in Decisions \cup {"none"}
       /\ ev[e].pc # "idle" => ev[e].key \in Keys /\ ev[e].uses \in Nat
       /\ Running(e) /\ ev[e].snap # NoProfile => prof[Of(e)] # NoProfile

Total(p) == IF p = NoProfile THEN 0 ELSE p.calls

LEMMA StoreSteps ==
  ASSUME Placing, Next
  PROVE  /\ base' = base
         /\ UNCHANGED <<uses, prof>> \/ \E g \in Evals : CommitEval(g)
         /\ \/ asks' = asks
            \/ \E g \in Evals : CommitEval(g)
            \/ \E i \in RequestIds : asks' = asks \cup {<<i, "elsewhere">>}
<1>1. Shape /\ KeysLast
  BY DEF Placing
<1>2. ASSUME NEW e \in Evals, Sent(e) \/ Walk(e) \/ Abort(e) \/ Respond(e) PROVE UNCHANGED <<uses, prof, asks, base>>
  BY <1>2 DEF Sent, Walk, Abort, Respond, Answer, Error, GiveUp, Limiter
<1>3. ASSUME NEW e \in Evals, CommitEval(e) PROVE base' = base
  BY <1>3 DEF CommitEval, Limiter
<1>4. ASSUME UNCHANGED guardVars PROVE UNCHANGED <<uses, prof, asks, base>>
  BY <1>4 DEF guardVars
<1>5. ASSUME Clock
      PROVE  UNCHANGED <<uses, prof, base>> /\ (asks' = asks \/ \E i \in RequestIds : asks' = asks \cup {<<i, "elsewhere">>})
  BY <1>5 DEF Clock, Tick, Expire, AskElsewhere, Limiter, guardVars
<1> QED
  BY <1>1, <1>2, <1>3, <1>4, <1>5, Kinds

LEMMA CommitStores ==
  ASSUME Placing, InHand, Stored, NEW g \in Evals, CommitEval(g)
  PROVE  /\ ev[g].key \in Keys /\ Of(g) \in Agents /\ ev[g].uses \in Nat
         /\ uses' = [uses EXCEPT ![ev[g].key] = ev[g].uses + 1]
         /\ prof' \in [Agents -> Profile \cup {NoProfile}]
         /\ prof'[Of(g)] # NoProfile /\ Total(prof'[Of(g)]) = Total(ev[g].snap) + 1
         /\ \A a \in Agents \ {Of(g)} : prof'[a] = prof[a]
<1> PICK c : c = ev[g].call
  OBVIOUS
<1> PICK p : p = ev[g].snap
  OBVIOUS
<1> PICK a : a = Of(g)
  OBVIOUS
<1>1. ev[g].pc = "commit" /\ Running(g)
  BY DEF CommitEval, Running
<1>2. /\ ev[g].key \in Keys /\ ev[g].uses \in Nat /\ c \in Contents /\ a \in Agents
      /\ p \in Profile \cup {NoProfile} /\ prof \in [Agents -> Profile \cup {NoProfile}]
      /\ p # NoProfile => prof[a] \in Profile
  BY <1>1, CallsAgent DEF InHand, Stored, Of
<1> DEFINE new == IF p = NoProfile THEN Learned(Fresh, c) ELSE Written(prof[a], p, c)
<1>3. new \in Profile /\ new.calls = Total(p) + 1
  <2>1. CASE p = NoProfile
    BY <1>2, <2>1, FreshIs, LearnedIs DEF Total
  <2>2. CASE p # NoProfile
    BY <1>2, <2>2, WrittenIs DEF Total
  <2> QED
    BY <2>1, <2>2
<1>4. prof' = [prof EXCEPT ![a] = new]
  BY DEF CommitEval
<1>5. uses' = [uses EXCEPT ![ev[g].key] = ev[g].uses + 1]
  BY DEF CommitEval
<1> HIDE DEF new
<1>6. /\ prof' \in [Agents -> Profile \cup {NoProfile}] /\ prof'[a] = new
      /\ \A b \in Agents \ {a} : prof'[b] = prof[b]
  BY <1>2, <1>3, <1>4
<1>7. new # NoProfile
  BY <1>3, ProfilesAssumption
<1>8. Total(prof'[a]) = Total(p) + 1
  BY <1>3, <1>6, <1>7 DEF Total
<1> QED
  BY <1>2, <1>5, <1>6, <1>7, <1>8

LEMMA StoredKept ==
  ASSUME Placing, InHand, Stored, Next
  PROVE  Stored'
<1>1. /\ uses' \in [Keys -> Nat] /\ prof' \in [Agents -> Profile \cup {NoProfile}]
      /\ base' \in [Agents -> Profile \cup {NoProfile}]
      /\ \A a \in Agents : prof[a] # NoProfile => prof'[a] # NoProfile
  <2>1. CASE UNCHANGED <<uses, prof>>
    BY <2>1, StoreSteps DEF Stored
  <2>2. ASSUME NEW g \in Evals, CommitEval(g)
        PROVE  /\ uses' \in [Keys -> Nat] /\ prof' \in [Agents -> Profile \cup {NoProfile}]
               /\ \A a \in Agents : prof[a] # NoProfile => prof'[a] # NoProfile
    <3> PICK n : n = ev[g].uses + 1
      OBVIOUS
    <3>1. /\ uses' = [uses EXCEPT ![ev[g].key] = n] /\ n \in Nat
          /\ prof' \in [Agents -> Profile \cup {NoProfile}]
          /\ \A a \in Agents : prof[a] # NoProfile => prof'[a] # NoProfile
      BY <2>2, CommitStores
    <3>2. uses \in [Keys -> Nat]
      BY DEF Stored
    <3>3. uses' \in [Keys -> Nat]
      BY <3>1, <3>2
    <3> QED
      BY <3>1, <3>3
  <2> QED
    BY <2>1, <2>2, StoreSteps DEF Stored
<1> SUFFICES ASSUME NEW f \in Evals
             PROVE  /\ ev'[f].snap \in Profile \cup {NoProfile}
                    /\ ev'[f].dec \in Decisions \cup {"none"}
                    /\ ev'[f].pc # "idle" => ev'[f].key \in Keys /\ ev'[f].uses \in Nat
                    /\ ev'[f].pc \notin {"idle", "done"} /\ ev'[f].snap # NoProfile =>
                         prof'[ev'[f].call.agent] # NoProfile
  BY <1>1 DEF Stored, Running, Of
<1>2. /\ ev[f].snap \in Profile \cup {NoProfile}
      /\ ev[f].dec \in Decisions \cup {"none"}
      /\ ev[f].pc # "idle" => ev[f].key \in Keys /\ ev[f].uses \in Nat
      /\ ev[f].pc \notin {"idle", "done"} /\ ev[f].snap # NoProfile => prof[Of(f)] # NoProfile
      /\ ev[f].pc # "idle" => ev[f].call \in Contents /\ Of(f) \in Agents
  BY CallsAgent DEF Stored, Running, InHand, Of
<1>3. CASE Rests(f)
  BY <1>1, <1>2, <1>3 DEF Rests, Of
<1>4. CASE Begins(f)
  BY <1>4 DEF Begins, Anew, Stored
<1>5. CASE Advances(f)
  <2>1. /\ Turns(ev[f], ev'[f]) /\ prof' = prof /\ ev[f].pc \notin {"idle", "done"}
    BY <1>5 DEF Advances, Walk, Turns, Edges
  <2>2. ev'[f].key = ev[f].key /\ ev'[f].uses = ev[f].uses /\ ev'[f].call = ev[f].call
    BY <2>1 DEF Turns, Kept
  <2>3. ev'[f].snap = ev[f].snap \/ ev'[f].snap = prof[Of(f)]
    BY <2>1 DEF Turns, Of
  <2>4. ev'[f].dec \in Decisions \cup {ev[f].dec, ev[f].call.outcome}
    BY <2>1 DEF Turns
  <2>5. ev[f].call.outcome \in Decisions
    BY <1>2, <2>1, ContentAssumption DEF Content
  <2>6. prof[Of(f)] \in Profile \cup {NoProfile}
    BY <1>2, <2>1 DEF Stored
  <2> QED
    BY <1>2, <2>1, <2>2, <2>3, <2>4, <2>5, <2>6 DEF Of
<1>6. CASE Leaves(f)
  <2>1. ev[f].pc # "idle"
    BY <1>6 DEF Leaves, Abort, Running, CommitEval
  <2> QED
    BY <1>2, <1>6, <2>1 DEF Leaves, Halts, Kept
<1> QED
  BY <1>3, <1>4, <1>5, <1>6, EachEvaluation

-------------------------------------------------------------------------------
\* Why an evaluation fails: who opened an incident by hand meanwhile, whose
\* request of another key has committed, with whom it waits in a ring.
Opener(e) == \E o \in met[e] \cap Officers : req[o].op = "open"
Rival(e)  == \E f \in met[e] \cap Evals : ev[f].key # ev[e].key /\ Ok(f)
Clash(e)  == \E f \in met[e] \cap Evals :
               ev[f].key # ev[e].key /\ \E g \in {e, f} : ev[g].raise = "new"

\* Every approval was filed elsewhere or by an evaluation that answered so; an
\* evaluation fails for the one that has its request_id.
Filer(i, f) == Ok(f) /\ ev[f].dec = "approval" /\ ev[f].call.id = i

Filings ==
  \A r \in asks :
    /\ r \in RequestIds \X (Evals \cup {"elsewhere"})
    /\ r[2] = "elsewhere" \/ (r[2] \in Evals /\ Filer(r[1], r[2]))

Namesake(e) ==
  /\ ev[e].call.id # Nothing
  /\ \/ <<ev[e].call.id, "elsewhere">> \in asks
     \/ \E f \in Evals \ {e} : Filer(ev[e].call.id, f)

\* What will make an evaluation fail has been met before it fails.
Explained ==
  \A e \in Evals :
    /\ ev[e].pc = "open" /\ ev[e].row # NextKey => Opener(e)
    /\ ev[e].pc = "learn" /\ ev[e].snap = NoProfile /\ prof[Of(e)] # NoProfile => Rival(e)
    /\ ev[e].end = "key" => Opener(e)
    /\ ev[e].end = "profile" => Rival(e)
    /\ ev[e].end = "deadlock" => Clash(e)
    /\ ev[e].end = "ask" => Namesake(e)

\* What is filed stays filed.
LEMMA FilingsKept ==
  ASSUME Placing, InHand, Answers, Grip, Filings, Next
  PROVE  /\ Filings' /\ asks \subseteq asks'
         /\ \A f \in Evals : \A i : Filer(i, f) => Filer(i, f)'
<1>1. ASSUME NEW f \in Evals, NEW i, Filer(i, f) PROVE Filer(i, f)'
  <2>1. ev[f].pc = "done" /\ ev[f].end = "ok" /\ ev[f].dec = "approval" /\ ev[f].call.id = i
    BY <1>1 DEF Filer, Ok, Answers
  <2>2. ev'[f] = ev[f]
    BY <2>1, KeepsOn
  <2> QED
    BY <2>1, <2>2 DEF Filer, Ok
<1>2. CASE asks' = asks
  BY <1>1, <1>2 DEF Filings
<1>3. ASSUME NEW i \in RequestIds, asks' = asks \cup {<<i, "elsewhere">>}
      PROVE  Filings' /\ asks \subseteq asks'
  BY <1>1, <1>3 DEF Filings
<1>4. ASSUME NEW g \in Evals, CommitEval(g)
      PROVE  Filings' /\ asks \subseteq asks'
  <2>1. ev[g].pc = "commit" /\ ev[g].call \in Contents /\ Holding(ev[g], held[g])
    BY <1>4 DEF CommitEval, InHand, Grip
  <2>2. PICK y : Become(g, y) /\ y.pc = "done" /\ y.end = "ok" /\ y.call = ev[g].call /\ y.dec = ev[g].dec
    BY <1>4, CommitEvalGrabs DEF Placing
  <2>3. ev'[g] = y
    BY <2>2, BecomeShape DEF Placing
  <2>4. CASE AskLock(g) \cap held[g] = {}
    BY <1>1, <1>4, <2>4 DEF CommitEval, Filings
  <2>5. CASE AskLock(g) \cap held[g] # {}
    <3> PICK i : i = ev[g].call.id
      OBVIOUS
    <3>1. i # Nothing /\ <<"ask", i>> \in held[g] /\ asks' = asks \cup {<<i, g>>}
      BY <1>4, <2>5 DEF AskLock, CommitEval
    <3>2. i \in RequestIds /\ ev[g].dec = "approval"
      BY <2>1, <3>1 DEF RequestIds, Holding
    <3>3. Filer(i, g)'
      BY <2>2, <2>3, <3>2 DEF Filer, Ok
    <3> QED
      BY <1>1, <3>1, <3>2, <3>3 DEF Filings
  <2> QED
    BY <2>4, <2>5
<1> QED
  BY <1>1, <1>2, <1>3, <1>4, StoreSteps

LEMMA ReasonsStay ==
  ASSUME Placing, InHand, AllMet, Rows, Begun, Answers, Grip, Filings, Next, NEW e \in Evals
  PROVE  /\ (Opener(e) => Opener(e)') /\ (Rival(e) => Rival(e)') /\ (Clash(e) => Clash(e)')
         /\ ev[e].pc # "idle" /\ Namesake(e) => Namesake(e)'
<1>1. e \in Procs /\ met[e] \subseteq met'[e]
  BY AllMetKept, ProcsAreDisjoint
<1>2. ASSUME Opener(e) PROVE Opener(e)'
  <2>1. PICK o \in met[e] \cap Officers : req[o].op = "open"
    BY <1>2 DEF Opener
  <2>2. req'[o].op = "open"
    BY <2>1, RowsKept
  <2> QED
    BY <1>1, <2>1, <2>2 DEF Opener
<1>3. ASSUME NEW f \in met[e] \cap Evals
      PROVE  /\ f \in met'[e] \cap Evals /\ ev'[f].key = ev[f].key /\ ev'[e].key = ev[e].key
             /\ Ok(f) => ev'[f].end = "ok"
             /\ \A g \in {e, f} : ev[g].raise = "new" => ev'[g].raise = "new"
  <2>1. ev[e].pc # "idle" /\ ev[f].pc # "idle"
    BY <1>1, <1>3 DEF Begun
  <2>2. Ok(f) => ev[f].pc = "done"
    BY DEF Ok, Answers
  <2> QED
    BY <1>1, <2>1, <2>2, KeepsOn DEF Ok
<1>4. ASSUME Rival(e) PROVE Rival(e)'
  BY <1>3, <1>4 DEF Rival, Ok
<1>5. ASSUME Clash(e) PROVE Clash(e)'
  BY <1>3, <1>5 DEF Clash
<1>6. ASSUME ev[e].pc # "idle", Namesake(e) PROVE Namesake(e)'
  <2>1. ev'[e].call = ev[e].call
    BY <1>6, KeepsOn
  <2>2. asks \subseteq asks' /\ \A f \in Evals : \A i : Filer(i, f) => Filer(i, f)'
    BY FilingsKept
  <2> QED
    BY <1>6, <2>1, <2>2 DEF Namesake
<1> QED
  BY <1>2, <1>4, <1>5, <1>6

\* There are more incidents when an evaluation that chose a key commits, or an
\* officer who opens one.
LEMMA KeySteps ==
  ASSUME Placing, Settled, Next
  PROVE  \/ NextKey' = NextKey
         \/ \E g \in Evals : CommitEval(g) /\ ev[g].row # 0
         \/ \E o \in Officers : Commit(o) /\ req[o].op = "open"
<1>1. Shape /\ KeysLast /\ incs \in Seq(Incident)
  BY DEF Placing, Settled
<1>2. ASSUME incs' = incs PROVE NextKey' = NextKey
  BY <1>2 DEF NextKey
<1>3. ASSUME NEW e \in Evals, Sent(e) \/ Walk(e) \/ Abort(e) \/ Respond(e) PROVE incs' = incs
  BY <1>3 DEF Sent, Walk, Abort, Respond, Answer, Error, GiveUp, DeskRows, deskVars
<1>4. ASSUME NEW e \in Evals, CommitEval(e) PROVE ev[e].row # 0 \/ incs' = incs
  BY <1>4 DEF CommitEval
<1>5. ASSUME NEW o \in Officers, Started(o) \/ Work(o) PROVE incs' = incs
  BY <1>5 DEF Started, Work
<1>6. ASSUME NEW o \in Officers, Commit(o), req[o].op # "open" PROVE NextKey' = NextKey
  <2>1. CASE req[o].op = "move"
    <3> PICK r : r = req[o].row
      OBVIOUS
    <3> PICK i : i = Moved(incs[r], req[o].to)
      OBVIOUS
    <3>1. Moving(o)
      BY <1>6, <2>1 DEF Commit, Moving
    <3>2. r \in DOMAIN incs /\ req[o].to \in Statuses
      BY <3>1 DEF Settled
    <3>3. incs' = [incs EXCEPT ![r] = i]
      BY <1>6, <2>1 DEF Commit
    <3>4. incs[r] \in Incident
      BY <1>1, <3>2
    <3>5. i \in Incident
      BY <3>2, <3>4, MovedIs
    <3>6. incs' \in Seq(Incident) /\ Len(incs') = Len(incs)
      BY <1>1, <3>2, <3>3, <3>5
    <3> QED
      BY <3>6 DEF NextKey
  <2>2. CASE req[o].op # "move"
    BY <1>2, <1>6, <2>2 DEF Commit
  <2> QED
    BY <2>1, <2>2
<1>7. ASSUME Clock PROVE incs' = incs
  BY <1>7 DEF Clock
<1> QED
  BY <1>1, <1>2, <1>3, <1>4, <1>5, <1>6, <1>7, Kinds

\* Two evaluations that wait for each other have met, their keys differ, and one
\* of them has an alarm to audit.
LEMMA RingClashes ==
  ASSUME Placing, InHand, AllMet, Grip, NEW e \in Evals, NEW f \in Evals,
         WaitsFor(e, f), WaitsFor(f, e)
  PROVE  Clash(e)
<1>1. /\ e # f /\ e \in Procs /\ f \in Procs /\ held[e] \cap held[f] = {}
      /\ Holding(ev[e], held[e]) /\ Holding(ev[f], held[f])
  BY ProcsAreDisjoint DEF WaitsFor, Placing, Exclusive, Grip
<1>2. ASSUME NEW g \in Evals, NEW h \in Evals, WaitsFor(g, h), WaitsFor(h, g)
      PROVE  ev[g].pc \in {"learn", "alarm"} /\ <<"row", ev[g].key>> \in held[g]
  <2>1. PICK l : l \in Wants(g) /\ l \in held[h]
    BY <1>2 DEF WaitsFor
  <2>2. PICK m : m \in Wants(h) /\ m \in held[g]
    BY <1>2 DEF WaitsFor
  <2>3. Holding(ev[g], held[g]) /\ Holding(ev[h], held[h])
    BY DEF Grip
  <2>4. ev[g].pc \notin {"idle", "core", "done"} /\ ev[h].pc \notin {"idle", "core", "done"}
    BY <2>1, <2>2, <2>3 DEF Holding
  <2>5. <<"row", ev[g].key>> \in held[g]
    BY <2>3, <2>4 DEF Holding
  <2>6. /\ ev[g].pc \in {"approve", "record", "learn", "alarm", "open"}
        /\ ev[h].pc \in {"approve", "record", "learn", "alarm", "open"}
    BY <2>1, <2>2, <2>4 DEF Wants
  <2>7. ev[g].pc \notin {"approve", "record"}
    <3> SUFFICES ASSUME ev[g].pc \in {"approve", "record"} PROVE FALSE
      OBVIOUS
    <3>1. m = <<"ask", ev[g].call.id>> /\ ev[g].pc = "record"
      BY <2>2, <2>3, <2>6 DEF Holding, Wants, AskLock
    <3>2. ev[h].pc = "approve" /\ l = <<"audit", 0>>
      BY <2>1, <2>2, <2>6, <3>1 DEF Wants
    <3> QED
      BY <2>1, <2>3, <3>2 DEF Holding
  <2>8. ev[g].pc # "open"
    <3> SUFFICES ASSUME ev[g].pc = "open" PROVE FALSE
      OBVIOUS
    <3>1. l = <<"key", ev[g].row>>
      BY <2>1 DEF Wants
    <3> QED
      BY <2>1, <2>6, <3>1 DEF Placing, KeysLast
  <2> QED
    BY <2>5, <2>6, <2>7, <2>8
<1>3. /\ ev[e].pc \in {"learn", "alarm"} /\ <<"row", ev[e].key>> \in held[e]
      /\ ev[f].pc \in {"learn", "alarm"} /\ <<"row", ev[f].key>> \in held[f]
  BY <1>2
<1>4. ev[f].key # ev[e].key
  BY <1>1, <1>3
<1>5. ~(ev[e].pc = "learn" /\ ev[f].pc = "learn")
  <2> SUFFICES ASSUME ev[e].pc = "learn", ev[f].pc = "learn" PROVE FALSE
    OBVIOUS
  <2>1. Wants(e) = {<<"profile", Of(e)>>} /\ held[f] \subseteq {<<"row", ev[f].key>>, <<"ask", ev[f].call.id>>, <<"audit", 0>>}
    BY <1>1 DEF Wants, Holding, AuditLock
  <2> QED
    BY <2>1 DEF WaitsFor
<1>6. ev[e].raise = "new" \/ ev[f].raise = "new"
  BY <1>3, <1>5 DEF InHand
<1>7. f \in met[e]
  BY <1>1, <1>3 DEF AllMet, Busy, Running
<1> QED
  BY <1>4, <1>6, <1>7 DEF Clash

\* An evaluation that waits to open its incident sees the key it chose taken
\* by an officer only: it has the audit lock.
LEMMA KeyTaken ==
  ASSUME Placing, InHand, AllMet, Rows, Grip, Settled, Next, NEW e \in Evals,
         ev[e].pc = "open", ev[e].row = NextKey
  PROVE  NextKey' = NextKey \/ Opener(e)
<1>1. ASSUME NEW g \in Evals, CommitEval(g), ev[g].row # 0 PROVE FALSE
  <2>1. g # e /\ ev[g].pc = "commit" /\ g \in Procs /\ e \in Procs
    BY <1>1, ProcsAreDisjoint DEF CommitEval
  <2>2. AuditLock \in held[g] /\ AuditLock \in held[e]
    BY <1>1, <2>1 DEF Grip, Holding
  <2> QED
    BY <2>1, <2>2 DEF Placing, Exclusive
<1>2. ASSUME NEW o \in Officers, Commit(o), req[o].op = "open" PROVE Opener(e)
  <2>1. o \in Busy /\ e \in Busy /\ o # e /\ o \in Procs /\ e \in Procs
    BY <1>2, ProcsAreDisjoint DEF Commit, Busy, Desk, Running
  <2> QED
    BY <1>2, <2>1 DEF AllMet, Opener
<1> QED
  BY <1>1, <1>2, KeySteps

\* ... and one that has found no profile for its agent sees one appear only by
\* the commit of another key's request: it has its key's row.
LEMMA ProfileAppears ==
  ASSUME Placing, InHand, AllMet, Grip, Stored, Next, NEW e \in Evals,
         ev[e].pc = "learn", prof[Of(e)] = NoProfile, prof'[Of(e)] # NoProfile
  PROVE  \E f \in met[e] \cap Evals : ev[f].key # ev[e].key /\ ev'[f].end = "ok"
<1>1. PICK g \in Evals : CommitEval(g)
  BY StoreSteps
<1>2. ev[g].pc = "commit" /\ g # e /\ g \in Procs /\ e \in Procs
  BY <1>1, ProcsAreDisjoint DEF CommitEval
<1>3. <<"row", ev[g].key>> \in held[g] /\ <<"row", ev[e].key>> \in held[e]
  BY <1>2 DEF Grip, Holding
<1>4. ev[g].key # ev[e].key
  BY <1>2, <1>3 DEF Placing, Exclusive
<1>5. g \in met[e]
  BY <1>2 DEF AllMet, Busy, Running
<1>6. ev'[g].end = "ok"
  <2>1. PICK y : Become(g, y) /\ y.end = "ok"
    BY <1>1, CommitEvalGrabs DEF Placing
  <2> QED
    BY <2>1, BecomeShape DEF Placing
<1> QED
  BY <1>4, <1>5, <1>6

LEMMA ExplainedKept ==
  ASSUME Placing, InHand, AllMet, Rows, Begun, Answers, Grip, Settled, Stored, Filings, Explained, Next
  PROVE  Explained'
<1> SUFFICES ASSUME NEW e \in Evals
             PROVE  /\ ev'[e].pc = "open" /\ ev'[e].row # NextKey' => Opener(e)'
                    /\ ev'[e].pc = "learn" /\ ev'[e].snap = NoProfile /\ prof'[ev'[e].call.agent] # NoProfile =>
                         Rival(e)'
                    /\ ev'[e].end = "key" => Opener(e)'
                    /\ ev'[e].end = "profile" => Rival(e)'
                    /\ ev'[e].end = "deadlock" => Clash(e)'
                    /\ ev'[e].end = "ask" => Namesake(e)'
  BY DEF Explained, Of
<1>1. /\ (Opener(e) => Opener(e)') /\ (Rival(e) => Rival(e)') /\ (Clash(e) => Clash(e)')
      /\ ev[e].pc # "idle" /\ Namesake(e) => Namesake(e)'
  BY ReasonsStay
<1>2. CASE Rests(e)
  <2>1. ev'[e] = ev[e]
    BY <1>2 DEF Rests
  <2>2. ev[e].pc = "open" /\ ev[e].row # NextKey' => Opener(e)
    BY KeyTaken DEF Explained
  <2>3. ASSUME ev[e].pc = "learn", ev[e].snap = NoProfile, prof'[Of(e)] # NoProfile
        PROVE  Rival(e)'
    <3>1. CASE prof[Of(e)] # NoProfile
      BY <1>1, <2>3, <3>1 DEF Explained
    <3>2. CASE prof[Of(e)] = NoProfile
      <4>1. PICK f \in met[e] \cap Evals : ev[f].key # ev[e].key /\ ev'[f].end = "ok"
        BY <2>3, <3>2, ProfileAppears
      <4>2. f \in met'[e] /\ ev'[f].key = ev[f].key
        BY <4>1, AllMetKept, KeepsOn, ProcsAreDisjoint DEF Begun
      <4> QED
        BY <2>1, <4>1, <4>2 DEF Rival, Ok
    <3> QED
      BY <3>1, <3>2
  <2>4. ev[e].end = "ask" => ev[e].pc # "idle"
    BY DEF Answers
  <2> QED
    BY <1>1, <2>1, <2>2, <2>3, <2>4 DEF Explained, Of
<1>3. CASE Begins(e)
  BY <1>3 DEF Begins, Anew
<1>4. CASE Advances(e)
  <2>1. /\ Walk(e) /\ Turns(ev[e], ev'[e]) /\ incs' = incs /\ prof' = prof
        /\ ev'[e].end = ev[e].end /\ ev[e].end = "none"
    <3>1. Walk(e) /\ Turns(ev[e], ev'[e]) /\ ev[e].pc # "done"
      BY <1>4 DEF Advances, Turns, Edges
    <3> QED
      BY <3>1 DEF Walk, DeskRows, Turns, Answers
  <2>2. ev'[e].pc = "open" => ev'[e].row = NextKey'
    BY <2>1 DEF Turns, Edges, NextKey
  <2>3. ev'[e].pc = "learn" /\ ev'[e].snap = NoProfile => prof'[ev'[e].call.agent] = NoProfile
    <3>1. CASE ev[e].pc = "reload"
      BY <2>1, <3>1 DEF Turns, Kept
    <3>2. CASE ev[e].pc = "record"
      BY <2>1, <3>2 DEF Turns
    <3>3. CASE ev[e].pc \notin {"record", "reload"}
      BY <2>1, <3>3 DEF Turns, Edges
    <3> QED
      BY <3>1, <3>2, <3>3
  <2> QED
    BY <2>1, <2>2, <2>3
<1>5. CASE Leaves(e)
  <2>1. /\ ev'[e].pc = "done"
        /\ (ev'[e].end \in Ends(ev[e].pc) /\ Cause(e, ev'[e].end)) \/ ev'[e].end = "ok"
    BY <1>5 DEF Leaves
  <2>2. ev'[e].end = "key" => Opener(e)
    <3> SUFFICES ASSUME ev'[e].end = "key" PROVE Opener(e)
      OBVIOUS
    <3>1. ev[e].pc = "open" /\ ev[e].row \in DOMAIN incs
      BY <2>1 DEF Ends, Cause
    <3>2. ev[e].row # NextKey
      BY <3>1 DEF Settled, NextKey
    <3> QED
      BY <3>1, <3>2 DEF Explained
  <2>3. ev'[e].end = "profile" => Rival(e)
    BY <2>1 DEF Ends, Cause, Explained
  <2>4. ev'[e].end = "deadlock" => Clash(e)
    BY <2>1, RingClashes DEF Ends, Cause
  <2>5. ev'[e].end = "ask" => ev[e].pc # "idle" /\ Namesake(e)
    <3> SUFFICES ASSUME ev'[e].end = "ask" PROVE ev[e].pc # "idle" /\ Namesake(e)
      OBVIOUS
    <3>1. ev[e].pc = "approve" /\ Filed(ev[e].call.id) /\ ev[e].end = "none"
      BY <2>1 DEF Ends, Cause, Answers
    <3>2. PICK r \in asks : r[1] = ev[e].call.id
      BY <3>1 DEF Filed
    <3>3. /\ r \in RequestIds \X (Evals \cup {"elsewhere"})
          /\ r[2] = "elsewhere" \/ (r[2] \in Evals /\ Filer(r[1], r[2]))
      BY DEF Filings
    <3>4. ev[e].call.id # Nothing /\ r = <<ev[e].call.id, r[2]>>
      BY <3>2, <3>3 DEF RequestIds
    <3>5. ~Filer(r[1], e)
      BY <3>1 DEF Filer, Ok
    <3> QED
      BY <3>1, <3>2, <3>3, <3>4, <3>5 DEF Namesake
  <2> QED
    BY <1>1, <2>1, <2>2, <2>3, <2>4, <2>5
<1> QED
  BY <1>2, <1>3, <1>4, <1>5, EachEvaluation

-------------------------------------------------------------------------------
\* What has committed: all of it, a key's, an agent's.
Committed == {e \in Evals : Ok(e)}
ByKey(k)   == {e \in Committed : ev[e].key = k}
ByAgent(a) == {e \in Committed : Of(e) = a}

\* No two requests of the key have overlapped; no two calls of the agent, but
\* for requests of one key.
Apart(k)  == \A e, f \in Evals : f \in met[e] => ev[e].key # k \/ ev[f].key # k
Serial(a) == \A e, f \in Evals : f \in met[e] => ev[e].key = ev[f].key \/ Of(e) # a \/ Of(f) # a

\* A key's count never exceeds its commits, nor does the count a request of it
\* has read; they agree as long as no two requests overlap.
KeyTally ==
  \A k \in Keys :
    /\ uses[k] <= Cardinality(ByKey(k))
    /\ \A e \in Evals : ev[e].pc # "idle" /\ ev[e].key = k => ev[e].uses <= Cardinality(ByKey(k))
    /\ Apart(k) => /\ uses[k] = Cardinality(ByKey(k))
                   /\ \A e \in Evals : Running(e) /\ ev[e].key = k => ev[e].uses = uses[k]

\* An agent's profile counts its commits, and who has decided has loaded it as
\* it still is, as long as its overlapping calls are of one key.
AgentTally ==
  \A a \in Agents : Serial(a) =>
    /\ Total(prof[a]) = Total(base[a]) + Cardinality(ByAgent(a))
    /\ \A e \in Evals : Running(e) /\ ev[e].pc # "core" /\ Of(e) = a => Total(ev[e].snap) = Total(prof[a])

Tallied == IsFiniteSet(Committed) /\ KeyTally /\ AgentTally

LEMMA ApartWas ==
  ASSUME Placing, InHand, AllMet, Begun, Next
  PROVE  /\ \A k : Apart(k)' => Apart(k)
         /\ \A a : Serial(a)' => Serial(a)
<1>1. ASSUME NEW e \in Evals, NEW f \in Evals, f \in met[e]
      PROVE  /\ f \in met'[e] /\ ev'[e].key = ev[e].key /\ ev'[f].key = ev[f].key
             /\ ev'[e].call.agent = Of(e) /\ ev'[f].call.agent = Of(f)
  <2>1. ev[e].pc # "idle" /\ ev[f].pc # "idle" /\ f \in met'[e]
    BY <1>1, AllMetKept, ProcsAreDisjoint DEF Begun
  <2> QED
    BY <2>1, KeepsOn DEF Of
<1>2. ASSUME NEW k, Apart(k)' PROVE Apart(k)
  BY <1>1, <1>2 DEF Apart
<1>3. ASSUME NEW a, Serial(a)' PROVE Serial(a)
  BY <1>1, <1>3 DEF Serial, Of
<1> QED
  BY <1>2, <1>3

\* A step commits one evaluation, or none and then stores nothing.
LEMMA CommitSteps ==
  ASSUME Placing, InHand, Answers, Next
  PROVE  /\ \A e \in Committed : ev'[e] = ev[e] /\ Ok(e)'
         /\ \/ UNCHANGED <<uses, prof>> /\ Committed' = Committed
            \/ \E g \in Evals \ Committed : CommitEval(g) /\ Committed' = Committed \cup {g}
<1>1. Shape
  BY DEF Placing
<1>2. \A e \in Committed : ev[e].pc = "done" /\ ev'[e] = ev[e] /\ Ok(e)'
  BY KeepsOn DEF Committed, Ok, Answers
<1>3. ASSUME NEW g \in Evals, CommitEval(g)
      PROVE  g \notin Committed /\ Committed' = Committed \cup {g}
  <2>1. g \notin Committed
    BY <1>2, <1>3 DEF CommitEval
  <2>2. PICK y : Become(g, y) /\ y.end = "ok"
    BY <1>1, <1>3, CommitEvalGrabs
  <2>3. ev'[g].end = "ok" /\ \A f \in Evals \ {g} : ev'[f] = ev[f]
    BY <1>1, <2>2, BecomeShape
  <2> QED
    BY <2>1, <2>3 DEF Committed, Ok
<1>4. ASSUME NEW f \in Evals, \A g \in Evals : ~CommitEval(g), ev'[f].end = "ok"
      PROVE  ev[f].end = "ok"
  <2>1. CASE Rests(f)
    BY <1>4, <2>1 DEF Rests
  <2>2. CASE Begins(f)
    BY <1>4, <2>2 DEF Begins, Anew
  <2>3. CASE Advances(f)
    BY <1>4, <2>3 DEF Advances, Turns
  <2>4. CASE Leaves(f)
    BY <1>4, <2>4 DEF Leaves, Ends
  <2> QED
    BY <2>1, <2>2, <2>3, <2>4, EachEvaluation
<1>5. CASE \A g \in Evals : ~CommitEval(g)
  <2>1. UNCHANGED <<uses, prof>>
    BY <1>5, StoreSteps
  <2>2. Committed' = Committed
    BY <1>2, <1>4, <1>5 DEF Committed, Ok
  <2> QED
    BY <1>2, <2>1, <2>2
<1> QED
  BY <1>2, <1>3, <1>5

LEMMA OneMore ==
  ASSUME NEW S, IsFiniteSet(S), NEW x, x \notin S
  PROVE  /\ IsFiniteSet(S \cup {x}) /\ Cardinality(S) \in Nat
         /\ Cardinality(S \cup {x}) = Cardinality(S) + 1
BY FS_AddElement, FS_CardinalityType

\* A commit adds one to what its key and its agent have committed.
LEMMA TallySteps ==
  ASSUME Placing, InHand, Answers, Next, IsFiniteSet(Committed)
  PROVE  /\ IsFiniteSet(Committed')
         /\ \A k : Cardinality(ByKey(k)) \in Nat
         /\ \A a : Cardinality(ByAgent(a)) \in Nat
         /\ \/ /\ UNCHANGED <<uses, prof>>
               /\ \A k : Cardinality(ByKey(k)') = Cardinality(ByKey(k))
               /\ \A a : Cardinality(ByAgent(a)') = Cardinality(ByAgent(a))
            \/ \E g \in Evals :
                 /\ CommitEval(g)
                 /\ \A k : Cardinality(ByKey(k)') =
                             IF k = ev[g].key THEN Cardinality(ByKey(k)) + 1 ELSE Cardinality(ByKey(k))
                 /\ \A a : Cardinality(ByAgent(a)') =
                             IF a = Of(g) THEN Cardinality(ByAgent(a)) + 1 ELSE Cardinality(ByAgent(a))
<1>1. ASSUME NEW k PROVE IsFiniteSet(ByKey(k)) /\ Cardinality(ByKey(k)) \in Nat
  <2>1. ByKey(k) \subseteq Committed
    BY DEF ByKey
  <2> QED
    BY <2>1, FS_Subset, FS_CardinalityType
<1>2. ASSUME NEW a PROVE IsFiniteSet(ByAgent(a)) /\ Cardinality(ByAgent(a)) \in Nat
  <2>1. ByAgent(a) \subseteq Committed
    BY DEF ByAgent
  <2> QED
    BY <2>1, FS_Subset, FS_CardinalityType
<1>3. CASE UNCHANGED <<uses, prof>> /\ Committed' = Committed
  <2>1. \A e \in Committed : ev'[e] = ev[e]
    BY CommitSteps
  <2>2. \A k : ByKey(k)' = ByKey(k)
    BY <1>3, <2>1 DEF ByKey
  <2>3. \A a : ByAgent(a)' = ByAgent(a)
    BY <1>3, <2>1 DEF ByAgent, Of
  <2> QED
    BY <1>1, <1>2, <1>3, <2>2, <2>3
<1>4. ASSUME NEW g \in Evals \ Committed, CommitEval(g), Committed' = Committed \cup {g}
      PROVE  /\ IsFiniteSet(Committed')
             /\ \A k : Cardinality(ByKey(k)') =
                         IF k = ev[g].key THEN Cardinality(ByKey(k)) + 1 ELSE Cardinality(ByKey(k))
             /\ \A a : Cardinality(ByAgent(a)') =
                         IF a = Of(g) THEN Cardinality(ByAgent(a)) + 1 ELSE Cardinality(ByAgent(a))
  <2>1. \A e \in Committed : ev'[e] = ev[e]
    BY CommitSteps
  <2>2. ev'[g].key = ev[g].key /\ ev'[g].call = ev[g].call
    BY <1>4, KeepsOn DEF CommitEval
  <2>3. IsFiniteSet(Committed')
    BY <1>4, OneMore
  <2>4. ASSUME NEW k
        PROVE  Cardinality(ByKey(k)') =
                 IF k = ev[g].key THEN Cardinality(ByKey(k)) + 1 ELSE Cardinality(ByKey(k))
    <3>1. ByKey(k)' = IF k = ev[g].key THEN ByKey(k) \cup {g} ELSE ByKey(k)
      BY <1>4, <2>1, <2>2 DEF ByKey
    <3>2. g \notin ByKey(k)
      BY <1>4 DEF ByKey
    <3> QED
      BY <1>1, <3>1, <3>2, OneMore
  <2>5. ASSUME NEW a
        PROVE  Cardinality(ByAgent(a)') =
                 IF a = Of(g) THEN Cardinality(ByAgent(a)) + 1 ELSE Cardinality(ByAgent(a))
    <3>1. ByAgent(a)' = IF a = Of(g) THEN ByAgent(a) \cup {g} ELSE ByAgent(a)
      BY <1>4, <2>1, <2>2 DEF ByAgent, Of
    <3>2. g \notin ByAgent(a)
      BY <1>4 DEF ByAgent
    <3> QED
      BY <1>2, <3>1, <3>2, OneMore
  <2> QED
    BY <2>3, <2>4, <2>5
<1> QED
  BY <1>1, <1>2, <1>3, <1>4, CommitSteps

LEMMA CommitIsDone ==
  ASSUME Placing, NEW g \in Evals, CommitEval(g)
  PROVE  ev'[g].pc = "done" /\ ev'[g].end = "ok"
<1>1. PICK y : Become(g, y) /\ y.pc = "done" /\ y.end = "ok"
  BY CommitEvalGrabs DEF Placing
<1> QED
  BY <1>1, BecomeShape DEF Placing

\* A request carries the count it has read, or reads the count there is.
LEMMA CountRead ==
  ASSUME Placing, InHand, Next, NEW e \in Evals, ev'[e].pc # "idle"
  PROVE  \/ /\ ev[e].pc # "idle" /\ ev'[e].key = ev[e].key /\ ev'[e].uses = ev[e].uses
            /\ ev'[e].call = ev[e].call
            /\ ev'[e].pc # "done" => Running(e)
         \/ /\ ev[e].pc = "idle" /\ ev'[e].pc = "core" /\ ev'[e].uses = uses[ev'[e].key]
            /\ UNCHANGED <<uses, prof>>
<1>1. CASE ev[e].pc # "idle"
  BY <1>1, KeepsOn DEF Running
<1>2. CASE ev[e].pc = "idle"
  <2>1. Begins(e)
    BY <1>2, EachEvaluation DEF Rests, Advances, Turns, Edges, Leaves, Abort, Running, CommitEval
  <2> QED
    BY <1>2, <2>1 DEF Begins, Anew, Sent
<1> QED
  BY <1>1, <1>2

LEMMA KeyTallyKept ==
  ASSUME Placing, InHand, AllMet, Begun, Answers, Stored, Tallied, Next
  PROVE  KeyTally'
<1> SUFFICES ASSUME NEW k \in Keys
             PROVE  /\ uses'[k] <= Cardinality(ByKey(k)')
                    /\ \A e \in Evals : ev'[e].pc # "idle" /\ ev'[e].key = k =>
                         ev'[e].uses <= Cardinality(ByKey(k)')
                    /\ Apart(k)' => /\ uses'[k] = Cardinality(ByKey(k)')
                                    /\ \A e \in Evals : ev'[e].pc \notin {"idle", "done"} /\ ev'[e].key = k =>
                                         ev'[e].uses = uses'[k]
  BY DEF KeyTally, Running
<1> PICK n : n = Cardinality(ByKey(k))
  OBVIOUS
<1> PICK m : m = Cardinality(ByKey(k)')
  OBVIOUS
<1>1. /\ n \in Nat /\ uses[k] \in Nat /\ uses[k] <= n
      /\ \A e \in Evals : ev[e].pc # "idle" => ev[e].uses \in Nat
      /\ \A e \in Evals : ev[e].pc # "idle" /\ ev[e].key = k => ev[e].uses <= n
      /\ Apart(k) => uses[k] = n /\ \A e \in Evals : Running(e) /\ ev[e].key = k => ev[e].uses = uses[k]
  BY TallySteps DEF Tallied, KeyTally, Stored
<1>2. Apart(k)' => Apart(k)
  BY ApartWas
<1>3. CASE uses' = uses /\ m = n
  <2>1. ASSUME NEW e \in Evals, ev'[e].pc # "idle", ev'[e].key = k
        PROVE  /\ ev'[e].uses <= n
               /\ Apart(k) /\ ev'[e].pc # "done" => ev'[e].uses = uses[k]
    BY <1>1, <2>1, CountRead
  <2> QED
    BY <1>1, <1>2, <1>3, <2>1
<1>4. ASSUME NEW g \in Evals, CommitEval(g), ev[g].key # k, m = n
      PROVE  uses'[k] = uses[k]
  <2> PICK v : v = ev[g].uses + 1
    OBVIOUS
  <2>1. uses' = [uses EXCEPT ![ev[g].key] = v] /\ uses \in [Keys -> Nat]
    BY <1>4, CommitStores DEF Stored
  <2> QED
    BY <1>4, <2>1
<1>5. ASSUME NEW g \in Evals, CommitEval(g), ev[g].key # k, m = n
      PROVE  /\ uses'[k] <= m
             /\ \A e \in Evals : ev'[e].pc # "idle" /\ ev'[e].key = k => ev'[e].uses <= m
             /\ Apart(k)' => /\ uses'[k] = m
                             /\ \A e \in Evals : ev'[e].pc \notin {"idle", "done"} /\ ev'[e].key = k =>
                                  ev'[e].uses = uses'[k]
  <2>1. ASSUME NEW e \in Evals, ev'[e].pc # "idle", ev'[e].key = k
        PROVE  /\ ev'[e].uses <= n
               /\ Apart(k) /\ ev'[e].pc # "done" => ev'[e].uses = uses[k]
    BY <1>1, <2>1, CountRead
  <2> QED
    BY <1>1, <1>2, <1>4, <1>5, <2>1
<1>6. ASSUME NEW g \in Evals, CommitEval(g), ev[g].key = k, m = n + 1
      PROVE  /\ uses'[k] <= m
             /\ \A e \in Evals : ev'[e].pc # "idle" /\ ev'[e].key = k => ev'[e].uses <= m
             /\ Apart(k)' => /\ uses'[k] = m
                             /\ \A e \in Evals : ev'[e].pc \notin {"idle", "done"} /\ ev'[e].key = k =>
                                  ev'[e].uses = uses'[k]
  <2>1. ev[g].pc = "commit" /\ Running(g) /\ ev[g].uses \in Nat /\ ev[g].uses <= n
    BY <1>1, <1>6 DEF CommitEval, Running
  <2>2. uses'[k] = ev[g].uses + 1
    <3> PICK v : v = ev[g].uses + 1
      OBVIOUS
    <3>1. uses' = [uses EXCEPT ![k] = v] /\ uses \in [Keys -> Nat]
      BY <1>6, CommitStores DEF Stored
    <3> QED
      BY <3>1
  <2>3. ASSUME NEW e \in Evals, ev'[e].pc # "idle", ev'[e].key = k
        PROVE  ev'[e].uses <= m
    BY <1>1, <1>6, <2>3, CountRead
  <2>4. Apart(k) => uses'[k] = m
    BY <1>1, <1>6, <2>1, <2>2
  <2>5. ASSUME NEW e \in Evals, ev'[e].pc \notin {"idle", "done"}, ev'[e].key = k, Apart(k)
        PROVE  FALSE
    <3>1. uses' # uses
      BY <1>1, <1>6, <2>4, <2>5
    <3>2. Running(e) /\ ev[e].key = k
      BY <2>5, <3>1, CountRead
    <3>3. e # g
      BY <1>6, <2>5, CommitIsDone
    <3>4. e \in met[g]
      BY <2>1, <3>2, <3>3, ProcsAreDisjoint DEF AllMet, Busy
    <3> QED
      BY <1>6, <2>5, <3>2, <3>4 DEF Apart
  <2> QED
    BY <1>1, <1>2, <1>6, <2>1, <2>2, <2>3, <2>4, <2>5
<1>7. \/ uses' = uses /\ m = n
      \/ \E g \in Evals : CommitEval(g) /\ ev[g].key # k /\ m = n
      \/ \E g \in Evals : CommitEval(g) /\ ev[g].key = k /\ m = n + 1
  BY TallySteps DEF Tallied
<1> QED
  BY <1>3, <1>5, <1>6, <1>7

LEMMA TotalIs ==
  ASSUME NEW p \in Profile \cup {NoProfile}
  PROVE  Total(p) \in Nat
BY DEF Total, Profile

\* Past its decision a call has the profile it had, or has just loaded the
\* stored one.
LEMMA SnapRead ==
  ASSUME Placing, InHand, Next, NEW e \in Evals, Running(e)', ev'[e].pc # "core"
  PROVE  /\ Running(e) /\ ev'[e].call = ev[e].call
         /\ \/ ev[e].pc # "core" /\ ev'[e].snap = ev[e].snap
            \/ ev'[e].snap = prof[Of(e)] /\ prof' = prof
<1>1. ev'[e].pc \notin {"idle", "done", "core"}
  BY DEF Running
<1>2. CASE Rests(e)
  BY <1>1, <1>2 DEF Rests, Running
<1>3. CASE Begins(e) \/ Leaves(e)
  BY <1>1, <1>3 DEF Begins, Leaves
<1>4. CASE Advances(e)
  <2>1. Walk(e) /\ Turns(ev[e], ev'[e])
    BY <1>4 DEF Advances
  <2>2. prof' = prof /\ Running(e) /\ ev'[e].call = ev[e].call
    BY <2>1 DEF Walk, Turns, Edges, Running, Kept
  <2> QED
    BY <2>1, <2>2 DEF Turns, Of
<1> QED
  BY <1>2, <1>3, <1>4, EachEvaluation

LEMMA AgentTallyKept ==
  ASSUME Placing, InHand, AllMet, Begun, Answers, Grip, Stored, Tallied, Next
  PROVE  AgentTally'
<1> SUFFICES ASSUME NEW a \in Agents, Serial(a)'
             PROVE  /\ Total(prof'[a]) = Total(base'[a]) + Cardinality(ByAgent(a)')
                    /\ \A e \in Evals : Running(e)' /\ ev'[e].pc # "core" /\ ev'[e].call.agent = a =>
                         Total(ev'[e].snap) = Total(prof'[a])
  BY DEF AgentTally, Of, Total
<1> PICK n : n = Cardinality(ByAgent(a))
  OBVIOUS
<1> PICK m : m = Cardinality(ByAgent(a)')
  OBVIOUS
<1> PICK t : t = Total(prof[a])
  OBVIOUS
<1>1. Serial(a)
  BY ApartWas
<1>2. /\ n \in Nat /\ t \in Nat /\ Total(base[a]) \in Nat /\ t = Total(base[a]) + n /\ base' = base
      /\ \A e \in Evals : Running(e) /\ ev[e].pc # "core" /\ Of(e) = a => Total(ev[e].snap) = t
  BY <1>1, TallySteps, TotalIs, StoreSteps DEF Tallied, AgentTally, Stored
<1>3. CASE prof' = prof /\ m = n
  <2>1. ASSUME NEW e \in Evals, Running(e)', ev'[e].pc # "core", ev'[e].call.agent = a
        PROVE  Total(ev'[e].snap) = t
    <3>1. Running(e) /\ Of(e) = a
      BY <2>1, SnapRead DEF Of
    <3>2. CASE ev[e].pc # "core" /\ ev'[e].snap = ev[e].snap
      BY <1>2, <3>1, <3>2
    <3>3. CASE ev'[e].snap = prof[Of(e)]
      BY <3>1, <3>3
    <3> QED
      BY <2>1, <3>2, <3>3, SnapRead
  <2> QED
    BY <1>2, <1>3, <2>1
<1>4. ASSUME NEW g \in Evals, CommitEval(g), Of(g) # a, m = n
      PROVE  /\ Total(prof'[a]) = t
             /\ \A e \in Evals : Running(e)' /\ ev'[e].pc # "core" /\ ev'[e].call.agent = a =>
                  Total(ev'[e].snap) = t
  <2>1. prof'[a] = prof[a]
    BY <1>4, CommitStores
  <2>2. ASSUME NEW e \in Evals, Running(e)', ev'[e].pc # "core", ev'[e].call.agent = a
        PROVE  Total(ev'[e].snap) = t
    <3>1. Running(e) /\ Of(e) = a
      BY <2>2, SnapRead DEF Of
    <3>2. CASE ev[e].pc # "core" /\ ev'[e].snap = ev[e].snap
      BY <1>2, <3>1, <3>2
    <3>3. CASE ev'[e].snap = prof[Of(e)]
      BY <3>1, <3>3
    <3> QED
      BY <2>2, <3>2, <3>3, SnapRead
  <2> QED
    BY <2>1, <2>2
<1>5. ASSUME NEW g \in Evals, CommitEval(g), Of(g) = a, m = n + 1
      PROVE  /\ Total(prof'[a]) = t + 1
             /\ \A e \in Evals : Running(e)' /\ ev'[e].pc # "core" => ev'[e].call.agent # a
  <2>1. ev[g].pc = "commit" /\ Running(g)
    BY <1>5 DEF CommitEval, Running
  <2>2. Total(prof'[a]) = t + 1
    <3>1. Total(prof'[a]) = Total(ev[g].snap) + 1
      BY <1>5, CommitStores
    <3> QED
      BY <1>2, <1>5, <2>1, <3>1
  <2>3. ASSUME NEW e \in Evals, Running(e)', ev'[e].pc # "core", ev'[e].call.agent = a
        PROVE  FALSE
    <3>1. prof' # prof
      <4> SUFFICES ASSUME prof'[a] = prof[a] PROVE FALSE
        OBVIOUS
      <4>1. t = t + 1
        BY <2>2
      <4> QED
        BY <1>2, <4>1
    <3>2. Running(e) /\ Of(e) = a /\ ev[e].pc # "core"
      BY <2>3, <3>1, SnapRead DEF Of
    <3>3. e # g /\ e \in Procs /\ g \in Procs
      BY <1>5, <2>3, CommitIsDone, ProcsAreDisjoint DEF Running
    <3>4. e \in met[g]
      BY <2>1, <3>2, <3>3 DEF AllMet, Busy
    <3>5. ev[e].key = ev[g].key
      BY <1>1, <1>5, <3>2, <3>4 DEF Serial
    <3>6. <<"row", ev[e].key>> \in held[e] /\ <<"row", ev[g].key>> \in held[g]
      BY <2>1, <3>2 DEF Grip, Holding, Running
    <3> QED
      BY <3>3, <3>5, <3>6 DEF Placing, Exclusive
  <2> QED
    BY <2>2, <2>3
<1>6. \/ prof' = prof /\ m = n
      \/ \E g \in Evals : CommitEval(g) /\ Of(g) # a /\ m = n
      \/ \E g \in Evals : CommitEval(g) /\ Of(g) = a /\ m = n + 1
  BY TallySteps DEF Tallied
<1>7. CASE \E g \in Evals : CommitEval(g) /\ Of(g) # a /\ m = n
  BY <1>2, <1>4, <1>7
<1>8. CASE \E g \in Evals : CommitEval(g) /\ Of(g) = a /\ m = n + 1
  BY <1>2, <1>5, <1>8
<1> QED
  BY <1>3, <1>6, <1>7, <1>8

LEMMA TalliedKept ==
  ASSUME Placing, InHand, AllMet, Begun, Answers, Grip, Stored, Tallied, Next
  PROVE  Tallied'
BY TallySteps, KeyTallyKept, AgentTallyKept DEF Tallied

-------------------------------------------------------------------------------
\* The officers' requests, and what they are asked for by name.
Asking(x) ==
  /\ x \in Transaction
  /\ x.op \in {"pause", "resume"} => x.to \in {"none", "healthy", "paused"}
  /\ x.op = "block" => x.to \in Tools \cup {"none"}

Desked ==
  /\ agent \in [Agents -> {"healthy", "paused"}] /\ blocked \subseteq Policy
  /\ \A o \in Officers : Asking(req[o])

Stages == {"idle", "read", "write", "audit", "commit", "done"}

LEMMA AskingGoes ==
  ASSUME NEW x, Asking(x), NEW pc \in Stages
  PROVE  Asking([x EXCEPT !.pc = pc])
BY DEF Asking, Transaction, Stages

LEMMA AskingPlaced ==
  ASSUME NEW x, Asking(x), NEW pc \in Stages, NEW row \in Nat
  PROVE  Asking([x EXCEPT !.pc = pc, !.row = row])
BY DEF Asking, Transaction, Stages

LEMMA AskingEnds ==
  ASSUME NEW x, Asking(x), NEW how \in {"ok", "refused", "key", "policy"}
  PROVE  Asking([x EXCEPT !.pc = "done", !.end = how])
BY DEF Asking, Transaction

LEMMA AskingAimed ==
  ASSUME NEW x, Asking(x), NEW pc \in Stages, NEW row \in Nat,
         NEW to \in Statuses \cup Tools \cup {"none", "healthy", "paused"},
         x.op \in {"pause", "resume"} => to \in {"none", "healthy", "paused"},
         x.op = "block" => to \in Tools \cup {"none"}
  PROVE  Asking([x EXCEPT !.row = row, !.to = to, !.pc = pc])
BY DEF Asking, Transaction, Stages

LEMMA AskingStarts ==
  ASSUME NEW op \in Ops
  PROVE  Asking([Blank EXCEPT !.op = op, !.pc = "read"])
BY DEF Asking, Transaction, Blank

\* Every step of a request before its commit, and its beginning.
LEMMA ServeAsks ==
  ASSUME Shape, Desked, incs \in Seq(Incident), threats \in Seq(Threat), NEW o \in Officers, Handle(o)
  PROVE  \E y : Asking(y) /\ Go(o, y)
<1> PICK x : x = req[o]
  OBVIOUS
<1>1. Asking(x) /\ NextKey \in Nat /\ DOMAIN incs \subseteq Nat /\ DOMAIN threats \subseteq Nat
  BY DEF Desked, NextKey
<1>2. \A how : End(o, how) => Go(o, [x EXCEPT !.pc = "done", !.end = how])
  BY DEF End
<1>3. \A how \in {"ok", "refused", "key", "policy"} : End(o, how) => \E y : Asking(y) /\ Go(o, y)
  BY <1>1, <1>2, AskingEnds
<1>4. ASSUME NEW op \in Ops, Start(o, op, Busy) PROVE \E y : Asking(y) /\ Go(o, y)
  BY <1>4, AskingStarts DEF Start
<1>5. ASSUME Missing(o) \/ Commit(o) PROVE \E y : Asking(y) /\ Go(o, y)
  BY <1>3, <1>5 DEF Missing, Commit
<1>6. ASSUME CountForOpen(o) PROVE \E y : Asking(y) /\ Go(o, y)
  <2>1. Go(o, [x EXCEPT !.pc = "write", !.row = NextKey])
    BY <1>6 DEF CountForOpen
  <2> QED
    BY <1>1, <2>1, AskingPlaced DEF Stages
<1>7. ASSUME Insert(o) PROVE \E y : Asking(y) /\ Go(o, y)
  <2>1. End(o, "key") \/ Go(o, [x EXCEPT !.pc = "commit"])
    BY <1>7 DEF Insert
  <2> QED
    BY <1>1, <1>3, <2>1, AskingGoes DEF Stages
<1>8. ASSUME ReadStatus(o) PROVE \E y : Asking(y) /\ Go(o, y)
  <2>1. x.op = "move"
    BY <1>8 DEF ReadStatus
  <2>2. PICK k \in DOMAIN incs, s \in Statuses :
          End(o, "refused") \/ Go(o, [x EXCEPT !.pc = "write", !.row = k, !.to = s])
    BY <1>8 DEF ReadStatus
  <2>3. [x EXCEPT !.pc = "write", !.row = k, !.to = s] = [x EXCEPT !.row = k, !.to = s, !.pc = "write"]
    OBVIOUS
  <2>4. Asking([x EXCEPT !.row = k, !.to = s, !.pc = "write"])
    BY <1>1, <2>1, AskingAimed DEF Stages
  <2> QED
    BY <1>3, <2>2, <2>3, <2>4
<1>9. ASSUME ReadAgent(o) PROVE \E y : Asking(y) /\ Go(o, y)
  <2>1. x.op \in {"pause", "resume"}
    BY <1>9 DEF ReadAgent
  <2>2. \E k \in DOMAIN incs : \E to \in {"none", "healthy", "paused"} : \E pc \in {"audit", "write"} :
          Go(o, [x EXCEPT !.row = k, !.to = to, !.pc = pc])
    BY <1>9 DEF ReadAgent
  <2> QED
    BY <1>1, <2>1, <2>2, AskingAimed DEF Stages
<1>10. ASSUME LookForPolicy(o) PROVE \E y : Asking(y) /\ Go(o, y)
  <2>1. x.op = "block"
    BY <1>10 DEF LookForPolicy
  <2>2. \E k \in DOMAIN incs : \E to \in Tools \cup {"none"} : \E pc \in {"audit", "write"} :
          Go(o, [x EXCEPT !.row = k, !.to = to, !.pc = pc])
    BY <1>10 DEF LookForPolicy
  <2> QED
    BY <1>1, <2>1, <2>2, AskingAimed DEF Stages
<1>11. ASSUME WritePolicy(o) PROVE \E y : Asking(y) /\ Go(o, y)
  <2>1. End(o, "policy") \/ Go(o, [x EXCEPT !.pc = "audit"])
    BY <1>11 DEF WritePolicy
  <2> QED
    BY <1>1, <1>3, <2>1, AskingGoes DEF Stages
<1>12. ASSUME WriteStatus(o) \/ WriteAgent(o) \/ AuditAction(o) PROVE \E y : Asking(y) /\ Go(o, y)
  <2>1. Go(o, [x EXCEPT !.pc = "commit"]) \/ Go(o, [x EXCEPT !.pc = "audit"])
    BY <1>12 DEF WriteStatus, WriteAgent, AuditAction
  <2> QED
    BY <1>1, <2>1, AskingGoes DEF Stages
<1>13. ASSUME Notify(o) \/ ResolveThreat(o) PROVE \E y : Asking(y) /\ Go(o, y)
  <2>1. \E k \in Nat : Go(o, [x EXCEPT !.pc = "audit", !.row = k]) \/ Go(o, [x EXCEPT !.pc = "commit", !.row = k])
    BY <1>1, <1>13 DEF Notify, ResolveThreat
  <2> QED
    BY <1>1, <2>1, AskingPlaced DEF Stages
<1> QED
  BY <1>4, <1>5, <1>6, <1>7, <1>8, <1>9, <1>10, <1>11, <1>12, <1>13 DEF Handle, Serve

LEMMA DeskedKept ==
  ASSUME Placing, Desked, Settled, Guarded, Next
  PROVE  Desked'
<1>1. Shape /\ KeysLast /\ incs \in Seq(Incident) /\ threats \in Seq(Threat)
  BY DEF Placing, Settled, Guarded
<1>2. ASSUME UNCHANGED <<agent, blocked, req>> PROVE Desked'
  BY <1>2 DEF Desked
<1>3. ASSUME NEW e \in Evals, Send(e) \/ Evaluate(e) \/ Crash(e) \/ Respond(e)
      PROVE  UNCHANGED <<agent, blocked, req>>
  <2>1. Sent(e) \/ Walk(e) \/ Abort(e) \/ CommitEval(e) \/ Respond(e)
    BY <1>1, <1>3, SendKind, EvaluationKinds
  <2> QED
    BY <2>1 DEF Sent, Walk, Abort, CommitEval, Respond, Answer, Error, GiveUp, DeskRows, deskVars
<1>4. ASSUME NEW o \in Officers, Handle(o) PROVE Desked'
  <2>1. PICK y : Asking(y) /\ Go(o, y)
    BY <1>1, <1>4, ServeAsks
  <2>2. \A p \in Officers : Asking(req'[p])
    BY <1>1, <2>1, GoShape DEF Desked
  <2>3. CASE UNCHANGED <<agent, blocked>>
    BY <2>2, <2>3 DEF Desked
  <2>4. CASE Commit(o)
    <3> PICK r : r = req[o]
      OBVIOUS
    <3> PICK a : a = incs[r.row].agent
      OBVIOUS
    <3>1. Asking(r)
      BY DEF Desked
    <3>2. agent' \in [Agents -> {"healthy", "paused"}]
      <4>1. CASE r.op \in {"pause", "resume"} /\ r.to # "none"
        <5>1. agent' = [agent EXCEPT ![a] = r.to] /\ r.to \in {"healthy", "paused"}
          BY <2>4, <3>1, <4>1 DEF Commit, Asking
        <5> QED
          BY <5>1 DEF Desked
      <4>2. CASE ~(r.op \in {"pause", "resume"} /\ r.to # "none")
        BY <2>4, <4>2 DEF Commit, Desked
      <4> QED
        BY <4>1, <4>2
    <3>3. blocked' \subseteq Policy
      <4>1. CASE r.op = "block" /\ r.to # "none"
        <5> PICK t : t = r.to
          OBVIOUS
        <5>1. t \in Tools /\ r.row \in Nat
          BY <3>1, <4>1 DEF Asking, Transaction
        <5>2. [inc |-> r.row, slug |-> SlugOf[t], tool |-> t] \in Policy
          BY <5>1, SlugAssumption DEF Policy
        <5>3. blocked' = blocked \cup {[inc |-> r.row, slug |-> SlugOf[t], tool |-> t]}
          BY <2>4, <4>1 DEF Commit
        <5> QED
          BY <5>2, <5>3 DEF Desked
      <4>2. CASE ~(r.op = "block" /\ r.to # "none")
        BY <2>4, <4>2 DEF Commit, Desked
      <4> QED
        BY <4>1, <4>2
    <3> QED
      BY <2>2, <3>2, <3>3 DEF Desked
  <2>5. Started(o) \/ Work(o) \/ Commit(o)
    BY <1>1, <1>4, ServeKinds, StartKind DEF Handle
  <2> QED
    BY <2>3, <2>4, <2>5 DEF Started, Work
<1>5. ASSUME \/ Tick \/ (\E w \in Windows : Expire(w)) \/ \E i \in RequestIds : AskElsewhere(i)
             \/ \E i \in DOMAIN threats : Age(i)
      PROVE  UNCHANGED <<agent, blocked, req>>
  BY <1>5 DEF Tick, Expire, AskElsewhere, Age, deskVars
<1> QED
  BY <1>2, <1>3, <1>4, <1>5 DEF Next

\* The windows whose counter lapsed are windows, and what a call sees of its
\* check() is one of four.
Facing == {"idle", "waiting", "ran", "raised"}
Bounded == lapsed \subseteq Windows /\ \A e \in Evals : sdk[e] \in Facing

LEMMA BoundedKept ==
  ASSUME Placing, Bounded, Next
  PROVE  Bounded'
<1>1. Shape /\ KeysLast /\ sdk = [e \in Evals |-> sdk[e]]
  BY DEF Placing, Shape
<1>2. lapsed' \subseteq Windows
  <2>1. ASSUME NEW w \in Windows, Expire(w) PROVE lapsed' \subseteq Windows
    BY <2>1 DEF Expire, Bounded
  <2>2. ASSUME NEW e \in Evals, Consume(e) PROVE lapsed' = lapsed
    BY <2>2 DEF Consume
  <2>3. ASSUME Tick PROVE lapsed' = lapsed
    BY <2>3 DEF Tick
  <2> QED
    BY <2>1, <2>2, <2>3, LimiterSteps DEF Bounded
<1>3. ASSUME NEW e \in Evals, NEW v \in Facing, sdk' = [sdk EXCEPT ![e] = v]
      PROVE  \A f \in Evals : sdk'[f] \in Facing
  BY <1>1, <1>3 DEF Bounded
<1>4. ASSUME NEW e \in Evals, Sent(e) \/ Respond(e) PROVE \E v \in Facing : sdk' = [sdk EXCEPT ![e] = v]
  BY <1>4 DEF Sent, Respond, Answer, Error, GiveUp, Enforced, Fallback, Facing
<1>5. ASSUME NEW e \in Evals, Walk(e) \/ Abort(e) \/ CommitEval(e) PROVE sdk' = sdk
  BY <1>1, <1>5, WalkGrabs, AbortGrabs, CommitEvalGrabs
<1>6. ASSUME UNCHANGED guardVars \/ Clock PROVE sdk' = sdk
  BY <1>6 DEF guardVars, Clock
<1>7. \A f \in Evals : sdk'[f] \in Facing
  BY <1>1, <1>3, <1>4, <1>5, <1>6, Kinds DEF Bounded
<1> QED
  BY <1>2, <1>7 DEF Bounded

-------------------------------------------------------------------------------
\* What the reasons, the tallies and the types need besides.
RInv ==
  /\ Grip /\ Begun /\ Stored
  /\ Filings /\ Explained /\ Tallied
  /\ Desked /\ Bounded

Inv == IInv /\ RInv

\* To start with nothing is held, met, committed or asked for.
THEOREM InitInv == InitGuard => Inv
<1> SUFFICES ASSUME InitGuard PROVE Inv
  OBVIOUS
<1>1. /\ ev = [e \in Evals |-> Quiet] /\ sdk = [e \in Evals |-> "idle"] /\ lapsed = {}
      /\ req = [o \in Officers |-> Blank] /\ agent = [a \in Agents |-> "healthy"] /\ blocked = {}
      /\ held = [p \in Procs |-> {}] /\ met = [p \in Procs |-> {}]
      /\ uses = [k \in Keys |-> 0] /\ prof \in Profiles /\ base = prof /\ asks = {}
  BY DEF InitGuard, Init
<1>2. /\ \A e \in Evals : ev[e] = Quiet /\ held[e] = {} /\ sdk[e] = "idle"
      /\ \A o \in Officers : req[o] = Blank
      /\ \A p \in Procs : met[p] = {}
  BY <1>1, ProcsAreDisjoint
<1>3. Grip /\ Begun
  BY <1>2, QuietShape DEF Grip, Holding, Begun
<1>4. Stored
  <2>1. uses \in [Keys -> Nat] /\ prof \in [Agents -> Profile \cup {NoProfile}]
        /\ base \in [Agents -> Profile \cup {NoProfile}]
    BY <1>1, ProfilesAssumption
  <2> QED
    BY <1>2, <2>1, QuietShape DEF Stored, Running
<1>5. Filings /\ Explained
  BY <1>1, <1>2, QuietShape DEF Filings, Explained
<1>6. Tallied
  <2>1. Committed = {}
    BY <1>2, QuietShape DEF Committed, Ok
  <2>2. IsFiniteSet(Committed) /\ Cardinality(Committed) = 0
    BY <2>1, FS_EmptySet
  <2>3. \A k : ByKey(k) = Committed
    BY <2>1 DEF ByKey
  <2>4. \A a : ByAgent(a) = Committed
    BY <2>1 DEF ByAgent
  <2>5. KeyTally
    <3>1. \A k \in Keys : uses[k] = 0
      BY <1>1
    <3> QED
      BY <1>2, <2>2, <2>3, <3>1, QuietShape DEF KeyTally, Running
  <2>6. AgentTally
    <3>1. \A a \in Agents : Total(base[a]) = Total(prof[a]) /\ Total(base[a]) \in Nat
      BY <1>1, <1>4, TotalIs DEF Stored
    <3> QED
      BY <1>2, <2>2, <2>4, <3>1, QuietShape DEF AgentTally, Running
  <2> QED
    BY <2>2, <2>5, <2>6 DEF Tallied
<1>7. Desked
  <2>1. Asking(Blank)
    BY DEF Asking, Blank, Transaction
  <2> QED
    BY <1>1, <1>2, <2>1 DEF Desked
<1>8. Bounded
  BY <1>1, <1>2 DEF Bounded, Facing
<1> QED
  BY <1>3, <1>4, <1>5, <1>6, <1>7, <1>8, InitIInv DEF Inv, RInv

\* Every step keeps it.
THEOREM NextInv == Inv /\ [Next]_vars => Inv'
<1> SUFFICES ASSUME Inv, [Next]_vars PROVE Inv'
  OBVIOUS
<1>1. IInv'
  BY NextIInv DEF Inv
<1>2. CASE Next
  <2>1. /\ Placing /\ InHand /\ AllMet /\ Answers /\ Guarded /\ Rows /\ Settled
        /\ Grip /\ Begun /\ Stored /\ Filings /\ Explained /\ Tallied /\ Desked /\ Bounded
    BY DEF Inv, IInv, RInv
  <2>2. Grip' /\ Begun' /\ Stored' /\ Desked' /\ Bounded'
    BY <1>2, <2>1, GripKept, BegunKept, StoredKept, DeskedKept, BoundedKept
  <2>3. Filings' /\ Explained' /\ Tallied'
    BY <1>2, <2>1, FilingsKept, ExplainedKept, TalliedKept
  <2> QED
    BY <1>1, <2>2, <2>3 DEF Inv, RInv
<1>3. CASE UNCHANGED vars
  <2>1. /\ UNCHANGED <<ev, held, met, req, uses, prof, asks, base, incs, lapsed, sdk, agent, blocked>>
        /\ Grip /\ Begun /\ Stored /\ Filings /\ Explained /\ KeyTally /\ AgentTally /\ IsFiniteSet(Committed)
        /\ Desked /\ Bounded
    BY <1>3 DEF vars, deskVars, guardVars, Inv, RInv, Tallied
  <2>2. Grip' /\ Begun' /\ Stored'
    BY <2>1 DEF Grip, Begun, Stored, Running, Of
  <2>3. Filings' /\ Explained'
    BY <2>1 DEF Filings, Filer, Explained, NextKey, Opener, Rival, Clash, Namesake, Of, Ok
  <2>4. Committed' = Committed
    BY <2>1 DEF Committed, Ok
  <2>5. \A k : ByKey(k)' = ByKey(k) /\ (Apart(k)' <=> Apart(k))
    BY <2>1, <2>4 DEF ByKey, Apart
  <2>6. \A a : ByAgent(a)' = ByAgent(a) /\ (Serial(a)' <=> Serial(a))
    BY <2>1, <2>4 DEF ByAgent, Serial, Of
  <2>7. KeyTally'
    BY <2>1, <2>5 DEF KeyTally, Running
  <2>8. AgentTally'
    BY <2>1, <2>6 DEF AgentTally, Total, Running, Of
  <2>9. Desked' /\ Bounded'
    BY <2>1 DEF Desked, Bounded
  <2> QED
    BY <1>1, <2>1, <2>2, <2>3, <2>4, <2>7, <2>8, <2>9 DEF Inv, RInv, Tallied
<1> QED
  BY <1>2, <1>3

\* An evaluation that fails has overlapped what made it fail, which is never a
\* request of its own API key, or has sent a request_id that another approval
\* has; for every number of requests.
THEOREM AbortsExplainedHolds == Spec => []AbortsExplained
<1>1. Inv => AbortsExplained
  BY DEF Inv, RInv, Explained, AbortsExplained, Opener, Rival, Clash, Namesake, Filer
<1> QED
  BY <1>1, InitInv, NextInv, PTL DEF Spec

\* usage_count and total_calls are exact for requests that did not overlap, the
\* profile's also for overlapping requests of one key, and usage_count never
\* exceeds what has committed.
THEOREM CountersExactHolds == Spec => []CountersExact
<1>1. Inv => CountersExact
  <2> SUFFICES ASSUME Inv PROVE CountersExact
    OBVIOUS
  <2>1. KeyTally /\ AgentTally
    BY DEF Inv, RInv, Tallied
  <2> DEFINE met2 == {m \in Evals \X Evals : m[2] \in met[m[1]]}
  <2>2. \A e, f \in Evals : f \in met[e] => <<e, f>> \in met2
    OBVIOUS
  <2>3. ASSUME NEW k \in Keys, \A m \in met2 : ev[m[1]].key # k \/ ev[m[2]].key # k
        PROVE  Apart(k)
    <3> SUFFICES ASSUME NEW e \in Evals, NEW f \in Evals, f \in met[e]
                 PROVE  ev[e].key # k \/ ev[f].key # k
      BY DEF Apart
    <3> PICK m : m = <<e, f>>
      OBVIOUS
    <3>1. m \in met2 /\ m[1] = e /\ m[2] = f
      BY <2>2
    <3> HIDE DEF met2
    <3> QED
      BY <2>3, <3>1
  <2>4. ASSUME NEW a \in Agents, \A m \in met2 : ev[m[1]].key = ev[m[2]].key \/ Of(m[1]) # a \/ Of(m[2]) # a
        PROVE  Serial(a)
    <3> SUFFICES ASSUME NEW e \in Evals, NEW f \in Evals, f \in met[e]
                 PROVE  ev[e].key = ev[f].key \/ Of(e) # a \/ Of(f) # a
      BY DEF Serial
    <3> PICK m : m = <<e, f>>
      OBVIOUS
    <3>1. m \in met2 /\ m[1] = e /\ m[2] = f
      BY <2>2
    <3> HIDE DEF met2
    <3> QED
      BY <2>4, <3>1
  <2> HIDE DEF met2
  <2>5. \A k \in Keys :
          /\ uses[k] <= Cardinality(ByKey(k))
          /\ (\A m \in met2 : ev[m[1]].key # k \/ ev[m[2]].key # k) => uses[k] = Cardinality(ByKey(k))
    BY <2>1, <2>3 DEF KeyTally
  <2>6. \A a \in Agents :
          (\A m \in met2 : ev[m[1]].key = ev[m[2]].key \/ Of(m[1]) # a \/ Of(m[2]) # a)
            => Total(prof[a]) = Total(base[a]) + Cardinality(ByAgent(a))
    BY <2>1, <2>4 DEF AgentTally
  <2> QED
    BY <2>5, <2>6 DEF CountersExact, met2, ByKey, ByAgent, Committed, Total
<1> QED
  BY <1>1, InitInv, NextInv, PTL DEF Spec

\* Every variable of the guard and of the officers' desk keeps its type.
THEOREM TypeCorrect == Spec => []TypeOK
<1>1. Inv => TypeOK
  <2> SUFFICES ASSUME Inv PROVE TypeOK
    OBVIOUS
  <2>1. /\ Shape /\ InHand /\ Guarded /\ Settled /\ Counted /\ Begun /\ Stored /\ Filings /\ Desked /\ Bounded
    BY DEF Inv, IInv, RInv, Placing
  <2>2. req \in [Officers -> Transaction]
    BY <2>1 DEF Shape, Desked, Asking
  <2>3. met \in [Procs -> SUBSET Procs]
    BY <2>1 DEF Shape, Begun
  <2>4. DeskTypeOK
    BY <2>1, <2>2, <2>3 DEF DeskTypeOK, Desked, Guarded, Settled
  <2>5. bucket \in [Windows -> Nat] /\ window \in Windows /\ lapsed \subseteq Windows
    BY <2>1 DEF Counted, Bounded
  <2>6. \A e \in Evals :
          /\ ev[e].pc # "idle" => ev[e].call \in Contents /\ ev[e].key \in Keys
          /\ ev[e].snap \in Profile \cup {NoProfile}
          /\ ev[e].dec \in Decisions \cup {"none"}
          /\ sdk[e] \in {"idle", "waiting", "ran", "raised"}
    BY <2>1 DEF InHand, Stored, Bounded, Facing
  <2> QED
    BY <2>1, <2>4, <2>5, <2>6 DEF TypeOK, Stored, Filings
<1> QED
  BY <1>1, InitInv, NextInv, PTL DEF Spec
=============================================================================
