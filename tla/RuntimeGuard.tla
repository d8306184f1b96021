---------------------------- MODULE RuntimeGuard ----------------------------
(***************************************************************************)
(* One guarded tool call, from the SDK's check() to the commit of the      *)
(* evaluation (packages/sdk-python, apps/api/agentguard_api/runtime,       *)
(* detection, billing).                                                    *)
(*                                                                         *)
(* Every e \in Evals is one call of an agent's SDK and the request it      *)
(* makes.  The request authenticates with an API key, whose row it locks;  *)
(* decides on what it reads then; consumes a rate-limit budget in Redis;   *)
(* writes an audit row unless the decision is ALLOW; meters; adds the call *)
(* to the agent's profile; raises a threat, perhaps with an incident; and  *)
(* commits.  Officers (module Incidents) work on the same rows meanwhile.  *)
(* The policies, the DLP scan and the risk score are an input here: each   *)
(* call has an outcome (module PolicyDecision says how it comes about).    *)
(***************************************************************************)
EXTENDS Incidents

CONSTANTS Keys,         \* API keys
          Contents,     \* the calls the agents may make
          NoProfile,    \* an agent has no profile row
          Profiles,     \* the profiles they may start with
          FailMode,     \* Evals -> {"open", "closed"}: of the SDK that calls
          ColdStart,    \* calls before a baseline counts (_COLD_START_MIN)
          Budget,       \* max of the rate-limit rule
          LastWindow,   \* bound: rate-limit windows are 0..LastWindow
          MaxRequests   \* bound: evaluations and officers' requests together

Decisions == {"allow", "redact", "rate_limit", "approval", "deny"}
FailModes == {"open", "closed"}
Dests     == {c.dest : c \in Contents}
Classes   == {c.class : c \in Contents}
Nothing   == "none"

\* The request_ids that clients send; one that is not sent is made up.
RequestIds == {c.id : c \in Contents} \ {Nothing}

Content == [agent : Agents, tool : Tools, vol : Nat, dest : STRING, class : STRING, id : STRING,
            outcome : Decisions, hot : BOOLEAN]
Profile == [calls : Nat, counts : [Tools -> Nat], vol : [Tools -> Nat],
            dests : SUBSET Dests, classes : SUBSET Classes, recent : Seq(Tools)]

ASSUME ContentAssumption == \A c \in Contents : c \in Content
\* What an agent may start with is a profile or none, which are told apart.
ASSUME ProfilesAssumption ==
  NoProfile \notin Profile /\ Profiles \subseteq [Agents -> Profile \cup {NoProfile}]
ASSUME FailModeAssumption == FailMode \in [Evals -> FailModes]
ASSUME BudgetAssumption  == Budget \in Nat /\ LastWindow \in Nat /\ ColdStart \in Nat

VARIABLES
  uses,       \* committed usage_count of every key
  prof,       \* the committed behavior profile of every agent
  base,       \* history: the profiles they started with
  asks,       \* the request_ids with a committed approval, and who filed it
  window,     \* the current rate-limit window
  bucket,     \* the Redis counter of every window
  ev,         \* the evaluations
  sdk,        \* the calls, as the agent's process sees them
  out,        \* effects outside the database: meters and published events
  spent,      \* history: calls each window's counter let through
  lapsed      \* history: windows whose counter expired with calls still coming

guardVars == <<uses, prof, asks, base, window, bucket, ev, sdk, out, spent, lapsed>>
vars == <<deskVars, guardVars>>

Windows == 0 .. LastWindow
Quiet   == [pc |-> "idle", call |-> [agent |-> "none"], key |-> "none", uses |-> 0,
            snap |-> NoProfile, win |-> 0, dec |-> "none", score |-> 0, raise |-> "none",
            row |-> 0, end |-> "none"]

InitGuard ==
  /\ Init
  /\ uses = [k \in Keys |-> 0] /\ prof \in Profiles /\ base = prof /\ asks = {}
  /\ window = 0 /\ bucket = [w \in Windows |-> 0]
  /\ ev = [e \in Evals |-> Quiet] /\ sdk = [e \in Evals |-> "idle"]
  /\ out = {} /\ spent = [w \in Windows |-> {}] /\ lapsed = {}

-----------------------------------------------------------------------------
\* The baseline and how far a call deviates from it.

Larger(m, n)  == IF m > n THEN m ELSE n
Smaller(m, n) == IF m < n THEN m ELSE n

LoopLen == 5

\* score_anomaly(): 60 is anomalous, 85 opens an incident.
Score(p, c) ==
  IF p = NoProfile \/ p.calls < ColdStart THEN 10
  ELSE LET seen  == p.counts[c.tool]
           top   == p.vol[c.tool]
           novel == IF seen = 0 THEN 45 ELSE IF 100 * seen < 3 * p.calls THEN 12 ELSE 0
           spike == IF c.vol > Larger(3 * top, 500)
                    THEN Smaller(50, 15 + (2 * c.vol) \div Larger(top, 1)) ELSE 0
           away  == IF c.dest # Nothing /\ p.dests # {} /\ c.dest \notin p.dests THEN 25 ELSE 0
           class == IF c.class # Nothing /\ p.classes # {} /\ c.class \notin p.classes
                    THEN 18 ELSE 0
           loop  == IF Len(p.recent) >= LoopLen /\ \A i \in DOMAIN p.recent : p.recent[i] = c.tool
                    THEN 30 ELSE 0
       IN Smaller(100, novel + spike + away + class + loop)

Anomalous(s) == s >= 60
Severe(e)    == ev[e].score >= 85 \/ ev[e].call.hot

Fresh == [calls |-> 0, counts |-> [t \in Tools |-> 0], vol |-> [t \in Tools |-> 0],
          dests |-> {}, classes |-> {}, recent |-> <<>>]

LastFew(s) == SubSeq(s, Larger(1, Len(s) - LoopLen + 1), Len(s))

\* observe(): the row the session loaded, plus this call.
Learned(p, c) ==
  [calls  |-> p.calls + 1,
   counts |-> [p.counts EXCEPT ![c.tool] = @ + 1],
   vol    |-> [p.vol EXCEPT ![c.tool] = Larger(@, c.vol)],
   dests  |-> p.dests \cup ({c.dest} \ {Nothing}),
   classes |-> p.classes \cup ({c.class} \ {Nothing}),
   recent |-> LastFew(Append(p.recent, c.tool))]

\* The UPDATE names the columns that changed in the session; total_calls,
\* tool_counts and recent_sequence always do.
Written(old, snap, c) ==
  LET new == Learned(snap, c) IN
    [new EXCEPT !.vol   = IF @ # snap.vol THEN @ ELSE old.vol,
                !.dests = IF @ # snap.dests THEN @ ELSE old.dests,
                !.classes = IF @ # snap.classes THEN @ ELSE old.classes]

-----------------------------------------------------------------------------
Of(e)      == ev[e].call.agent
Running(e) == ev[e].pc \notin {"idle", "done"}
Busy == {o \in Officers : Desk(o)} \cup {e \in Evals : Running(e)}

Become(e, r) == ev' = [ev EXCEPT ![e] = r]
To(e, pc)    == Become(e, [ev[e] EXCEPT !.pc = pc])
Stop(e, how) ==
  /\ Become(e, [ev[e] EXCEPT !.pc = "done", !.end = how])
  /\ held' = [held EXCEPT ![e] = {}]

\* Bound: how many requests there have been.
Requests == Cardinality({o \in Officers : req[o].pc # "idle"})
              + Cardinality({e \in Evals : ev[e].pc # "idle"})

DeskRows  == <<agent, threats, incs, blocked, req>>
Limiter   == <<window, bucket, spent, lapsed, base>>

\* Effects that no rollback takes back.  Delivery is best-effort: errors are
\* swallowed, and a slow subscriber only delays the request.
Publish(what, e) == {<<what, e>>}
Meter(what, e)   == {<<what, e>>}
Emit(e)          == {<<"decision", e>>}

\* The key's row is read; its usage_count will be assigned from this value.
Authenticated(c, k) ==
  [Quiet EXCEPT !.pc = "core", !.call = c, !.key = k, !.uses = uses[k]]

\* check() is called and sends the request.
Send(e) ==
  /\ ev[e].pc = "idle" /\ Requests < MaxRequests
  /\ \E c \in Contents, k \in Keys :
       /\ Become(e, Authenticated(c, k))
       /\ sdk' = [sdk EXCEPT ![e] = "waiting"]
  /\ Meet(e, Busy)
  /\ UNCHANGED <<DeskRows, held, uses, prof, asks, Limiter, out>>

KeyFree_Ignored(e) == TRUE
KeyFree(e) == Free(e, <<"row", ev[e].key>>)

\* The first query after the key's counter is assigned flushes the UPDATE and
\* so waits for the key's row; then core_decision reads everything else.  A
\* tool blocked by an incident is denied once the policy cache shows it.
Core(e) ==
  /\ ev[e].pc = "core"
  /\ KeyFree(e) /\ Take(e, <<"row", ev[e].key>>)
  /\ \E d \in {ev[e].call.outcome}
              \cup {"deny" : p \in {q \in blocked : q.tool = ev[e].call.tool}} :
       LET dec == IF agent[Of(e)] = "paused" THEN "deny" ELSE d IN
         Become(e, [ev[e] EXCEPT !.snap = prof[Of(e)], !.score = Score(prof[Of(e)], ev[e].call),
                                 !.dec = dec,
                                 !.pc = CASE dec = "rate_limit" -> "window"
                                          [] dec = "approval"   -> "approve"
                                          [] OTHER              -> "record"])
  /\ UNCHANGED <<DeskRows, met, uses, prof, asks, Limiter, sdk, out>>

\* check_and_consume() names the counter after the time it reads first ...
ReadWindow(e) ==
  /\ ev[e].pc = "window"
  /\ Become(e, [ev[e] EXCEPT !.pc = "consume", !.win = window])
  /\ UNCHANGED <<deskVars, uses, prof, asks, Limiter, sdk, out>>

Within_OneMore(w) == bucket[w] <= Budget
Within(w) == bucket[w] + 1 <= Budget

\* ... and increments it then.
Consume(e) ==
  /\ ev[e].pc = "consume"
  /\ LET w == ev[e].win
         within == Within(w) IN
       /\ bucket' = [bucket EXCEPT ![w] = @ + 1]
       /\ spent' = IF within THEN [spent EXCEPT ![w] = @ \cup {e}] ELSE spent
       /\ Become(e, [ev[e] EXCEPT !.pc = "record", !.dec = IF within THEN "allow" ELSE @])
  /\ UNCHANGED <<deskVars, uses, prof, asks, base, window, lapsed, sdk, out>>

\* _resolve_approval(): a live row for this very call, approved or pending,
\* answers it ...
Approve(e) ==
  /\ ev[e].pc = "approve"
  /\ \E d \in {"allow", "approval"} : Become(e, [ev[e] EXCEPT !.pc = "record", !.dec = d])
  /\ UNCHANGED <<deskVars, uses, prof, asks, Limiter, sdk, out>>

Filed(i) == \E r \in asks : r[1] = i

\* The request_id is unique over all organizations.
AskLock(e) ==
  IF ev[e].call.id = Nothing THEN {} ELSE {<<"ask", ev[e].call.id>>}

\* ... otherwise a row is inserted for it, under the request's id; an insert
\* of that id under way is waited for.
Ask(e) ==
  /\ ev[e].pc = "approve"
  /\ \A l \in AskLock(e) : Free(e, l)
  /\ IF Filed(ev[e].call.id)
     THEN Stop(e, "ask")
     ELSE /\ held' = [held EXCEPT ![e] = @ \cup AskLock(e)]
          /\ Become(e, [ev[e] EXCEPT !.pc = "record", !.dec = "approval"])
  /\ UNCHANGED <<DeskRows, met, uses, prof, asks, Limiter, sdk, out>>

\* Another organization files an approval under an id; it does so just before
\* the id is asked for here, as it matters to nothing else.
AskElsewhere(i) ==
  /\ \E e \in Evals : ev[e].pc = "approve" /\ ev[e].call.id = i
  /\ ~Filed(i) /\ \A p \in Procs : <<"ask", i>> \notin held[p]
  /\ asks' = asks \cup {<<i, "elsewhere">>}
  /\ UNCHANGED <<deskVars, uses, prof, Limiter, ev, sdk, out>>

\* The decision goes to ClickHouse; then the audit row, under the organization's
\* lock, and the meter.
Record(e) ==
  /\ ev[e].pc = "record"
  /\ IF ev[e].dec = "allow" THEN UNCHANGED held
     ELSE AuditFree(e) /\ Take(e, <<"audit", 0>>)
  /\ out' = out \cup Emit(e) \cup Meter("actions", e)
  /\ To(e, IF ev[e].snap = NoProfile THEN "reload" ELSE "learn")
  /\ UNCHANGED <<DeskRows, met, uses, prof, asks, Limiter, sdk>>

\* observe() looks the profile up again; the session returns the row it has
\* loaded already, so only a row that was missing is read.
Reload(e) ==
  /\ ev[e].pc = "reload"
  /\ Become(e, [ev[e] EXCEPT !.pc = "learn", !.snap = prof[Of(e)]])
  /\ UNCHANGED <<deskVars, uses, prof, asks, Limiter, sdk, out>>

ProfileFree_Ignored(e) == TRUE
ProfileFree(e) == Free(e, <<"profile", Of(e)>>)

\* The flush of observe(): an UPDATE of the row, or the INSERT of the only row
\* an agent may have.  The dedupe query for a threat follows.
Learn(e) ==
  /\ ev[e].pc = "learn"
  /\ ProfileFree(e)
  /\ IF ev[e].snap = NoProfile /\ prof[Of(e)] # NoProfile
     THEN Stop(e, "profile")
     ELSE Take(e, <<"profile", Of(e)>>)
          /\ To(e, IF Anomalous(ev[e].score) THEN "threat" ELSE "finish")
  /\ UNCHANGED <<DeskRows, met, uses, prof, asks, Limiter, sdk, out>>

OpenThreats_Any(a) == {i \in DOMAIN threats : threats[i].agent = a /\ threats[i].recent}
OpenThreats(a) ==
  {i \in DOMAIN threats : threats[i].agent = a /\ threats[i].open /\ threats[i].recent}

\* raise_behavioral_threat(): a recent open threat of the agent is updated,
\* otherwise a new one is inserted.
Detect(e) ==
  /\ ev[e].pc = "threat"
  /\ IF OpenThreats(Of(e)) # {}
     THEN Become(e, [ev[e] EXCEPT !.pc = "finish", !.raise = "fold"])
     ELSE Become(e, [ev[e] EXCEPT !.pc = "alarm", !.raise = "new"])
  /\ UNCHANGED <<deskVars, uses, prof, asks, Limiter, sdk, out>>

Announced_Early(e) == Publish("threat", e) \cup Publish("incident", e)
Announced(e) == Publish("threat", e)

\* The threat's audit row and event; a severe one opens an incident, whose key
\* is counted under the audit lock.
Alarm(e) ==
  /\ ev[e].pc = "alarm"
  /\ AuditFree(e) /\ Take(e, <<"audit", 0>>)
  /\ out' = out \cup Announced(e)
  /\ Become(e, [ev[e] EXCEPT !.pc = IF Severe(e) THEN "open" ELSE "finish",
                             !.row = IF Severe(e) THEN NextKey ELSE 0])
  /\ UNCHANGED <<DeskRows, met, uses, prof, asks, Limiter, sdk>>

OpenIncident(e) ==
  /\ ev[e].pc = "open"
  /\ Free(e, <<"key", ev[e].row>>)
  /\ IF ev[e].row \in DOMAIN incs
     THEN Stop(e, "key") /\ UNCHANGED out
     ELSE Take(e, <<"key", ev[e].row>>) /\ To(e, "finish")
          /\ out' = out \cup Publish("incident", e)
  /\ UNCHANGED <<DeskRows, met, uses, prof, asks, Limiter, sdk>>

\* A denial is metered and published, an approval published; the handler
\* returns.
Finish(e) ==
  /\ ev[e].pc = "finish"
  /\ out' = CASE ev[e].dec = "deny"     -> out \cup Meter("denials", e) \cup Publish("blocked", e)
              [] ev[e].dec = "approval" -> out \cup Publish("asked", e)
              [] OTHER                  -> out
  /\ To(e, "commit")
  /\ UNCHANGED <<deskVars, uses, prof, asks, Limiter, sdk>>

\* get_session() commits what the evaluation has written.
CommitEval(e) ==
  /\ ev[e].pc = "commit"
  /\ uses' = [uses EXCEPT ![ev[e].key] = ev[e].uses + 1]
  /\ LET c == ev[e].call IN
       prof' = [prof EXCEPT ![Of(e)] = IF ev[e].snap = NoProfile THEN Learned(Fresh, c)
                                       ELSE Written(@, ev[e].snap, c)]
  /\ asks' = IF AskLock(e) \cap held[e] = {} THEN asks ELSE asks \cup {<<ev[e].call.id, e>>}
  /\ threats' = IF ev[e].raise = "new" THEN Append(threats, [agent |-> Of(e), open |-> TRUE, recent |-> TRUE])
                ELSE threats
  /\ incs' = IF ev[e].row > 0 THEN Append(incs, NewIncident(Of(e))) ELSE incs
  /\ Stop(e, "ok")
  /\ UNCHANGED <<agent, blocked, req, met, Limiter, sdk, out>>

-----------------------------------------------------------------------------
\* The lock the next step of a transaction asks for.
Wants(e) ==
  CASE ev[e].pc = "core"   -> {<<"row", ev[e].key>>}
    [] ev[e].pc = "approve" -> AskLock(e)
    [] ev[e].pc = "record" -> IF ev[e].dec = "allow" THEN {} ELSE {<<"audit", 0>>}
    [] ev[e].pc = "learn"  -> {<<"profile", Of(e)>>}
    [] ev[e].pc = "alarm"  -> {<<"audit", 0>>}
    [] ev[e].pc = "open"   -> {<<"key", ev[e].row>>}
    [] OTHER               -> {}

WaitsFor(e, f) == e # f /\ Wants(e) \cap held[f] # {}

\* PostgreSQL ends one of two transactions that wait for each other.
Victim(e) ==
  /\ \E f \in Evals : WaitsFor(e, f) /\ WaitsFor(f, e)
  /\ Stop(e, "deadlock")
  /\ UNCHANGED <<DeskRows, met, uses, prof, asks, Limiter, sdk, out>>

\* The API process dies, or loses the database, before the commit.
Crash(e) ==
  /\ Running(e)
  /\ Stop(e, "crash")
  /\ UNCHANGED <<DeskRows, met, uses, prof, asks, Limiter, sdk, out>>

\* Time passes; a counter expires one window after its first increment, which
\* is in the window that follows its own.
Tick ==
  /\ window < LastWindow
  /\ window' = window + 1
  /\ UNCHANGED <<deskVars, uses, prof, asks, base, bucket, spent, lapsed, ev, sdk, out>>

Expire(w) ==
  /\ w < window /\ bucket[w] > 0
  /\ bucket' = [bucket EXCEPT ![w] = 0]
  /\ lapsed' = IF \E e \in Evals : ev[e].pc = "consume" /\ ev[e].win = w
               THEN lapsed \cup {w} ELSE lapsed
  /\ UNCHANGED <<deskVars, uses, prof, asks, base, window, spent, ev, sdk, out>>

Enforced(dec) == IF dec \in {"allow", "redact"} THEN "ran" ELSE "raised"

\* The answer reaches the SDK.  FastAPI sends it before or after the session
\* dependency commits, depending on its version.
Answer(e) ==
  /\ sdk[e] = "waiting" /\ (ev[e].pc = "commit" \/ ev[e].end = "ok")
  /\ sdk' = [sdk EXCEPT ![e] = Enforced(ev[e].dec)]
  /\ UNCHANGED <<deskVars, uses, prof, asks, Limiter, ev, out>>

\* HTTP 500: AgentGuardError, which no fail mode turns into an answer.
Error(e) ==
  /\ sdk[e] = "waiting" /\ ev[e].end \in {"ask", "profile", "key", "deadlock"}
  /\ sdk' = [sdk EXCEPT ![e] = "raised"]
  /\ UNCHANGED <<deskVars, uses, prof, asks, Limiter, ev, out>>

Fallback_Ran(e) == "ran"
Fallback(e) == IF FailMode[e] = "open" THEN "ran" ELSE "raised"

\* The request times out or the connection breaks: RuntimeUnavailable, and the
\* fail mode decides.  The API does not learn of it.
GiveUp(e) ==
  /\ sdk[e] = "waiting"
  /\ sdk' = [sdk EXCEPT ![e] = Fallback(e)]
  /\ UNCHANGED <<deskVars, uses, prof, asks, Limiter, ev, out>>

Evaluate(e) ==
  \/ Core(e) \/ ReadWindow(e) \/ Consume(e) \/ Approve(e) \/ Ask(e) \/ Record(e)
  \/ Reload(e) \/ Learn(e) \/ Detect(e) \/ Alarm(e) \/ OpenIncident(e) \/ Finish(e) \/ CommitEval(e)
  \/ Victim(e)

Respond(e) == Answer(e) \/ Error(e) \/ GiveUp(e)

Handle(o) ==
  /\ \/ Requests < MaxRequests /\ \E op \in Ops : Start(o, op, Busy)
     \/ Serve(o)
  /\ UNCHANGED guardVars

Next ==
  \/ \E o \in Officers : Handle(o)
  \/ \E e \in Evals : Send(e) \/ Evaluate(e) \/ Crash(e) \/ Respond(e)
  \/ \E i \in DOMAIN threats : Age(i) /\ UNCHANGED guardVars
  \/ \E i \in RequestIds : AskElsewhere(i)
  \/ Tick \/ \E w \in Windows : Expire(w)

Spec == InitGuard /\ [][Next]_vars

-----------------------------------------------------------------------------
Ok(e) == ev[e].end = "ok"

TypeOK ==
  /\ DeskTypeOK
  /\ uses \in [Keys -> Nat] /\ prof \in [Agents -> Profile \cup {NoProfile}]
  /\ asks \subseteq RequestIds \X (Evals \cup {"elsewhere"})
  /\ bucket \in [Windows -> Nat] /\ window \in Windows /\ lapsed \subseteq Windows
  /\ \A e \in Evals :
       /\ ev[e].pc # "idle" => ev[e].call \in Contents /\ ev[e].key \in Keys
       /\ ev[e].snap \in Profile \cup {NoProfile}
       /\ ev[e].dec \in Decisions \cup {"none"}
       /\ sdk[e] \in {"idle", "waiting", "ran", "raised"}

\* No agent ever has two recent open threats, although nothing but the
\* profile's row lock, taken by an unrelated statement just before, keeps two
\* evaluations from both finding none (incidents/service.py:97).
OneOpenThreat == \A a \in Agents : Cardinality(OpenThreats(a)) <= 1

\* An evaluation that fails has a cause among the officers, the evaluations and
\* the ids in use: an incident opened by hand took its key; another key's request
\* inserted the profile first; the two waited for each other's lock, one of them
\* with an alarm to audit; or its request_id has an approval already, filed
\* elsewhere or, overlapping or long before, by another request that sent that
\* id, of the same key or not (models/approval.py:23).  But for such an id
\* requests of one API key never fail each other.
AbortsExplained ==
  \A e \in Evals :
    /\ ev[e].end = "key" => \E o \in met[e] \cap Officers : req[o].op = "open"
    /\ ev[e].end = "profile" =>
         \E f \in met[e] \cap Evals : ev[f].key # ev[e].key /\ Ok(f)
    /\ ev[e].end = "deadlock" =>
         \E f \in met[e] \cap Evals :
           ev[f].key # ev[e].key /\ \E g \in {e, f} : ev[g].raise = "new"
    /\ ev[e].end = "ask" =>
         /\ ev[e].call.id # Nothing
         /\ \/ <<ev[e].call.id, "elsewhere">> \in asks
            \/ \E f \in Evals \ {e} :
                 Ok(f) /\ ev[f].dec = "approval" /\ ev[f].call.id = ev[e].call.id

\* usage_count and the profile's total are assigned from values read earlier.
\* They are exact all the same for requests that did not overlap, and the
\* profile also for overlapping requests of one key, which its row serialises.
CountersExact ==
  LET ok == {e \in Evals : Ok(e)}
      of(k) == {e \in ok : ev[e].key = k}
      total(p) == IF p = NoProfile THEN 0 ELSE p.calls
      met2 == {m \in Evals \X Evals : m[2] \in met[m[1]]}
  IN /\ \A k \in Keys :
          /\ uses[k] <= Cardinality(of(k))
          /\ (\A m \in met2 : ev[m[1]].key # k \/ ev[m[2]].key # k)
               => uses[k] = Cardinality(of(k))
     /\ \A a \in Agents :
          (\A m \in met2 : ev[m[1]].key = ev[m[2]].key \/ Of(m[1]) # a \/ Of(m[2]) # a)
            => total(prof[a]) = total(base[a]) + Cardinality({e \in ok : Of(e) = a})

\* A window lets through at most its budget, unless its counter expired
\* between a call's reading of the clock and its INCR (ratelimit.py:37-41).
WithinBudget ==
  \A w \in Windows : Cardinality(spent[w]) > Budget => w \in lapsed

\* With fail mode closed a tool runs only on an answer that permits it, however
\* the timeout and the evaluation race.
FailClosed ==
  \A e \in Evals :
    sdk[e] = "ran" /\ FailMode[e] = "closed" =>
      ev[e].dec \in {"allow", "redact"} /\ ev[e].end \in {"none", "ok", "crash"}

\* Subscribers hear of an incident that is not there only when the process died
\* after the event; of a threat that is not there also when its incident's key
\* was taken (the event precedes the insert).
PhantomEvents ==
  \A e \in Evals : ev[e].pc = "done" =>
    /\ <<"incident", e>> \in out => ev[e].end \in {"ok", "crash"}
    /\ <<"threat", e>> \in out => ev[e].end \in {"ok", "crash", "key"}
    /\ Ok(e) /\ ev[e].dec = "deny" => <<"blocked", e>> \in out

\* When an anomalous call commits there is an open threat for people to see,
\* unless one was being resolved meanwhile.
AnomalyIsVisible ==
  [][\A e \in Evals :
       ~Ok(e) /\ Ok(e)' /\ Anomalous(ev[e].score) =>
         \/ \E i \in DOMAIN threats' : threats'[i].agent = Of(e) /\ threats'[i].open
         \/ \E o \in met[e] \cap Officers : req[o].op = "resolve"]_vars
=============================================================================
