------------------------------ MODULE Incidents ------------------------------
(***************************************************************************)
(* Incidents, threats and the response to them                             *)
(* (apps/api/agentguard_api/incidents).                                    *)
(*                                                                         *)
(* One organization and its agents.  Every officer o \in Officers makes one *)
(* request: open an incident by hand, move one to another status, pause or *)
(* resume the agent, block a tool, resolve a threat.  A request is one     *)
(* READ COMMITTED transaction: it reads what is committed, then writes     *)
(* under row locks it keeps until it commits.  Runtime evaluations (module *)
(* RuntimeGuard) are transactions over the same rows and locks: held and   *)
(* met range over both.  Rows are never deleted, so an incident's key      *)
(* INC-n is its position n in incs.                                        *)
(***************************************************************************)
EXTENDS Naturals, Sequences, FiniteSets

CONSTANTS Agents,
          Officers,     \* requests of people who handle incidents
          Evals,        \* runtime evaluations
          Tools,        \* tool names
          Slugs,        \* what a tool's name is cut down to in a policy key
          SlugOf,       \* Tools -> Slugs
          Standing,     \* the incidents there are at the start
          Earlier       \* the behavioral threats there may be

Procs == Officers \cup Evals

ASSUME OfficersAssumption == Officers \cap Evals = {}
ASSUME SlugAssumption     == SlugOf \in [Tools -> Slugs]

Statuses == {"detected", "investigating", "contained", "resolved", "closed"}
Stamped  == {"contained", "resolved", "closed"}
Ops      == {"open", "move", "pause", "resume", "block", "notify", "resolve"}

\* Which status may follow which.
Transitions_Reopen ==
  [s \in Statuses |-> Statuses \ {s, "detected"}]

Transitions ==
  [s \in Statuses |->
     CASE s = "detected"      -> {"investigating", "contained", "closed"}
       [] s = "investigating" -> {"contained", "resolved", "closed"}
       [] s = "contained"     -> {"resolved", "closed"}
       [] s = "resolved"      -> {"closed", "investigating"}
       [] s = "closed"        -> {}]

Incident == [agent : Agents, status : Statuses, stamps : SUBSET Stamped]
Threat   == [agent : Agents, open : BOOLEAN, recent : BOOLEAN]
Policy   == [inc : Nat, slug : Slugs, tool : Tools]

\* To start with closed incidents are closed, and an agent has one threat that
\* is open and recent at most.
ASSUME StandingAssumption ==
  Standing \in Seq(Incident) /\ \A i \in DOMAIN Standing :
    "closed" \in Standing[i].stamps => Standing[i].status = "closed"
ASSUME EarlierAssumption ==
  \A s \in Earlier :
    s \in Seq(Threat) /\ \A i, j \in {k \in DOMAIN s : s[k].open /\ s[k].recent} :
      s[i].agent = s[j].agent => i = j

VARIABLES
  agent,      \* the committed status of every agent
  threats,    \* behavioral threats, oldest first
  incs,       \* incidents, by key
  blocked,    \* the deny policies block_tool has added
  req,        \* the officers' transactions
  held,       \* the locks every transaction holds
  met         \* history: the transactions each one has overlapped

deskVars == <<agent, threats, incs, blocked, req, held, met>>

Blank == [op |-> "none", pc |-> "idle", row |-> 0, to |-> "none", end |-> "none"]

NewIncident(a) == [agent |-> a, status |-> "detected", stamps |-> {}]

Init ==
  /\ agent = [a \in Agents |-> "healthy"] /\ threats \in Earlier /\ blocked = {}
  /\ incs = Standing
  /\ req = [o \in Officers |-> Blank]
  /\ held = [p \in Procs |-> {}]
  /\ met = [p \in Procs |-> {}]

\* No other transaction holds l.
Free(p, l) == \A q \in Procs \ {p} : l \notin held[q]

AuditFree_Ignored(p) == TRUE
AuditFree(p) == Free(p, <<"audit", 0>>)

Take(p, l) == held' = [held EXCEPT ![p] = @ \cup {l}]

\* p starts while the transactions in busy are under way.
Meet(p, busy) ==
  met' = [q \in Procs |-> IF q = p THEN met[q] \cup busy
                          ELSE IF q \in busy THEN met[q] \cup {p} ELSE met[q]]

Desk(o)  == req[o].pc \notin {"idle", "done"}
Go(o, r) == req' = [req EXCEPT ![o] = r]
End(o, how) ==
  /\ Go(o, [req[o] EXCEPT !.pc = "done", !.end = how])
  /\ held' = [held EXCEPT ![o] = {}]

\* The key the next incident gets: how many there are, plus one.
NextKey_Count == Len(incs)
NextKey == Len(incs) + 1

-----------------------------------------------------------------------------
\* A request arrives; busy are the transactions under way.
Start(o, op, busy) ==
  /\ req[o].pc = "idle"
  /\ Go(o, [Blank EXCEPT !.op = op, !.pc = "read"])
  /\ Meet(o, busy)
  /\ UNCHANGED <<agent, threats, incs, blocked, held>>

\* create_incident counts the incidents.
CountForOpen(o) ==
  /\ req[o].pc = "read" /\ req[o].op = "open"
  /\ Go(o, [req[o] EXCEPT !.pc = "write", !.row = NextKey])
  /\ UNCHANGED <<agent, threats, incs, blocked, held, met>>

\* ... and inserts under that key, waiting for another insert of it to end.
Insert(o) ==
  /\ req[o].pc = "write" /\ req[o].op = "open"
  /\ Free(o, <<"key", req[o].row>>)
  /\ IF req[o].row \in DOMAIN incs
     THEN End(o, "key")
     ELSE Take(o, <<"key", req[o].row>>) /\ Go(o, [req[o] EXCEPT !.pc = "commit"])
  /\ UNCHANGED <<agent, threats, incs, blocked, met>>

\* The request names no row of this organization: 404.
Missing(o) ==
  /\ req[o].pc = "read" /\ req[o].op # "open"
  /\ End(o, "refused")
  /\ UNCHANGED <<agent, threats, incs, blocked, met>>

\* transition_incident loads the incident; a move the table forbids is a 409.
ReadStatus(o) ==
  /\ req[o].pc = "read" /\ req[o].op = "move"
  /\ \E k \in DOMAIN incs, s \in Statuses :
       IF s \in Transitions[incs[k].status]
       THEN Go(o, [req[o] EXCEPT !.pc = "write", !.row = k, !.to = s]) /\ UNCHANGED held
       ELSE End(o, "refused")
  /\ UNCHANGED <<agent, threats, incs, blocked, met>>

\* ... and the new status is written without looking at the row again.
WriteStatus(o) ==
  /\ req[o].pc = "write" /\ req[o].op = "move"
  /\ Free(o, <<"incident", req[o].row>>)
  /\ Take(o, <<"incident", req[o].row>>)
  /\ Go(o, [req[o] EXCEPT !.pc = "commit"])
  /\ UNCHANGED <<agent, threats, incs, blocked, met>>

\* pause_agent and resume_agent: assigning the status the row was read with
\* writes nothing.
ReadAgent(o) ==
  /\ req[o].pc = "read" /\ req[o].op \in {"pause", "resume"}
  /\ LET to == IF req[o].op = "pause" THEN "paused" ELSE "healthy" IN
       \E k \in DOMAIN incs :
         LET same == agent[incs[k].agent] = to IN
           Go(o, [req[o] EXCEPT !.row = k, !.to = IF same THEN "none" ELSE to,
                                !.pc = IF same THEN "audit" ELSE "write"])
  /\ UNCHANGED <<agent, threats, incs, blocked, held, met>>

WriteAgent(o) ==
  /\ req[o].pc = "write" /\ req[o].op \in {"pause", "resume"}
  /\ LET row == <<"agent", incs[req[o].row].agent>> IN Free(o, row) /\ Take(o, row)
  /\ Go(o, [req[o] EXCEPT !.pc = "audit"])
  /\ UNCHANGED <<agent, threats, incs, blocked, met>>

\* notify_security only leaves its event and its audit row.
Notify(o) ==
  /\ req[o].pc = "read" /\ req[o].op = "notify"
  /\ \E k \in DOMAIN incs : Go(o, [req[o] EXCEPT !.pc = "audit", !.row = k])
  /\ UNCHANGED <<agent, threats, incs, blocked, held, met>>

\* block_tool adds nothing when a policy has the key already.
LookForPolicy(o) ==
  /\ req[o].pc = "read" /\ req[o].op = "block"
  /\ \E k \in DOMAIN incs, tool \in Tools :
       LET dup == \E p \in blocked : p.inc = k /\ p.slug = SlugOf[tool] IN
         Go(o, [req[o] EXCEPT !.row = k, !.to = IF dup THEN "none" ELSE tool,
                              !.pc = IF dup THEN "audit" ELSE "write"])
  /\ UNCHANGED <<agent, threats, incs, blocked, held, met>>

WritePolicy(o) ==
  /\ req[o].pc = "write" /\ req[o].op = "block"
  /\ LET slug == SlugOf[req[o].to] IN
       /\ Free(o, <<"policy", <<req[o].row, slug>>>>)
       /\ IF \E p \in blocked : p.inc = req[o].row /\ p.slug = slug
          THEN End(o, "policy")
          ELSE /\ Take(o, <<"policy", <<req[o].row, slug>>>>)
               /\ Go(o, [req[o] EXCEPT !.pc = "audit"])
  /\ UNCHANGED <<agent, threats, incs, blocked, met>>

\* Every response action is written to the audit log, under its lock.
AuditAction(o) ==
  /\ req[o].pc = "audit"
  /\ AuditFree(o) /\ Take(o, <<"audit", 0>>)
  /\ Go(o, [req[o] EXCEPT !.pc = "commit"])
  /\ UNCHANGED <<agent, threats, incs, blocked, met>>

ResolveThreat(o) ==
  /\ req[o].pc = "read" /\ req[o].op = "resolve"
  /\ \E i \in DOMAIN threats :
       /\ Free(o, <<"threat", i>>) /\ Take(o, <<"threat", i>>)
       /\ Go(o, [req[o] EXCEPT !.pc = "commit", !.row = i])
  /\ UNCHANGED <<agent, threats, incs, blocked, met>>

Moved_StampAny(i, s) == [i EXCEPT !.status = s, !.stamps = @ \cup {s}]
Moved(i, s) == [i EXCEPT !.status = s, !.stamps = @ \cup ({s} \cap Stamped)]

Commit(o) ==
  /\ req[o].pc = "commit"
  /\ LET r == req[o] IN
       /\ incs' \in CASE r.op = "open" -> {Append(incs, NewIncident(a)) : a \in Agents}
                    [] r.op = "move" -> {[incs EXCEPT ![r.row] = Moved(@, r.to)]}
                      [] OTHER         -> {incs}
       /\ agent' = IF r.op \in {"pause", "resume"} /\ r.to # "none"
                   THEN [agent EXCEPT ![incs[r.row].agent] = r.to] ELSE agent
       /\ blocked' = IF r.op = "block" /\ r.to # "none"
                     THEN blocked \cup {[inc |-> r.row, slug |-> SlugOf[r.to], tool |-> r.to]}
                     ELSE blocked
       /\ threats' = IF r.op = "resolve" THEN [threats EXCEPT ![r.row].open = FALSE]
                     ELSE threats
  /\ End(o, "ok")
  /\ UNCHANGED met

\* The dedupe window of a threat passes.
Age(i) ==
  /\ threats[i].recent
  /\ threats' = [threats EXCEPT ![i].recent = FALSE]
  /\ UNCHANGED <<agent, incs, blocked, req, held, met>>

Serve(o) ==
  \/ Missing(o) \/ CountForOpen(o) \/ Insert(o) \/ ReadStatus(o) \/ WriteStatus(o)
  \/ ReadAgent(o) \/ WriteAgent(o) \/ Notify(o) \/ LookForPolicy(o) \/ WritePolicy(o)
  \/ AuditAction(o) \/ ResolveThreat(o) \/ Commit(o)

-----------------------------------------------------------------------------
Transaction == [op : Ops \cup {"none"}, pc : {"idle", "read", "write", "audit", "commit", "done"},
                row : Nat, to : Statuses \cup Tools \cup {"none", "healthy", "paused"},
                end : {"none", "ok", "refused", "key", "policy"}]

DeskTypeOK ==
  /\ agent \in [Agents -> {"healthy", "paused"}]
  /\ threats \in Seq(Threat) /\ incs \in Seq(Incident)
  /\ blocked \subseteq Policy
  /\ req \in [Officers -> Transaction]
  /\ met \in [Procs -> SUBSET Procs]

\* An incident that was closed stays closed, its close time being of its last
\* status, unless two moves of it overlapped: transition() checks the status
\* it has loaded and writes without a lock (incidents/service.py:193).
ClosedUnlessOverlap ==
  \A k \in DOMAIN incs :
    "closed" \in incs[k].stamps /\ incs[k].status # "closed" =>
      \E o, p \in Officers :
        /\ p \in met[o] /\ {req[o].op, req[p].op} = {"move"}
        /\ req[o].row = k /\ req[p].row = k
=============================================================================
