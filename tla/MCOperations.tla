----------------------------- MODULE MCOperations -----------------------------
(* Three techniques, two overlapping requests, and an agent that is
   ordinary, watched closely, or known for calls like these. *)
EXTENDS Operations

CONSTANTS f0, r1, r2

a == "system_prompt_extraction"
b == "denial_of_wallet"
c == "pii_leakage"

MCSubjects == {a, b, c}
MCPlans == {<<a>>, <<b>>, <<a, b>>, <<b, a>>, <<c, b>>}
MCSpecs == {[effect |-> "rate_limit", tools |-> {"llm.complete"}], [effect |-> "deny", tools |-> {"debug.dump"}]}

Row0 == [x \in Cells |->
  CASE x = AgentStatus    -> "healthy"
    [] x = Trust          -> "standard"
    [] x = Denies         -> 0
    [] x[1] = "anomaly"   -> 10
    [] OTHER              -> None]

Found(t, status) == (Finding(<<t, f0>>) :> status) @@ (Severity(<<t, f0>>) :> Techniques[t].severity)
Remedied(t) == (Spec(t) :> RemediationSpec(t)) @@ (Enabled(t) :> TRUE)
                 @@ (Id(Spec(t)) :> f0)
                 @@ (Version(t, 1) :> RemediationSpec(t)) @@ (Binding(t, f0) :> "bound")

MCStarts ==
  {g @@ Row0 : g \in
    { Found(a, "open") @@ Found(b, "open"),
      Found(a, "suppressed") @@ Remedied(a) @@ Remedied(b) @@ (Anomaly("llm.complete") :> 95),
      Found(b, "suppressed") @@ (Tool("email.send") :> "low") @@ (Scopes("email.send") :> {})
        @@ (Id(Tool("email.send")) :> f0),
      Found(b, "resolved") @@ Remedied(b) @@ (Trust :> "untrusted") @@ (Denies :> 8)
        @@ (AgentStatus :> "critical") @@ (Tool("email.send") :> "critical")
        @@ (Scopes("email.send") :> {"write"}) @@ (DataPolicy("pii") :> "restricted")
        @@ (DataAction("pii") :> "allow") @@ (DataOn("pii") :> TRUE)
        @@ (Id(Tool("email.send")) :> f0) @@ (Id(DataPolicy("pii")) :> f0) }}

Sym == Permutations({r1, r2})
=============================================================================
