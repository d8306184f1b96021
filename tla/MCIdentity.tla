------------------------------ MODULE MCIdentity ------------------------------
(* Two users with a session each, two groups, and the organizations two requests
   find: two owners; an owner and a provisioned member; and so on. *)
EXTENDS Identity, TLC

CONSTANTS u1, u2, s1, s2, g1, g2, r1, r2

Row0 == [c \in Cells |->
  CASE c[1] = "mfa"                    -> FALSE
    [] c \in {Enabled, SsoOn, Enforced} -> FALSE
    [] OTHER                           -> None]

Team(role, account) ==
  (Member(u1) :> "owner") @@ (Account(u1) :> "full") @@ (Live(s1) :> [of |-> u1, revoked |-> FALSE])
    @@ (Member(u2) :> role) @@ (Account(u2) :> account)
Session2 == Live(s2) :> [of |-> u2, revoked |-> FALSE]
Provisioning == (Token :> "issued") @@ (Enabled :> TRUE) @@ (Default :> "developer")
Sso == (SsoRole :> "developer") @@ (SsoOn :> TRUE)

MCStarts ==
  {f @@ Row0 : f \in
    { Team("owner", "full") @@ Session2,
      Team("developer", "full") @@ Session2 @@ (Key(s2) :> [by |-> u2, scopes |-> {"runtime.evaluate"}, revoked |-> FALSE])
        @@ (Mfa(u2) :> TRUE) @@ (Secret(u2) :> "proved") @@ Sso,
      Team("auditor", "full") @@ Session2 @@ Provisioning @@ (Scim(u2) :> "active")
        @@ (Group(g1) :> [name |-> "auditor", members |-> {u2}]) @@ (Secret(u2) :> "pending"),
      Team("admin", "full") @@ Session2 @@ Provisioning @@ (Scim(u2) :> "active")
        @@ (Group(g2) :> [name |-> "owner", members |-> {u2}]) @@ (Secret(u2) :> "proved")
        @@ (Mfa(u2) :> TRUE),
      Team("owner", "bare") @@ Session2 @@ Provisioning @@ (Scim(u1) :> "active") @@ (Scim(u2) :> "inactive"),
      Team(None, "bare") @@ (Default :> "owner") @@ Provisioning @@ (Scim(u2) :> "inactive") @@ Sso }}

Sym == Permutations({r1, r2})
=============================================================================
