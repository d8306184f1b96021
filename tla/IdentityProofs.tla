---------------------------- MODULE IdentityProofs ----------------------------
(***************************************************************************)
(* Proofs about Identity, for any users, groups and number of requests.    *)
(*                                                                         *)
(* Every handler leaves an owner in the database it decides on             *)
(* (HandlerKeepsOwner): a demotion and a removal count the owners, and SCIM *)
(* passes them by.  What a request is about to write therefore leaves an   *)
(* owner in the committed database too, until another request commits      *)
(* memberships after it has read them (Late).  When that one commits as    *)
(* well the two have overlapped (Excused).                                 *)
(*                                                                         *)
(* The same is said of what a request knows of keys (KInv), of its user's  *)
(* MFA (MInv) and, where it is the identity provider's, of the users it    *)
(* brings in line (SInv): it is what is committed, or another request that *)
(* changed it has committed since this one began.  The identity provider's *)
(* own requests never overlap between decision and commit (Order).         *)
(***************************************************************************)
EXTENDS Identity, FiniteSetTheorems, TLAPS

Fields == {"pc", "in", "me", "loaded", "role", "cells", "there", "want", "syncs", "end"}
IsRequest(x) == DOMAIN x = Fields /\ x = [f \in Fields |-> x[f]]

HasOwner(D)   == \E u \in Users : D[Member(u)] = "owner"
Touches(f)    == \E u \in Users : Member(u) \in DOMAIN f
Excused       == \E p, q \in Reqs : Overlap(p, q) /\ WroteMembers(p) /\ WroteMembers(q)
Late(r)       == \E q \in Reqs : Overlap(q, r) /\ WroteMembers(q)

\* What a request has at each point of its way.
Shape(x) ==
  /\ IsRequest(x)
  /\ x.pc \in {"enter", "read"} => x.in \in Inputs
  /\ x.pc \in {"idle", "done"} => x.want = {}
  /\ x.end = "ok" => x.pc = "done"
  /\ ~Touches(x.loaded)

Phases ==
  /\ db = [c \in Cells |-> db[c]]
  /\ req = [r \in Reqs |-> req[r]] /\ prior = [r \in Reqs |-> prior[r]]
  /\ \A r \in Reqs : Shape(req[r])
  /\ \A r \in Reqs : \A q \in prior[r] : q \in Reqs /\ req[q].pc = "done"

Planned ==
  \A r \in Reqs : req[r].pc = "write" /\ Touches(req[r].cells) =>
    HasOwner(Put(db, req[r].cells)) \/ Late(r)

IInv == Phases /\ (Excused \/ (HasOwner(db) /\ Planned))

-------------------------------------------------------------------------------
\* The cells of memberships.
LEMMA MemberCells ==
  /\ \A u \in Users : Member(u) \in Cells
  /\ \A u, v : Member(u) = Member(v) => u = v
  /\ \A u : Member(u)[1] = "member" /\ Member(u)[2] = u
<1>1. ASSUME NEW u \in Users PROVE Member(u) \in Cells
  <2> DEFINE S == {{Member(v), Account(v), Secret(v), Mfa(v), Scim(v)} : v \in Users}
  <2>1. {Member(u), Account(u), Secret(u), Mfa(u), Scim(u)} \in S
    OBVIOUS
  <2>2. Member(u) \in UNION S
    BY <2>1
  <2> QED
    BY <2>2 DEF Cells
<1>2. \A u, v : Member(u) = Member(v) => u = v
  BY DEF Member
<1>3. \A u : Member(u)[1] = "member" /\ Member(u)[2] = u
  BY DEF Member
<1> QED
  BY <1>1, <1>2, <1>3

LEMMA OtherCells ==
  /\ \A u, v : Member(u) \notin {Account(v), Secret(v), Mfa(v), Scim(v), Group(v), Live(v), Key(v)}
  /\ \A u : Member(u) \notin {Token, Enabled, Default, SsoRole, SsoOn, Enforced}
BY DEF Member, Account, Secret, Mfa, Scim, Group, Live, Key, Token, Enabled, Default, SsoRole, SsoOn, Enforced

LEMMA OwnersAndHasOwner == ASSUME NEW D PROVE Owners(D) # {} <=> HasOwner(D)
BY DEF Owners, HasOwner

\* Leaving the memberships alone leaves the owners.
LEMMA Untouched ==
  ASSUME NEW D, NEW E, HasOwner(D), \A u \in Users : E[Member(u)] = D[Member(u)]
  PROVE  HasOwner(E)
BY DEF HasOwner

\* Whoever is not the last owner leaves another one.
LEMMA AnotherOwner ==
  ASSUME NEW D, HasOwner(D), NEW u \in Users, ~LastOwner(D, u)
  PROVE  \E v \in Users \ {u} : D[Member(v)] = "owner"
<1> SUFFICES ASSUME \A v \in Users \ {u} : D[Member(v)] # "owner"
             PROVE  FALSE
  OBVIOUS
<1>1. D[Member(u)] = "owner"
  BY DEF HasOwner
<1>2. Owners(D) = {u}
  BY <1>1 DEF Owners
<1>3. Cardinality(Owners(D)) = 1
  BY <1>2, FS_Singleton
<1> QED
  BY <1>1, <1>2, <1>3 DEF LastOwner

\* Writing another user's membership leaves the owner.
LEMMA WriteAnother ==
  ASSUME NEW D, D = [c \in Cells |-> D[c]], NEW u, NEW v \in Users \ {u}, D[Member(v)] = "owner",
         NEW x
  PROVE  HasOwner([D EXCEPT ![Member(u)] = x])
<1>1. Member(v) # Member(u) /\ Member(v) \in Cells
  BY MemberCells
<1> QED
  BY <1>1 DEF HasOwner

-------------------------------------------------------------------------------
\* SCIM passes owners by.
LEMMA SyncKeepsOwner ==
  ASSUME NEW D, HasOwner(D), NEW us
  PROVE  HasOwner(SyncMembership(D, us))
<1>1. PICK u \in Users : D[Member(u)] = "owner"
  BY DEF HasOwner
<1>2. Member(u) \in Cells /\ Member(u)[1] = "member" /\ Member(u)[2] = u
  BY MemberCells
<1>3. ~Managed(D, u)
  BY <1>1 DEF Managed
<1>4. SyncMembership(D, us)[Member(u)] = D[Member(u)]
  BY <1>2, <1>3 DEF SyncMembership
<1> QED
  BY <1>1, <1>2, <1>4 DEF HasOwner

LEMMA MembersKeepOwner ==
  ASSUME NEW D, D = [c \in Cells |-> D[c]], HasOwner(D), NEW u \in Users, NEW role
  PROVE  /\ AddMember(D, u, role) # None => HasOwner(AddMember(D, u, role))
         /\ UpdateMemberRole(D, u, role) # None => HasOwner(UpdateMemberRole(D, u, role))
         /\ RemoveMember(D, u) # None => HasOwner(RemoveMember(D, u))
<1>1. ASSUME AddMember(D, u, role) # None PROVE HasOwner(AddMember(D, u, role))
  <2> DEFINE D1 == [D EXCEPT ![Account(u)] = IF @ = None THEN "shell" ELSE @]
  <2>1. D[Member(u)] = None /\ AddMember(D, u, role) = [D1 EXCEPT ![Member(u)] = role]
    BY <1>1 DEF AddMember
  <2>2. PICK v \in Users : D[Member(v)] = "owner"
    BY DEF HasOwner
  <2>3. v # u
    BY <2>1, <2>2, NoneAssumption DEF Roles
  <2>4. D1 = [c \in Cells |-> D1[c]]
    OBVIOUS
  <2>5. D1[Member(v)] = "owner"
    <3>1. Member(v) \in Cells /\ Member(v) # Account(u)
      BY OtherCells, MemberCells
    <3> QED
      BY <2>2, <3>1
  <2> HIDE DEF D1
  <2>6. v \in Users \ {u}
    BY <2>3
  <2>7. HasOwner([D1 EXCEPT ![Member(u)] = role])
    BY <2>4, <2>5, <2>6, WriteAnother
  <2> QED
    BY <2>1, <2>7
<1>2. ASSUME UpdateMemberRole(D, u, role) # None PROVE HasOwner(UpdateMemberRole(D, u, role))
  <2>1. UpdateMemberRole(D, u, role) = [D EXCEPT ![Member(u)] = role]
    BY <1>2 DEF UpdateMemberRole
  <2>2. CASE role = "owner"
    BY <2>1, <2>2, MemberCells DEF HasOwner
  <2>3. CASE role # "owner"
    <3>1. ~LastOwner(D, u)
      BY <1>2, <2>3 DEF UpdateMemberRole
    <3> QED
      BY <2>1, <3>1, AnotherOwner, WriteAnother
  <2> QED
    BY <2>2, <2>3
<1>3. ASSUME RemoveMember(D, u) # None PROVE HasOwner(RemoveMember(D, u))
  <2>1. ~LastOwner(D, u) /\ RemoveMember(D, u) = [D EXCEPT ![Member(u)] = None]
    BY <1>3 DEF RemoveMember
  <2> QED
    BY <2>1, AnotherOwner, WriteAnother
<1> QED
  BY <1>1, <1>2, <1>3

\* Keys, MFA, and the SCIM and SSO settings.
SameMembers(D, E) == E # None => \A u \in Users : E[Member(u)] = D[Member(u)]

LEMMA SettingsKeepMembers ==
  ASSUME NEW D, D = [c \in Cells |-> D[c]]
  PROVE  /\ \A k, me, role, x : SameMembers(D, CreateKey(D, k, me, role, x))
         /\ \A k : SameMembers(D, RevokeKey(D, k))
         /\ \A v, x : SameMembers(D, EnrollMfa(D, v, x))
         /\ \A v : SameMembers(D, ActivateMfa(D, v))
         /\ \A v : SameMembers(D, DisableMfa(D, v))
         /\ \A on, role : SameMembers(D, UpsertConfig(D, on, role))
         /\ \A x : SameMembers(D, RotateToken(D, x))
         /\ SameMembers(D, RevokeToken(D))
         /\ \A role, on : SameMembers(D, CreateConnection(D, role, on))
         /\ \A c \in {SsoRole, SsoOn, Enforced} : \A x : SameMembers(D, UpdateConnection(D, c, x))
         /\ SameMembers(D, DeleteConnection(D))
<1>1. \A u, v : Member(u) \notin {Key(v), Secret(v), Mfa(v), Token, Enabled, Default, SsoRole, SsoOn, Enforced}
  BY OtherCells
<1>2. \A u \in Users : Member(u) \in Cells
  BY MemberCells
<1>3. \A k, me, role, x : SameMembers(D, CreateKey(D, k, me, role, x))
  BY <1>1, <1>2 DEF SameMembers, CreateKey
<1>4. \A k : SameMembers(D, RevokeKey(D, k))
  BY <1>1, <1>2 DEF SameMembers, RevokeKey
<1>5. \A v, x : SameMembers(D, EnrollMfa(D, v, x))
  BY <1>1, <1>2 DEF SameMembers, EnrollMfa
<1>6. \A v : SameMembers(D, ActivateMfa(D, v))
  BY <1>1, <1>2 DEF SameMembers, ActivateMfa
<1>7. \A v : SameMembers(D, DisableMfa(D, v))
  BY <1>1, <1>2 DEF SameMembers, DisableMfa
<1>8. \A on, role : SameMembers(D, UpsertConfig(D, on, role))
  BY <1>1, <1>2 DEF SameMembers, UpsertConfig
<1>9. \A x : SameMembers(D, RotateToken(D, x))
  BY <1>1, <1>2 DEF SameMembers, RotateToken
<1>10. SameMembers(D, RevokeToken(D))
  BY <1>1, <1>2 DEF SameMembers, RevokeToken
<1>11. \A role, on : SameMembers(D, CreateConnection(D, role, on))
  BY <1>1, <1>2 DEF SameMembers, CreateConnection
<1>12. \A c \in {SsoRole, SsoOn, Enforced} : \A x : SameMembers(D, UpdateConnection(D, c, x))
  BY <1>1, <1>2 DEF SameMembers, UpdateConnection
<1>13. SameMembers(D, DeleteConnection(D))
  BY <1>1, <1>2 DEF SameMembers, DeleteConnection
<1> QED
  BY <1>3, <1>4, <1>5, <1>6, <1>7, <1>8, <1>9, <1>10, <1>11, <1>12, <1>13

\* Signing in opens sessions; over SSO it adds a membership where there is none.
LEMMA SessionsKeepMembers ==
  ASSUME NEW D, D = [c \in Cells |-> D[c]], NEW r, NEW u \in Users, NEW v
  PROVE  /\ CreateSession(D, r, v)[Member(u)] = D[Member(u)]
         /\ ResolveMembership(D, r, v)[Member(u)] = D[Member(u)]
BY OtherCells DEF CreateSession, ResolveMembership

LEMMA SignInsKeepMembers ==
  ASSUME NEW D, D = [c \in Cells |-> D[c]], NEW r, NEW u \in Users, NEW v,
         NEW E \in {Register(D, v), Login(D, r, v), VerifyMfa(D, r, v), SwitchOrg(D, r, v), OAuthCallback(D, r, v)},
         E # None
  PROVE  E[Member(u)] = D[Member(u)]
<1>1. Member(u) # Account(v)
  BY OtherCells
<1>2. CASE E = Register(D, v)
  BY <1>1, <1>2 DEF Register
<1>3. CASE E \in {Login(D, r, v), VerifyMfa(D, r, v), SwitchOrg(D, r, v)}
  BY <1>3, SessionsKeepMembers DEF Login, VerifyMfa, SwitchOrg
<1>4. CASE E = OAuthCallback(D, r, v)
  <2> DEFINE D1 == [D EXCEPT ![Account(v)] = IF @ = None THEN "bare" ELSE @]
  <2>1. D1 = [c \in Cells |-> D1[c]] /\ D1[Member(u)] = D[Member(u)]
    BY <1>1
  <2>2. E = ResolveMembership(D1, r, v)
    BY <1>4 DEF OAuthCallback
  <2> HIDE DEF D1
  <2> QED
    BY <2>1, <2>2, SessionsKeepMembers
<1> QED
  BY <1>2, <1>3, <1>4

LEMMA SsoKeepsOwner ==
  ASSUME NEW D, D = [c \in Cells |-> D[c]], HasOwner(D), NEW r, NEW u \in Users, SsoSignIn(D, r, u) # None
  PROVE  HasOwner(SsoSignIn(D, r, u))
<1> DEFINE P == Provision(D, u)
<1>1. PICK v \in Users : D[Member(v)] = "owner"
  BY DEF HasOwner
<1>2. P = [c \in Cells |-> P[c]]
  BY DEF Provision
<1>3. P[Member(v)] = "owner"
  <2>1. Member(v) \in Cells /\ Member(v) # Account(u) /\ (v # u => Member(v) # Member(u))
    BY MemberCells, OtherCells
  <2>2. None # "owner"
    BY NoneAssumption DEF Roles
  <2> QED
    BY <1>1, <2>1, <2>2 DEF Provision
<1>4. SsoSignIn(D, r, u) = CreateSession(P, r, u)
  BY DEF SsoSignIn
<1> HIDE DEF P
<1>5. CreateSession(P, r, u)[Member(v)] = "owner"
  BY <1>2, <1>3, SessionsKeepMembers
<1> QED
  BY <1>4, <1>5 DEF HasOwner

\* Provisioning: a change of other cells, then a sync.
LEMMA SetThenSync ==
  ASSUME NEW D, D = [c \in Cells |-> D[c]], HasOwner(D), NEW E, NEW us,
         \A u \in Users : E[Member(u)] = D[Member(u)]
  PROVE  HasOwner(SyncMembership(E, us))
BY Untouched, SyncKeepsOwner

LEMMA ScimKeepsOwner ==
  ASSUME NEW D, D = [c \in Cells |-> D[c]], HasOwner(D), NEW u, NEW on, NEW g, NEW name, NEW us,
         NEW E \in {ScimCreateUser(D, u, on), ScimSetActive(D, u, on), ScimDeleteUser(D, u),
                   ScimCreateGroup(D, g, name, us), ScimSetGroup(D, g, name, us), ScimDeleteGroup(D, g)},
         E # None
  PROVE  HasOwner(E)
<1>1. \A v \in Users : \A x : [D EXCEPT ![Scim(u)] = x][Member(v)] = D[Member(v)]
  BY OtherCells
<1>2. \A v \in Users : \A x : [D EXCEPT ![Group(g)] = x][Member(v)] = D[Member(v)]
  BY OtherCells
<1>3. CASE E = ScimCreateUser(D, u, on)
  <2> DEFINE F == [D EXCEPT ![Account(u)] = IF @ = None THEN "bare" ELSE @, ![Scim(u)] = Status(on)]
  <2>1. E = SyncMembership(F, {u})
    BY <1>3 DEF ScimCreateUser
  <2>2. \A v \in Users : F[Member(v)] = D[Member(v)]
    <3>1. \A v \in Users : Member(v) \in Cells /\ Member(v) # Account(u) /\ Member(v) # Scim(u)
      BY OtherCells, MemberCells
    <3> QED
      BY <3>1
  <2> HIDE DEF F
  <2> QED
    BY <2>1, <2>2, SetThenSync
<1>4. CASE E = ScimSetActive(D, u, on)
  <2> DEFINE F == [D EXCEPT ![Scim(u)] = Status(on)]
  <2>1. E = SyncMembership(F, {u})
    BY <1>4 DEF ScimSetActive
  <2>2. \A v \in Users : F[Member(v)] = D[Member(v)]
    BY <1>1
  <2> HIDE DEF F
  <2> QED
    BY <2>1, <2>2, SetThenSync
<1>5. CASE E = ScimDeleteUser(D, u)
  <2> DEFINE F == [D EXCEPT ![Scim(u)] = "inactive"]
             G == SyncMembership(F, {u})
             H == Without(G, u)
  <2>1. E = [H EXCEPT ![Scim(u)] = None]
    BY <1>5 DEF ScimDeleteUser
  <2>2. \A v \in Users : F[Member(v)] = D[Member(v)]
    BY <1>1
  <2>3. HasOwner(G)
    <3> HIDE DEF F
    <3> QED
      BY <2>2, SetThenSync
  <2> HIDE DEF G
  <2>4. \A v \in Users : H[Member(v)] = G[Member(v)]
    <3>1. \A v \in Users : Member(v) \in Cells /\ Member(v)[1] = "member"
      BY MemberCells
    <3> QED
      BY <3>1 DEF Without
  <2>5. \A v \in Users : E[Member(v)] = H[Member(v)]
    <3>1. \A v \in Users : Member(v) # Scim(u)
      BY OtherCells
    <3>2. H = [c \in Cells |-> H[c]]
      BY DEF Without
    <3> HIDE DEF H
    <3> QED
      BY <2>1, <3>1, <3>2
  <2> HIDE DEF H
  <2> QED
    BY <2>3, <2>4, <2>5, Untouched
<1>6. ASSUME NEW n, NEW ms PROVE HasOwner(SetMembers(D, g, n, ms))
  <2> DEFINE F == [D EXCEPT ![Group(g)] = [name |-> n, members |-> Provisioned(D, ms)]]
  <2>1. SetMembers(D, g, n, ms) = SyncMembership(F, Resynced(D, g, ms))
    BY DEF SetMembers
  <2>2. \A v \in Users : F[Member(v)] = D[Member(v)]
    BY <1>2
  <2> HIDE DEF F
  <2> QED
    BY <2>1, <2>2, SetThenSync
<1>7. CASE E \in {ScimCreateGroup(D, g, name, us), ScimSetGroup(D, g, name, us)}
  BY <1>6, <1>7 DEF ScimCreateGroup, ScimSetGroup
<1>8. CASE E = ScimDeleteGroup(D, g)
  <2> DEFINE F == [D EXCEPT ![Group(g)] = None]
  <2>1. E = SyncMembership(F, HasMembers(D, g))
    BY <1>8 DEF ScimDeleteGroup
  <2>2. \A v \in Users : F[Member(v)] = D[Member(v)]
    BY <1>2
  <2> HIDE DEF F
  <2> QED
    BY <2>1, <2>2, SetThenSync
<1> QED
  BY <1>3, <1>4, <1>5, <1>7, <1>8

-------------------------------------------------------------------------------
\* What requests ask for.
LEMMA InputFields ==
  ASSUME NEW i \in Inputs
  PROVE  /\ i.op \in {"add", "role", "remove", "key", "revoke_key", "config", "rotate", "revoke_token",
                     "connect", "reconnect", "disconnect"} \cup Self \cup SignIns \cup Scims
         /\ i.op \in {"add", "role", "remove"} \cup SignIns => i.u \in Users
         /\ i.op = "reconnect" => i.column \in {SsoRole, SsoOn, Enforced}
BY DEF Inputs, Self, SignIns, Scims

LEMMA HandlerKeepsOwner ==
  ASSUME NEW D, D = [c \in Cells |-> D[c]], HasOwner(D), NEW i \in Inputs, NEW r, NEW me, NEW role,
         Handler(r, i, me, role, D) # None
  PROVE  HasOwner(Handler(r, i, me, role, D))
<1> DEFINE E == Handler(r, i, me, role, D)
<1>1. CASE i.op \in {"add", "role", "remove"}
  <2>1. i.u \in Users
    BY <1>1, InputFields
  <2>2. CASE i.op = "add"
    BY <2>1, <2>2, MembersKeepOwner DEF Handler
  <2>3. CASE i.op = "role"
    BY <2>1, <2>3, MembersKeepOwner DEF Handler
  <2>4. CASE i.op = "remove"
    BY <2>1, <2>4, MembersKeepOwner DEF Handler
  <2> QED
    BY <1>1, <2>2, <2>3, <2>4
<1>2. SameMembers(D, E) => HasOwner(E)
  BY Untouched DEF SameMembers
<1>3. CASE i.op \in {"key", "revoke_key", "config", "rotate", "revoke_token", "connect", "reconnect", "disconnect"} \cup Self
  <2>1. \/ E = CreateKey(D, r, me, role, i.scopes)
        \/ E = RevokeKey(D, i.k)
        \/ E = EnrollMfa(D, me, r)
        \/ E = ActivateMfa(D, me)
        \/ E = DisableMfa(D, me)
        \/ E = UpsertConfig(D, i.on, i.role)
        \/ E = RotateToken(D, r)
        \/ E = RevokeToken(D)
        \/ E = CreateConnection(D, i.role, i.on)
        \/ i.op = "reconnect" /\ E = UpdateConnection(D, i.column, i.value)
        \/ E = DeleteConnection(D)
    BY <1>3 DEF Handler, Self
  <2>2. i.op = "reconnect" => i.column \in {SsoRole, SsoOn, Enforced}
    BY InputFields
  <2> HIDE DEF E
  <2>3. SameMembers(D, E)
    BY <2>1, <2>2, SettingsKeepMembers
  <2> QED
    BY <1>2, <2>3 DEF E
<1>4. CASE i.op \in SignIns \ {"sso"}
  <2>1. E \in {Register(D, i.u), Login(D, r, i.u), VerifyMfa(D, r, i.u), SwitchOrg(D, r, i.u), OAuthCallback(D, r, i.u)}
    BY <1>4 DEF Handler, SignIns
  <2> HIDE DEF E
  <2>2. SameMembers(D, E)
    BY <2>1, SignInsKeepMembers DEF SameMembers
  <2> QED
    BY <1>2, <2>2 DEF E
<1>5. CASE i.op = "sso"
  <2>1. i.u \in Users /\ E = SsoSignIn(D, r, i.u)
    BY <1>5, InputFields DEF Handler, SignIns
  <2> QED
    BY <2>1, SsoKeepsOwner
<1>6. CASE i.op \in Scims
  <2>1. \/ E = ScimCreateUser(D, i.u, i.on)
        \/ E = ScimSetActive(D, i.u, i.on)
        \/ E = ScimDeleteUser(D, i.u)
        \/ E = ScimCreateGroup(D, i.g, i.name, i.us)
        \/ E = ScimSetGroup(D, i.g, i.name, i.us)
        \/ E = ScimDeleteGroup(D, i.g)
    BY <1>6 DEF Handler, Scims
  <2> HIDE DEF E
  <2>2. E # None
    BY DEF E
  <2>3. HasOwner(E)
    BY <2>1, <2>2, ScimKeepsOwner
  <2> QED
    BY <2>3 DEF E
<1> QED
  BY <1>1, <1>3, <1>4, <1>5, <1>6, InputFields

-------------------------------------------------------------------------------
\* What a plan leaves.
LEMMA PutAgrees ==
  ASSUME NEW D, DOMAIN D = Cells, NEW E, DOMAIN E = Cells, NEW f,
         \A u \in Users : E[Member(u)] = D[Member(u)]
  PROVE  HasOwner(Put(D, f)) => HasOwner(Put(E, f))
<1>1. \A u \in Users : Put(E, f)[Member(u)] = Put(D, f)[Member(u)]
  BY MemberCells DEF Put
<1> QED
  BY <1>1, Untouched

LEMMA PutElsewhere ==
  ASSUME NEW D, DOMAIN D = Cells, NEW f, ~Touches(f)
  PROVE  \A u \in Users : Put(D, f)[Member(u)] = D[Member(u)]
BY MemberCells DEF Put, Touches

LEMMA PutIsFunction ==
  ASSUME NEW D, DOMAIN D = Cells, NEW f
  PROVE  DOMAIN Put(D, f) = Cells /\ Put(D, f) = [c \in Cells |-> Put(D, f)[c]]
BY DEF Put

\* The plan of a handler that left an owner leaves one in the database it was
\* read from.
LEMMA PlanLeavesOwner ==
  ASSUME NEW D, DOMAIN D = Cells, NEW f, ~Touches(f), NEW E, HasOwner(E)
  PROVE  HasOwner(Put(D, Changes(Put(D, f), E)))
<1> DEFINE V == Put(D, f)
<1>1. \A u \in Users : V[Member(u)] = D[Member(u)]
  BY PutElsewhere
<1> HIDE DEF V
<1>2. \A u \in Users : Put(D, Changes(V, E))[Member(u)] = E[Member(u)]
  BY <1>1, MemberCells DEF Put, Changes
<1> QED
  BY <1>2, Untouched DEF V

-------------------------------------------------------------------------------
\* The shapes a request is brought into.
LEMMA FreshShape == Shape(Fresh) /\ Fresh.pc = "idle" /\ Fresh.end = "none"
<1>1. IsRequest(Fresh)
  BY DEF Fresh, IsRequest, Fields
<1>2. Fresh.pc = "idle" /\ Fresh.want = {} /\ Fresh.end = "none" /\ Fresh.loaded = <<>>
  BY DEF Fresh
<1>3. ~Touches(<<>>)
  <2>1. DOMAIN <<>> = {}
    OBVIOUS
  <2> QED
    BY <2>1 DEF Touches
<1> QED
  BY <1>1, <1>2, <1>3 DEF Shape

Stopped(x, how) == [x EXCEPT !.pc = "done", !.want = {}, !.end = how]

LEMMA StoppedShape ==
  ASSUME NEW x, Shape(x), NEW how
  PROVE  LET y == Stopped(x, how) IN
           Shape(y) /\ y.pc = "done" /\ y.end = how /\ y.cells = x.cells
BY DEF Shape, IsRequest, Fields, Stopped

LEMMA EnteredShape ==
  ASSUME NEW x, Shape(x), x.pc = "enter", NEW role
  PROVE  LET y == [x EXCEPT !.pc = "read", !.role = role] IN
           Shape(y) /\ y.pc = "read" /\ y.end # "ok"
BY DEF Shape, IsRequest, Fields

Deciding(x, f, rows, us, want) ==
  [x EXCEPT !.pc = "write", !.cells = f, !.there = rows, !.syncs = us, !.want = want]

LEMMA ReadShape ==
  ASSUME NEW x, Shape(x), x.pc = "read", NEW f, NEW rows, NEW us, NEW want
  PROVE  LET y == Deciding(x, f, rows, us, want) IN
           Shape(y) /\ y.pc = "write" /\ y.end # "ok" /\ y.cells = f
<1> DEFINE a == [x EXCEPT !.pc = "write", !.cells = f]
           b == [a EXCEPT !.there = rows, !.syncs = us]
           y == [b EXCEPT !.want = want]
<1>1. Shape(a) /\ a.pc = "write" /\ a.end # "ok" /\ a.cells = f
  BY DEF Shape, IsRequest, Fields
<1> HIDE DEF a
<1>2. Shape(b) /\ b.pc = "write" /\ b.end # "ok" /\ b.cells = f
  BY <1>1 DEF Shape, IsRequest, Fields
<1> HIDE DEF b
<1>3. Shape(y) /\ y.pc = "write" /\ y.end # "ok" /\ y.cells = f
  BY <1>2 DEF Shape, IsRequest, Fields
<1> HIDE DEF y
<1> QED
  BY <1>3 DEF y, b, a, Deciding

LEMMA WantingShape ==
  ASSUME NEW x, Shape(x), x.pc = "write", NEW want
  PROVE  LET y == [x EXCEPT !.want = want] IN
           Shape(y) /\ y.pc = "write" /\ y.end # "ok" /\ y.cells = x.cells
BY DEF Shape, IsRequest, Fields

-------------------------------------------------------------------------------
\* A step of r that does not commit.
LEMMA QuietKeeps ==
  ASSUME IInv, NEW r \in Reqs, NEW x, Shape(x), req' = [req EXCEPT ![r] = x],
         db' = db, prior' = prior, req[r].pc # "done", x.end # "ok",
         ~Excused /\ x.pc = "write" /\ Touches(x.cells) => HasOwner(Put(db, x.cells)) \/ Late(r)
  PROVE  IInv'
<1>1. Phases /\ req[r].end # "ok" /\ req = [q \in Reqs |-> req[q]]
  BY DEF IInv, Phases, Shape
<1>2. req'[r] = x /\ \A q \in Reqs \ {r} : req'[q] = req[q]
  BY <1>1
<1>3. Phases'
  <2>1. req' = [q \in Reqs |-> req'[q]]
    BY <1>1
  <2>2. \A q \in Reqs : Shape(req'[q])
    BY <1>1, <1>2 DEF Phases
  <2>3. \A p \in Reqs : \A q \in prior[p] : q \in Reqs /\ req'[q].pc = "done"
    BY <1>1, <1>2 DEF Phases
  <2>4. (db = [c \in Cells |-> db[c]])' /\ (prior = [q \in Reqs |-> prior[q]])'
    BY <1>1 DEF Phases
  <2> QED
    BY <2>1, <2>2, <2>3, <2>4 DEF Phases, Shape, IsRequest, Touches
<1>4. \A q \in Reqs : WroteMembers(q)' <=> WroteMembers(q)
  BY <1>1, <1>2 DEF WroteMembers, Wrote, Ok
<1>5. \A p, q \in Reqs : Overlap(p, q)' <=> Overlap(p, q)
  BY DEF Overlap
<1>6. (Excused' <=> Excused) /\ \A q \in Reqs : Late(q)' <=> Late(q)
  BY <1>4, <1>5 DEF Excused, Late
<1>7. ASSUME ~Excused PROVE HasOwner(db)' /\ Planned'
  <2>1. HasOwner(db) /\ Planned
    BY <1>7 DEF IInv
  <2>2. HasOwner(db)'
    BY <2>1 DEF HasOwner
  <2>3. ASSUME NEW q \in Reqs, req'[q].pc = "write", Touches(req'[q].cells)
        PROVE  HasOwner(Put(db, req'[q].cells)) \/ Late(q)
    BY <1>2, <1>7, <2>1, <2>3 DEF Planned
  <2> QED
    BY <1>6, <2>2, <2>3 DEF Planned, HasOwner, Put, Touches
<1> QED
  BY <1>3, <1>6, <1>7 DEF IInv

LEMMA StopKeeps ==
  ASSUME IInv, NEW r \in Reqs, NEW how, how # "ok", Stop(r, how), db' = db, prior' = prior,
         req[r].pc # "done"
  PROVE  IInv'
<1> DEFINE y == Stopped(req[r], how)
<1>1. Shape(req[r])
  BY DEF IInv, Phases
<1>2. Shape(y) /\ y.pc = "done" /\ y.end # "ok"
  BY <1>1, StoppedShape
<1>3. req' = [req EXCEPT ![r] = y]
  BY DEF Stop, Become, Stopped
<1> HIDE DEF y
<1> QED
  BY <1>2, <1>3, QuietKeeps

\* Whoever starts has nothing planned and has overlapped nobody yet.
LEMMA StartKeeps ==
  ASSUME IInv, NEW r \in Reqs, Start(r)
  PROVE  IInv'
<1>1. PICK i \in Inputs :
        LET me == IF "s" \in DOMAIN i THEN db[Live(i.s)].of ELSE None IN
          Become(r, [Fresh EXCEPT
            !.pc = IF i.op \in SignIns THEN "read" ELSE "enter", !.in = i, !.me = me,
            !.loaded = CASE i.op \in Scims    -> ScimColumns
                         [] "s" \in DOMAIN i -> UserColumns(me)
                         [] OTHER            -> <<>>])
  BY DEF Start
<1> DEFINE me == IF "s" \in DOMAIN i THEN db[Live(i.s)].of ELSE None
           l == CASE i.op \in Scims    -> ScimColumns
                  [] "s" \in DOMAIN i -> UserColumns(me)
                  [] OTHER            -> <<>>
           e == IF i.op \in SignIns THEN "read" ELSE "enter"
           a == [Fresh EXCEPT !.pc = e, !.in = i]
           x == [a EXCEPT !.me = me, !.loaded = l]
<1>2. Become(r, x)
  <2> HIDE DEF me, l, e
  <2>1. x = [Fresh EXCEPT !.pc = e, !.in = i, !.me = me, !.loaded = l]
    BY DEF Fresh
  <2> QED
    BY <1>1, <2>1 DEF me, l, e
<1>3. ~Touches(l)
  <2>1. l \in {ScimColumns, UserColumns(me), <<>>}
    <3> HIDE DEF me
    <3> QED
      OBVIOUS
  <2>2. ~Touches(ScimColumns) /\ ~Touches(UserColumns(me))
    <3> HIDE DEF me
    <3> QED
      BY OtherCells DEF Touches, ScimColumns, UserColumns
  <2>3. ~Touches(<<>>)
    <3>1. DOMAIN <<>> = {}
      OBVIOUS
    <3> QED
      BY <3>1 DEF Touches
  <2> HIDE DEF l, me
  <2> QED
    BY <2>1, <2>2, <2>3
<1>4. e \in {"read", "enter"}
  OBVIOUS
<1> HIDE DEF me, l, e
<1>5. Shape(x) /\ x.pc \in {"read", "enter"} /\ x.end = "none"
  <2>1. IsRequest(a) /\ a.pc = e /\ a.in = i /\ a.end = "none"
    BY FreshShape DEF Shape, IsRequest, Fields
  <2> HIDE DEF a
  <2>2. IsRequest(x) /\ x.pc = e /\ x.in = i /\ x.end = "none" /\ x.loaded = l
    BY <2>1 DEF IsRequest, Fields
  <2> HIDE DEF x
  <2> QED
    BY <1>3, <1>4, <2>2 DEF Shape
<1> HIDE DEF x
<1>6. /\ req' = [req EXCEPT ![r] = x] /\ db' = db /\ req[r].pc = "idle"
      /\ prior' = [prior EXCEPT ![r] = {q \in Reqs : req[q].pc = "done"}]
  BY <1>2 DEF Start, Become
<1>7. Phases /\ req[r].end # "ok" /\ req = [q \in Reqs |-> req[q]] /\ prior = [q \in Reqs |-> prior[q]]
  BY <1>6 DEF IInv, Phases, Shape
<1>8. req'[r] = x /\ \A q \in Reqs \ {r} : req'[q] = req[q] /\ prior'[q] = prior[q]
  BY <1>6, <1>7
<1>9. Phases'
  <2>1. req' = [q \in Reqs |-> req'[q]] /\ prior' = [q \in Reqs |-> prior'[q]]
    BY <1>6, <1>7
  <2>2. \A q \in Reqs : Shape(req'[q])
    BY <1>5, <1>7, <1>8 DEF Phases
  <2>3. \A p \in Reqs : \A q \in prior'[p] : q \in Reqs /\ req[q].pc = "done"
    BY <1>6, <1>7, <1>8 DEF Phases
  <2>4. \A p \in Reqs : \A q \in prior'[p] : q \in Reqs /\ req'[q].pc = "done"
    BY <1>6, <1>8, <2>3
  <2>5. db' = [c \in Cells |-> db'[c]]
    BY <1>6, <1>7 DEF Phases
  <2> QED
    BY <2>1, <2>2, <2>4, <2>5 DEF Phases, Shape, IsRequest, Touches
<1>10. \A q \in Reqs : WroteMembers(q)' <=> WroteMembers(q)
  BY <1>5, <1>7, <1>8 DEF WroteMembers, Wrote, Ok
<1>11. \A q \in Reqs : WroteMembers(q) => q # r
  BY <1>7 DEF WroteMembers, Wrote, Ok
<1>12. \A p, q \in Reqs : p # r /\ q # r => (Overlap(p, q)' <=> Overlap(p, q))
  BY <1>8 DEF Overlap
<1>13. Excused => Excused'
  BY <1>10, <1>11, <1>12 DEF Excused
<1>14. \A q \in Reqs \ {r} : Late(q) => Late(q)'
  BY <1>10, <1>11, <1>12 DEF Late
<1>15. ASSUME ~Excused PROVE HasOwner(db)' /\ Planned'
  <2>1. HasOwner(db) /\ Planned
    BY <1>15 DEF IInv
  <2>2. ASSUME NEW q \in Reqs, req'[q].pc = "write", Touches(req'[q].cells)
        PROVE  HasOwner(Put(db, req'[q].cells)) \/ Late(q)'
    <3>1. q # r
      BY <1>5, <1>8, <2>2
    <3> QED
      BY <1>8, <1>14, <2>1, <2>2, <3>1 DEF Planned
  <2> QED
    BY <1>6, <2>1, <2>2 DEF Planned, HasOwner, Put, Touches
<1> QED
  BY <1>9, <1>13, <1>15 DEF IInv

LEMMA EnterKeeps ==
  ASSUME IInv, NEW r \in Reqs, Enter(r)
  PROVE  IInv'
<1> DEFINE role == IF req[r].in.op \in Scims THEN None ELSE db[Member(req[r].me)]
<1>1. req[r].pc = "enter" /\ db' = db /\ prior' = prior
  BY DEF Enter
<1>2. Become(r, [req[r] EXCEPT !.pc = "read", !.role = role]) \/ Stop(r, "refused")
  BY DEF Enter
<1>3. CASE Stop(r, "refused")
  BY <1>1, <1>3, StopKeeps
<1>4. CASE Become(r, [req[r] EXCEPT !.pc = "read", !.role = role])
  <2> HIDE DEF role
  <2> DEFINE y == [req[r] EXCEPT !.pc = "read", !.role = role]
  <2>1. Shape(req[r])
    BY DEF IInv, Phases
  <2>2. Shape(y) /\ y.pc = "read" /\ y.end # "ok"
    BY <1>1, <2>1, EnteredShape
  <2>3. req' = [req EXCEPT ![r] = y]
    BY <1>4 DEF Become
  <2> HIDE DEF y
  <2> QED
    BY <1>1, <2>2, <2>3, QuietKeeps
<1> QED
  BY <1>2, <1>3, <1>4

LEMMA ReadKeeps ==
  ASSUME IInv, NEW r \in Reqs, Read(r)
  PROVE  IInv'
<1> DEFINE i == req[r].in
           D == Put(db, req[r].loaded)
           E == Handler(r, i, req[r].me, req[r].role, D)
           f == Changes(D, E)
           rows == {Row(c) : c \in DOMAIN f}
           there == {row \in rows : Exists(D, row)}
           us == Syncs(i, D)
           want == rows \cup (IF i.op = "login" THEN {Account(i.u)} ELSE {})
           y == Deciding(req[r], f, there, us, want)
<1>1. req[r].pc = "read" /\ db' = db /\ prior' = prior
  BY DEF Read
<1>2. Stop(r, "refused") \/ (E # None /\ Become(r, y))
  BY DEF Read, Deciding
<1>3. CASE Stop(r, "refused")
  BY <1>1, <1>3, StopKeeps
<1>4. CASE E # None /\ Become(r, y)
  <2>1. Shape(req[r]) /\ i \in Inputs /\ ~Touches(req[r].loaded)
    BY <1>1 DEF IInv, Phases, Shape
  <2>2. DOMAIN db = Cells
    BY DEF IInv, Phases
  <2>3. Shape(y) /\ y.pc = "write" /\ y.end # "ok" /\ y.cells = f
    <3> HIDE DEF f, there, us, want, i
    <3> QED
      BY <1>1, <2>1, ReadShape
  <2>4. ASSUME ~Excused PROVE HasOwner(Put(db, f))
    <3>1. HasOwner(db)
      BY <2>4 DEF IInv
    <3>2. HasOwner(D)
      BY <2>1, <2>2, <3>1, PutElsewhere, Untouched
    <3>3. D = [c \in Cells |-> D[c]]
      BY <2>2, PutIsFunction
    <3>4. HasOwner(E)
      <4> HIDE DEF D, i
      <4> QED
        BY <1>4, <2>1, <3>2, <3>3, HandlerKeepsOwner
    <3> HIDE DEF E
    <3> QED
      BY <2>1, <2>2, <3>4, PlanLeavesOwner
  <2>5. req' = [req EXCEPT ![r] = y]
    BY <1>4 DEF Become
  <2> HIDE DEF y, f
  <2> QED
    BY <1>1, <2>3, <2>4, <2>5, QuietKeeps
<1> HIDE DEF y, E
<1> QED
  BY <1>2, <1>3, <1>4

LEMMA WriteKeeps ==
  ASSUME IInv, NEW r \in Reqs, Write(r)
  PROVE  IInv'
<1>1. req[r].pc = "write" /\ db' = db /\ prior' = prior
  BY DEF Write
<1>2. PICK row : Stop(r, "clash") \/ Become(r, [req[r] EXCEPT !.want = @ \ {row}])
  BY DEF Write
<1>3. CASE Stop(r, "clash")
  BY <1>1, <1>3, StopKeeps
<1>4. CASE Become(r, [req[r] EXCEPT !.want = @ \ {row}])
  <2> DEFINE w == req[r].want \ {row}
             y == [req[r] EXCEPT !.want = w]
  <2>1. Shape(req[r])
    BY DEF IInv, Phases
  <2>2. req' = [req EXCEPT ![r] = y]
    BY <1>4 DEF Become
  <2> HIDE DEF w
  <2>3. Shape(y) /\ y.pc = "write" /\ y.end # "ok" /\ y.cells = req[r].cells
    BY <1>1, <2>1, WantingShape
  <2> HIDE DEF y
  <2>4. ~Excused /\ Touches(y.cells) => HasOwner(Put(db, y.cells)) \/ Late(r)
    BY <1>1, <2>3 DEF IInv, Planned
  <2> QED
    BY <1>1, <2>2, <2>3, <2>4, QuietKeeps
<1> QED
  BY <1>2, <1>3, <1>4

LEMMA VictimKeeps ==
  ASSUME IInv, NEW r \in Reqs, Victim(r)
  PROVE  IInv'
<1>1. db' = db /\ prior' = prior /\ Stop(r, "deadlock") /\ Wants(r) # {}
  BY DEF Victim
<1>2. req[r].pc # "done"
  BY <1>1 DEF Wants, IInv, Phases, Shape
<1> QED
  BY <1>1, <1>2, StopKeeps

\* A commit that writes memberships leaves an owner or is an overlap; it makes
\* every other plan late.
LEMMA CommitKeeps ==
  ASSUME IInv, NEW r \in Reqs, Commit(r)
  PROVE  IInv'
<1> DEFINE y == Stopped(req[r], "ok")
           f == req[r].cells
<1>1. /\ req[r].pc = "write" /\ db' = Put(db, f) /\ prior' = prior
      /\ req' = [req EXCEPT ![r] = y]
  BY DEF Commit, Stop, Become, Stopped
<1>2. /\ Phases /\ Shape(req[r]) /\ req[r].end # "ok" /\ req = [q \in Reqs |-> req[q]]
      /\ DOMAIN db = Cells
  BY <1>1 DEF IInv, Phases, Shape
<1>3. Shape(y) /\ y.pc = "done" /\ y.end = "ok" /\ y.cells = f
  BY <1>2, StoppedShape
<1> HIDE DEF y
<1>4. req'[r] = y /\ \A q \in Reqs \ {r} : req'[q] = req[q]
  BY <1>1, <1>2
<1>5. DOMAIN db' = Cells /\ db' = [c \in Cells |-> db'[c]]
  BY <1>1, <1>2, PutIsFunction
<1>6. Phases'
  <2>1. req' = [q \in Reqs |-> req'[q]] /\ prior' = [q \in Reqs |-> prior'[q]]
    BY <1>1, <1>2 DEF Phases
  <2>2. \A q \in Reqs : Shape(req'[q])
    BY <1>2, <1>3, <1>4 DEF Phases
  <2>3. \A p \in Reqs : \A q \in prior'[p] : q \in Reqs /\ req'[q].pc = "done"
    BY <1>1, <1>2, <1>3, <1>4 DEF Phases
  <2> QED
    BY <1>5, <2>1, <2>2, <2>3 DEF Phases, Shape, IsRequest, Touches
<1>7. \A q \in Reqs : WroteMembers(q) => WroteMembers(q)'
  BY <1>2, <1>4 DEF WroteMembers, Wrote, Ok
<1>8. WroteMembers(r)' <=> Touches(f)
  BY <1>3, <1>4 DEF WroteMembers, Wrote, Ok, Touches
<1>9. \A p, q \in Reqs : Overlap(p, q)' <=> Overlap(p, q)
  BY <1>1 DEF Overlap
<1>10. Excused => Excused'
  BY <1>7, <1>9 DEF Excused
<1>11. \A q \in Reqs : Late(q) => Late(q)'
  BY <1>7, <1>9 DEF Late
<1>12. CASE Excused
  BY <1>6, <1>10, <1>12 DEF IInv
<1>13. CASE ~Excused /\ ~Touches(f)
  <2>1. HasOwner(db) /\ Planned
    BY <1>13 DEF IInv
  <2>2. \A u \in Users : Put(db, f)[Member(u)] = db[Member(u)]
    BY <1>2, <1>13, PutElsewhere
  <2>3. HasOwner(Put(db, f))
    BY <2>1, <2>2, Untouched
  <2>4. ASSUME NEW q \in Reqs, req'[q].pc = "write", Touches(req'[q].cells)
        PROVE  HasOwner(Put(Put(db, f), req'[q].cells)) \/ Late(q)'
    <3>1. q # r /\ req'[q] = req[q]
      BY <1>3, <1>4, <2>4
    <3>2. HasOwner(Put(db, req[q].cells)) \/ Late(q)
      BY <2>1, <2>4, <3>1 DEF Planned
    <3>3. HasOwner(Put(db, req[q].cells)) => HasOwner(Put(Put(db, f), req[q].cells))
      BY <1>2, <2>2, PutIsFunction, PutAgrees
    <3> QED
      BY <1>11, <3>1, <3>2, <3>3
  <2>5. HasOwner(db')
    BY <1>1, <2>3
  <2>6. \A q \in Reqs : req'[q].pc = "write" /\ Touches(req'[q].cells) =>
          HasOwner(Put(db', req'[q].cells)) \/ Late(q)'
    BY <1>1, <2>4
  <2> QED
    BY <1>6, <2>5, <2>6 DEF IInv, Planned, HasOwner, Put, Touches
<1>14. CASE ~Excused /\ Touches(f) /\ Late(r)
  <2>1. PICK q \in Reqs : Overlap(q, r) /\ WroteMembers(q)
    BY <1>14 DEF Late
  <2>2. Overlap(q, r)' /\ WroteMembers(q)' /\ WroteMembers(r)'
    BY <1>7, <1>8, <1>9, <1>14, <2>1
  <2>3. Excused'
    BY <2>2 DEF Excused
  <2> QED
    BY <1>6, <2>3 DEF IInv
<1>15. CASE ~Excused /\ Touches(f) /\ ~Late(r)
  <2>1. HasOwner(Put(db, f))
    BY <1>1, <1>15 DEF IInv, Planned
  <2>2. ASSUME NEW q \in Reqs, req'[q].pc = "write"
        PROVE  Late(q)'
    <3>1. q # r /\ req[q].pc = "write"
      BY <1>3, <1>4, <2>2
    <3>2. r \notin prior[q] /\ q \notin prior[r]
      BY <1>1, <1>2, <3>1 DEF Phases
    <3>3. Overlap(r, q)'
      BY <1>1, <3>1, <3>2 DEF Overlap
    <3> QED
      BY <1>8, <1>15, <3>3 DEF Late
  <2>3. HasOwner(db')
    BY <1>1, <2>1
  <2> QED
    BY <1>6, <2>2, <2>3 DEF IInv, Planned, HasOwner
<1> QED
  BY <1>12, <1>13, <1>14, <1>15

-------------------------------------------------------------------------------
\* The organization starts with an owner (OwnedAssumption).
THEOREM InitIInv == Init => IInv
<1> SUFFICES ASSUME Init PROVE IInv
  OBVIOUS
<1>1. HasOwner(db)
  BY OwnedAssumption DEF Init, HasOwner
<1>2. \A r \in Reqs : req[r] = Fresh /\ prior[r] = {}
  BY DEF Init
<1>3. /\ db = [c \in Cells |-> db[c]]
      /\ req = [r \in Reqs |-> req[r]] /\ prior = [r \in Reqs |-> prior[r]]
  BY StartsAssumption DEF Init
<1>4. Phases
  BY <1>2, <1>3, FreshShape DEF Phases
<1>5. Planned
  BY <1>2, FreshShape DEF Planned
<1> QED
  BY <1>1, <1>4, <1>5 DEF IInv

\* No step of a request takes the last owner away unnoticed.
THEOREM NextIInv == IInv /\ [Next]_vars => IInv'
<1> SUFFICES ASSUME IInv, [Next]_vars PROVE IInv'
  OBVIOUS
<1>1. ASSUME NEW r \in Reqs, Start(r) PROVE IInv'
  BY <1>1, StartKeeps
<1>2. ASSUME NEW r \in Reqs, Enter(r) PROVE IInv'
  BY <1>2, EnterKeeps
<1>3. ASSUME NEW r \in Reqs, Read(r) PROVE IInv'
  BY <1>3, ReadKeeps
<1>4. ASSUME NEW r \in Reqs, Write(r) PROVE IInv'
  BY <1>4, WriteKeeps
<1>5. ASSUME NEW r \in Reqs, Commit(r) PROVE IInv'
  BY <1>5, CommitKeeps
<1>6. ASSUME NEW r \in Reqs, Victim(r) PROVE IInv'
  BY <1>6, VictimKeeps
<1>7. CASE UNCHANGED vars
  BY <1>7 DEF vars, IInv, Phases, Planned, Excused, Late, Overlap, WroteMembers, Wrote, Ok,
              HasOwner, Put, Shape, IsRequest, Touches
<1> QED
  BY <1>1, <1>2, <1>3, <1>4, <1>5, <1>6, <1>7 DEF Next

\* The organization keeps an owner, unless two requests that wrote memberships
\* overlapped: the last-owner check of organizations/router.py is enough for
\* requests that follow one another, whatever SCIM and sign-ins do beside them.
THEOREM OwnerRemainsHolds == Spec => []OwnerRemains
<1>1. IInv => OwnerRemains
  BY OwnersAndHasOwner DEF IInv, OwnerRemains, Excused
<1> QED
  BY <1>1, InitIInv, NextIInv, PTL DEF Spec

-------------------------------------------------------------------------------
(***************************************************************************)
(* Keys.  Every handler but create_key leaves the keys there are or revokes *)
(* them (HandlerKeepsAccess).  A key is judged by a role that was the       *)
(* creator's when the request read it; whoever has changed that since is a *)
(* request that had not ended when the key's began.                        *)
(***************************************************************************)
IsFunction(D) == D = [c \in Cells |-> D[c]]

Access(D) ==
  /\ \A s \in Sess : D[Live(s)] = None \/ D[Live(s)] \in Session
  /\ \A k \in Keys : D[Key(k)] = None \/ D[Key(k)] \in ApiKey

\* E has the sessions and keys of D, or some of them revoked or opened since.
SameAccess(D, E) ==
  /\ \A s \in Sess : E[Live(s)] = D[Live(s)]
  /\ \A k \in Keys : E[Key(k)] = D[Key(k)]
RevokedKey(D, E, k) == k \in Standing /\ E[Key(k)] \in ApiKey /\ E[Key(k)].revoked
LaterAccess(D, E) ==
  /\ \A s \in Sess : E[Live(s)] = D[Live(s)] \/ E[Live(s)] \in Session
  /\ \A k \in Keys : E[Key(k)] = D[Key(k)] \/ RevokedKey(D, E, k)

LEMMA AccessCells ==
  /\ \A s \in Sess : Live(s) \in Cells
  /\ \A k \in Keys : Key(k) \in Cells
  /\ \A s : Live(s)[1] = "session"
  /\ \A k : Key(k)[1] = "key"
  /\ \A s, t : Live(s) = Live(t) => s = t
  /\ \A s, t : Key(s) = Key(t) => s = t
  /\ \A s, t : Live(s) # Key(t)
<1>1. ASSUME NEW s \in Sess PROVE Live(s) \in Cells
  <2>1. Live(s) \in {Live(t) : t \in Sess}
    OBVIOUS
  <2> QED
    BY <2>1 DEF Cells
<1>2. ASSUME NEW k \in Keys PROVE Key(k) \in Cells
  <2>1. Key(k) \in {Key(t) : t \in Keys}
    OBVIOUS
  <2> QED
    BY <2>1 DEF Cells
<1>3. /\ \A s : Live(s)[1] = "session"
      /\ \A k : Key(k)[1] = "key"
  BY DEF Live, Key
<1>4. /\ \A s, t : Live(s) = Live(t) => s = t
      /\ \A s, t : Key(s) = Key(t) => s = t
      /\ \A s, t : Live(s) # Key(t)
  BY DEF Live, Key
<1> QED
  BY <1>1, <1>2, <1>3, <1>4

LEMMA NeitherKeyNorSession ==
  \A x : /\ \A u : Live(x) \notin {Member(u), Account(u), Secret(u), Mfa(u), Scim(u), Group(u)}
         /\ \A u : Key(x) \notin {Member(u), Account(u), Secret(u), Mfa(u), Scim(u), Group(u)}
         /\ Live(x) \notin {Token, Enabled, Default, SsoRole, SsoOn, Enforced}
         /\ Key(x) \notin {Token, Enabled, Default, SsoRole, SsoOn, Enforced}
BY DEF Member, Account, Secret, Mfa, Scim, Group, Live, Key, Token, Enabled, Default, SsoRole, SsoOn, Enforced

LEMMA SameTwice ==
  ASSUME NEW D, NEW E, NEW F, SameAccess(D, E)
  PROVE  /\ LaterAccess(E, F) => LaterAccess(D, F)
         /\ SameAccess(E, F) => SameAccess(D, F)
         /\ Access(D) => Access(E)
<1>1. LaterAccess(E, F) => LaterAccess(D, F)
  BY DEF SameAccess, LaterAccess, RevokedKey
<1>2. SameAccess(E, F) => SameAccess(D, F)
  BY DEF SameAccess
<1>3. Access(D) => Access(E)
  BY DEF SameAccess, Access
<1> QED
  BY <1>1, <1>2, <1>3

\* A handler that refuses, or leaves all but other cells alone.
Spares(D, E) == E # None => SameAccess(D, E)

LEMMA MembersSpare ==
  ASSUME NEW D, IsFunction(D)
  PROVE  /\ \A u, role : Spares(D, AddMember(D, u, role))
         /\ \A u, role : Spares(D, UpdateMemberRole(D, u, role))
         /\ \A u : Spares(D, RemoveMember(D, u))
         /\ \A u : Spares(D, Register(D, u))
<1>1. ASSUME NEW u, NEW role PROVE Spares(D, AddMember(D, u, role))
  BY AccessCells, NeitherKeyNorSession DEF Spares, AddMember, SameAccess, IsFunction
<1>2. ASSUME NEW u, NEW role PROVE Spares(D, UpdateMemberRole(D, u, role))
  BY AccessCells, NeitherKeyNorSession DEF Spares, UpdateMemberRole, SameAccess, IsFunction
<1>3. ASSUME NEW u PROVE Spares(D, RemoveMember(D, u))
  BY AccessCells, NeitherKeyNorSession DEF Spares, RemoveMember, SameAccess, IsFunction
<1>4. ASSUME NEW u PROVE Spares(D, Register(D, u))
  BY AccessCells, NeitherKeyNorSession DEF Spares, Register, SameAccess, IsFunction
<1> QED
  BY <1>1, <1>2, <1>3, <1>4

LEMMA SettingsSpare ==
  ASSUME NEW D, IsFunction(D)
  PROVE  /\ \A v, x : Spares(D, EnrollMfa(D, v, x))
         /\ \A v : Spares(D, ActivateMfa(D, v))
         /\ \A v : Spares(D, DisableMfa(D, v))
         /\ \A on, role : Spares(D, UpsertConfig(D, on, role))
         /\ \A x : Spares(D, RotateToken(D, x))
         /\ Spares(D, RevokeToken(D))
         /\ \A role, on : Spares(D, CreateConnection(D, role, on))
         /\ \A c \in {SsoRole, SsoOn, Enforced} : \A x : Spares(D, UpdateConnection(D, c, x))
         /\ Spares(D, DeleteConnection(D))
<1> USE AccessCells, NeitherKeyNorSession DEF Spares, SameAccess, IsFunction
<1>1. \A v, x : Spares(D, EnrollMfa(D, v, x))
  BY DEF EnrollMfa
<1>2. \A v : Spares(D, ActivateMfa(D, v))
  BY DEF ActivateMfa
<1>3. \A v : Spares(D, DisableMfa(D, v))
  BY DEF DisableMfa
<1>4. \A on, role : Spares(D, UpsertConfig(D, on, role))
  BY DEF UpsertConfig
<1>5. \A x : Spares(D, RotateToken(D, x))
  BY DEF RotateToken
<1>6. Spares(D, RevokeToken(D))
  BY DEF RevokeToken
<1>7. \A role, on : Spares(D, CreateConnection(D, role, on))
  BY DEF CreateConnection
<1>8. \A c \in {SsoRole, SsoOn, Enforced} : \A x : Spares(D, UpdateConnection(D, c, x))
  BY DEF UpdateConnection
<1>9. Spares(D, DeleteConnection(D))
  BY DEF DeleteConnection
<1> QED
  BY <1>1, <1>2, <1>3, <1>4, <1>5, <1>6, <1>7, <1>8, <1>9

\* Sessions that are opened, and those a sync revokes.
LEMMA OpeningIsLater ==
  ASSUME NEW D, IsFunction(D), NEW r \in Reqs, NEW u \in Users
  PROVE  /\ LaterAccess(D, CreateSession(D, r, u))
         /\ LaterAccess(D, ResolveMembership(D, r, u))
<1>1. [of |-> u, revoked |-> FALSE] \in Session
  BY DEF Session
<1>2. ASSUME NEW s \in Sess
      PROVE  CreateSession(D, r, u)[Live(s)] = D[Live(s)] \/ CreateSession(D, r, u)[Live(s)] \in Session
  BY <1>1, AccessCells DEF CreateSession, IsFunction
<1>3. \A k \in Keys : CreateSession(D, r, u)[Key(k)] = D[Key(k)]
  BY AccessCells DEF CreateSession, IsFunction
<1>4. LaterAccess(D, CreateSession(D, r, u))
  BY <1>2, <1>3 DEF LaterAccess
<1>5. LaterAccess(D, D)
  BY DEF LaterAccess
<1> QED
  BY <1>4, <1>5 DEF ResolveMembership

LEMMA SyncIsLater ==
  ASSUME NEW D, Access(D), NEW us
  PROVE  LaterAccess(D, SyncMembership(D, us)) /\ IsFunction(SyncMembership(D, us))
<1> DEFINE E == SyncMembership(D, us)
<1>1. ASSUME NEW s \in Sess PROVE E[Live(s)] = D[Live(s)] \/ E[Live(s)] \in Session
  <2>1. Live(s) \in Cells /\ Live(s)[1] = "session"
    BY AccessCells
  <2>2. E[Live(s)] = D[Live(s)] \/ (D[Live(s)] # None /\ E[Live(s)] = [D[Live(s)] EXCEPT !.revoked = TRUE])
    BY <2>1 DEF SyncMembership
  <2>3. D[Live(s)] # None => D[Live(s)] \in Session
    BY DEF Access
  <2>4. D[Live(s)] \in Session => [D[Live(s)] EXCEPT !.revoked = TRUE] \in Session
    BY DEF Session
  <2> QED
    BY <2>2, <2>3, <2>4
<1>2. ASSUME NEW k \in Keys PROVE E[Key(k)] = D[Key(k)]
  <2>1. Key(k) \in Cells /\ Key(k)[1] = "key"
    BY AccessCells
  <2> QED
    BY <2>1 DEF SyncMembership
<1>3. IsFunction(E)
  BY DEF SyncMembership, IsFunction
<1> HIDE DEF E
<1> QED
  BY <1>1, <1>2, <1>3 DEF LaterAccess, E

LEMMA SignInsAreLater ==
  ASSUME NEW D, IsFunction(D), Access(D), NEW r \in Reqs, NEW u \in Users,
         NEW E \in {Login(D, r, u), VerifyMfa(D, r, u), SwitchOrg(D, r, u), OAuthCallback(D, r, u), SsoSignIn(D, r, u)},
         E # None
  PROVE  LaterAccess(D, E)
<1>1. CASE E \in {Login(D, r, u), VerifyMfa(D, r, u), SwitchOrg(D, r, u)}
  <2>1. LaterAccess(D, D)
    BY DEF LaterAccess
  <2> QED
    BY <1>1, <2>1, OpeningIsLater DEF Login, VerifyMfa, SwitchOrg
<1>2. CASE E = OAuthCallback(D, r, u)
  <2> DEFINE F == [D EXCEPT ![Account(u)] = IF @ = None THEN "bare" ELSE @]
  <2>1. E = ResolveMembership(F, r, u)
    BY <1>2 DEF OAuthCallback
  <2>2. IsFunction(F) /\ SameAccess(D, F)
    BY AccessCells, NeitherKeyNorSession DEF IsFunction, SameAccess
  <2> HIDE DEF F
  <2> QED
    BY <2>1, <2>2, OpeningIsLater, SameTwice
<1>3. CASE E = SsoSignIn(D, r, u)
  <2> DEFINE F == Provision(D, u)
  <2>1. E = CreateSession(F, r, u)
    BY <1>3 DEF SsoSignIn
  <2>2. IsFunction(F) /\ SameAccess(D, F)
    BY AccessCells, NeitherKeyNorSession DEF IsFunction, SameAccess, Provision
  <2> HIDE DEF F
  <2> QED
    BY <2>1, <2>2, OpeningIsLater, SameTwice
<1> QED
  BY <1>1, <1>2, <1>3

LEMMA SetThenSyncIsLater ==
  ASSUME NEW D, Access(D), NEW E, SameAccess(D, E), NEW us
  PROVE  LaterAccess(D, SyncMembership(E, us)) /\ IsFunction(SyncMembership(E, us))
BY SameTwice, SyncIsLater

LEMMA ScimIsLater ==
  ASSUME NEW D, IsFunction(D), Access(D), NEW u, NEW on, NEW g, NEW name, NEW us,
         NEW E \in {ScimCreateUser(D, u, on), ScimSetActive(D, u, on), ScimDeleteUser(D, u),
                   ScimCreateGroup(D, g, name, us), ScimSetGroup(D, g, name, us), ScimDeleteGroup(D, g)},
         E # None
  PROVE  LaterAccess(D, E)
<1>1. \A x : SameAccess(D, [D EXCEPT ![Scim(u)] = x])
  BY AccessCells, NeitherKeyNorSession DEF IsFunction, SameAccess
<1>2. \A x : SameAccess(D, [D EXCEPT ![Group(g)] = x])
  BY AccessCells, NeitherKeyNorSession DEF IsFunction, SameAccess
<1>3. CASE E = ScimCreateUser(D, u, on)
  <2> DEFINE F == [D EXCEPT ![Account(u)] = IF @ = None THEN "bare" ELSE @, ![Scim(u)] = Status(on)]
  <2>1. E = SyncMembership(F, {u})
    BY <1>3 DEF ScimCreateUser
  <2>2. SameAccess(D, F)
    BY AccessCells, NeitherKeyNorSession DEF IsFunction, SameAccess
  <2> HIDE DEF F
  <2> QED
    BY <2>1, <2>2, SetThenSyncIsLater
<1>4. CASE E = ScimSetActive(D, u, on)
  BY <1>1, <1>4, SetThenSyncIsLater DEF ScimSetActive
<1>5. CASE E = ScimDeleteUser(D, u)
  <2> DEFINE G == SyncMembership([D EXCEPT ![Scim(u)] = "inactive"], {u})
             H == Without(G, u)
  <2>1. E = [H EXCEPT ![Scim(u)] = None]
    BY <1>5 DEF ScimDeleteUser
  <2>2. LaterAccess(D, G) /\ IsFunction(G)
    BY <1>1, SetThenSyncIsLater
  <2> HIDE DEF G
  <2>3. IsFunction(H) /\ SameAccess(G, H)
    <3>1. \A c \in Cells : c[1] # "group" => H[c] = G[c]
      BY DEF Without
    <3>2. IsFunction(H)
      BY DEF Without, IsFunction
    <3> HIDE DEF H
    <3> QED
      BY <3>1, <3>2, AccessCells DEF SameAccess
  <2> HIDE DEF H
  <2>4. SameAccess(H, E)
    BY <2>1, <2>3, AccessCells, NeitherKeyNorSession DEF IsFunction, SameAccess
  <2> QED
    BY <2>2, <2>3, <2>4 DEF LaterAccess, SameAccess, RevokedKey
<1>6. ASSUME NEW n, NEW ms PROVE LaterAccess(D, SetMembers(D, g, n, ms))
  BY <1>2, SetThenSyncIsLater DEF SetMembers
<1>7. CASE E \in {ScimCreateGroup(D, g, name, us), ScimSetGroup(D, g, name, us)}
  BY <1>6, <1>7 DEF ScimCreateGroup, ScimSetGroup
<1>8. CASE E = ScimDeleteGroup(D, g)
  BY <1>2, <1>8, SetThenSyncIsLater DEF ScimDeleteGroup
<1> QED
  BY <1>3, <1>4, <1>5, <1>7, <1>8

LEMMA KeyInputs ==
  ASSUME NEW i \in Inputs
  PROVE  /\ i.op = "key" => "s" \in DOMAIN i /\ i.s \in Sess /\ i.scopes \in SUBSET Permissions
         /\ i.op = "revoke_key" => i.k \in Standing
BY DEF Inputs, Self, SignIns, Scims, Permissions, Sess

LEMMA RevokingIsLater ==
  ASSUME NEW D, IsFunction(D), Access(D), NEW k \in Standing, RevokeKey(D, k) # None
  PROVE  LaterAccess(D, RevokeKey(D, k))
<1> DEFINE E == [D EXCEPT ![Key(k)].revoked = TRUE]
<1>1. k \in Keys
  BY DEF Keys
<1>2. RevokeKey(D, k) = E /\ D[Key(k)] \in ApiKey
  BY <1>1 DEF RevokeKey, Access
<1>3. E[Key(k)] = [D[Key(k)] EXCEPT !.revoked = TRUE]
  BY <1>1, AccessCells DEF IsFunction
<1>4. E[Key(k)] \in ApiKey /\ E[Key(k)].revoked
  <2> HIDE DEF E
  <2> QED
    BY <1>2, <1>3 DEF ApiKey
<1>5. \A j \in Keys : j # k => E[Key(j)] = D[Key(j)]
  BY AccessCells DEF IsFunction
<1>6. \A s \in Sess : E[Live(s)] = D[Live(s)]
  BY AccessCells DEF IsFunction
<1> HIDE DEF E
<1> QED
  BY <1>2, <1>4, <1>5, <1>6 DEF LaterAccess, RevokedKey

\* What a handler does to keys and sessions.
LEMMA HandlerKeepsAccess ==
  ASSUME NEW D, IsFunction(D), Access(D), NEW i \in Inputs, NEW r \in Reqs, NEW me, NEW role, i.op # "key",
         Handler(r, i, me, role, D) # None
  PROVE  LaterAccess(D, Handler(r, i, me, role, D))
<1> DEFINE E == Handler(r, i, me, role, D)
<1>1. SameAccess(D, E) => LaterAccess(D, E)
  BY DEF SameAccess, LaterAccess
<1>2. CASE i.op \in {"add", "role", "remove", "register"}
  <2>1. \/ E = AddMember(D, i.u, i.role)
        \/ E = UpdateMemberRole(D, i.u, i.role)
        \/ E = RemoveMember(D, i.u)
        \/ E = Register(D, i.u)
    BY <1>2 DEF Handler
  <2> HIDE DEF E
  <2>2. Spares(D, E)
    BY <2>1, MembersSpare
  <2> QED
    BY <1>1, <2>2 DEF Spares, E
<1>3. CASE i.op = "revoke_key"
  BY <1>3, KeyInputs, RevokingIsLater DEF Handler
<1>4. CASE i.op \in {"config", "rotate", "revoke_token", "connect", "reconnect", "disconnect"} \cup Self
  <2>1. \/ E = EnrollMfa(D, me, r)
        \/ E = ActivateMfa(D, me)
        \/ E = DisableMfa(D, me)
        \/ E = UpsertConfig(D, i.on, i.role)
        \/ E = RotateToken(D, r)
        \/ E = RevokeToken(D)
        \/ E = CreateConnection(D, i.role, i.on)
        \/ i.op = "reconnect" /\ E = UpdateConnection(D, i.column, i.value)
        \/ E = DeleteConnection(D)
    BY <1>4 DEF Handler, Self
  <2>2. i.op = "reconnect" => i.column \in {SsoRole, SsoOn, Enforced}
    BY InputFields
  <2> HIDE DEF E
  <2>3. Spares(D, E)
    BY <2>1, <2>2, SettingsSpare
  <2> QED
    BY <1>1, <2>3 DEF Spares, E
<1>5. CASE i.op \in SignIns \ {"register"}
  <2>1. E \in {Login(D, r, i.u), VerifyMfa(D, r, i.u), SwitchOrg(D, r, i.u), OAuthCallback(D, r, i.u),
               SsoSignIn(D, r, i.u)}
    BY <1>5 DEF Handler, SignIns
  <2>2. i.u \in Users
    BY <1>5, InputFields
  <2> HIDE DEF E
  <2>3. E # None => LaterAccess(D, E)
    BY <2>1, <2>2, SignInsAreLater
  <2> QED
    BY <2>3 DEF E
<1>6. CASE i.op \in Scims
  <2>1. \/ E = ScimCreateUser(D, i.u, i.on)
        \/ E = ScimSetActive(D, i.u, i.on)
        \/ E = ScimDeleteUser(D, i.u)
        \/ E = ScimCreateGroup(D, i.g, i.name, i.us)
        \/ E = ScimSetGroup(D, i.g, i.name, i.us)
        \/ E = ScimDeleteGroup(D, i.g)
    BY <1>6 DEF Handler, Scims
  <2> HIDE DEF E
  <2>2. E # None => LaterAccess(D, E)
    BY <2>1, ScimIsLater
  <2> QED
    BY <2>2 DEF E
<1> QED
  BY <1>2, <1>3, <1>4, <1>5, <1>6, InputFields DEF SignIns

-------------------------------------------------------------------------------
\* The role that judges key k has been changed since k's request began.
Changed(u, k) == \E p \in Reqs : Member(u) \in Wrote(p) /\ (k \in Reqs => p \notin prior[k])
Backed(key, k) == Within(db, key) \/ Changed(key.by, k)

\* What request r, at x, is about to write, and what it has read for it.
Creating(x, r) ==
  x.pc \in {"enter", "read"} /\ x.in.op = "key" =>
    /\ x.me \in Users
    /\ x.pc = "read" => x.role # None /\ (db[Member(x.me)] = x.role \/ Changed(x.me, r))
Unread(x) == \A y : Live(y) \notin DOMAIN x.loaded /\ Key(y) \notin DOMAIN x.loaded
Writing(x, r) ==
  x.pc = "write" =>
    /\ \A s \in Sess : Live(s) \in DOMAIN x.cells => x.cells[Live(s)] \in Session
    /\ \A k \in Keys : Key(k) \in DOMAIN x.cells =>
         /\ x.cells[Key(k)] \in ApiKey /\ k \in Standing \cup {r}
         /\ x.cells[Key(k)].revoked \/ Backed(x.cells[Key(k)], k)

Tidy(r) == Creating(req[r], r) /\ Unread(req[r]) /\ Writing(req[r], r)

KInv ==
  /\ Phases /\ Access(db)
  /\ \A r \in Reqs : db[Key(r)] # None => req[r].pc = "done"
  /\ \A k \in Keys : db[Key(k)] # None => db[Key(k)].revoked \/ Backed(db[Key(k)], k)
  /\ \A r \in Reqs : Tidy(r)

LEMMA KInvSuffices == KInv => KeyWithinCreator
<1> SUFFICES ASSUME KInv, NEW k \in Keys, db[Key(k)] # None, ~db[Key(k)].revoked, ~Within(db, db[Key(k)])
             PROVE  Changed(db[Key(k)].by, k)
  BY DEF KeyWithinCreator, Changed
<1> QED
  BY DEF KInv, Backed

\* A step of r that commits nothing.
LEMMA QuietKeepsKeys ==
  ASSUME KInv, NEW r \in Reqs, NEW x, req' = [req EXCEPT ![r] = x], db' = db, Phases',
         req[r].pc # "done", x.end # "ok", \A q \in Reqs \ {r} : prior'[q] = prior[q],
         req[r].pc = "idle" \/ prior'[r] = prior[r], Creating(x, r)', Unread(x), Writing(x, r)'
  PROVE  KInv'
<1>1. req'[r] = x /\ (\A q \in Reqs \ {r} : req'[q] = req[q]) /\ req[r].end # "ok"
  BY DEF KInv, Phases, Shape
<1>2. \A q \in Reqs : Wrote(q)' = Wrote(q)
  BY <1>1 DEF Wrote, Ok
<1>3. \A u, k : k # r => (Changed(u, k)' <=> Changed(u, k))
  BY <1>1, <1>2 DEF Changed
<1>4. \A key, k : k # r => (Backed(key, k)' <=> Backed(key, k))
  BY <1>3 DEF Backed, Within
<1>5. req[r].pc # "idle" => prior'[r] = prior[r]
  OBVIOUS
<1>6. \A u : req[r].pc # "idle" => (Changed(u, r)' <=> Changed(u, r))
  BY <1>2, <1>5 DEF Changed
<1>7. \A key : req[r].pc # "idle" => (Backed(key, r)' <=> Backed(key, r))
  BY <1>6 DEF Backed, Within
<1>8. db[Key(r)] = None
  BY DEF KInv
<1>9. \A q \in Reqs : db'[Key(q)] # None => req'[q].pc = "done"
  BY <1>1, <1>8 DEF KInv
<1>10. ASSUME NEW k \in Keys, db[Key(k)] # None, ~db[Key(k)].revoked
       PROVE  Backed(db[Key(k)], k)'
  <2>1. k # r
    BY <1>8, <1>10
  <2>2. \A u : Changed(u, k)' <=> Changed(u, k)
    BY <1>3, <2>1
  <2>3. Backed(db[Key(k)], k)
    BY <1>10 DEF KInv
  <2> QED
    BY <2>2, <2>3 DEF Backed, Within
<1>11. ASSUME NEW q \in Reqs PROVE Tidy(q)'
  <2>1. CASE q = r
    BY <1>1, <2>1 DEF Tidy, Creating, Unread, Writing, Backed, Within, Changed
  <2>2. CASE q # r
    <3>1. Tidy(q) /\ req'[q] = req[q]
      BY <1>1, <2>2 DEF KInv
    <3>2. Creating(req[q], q)'
      BY <1>3, <2>2, <3>1 DEF Tidy, Creating
    <3>3. Writing(req[q], q)'
      <4>1. ASSUME NEW k \in Keys, k \in Standing \cup {q} PROVE k # r
        BY <2>2, <4>1, NamesAssumption
      <4>2. ASSUME NEW k \in Keys, req[q].pc = "write", Key(k) \in DOMAIN req[q].cells,
                   ~req[q].cells[Key(k)].revoked
            PROVE  Backed(req[q].cells[Key(k)], k)'
        <5>1. Backed(req[q].cells[Key(k)], k) /\ k # r
          BY <3>1, <4>1, <4>2 DEF Tidy, Writing
        <5>2. \A u : Changed(u, k)' <=> Changed(u, k)
          BY <1>3, <5>1
        <5> QED
          BY <3>1, <5>1, <5>2 DEF Backed, Within
      <4> QED
        BY <3>1, <4>2 DEF Tidy, Writing
    <3> QED
      BY <3>1, <3>2, <3>3 DEF Tidy, Creating, Unread, Writing, Backed, Within, Changed
  <2> QED
    BY <2>1, <2>2
<1>12. Access(db)'
  BY DEF KInv, Access
<1> QED
  BY <1>9, <1>10, <1>11, <1>12 DEF KInv

LEMMA StopKeepsKeys ==
  ASSUME KInv, NEW r \in Reqs, NEW how, how # "ok", Stop(r, how), db' = db, prior' = prior,
         req[r].pc # "done", Phases'
  PROVE  KInv'
<1> DEFINE y == Stopped(req[r], how)
<1>1. Shape(req[r]) /\ Unread(req[r])
  BY DEF KInv, Phases, Tidy
<1>2. y.pc = "done" /\ y.end # "ok" /\ y.loaded = req[r].loaded
  BY <1>1 DEF Shape, IsRequest, Fields, Stopped
<1>3. req' = [req EXCEPT ![r] = y]
  BY DEF Stop, Become, Stopped
<1> HIDE DEF y
<1>4. PICK z : z = y
  OBVIOUS
<1>5. Creating(z, r)' /\ Unread(z) /\ Writing(z, r)'
  BY <1>1, <1>2, <1>4 DEF Creating, Unread, Writing
<1> QED
  BY <1>2, <1>3, <1>4, <1>5, QuietKeepsKeys

\* Whoever comes with a session is a user.
LEMMA StartKeepsKeys ==
  ASSUME KInv, NEW r \in Reqs, Start(r), Phases'
  PROVE  KInv'
<1>1. PICK i \in Inputs :
        /\ "s" \in DOMAIN i => db[Live(i.s)] # None
        /\ LET me == IF "s" \in DOMAIN i THEN db[Live(i.s)].of ELSE None IN
          Become(r, [Fresh EXCEPT
            !.pc = IF i.op \in SignIns THEN "read" ELSE "enter", !.in = i, !.me = me,
            !.loaded = CASE i.op \in Scims    -> ScimColumns
                         [] "s" \in DOMAIN i -> UserColumns(me)
                         [] OTHER            -> <<>>])
  BY DEF Start
<1> DEFINE me == IF "s" \in DOMAIN i THEN db[Live(i.s)].of ELSE None
           l == CASE i.op \in Scims    -> ScimColumns
                  [] "s" \in DOMAIN i -> UserColumns(me)
                  [] OTHER            -> <<>>
           e == IF i.op \in SignIns THEN "read" ELSE "enter"
           a == [Fresh EXCEPT !.pc = e, !.in = i]
           x == [a EXCEPT !.me = me, !.loaded = l]
<1>2. Become(r, x)
  <2> HIDE DEF me, l, e
  <2>1. x = [Fresh EXCEPT !.pc = e, !.in = i, !.me = me, !.loaded = l]
    BY DEF Fresh
  <2> QED
    BY <1>1, <2>1 DEF me, l, e
<1>3. \A y : Live(y) \notin DOMAIN l /\ Key(y) \notin DOMAIN l
  <2>1. l \in {ScimColumns, UserColumns(me), <<>>}
    <3> HIDE DEF me
    <3> QED
      OBVIOUS
  <2>2. \A y : /\ Live(y) \notin DOMAIN ScimColumns /\ Key(y) \notin DOMAIN ScimColumns
               /\ Live(y) \notin DOMAIN UserColumns(me) /\ Key(y) \notin DOMAIN UserColumns(me)
    <3> HIDE DEF me
    <3> QED
      BY NeitherKeyNorSession DEF ScimColumns, UserColumns
  <2>3. DOMAIN <<>> = {}
    OBVIOUS
  <2> HIDE DEF l, me
  <2> QED
    BY <2>1, <2>2, <2>3
<1>4. i.op = "key" => me \in Users /\ e = "enter"
  <2>1. i.op = "key" => "s" \in DOMAIN i /\ i.s \in Sess
    BY KeyInputs
  <2>2. i.op = "key" => db[Live(i.s)] \in Session
    BY <1>1, <2>1 DEF KInv, Access
  <2>3. i.op = "key" => me \in Users
    BY <2>1, <2>2 DEF Session
  <2> QED
    BY <2>3 DEF SignIns
<1>5. e \in {"read", "enter"}
  OBVIOUS
<1> HIDE DEF me, l, e
<1>6. x.pc = e /\ x.in = i /\ x.me = me /\ x.loaded = l /\ x.end = "none"
  <2>1. IsRequest(a) /\ a.pc = e /\ a.in = i /\ a.end = "none"
    BY FreshShape DEF Shape, IsRequest, Fields
  <2> HIDE DEF a
  <2> QED
    BY <2>1 DEF IsRequest, Fields
<1> HIDE DEF x
<1>7. /\ req' = [req EXCEPT ![r] = x] /\ db' = db /\ req[r].pc = "idle"
      /\ prior' = [prior EXCEPT ![r] = {q \in Reqs : req[q].pc = "done"}]
  BY <1>2 DEF Start, Become
<1>8. \A q \in Reqs \ {r} : prior'[q] = prior[q]
  BY <1>7 DEF KInv, Phases
<1>9. PICK z : z = x
  OBVIOUS
<1>10. PICK user : user = me
  OBVIOUS
<1>11. Creating(z, r)' /\ Unread(z) /\ Writing(z, r)'
  BY <1>3, <1>4, <1>5, <1>6, <1>9, <1>10 DEF Creating, Unread, Writing
<1> QED
  BY <1>6, <1>7, <1>8, <1>9, <1>11, QuietKeepsKeys

\* The membership is read here: it is the role that judges the key.
LEMMA EnterKeepsKeys ==
  ASSUME KInv, NEW r \in Reqs, Enter(r), Phases'
  PROVE  KInv'
<1> DEFINE i == req[r].in
           role == IF i.op \in Scims THEN None ELSE db[Member(req[r].me)]
           y == [req[r] EXCEPT !.pc = "read", !.role = role]
<1>1. req[r].pc = "enter" /\ db' = db /\ prior' = prior
  BY DEF Enter
<1>2. Stop(r, "refused") \/ (Become(r, y) /\ (i.op \in Scims \/ role # None))
  BY DEF Enter
<1>3. CASE Stop(r, "refused")
  BY <1>1, <1>3, StopKeepsKeys
<1>4. CASE Become(r, y) /\ (i.op \in Scims \/ role # None)
  <2>1. Shape(req[r]) /\ Unread(req[r]) /\ Creating(req[r], r)
    BY DEF KInv, Phases, Tidy
  <2>2. i.op = "key" => role # None /\ role = db[Member(req[r].me)] /\ req[r].me \in Users
    BY <1>1, <1>4, <2>1 DEF Scims, Creating
  <2> HIDE DEF role
  <2>3. /\ y.pc = "read" /\ y.role = role /\ y.end # "ok"
        /\ y.in = i /\ y.me = req[r].me /\ y.loaded = req[r].loaded
    BY <1>1, <2>1 DEF Shape, IsRequest, Fields
  <2>4. req' = [req EXCEPT ![r] = y]
    BY <1>4 DEF Become
  <2> HIDE DEF y, i
  <2>5. PICK z : z = y
    OBVIOUS
  <2>6. Creating(z, r)'
    <3>1. z.in.op = "key" => z.me \in Users /\ z.role # None /\ db[Member(z.me)] = z.role
      BY <2>2, <2>3, <2>5 DEF i
    <3> QED
      BY <1>1, <3>1 DEF Creating
  <2>7. Unread(z) /\ Writing(z, r)'
    BY <2>1, <2>3, <2>5 DEF Unread, Writing
  <2> QED
    BY <1>1, <2>3, <2>4, <2>5, <2>6, <2>7, QuietKeepsKeys
<1> HIDE DEF y
<1> QED
  BY <1>2, <1>3, <1>4

LEMMA VictimKeepsKeys ==
  ASSUME KInv, NEW r \in Reqs, Victim(r), Phases'
  PROVE  KInv'
<1>1. db' = db /\ prior' = prior /\ Stop(r, "deadlock") /\ Wants(r) # {}
  BY DEF Victim
<1>2. req[r].pc # "done"
  BY <1>1 DEF Wants, KInv, Phases, Shape
<1> QED
  BY <1>1, <1>2, StopKeepsKeys

LEMMA WriteKeepsKeys ==
  ASSUME KInv, NEW r \in Reqs, Write(r), Phases'
  PROVE  KInv'
<1>1. req[r].pc = "write" /\ db' = db /\ prior' = prior
  BY DEF Write
<1>2. PICK row : Stop(r, "clash") \/ Become(r, [req[r] EXCEPT !.want = @ \ {row}])
  BY DEF Write
<1>3. CASE Stop(r, "clash")
  BY <1>1, <1>3, StopKeepsKeys
<1>4. CASE Become(r, [req[r] EXCEPT !.want = @ \ {row}])
  <2> DEFINE w == req[r].want \ {row}
             y == [req[r] EXCEPT !.want = w]
  <2>1. Shape(req[r]) /\ Unread(req[r]) /\ Writing(req[r], r)
    BY DEF KInv, Phases, Tidy
  <2>2. req' = [req EXCEPT ![r] = y]
    BY <1>4 DEF Become
  <2> HIDE DEF w
  <2>3. y.pc = "write" /\ y.end # "ok" /\ y.cells = req[r].cells /\ y.loaded = req[r].loaded
    BY <1>1, <2>1 DEF Shape, IsRequest, Fields
  <2> HIDE DEF y
  <2>4. \A q \in Reqs : Wrote(q)' = Wrote(q)
    BY <1>1, <2>1, <2>2, <2>3 DEF Wrote, Ok, Shape, KInv, Phases
  <2>5. \A key, k : Backed(key, k)' <=> Backed(key, k)
    BY <1>1, <2>4 DEF Backed, Within, Changed
  <2>6. PICK z : z = y
    OBVIOUS
  <2>7. Creating(z, r)' /\ Unread(z)
    BY <2>1, <2>3, <2>6 DEF Creating, Unread
  <2>8. Writing(z, r)
    BY <1>1, <2>1, <2>3, <2>6 DEF Writing
  <2>9. Writing(z, r)'
    BY <2>5, <2>8 DEF Writing
  <2> QED
    BY <1>1, <2>2, <2>3, <2>6, <2>7, <2>9, QuietKeepsKeys
<1> QED
  BY <1>2, <1>3, <1>4

\* A request writes of keys and sessions what its handler changes.
LEMMA HandlerWrites ==
  ASSUME KInv, NEW r \in Reqs, req[r].pc = "read", NEW D, D = Put(db, req[r].loaded), NEW E, E # None,
         E = Handler(r, req[r].in, req[r].me, req[r].role, D), NEW f, f = Changes(D, E)
  PROVE  /\ \A s \in Sess : Live(s) \in DOMAIN f => f[Live(s)] \in Session
         /\ \A k \in Keys : Key(k) \in DOMAIN f =>
              /\ f[Key(k)] \in ApiKey /\ k \in Standing \cup {r}
              /\ f[Key(k)].revoked \/ Backed(f[Key(k)], k)
<1> DEFINE i == req[r].in
<1>1. i \in Inputs /\ Creating(req[r], r) /\ Unread(req[r]) /\ DOMAIN db = Cells
  BY DEF KInv, Phases, Shape, Tidy
<1>2. IsFunction(D)
  BY <1>1, PutIsFunction DEF IsFunction
<1>3. Access(D)
  BY <1>1, AccessCells DEF KInv, Access, Unread, Put
<1>4. \A c \in DOMAIN f : E[c] # D[c] /\ f[c] = E[c]
  BY DEF Changes
<1>5. CASE i.op # "key"
  <2>1. LaterAccess(D, E)
    BY <1>1, <1>2, <1>3, <1>5, HandlerKeepsAccess
  <2> QED
    BY <1>4, <2>1 DEF LaterAccess, RevokedKey
<1>6. CASE i.op = "key"
  <2> DEFINE key == [by |-> req[r].me, scopes |-> i.scopes, revoked |-> FALSE]
  <2>1. /\ req[r].me \in Users /\ req[r].role # None
        /\ db[Member(req[r].me)] = req[r].role \/ Changed(req[r].me, r)
    BY <1>1, <1>6 DEF Creating
  <2>2. E = CreateKey(D, r, req[r].me, req[r].role, i.scopes)
    BY <1>6 DEF Handler
  <2>3. i.scopes \subseteq SystemRoleGrants[req[r].role] /\ E = [D EXCEPT ![Key(r)] = key]
    BY <2>2 DEF CreateKey, Grantable
  <2>4. key \in ApiKey
    BY <1>1, <1>6, <2>1, KeyInputs DEF ApiKey
  <2>5. Backed(key, r)
    BY <2>1, <2>3 DEF Backed, Within
  <2>6. r \in Keys
    BY DEF Keys
  <2>7. E[Key(r)] = key
    BY <1>2, <2>3, <2>6, AccessCells DEF IsFunction
  <2> HIDE DEF key
  <2>8. ASSUME NEW s \in Sess PROVE E[Live(s)] = D[Live(s)]
    <3>1. Live(s) \in Cells /\ Live(s) # Key(r)
      BY AccessCells
    <3> QED
      BY <1>2, <2>3, <3>1 DEF IsFunction
  <2>9. ASSUME NEW k \in Keys, k # r PROVE E[Key(k)] = D[Key(k)]
    <3>1. Key(k) \in Cells /\ Key(k) # Key(r)
      BY <2>9, AccessCells
    <3> QED
      BY <1>2, <2>3, <3>1 DEF IsFunction
  <2>10. \A s \in Sess : Live(s) \notin DOMAIN f
    BY <1>4, <2>8
  <2>11. ASSUME NEW k \in Keys, Key(k) \in DOMAIN f
         PROVE  k = r /\ f[Key(k)] = key
    BY <1>4, <2>7, <2>9, <2>11
  <2> QED
    BY <2>4, <2>5, <2>10, <2>11
<1> QED
  BY <1>5, <1>6

LEMMA ReadKeepsKeys ==
  ASSUME KInv, NEW r \in Reqs, Read(r), Phases'
  PROVE  KInv'
<1> DEFINE i == req[r].in
           D == Put(db, req[r].loaded)
           E == Handler(r, i, req[r].me, req[r].role, D)
           f == Changes(D, E)
           rows == {Row(c) : c \in DOMAIN f}
           there == {row \in rows : Exists(D, row)}
           us == Syncs(i, D)
           want == rows \cup (IF i.op = "login" THEN {Account(i.u)} ELSE {})
           y == Deciding(req[r], f, there, us, want)
<1>1. req[r].pc = "read" /\ db' = db /\ prior' = prior
  BY DEF Read
<1>2. Stop(r, "refused") \/ (E # None /\ Become(r, y))
  BY DEF Read, Deciding
<1>3. CASE Stop(r, "refused")
  BY <1>1, <1>3, StopKeepsKeys
<1>4. CASE E # None /\ Become(r, y)
  <2>1. Shape(req[r]) /\ Unread(req[r])
    BY DEF KInv, Phases, Tidy
  <2>2. /\ \A s \in Sess : Live(s) \in DOMAIN f => f[Live(s)] \in Session
        /\ \A k \in Keys : Key(k) \in DOMAIN f =>
             /\ f[Key(k)] \in ApiKey /\ k \in Standing \cup {r}
             /\ f[Key(k)].revoked \/ Backed(f[Key(k)], k)
    <3> HIDE DEF D, E, f
    <3>1. D = Put(db, req[r].loaded) /\ E = Handler(r, req[r].in, req[r].me, req[r].role, D) /\ f = Changes(D, E)
      BY DEF D, E, f
    <3> QED
      BY <1>1, <1>4, <3>1, HandlerWrites
  <2>3. y.pc = "write" /\ y.end # "ok" /\ y.cells = f /\ y.loaded = req[r].loaded
    <3> HIDE DEF f, there, us, want, i
    <3> QED
      BY <1>1, <2>1 DEF Shape, IsRequest, Fields, Deciding
  <2>4. req' = [req EXCEPT ![r] = y]
    BY <1>4 DEF Become
  <2> HIDE DEF y, f
  <2>5. \A q \in Reqs : Wrote(q)' = Wrote(q)
    BY <1>1, <2>1, <2>3, <2>4 DEF Wrote, Ok, Shape, KInv, Phases
  <2>6. \A key, k : Backed(key, k)' <=> Backed(key, k)
    BY <1>1, <2>5 DEF Backed, Within, Changed
  <2>7. PICK z : z = y
    OBVIOUS
  <2>8. Creating(z, r)' /\ Unread(z)
    BY <2>1, <2>3, <2>7 DEF Creating, Unread
  <2>9. Writing(z, r)
    BY <2>2, <2>3, <2>7 DEF Writing
  <2>10. Writing(z, r)'
    BY <2>6, <2>9 DEF Writing
  <2> QED
    BY <1>1, <2>3, <2>4, <2>7, <2>8, <2>10, QuietKeepsKeys
<1> HIDE DEF y, E
<1> QED
  BY <1>2, <1>3, <1>4

\* A commit that takes a role away is the change that excuses the keys it
\* judged, and those that are being created.
LEMMA CommitKeepsKeys ==
  ASSUME KInv, NEW r \in Reqs, Commit(r), Phases'
  PROVE  KInv'
<1> DEFINE y == Stopped(req[r], "ok")
           f == req[r].cells
<1>1. /\ req[r].pc = "write" /\ db' = Put(db, f) /\ prior' = prior
      /\ req' = [req EXCEPT ![r] = y]
  BY DEF Commit, Stop, Become, Stopped
<1>2. /\ Shape(req[r]) /\ req[r].end # "ok" /\ req = [q \in Reqs |-> req[q]] /\ DOMAIN db = Cells
      /\ Unread(req[r]) /\ Writing(req[r], r)
  BY <1>1 DEF KInv, Phases, Shape, Tidy
<1>3. y.pc = "done" /\ y.end = "ok" /\ y.cells = f /\ y.loaded = req[r].loaded
  BY <1>2 DEF Stopped, Shape, IsRequest, Fields
<1> HIDE DEF y
<1>4. req'[r] = y /\ \A q \in Reqs \ {r} : req'[q] = req[q]
  BY <1>1, <1>2
<1>5. Wrote(r)' = DOMAIN f /\ \A q \in Reqs : q # r => Wrote(q)' = Wrote(q)
  BY <1>3, <1>4 DEF Wrote, Ok
<1>6. Wrote(r) = {}
  BY <1>2 DEF Wrote, Ok
<1>7. \A k \in Reqs : r \notin prior[k]
  BY <1>1 DEF KInv, Phases
<1>8. \A u, k : Changed(u, k) => Changed(u, k)'
  BY <1>1, <1>5, <1>6 DEF Changed
<1>9. ASSUME NEW u \in Users, NEW k
      PROVE  db'[Member(u)] = db[Member(u)] \/ Changed(u, k)'
  <2>1. CASE Member(u) \in DOMAIN f
    BY <1>1, <1>5, <1>7, <2>1 DEF Changed
  <2>2. CASE Member(u) \notin DOMAIN f
    BY <1>1, <1>2, <2>2, MemberCells DEF Put
  <2> QED
    BY <2>1, <2>2
<1>10. ASSUME NEW key \in ApiKey, NEW k, Backed(key, k)
       PROVE  Backed(key, k)'
  <2>1. key.by \in Users
    BY DEF ApiKey
  <2>2. db'[Member(key.by)] = db[Member(key.by)] \/ Changed(key.by, k)'
    BY <1>9, <2>1
  <2> QED
    BY <1>8, <1>10, <2>2 DEF Backed, Within
<1>11. /\ \A s \in Sess : db'[Live(s)] = IF Live(s) \in DOMAIN f THEN f[Live(s)] ELSE db[Live(s)]
       /\ \A k \in Keys : db'[Key(k)] = IF Key(k) \in DOMAIN f THEN f[Key(k)] ELSE db[Key(k)]
  BY <1>1, <1>2, AccessCells DEF Put
<1>12. /\ \A s \in Sess : Live(s) \in DOMAIN f => f[Live(s)] \in Session
       /\ \A k \in Keys : Key(k) \in DOMAIN f =>
            /\ f[Key(k)] \in ApiKey /\ k \in Standing \cup {r}
            /\ f[Key(k)].revoked \/ Backed(f[Key(k)], k)
  BY <1>1, <1>2 DEF Writing
<1>13. Access(db)'
  BY <1>11, <1>12 DEF KInv, Access
<1>14. ASSUME NEW q \in Reqs, db'[Key(q)] # None
       PROVE  req'[q].pc = "done"
  <2>1. CASE q = r
    BY <1>3, <1>4, <2>1
  <2>2. CASE q # r
    <3>1. q \in Keys /\ q \notin Standing
      BY NamesAssumption DEF Keys
    <3>2. db'[Key(q)] = db[Key(q)]
      BY <1>11, <1>12, <2>2, <3>1
    <3> QED
      BY <1>4, <1>14, <2>2, <3>2 DEF KInv
  <2> QED
    BY <2>1, <2>2
<1>15. ASSUME NEW k \in Keys, db'[Key(k)] # None, ~db'[Key(k)].revoked
       PROVE  Backed(db[Key(k)], k)'
  <2>1. PICK key : key = db'[Key(k)]
    OBVIOUS
  <2>2. key \in ApiKey /\ Backed(key, k)
    <3>1. CASE Key(k) \in DOMAIN f
      BY <1>11, <1>12, <1>15, <2>1, <3>1
    <3>2. CASE Key(k) \notin DOMAIN f
      BY <1>11, <1>15, <2>1, <3>2 DEF KInv, Access
    <3> QED
      BY <3>1, <3>2
  <2>3. Backed(key, k)'
    BY <1>10, <2>2
  <2> QED
    BY <2>1, <2>3 DEF Backed, Within, Changed
<1>16. ASSUME NEW q \in Reqs PROVE Tidy(q)'
  <2>1. CASE q = r
    BY <1>2, <1>3, <1>4, <2>1 DEF Tidy, Creating, Unread, Writing
  <2>2. CASE q # r
    <3>1. Tidy(q) /\ req'[q] = req[q]
      BY <1>4, <2>2 DEF KInv
    <3>2. Creating(req[q], q)'
      BY <1>8, <1>9, <3>1 DEF Tidy, Creating
    <3>3. Writing(req[q], q)'
      BY <1>10, <3>1 DEF Tidy, Writing
    <3> QED
      BY <3>1, <3>2, <3>3 DEF Tidy, Unread
  <2> QED
    BY <2>1, <2>2
<1>17. /\ \A q \in Reqs : db'[Key(q)] # None => req'[q].pc = "done"
       /\ \A q \in Reqs : Tidy(q)'
  BY <1>14, <1>16
<1>18. (\A k \in Keys : db[Key(k)] # None => db[Key(k)].revoked \/ Backed(db[Key(k)], k))'
  BY <1>15
<1> QED
  BY <1>13, <1>17, <1>18 DEF KInv

\* The keys there are at the start are within their creators' roles, and none
\* bears the name of a request (AccessAssumption).
THEOREM InitKInv == Init => KInv
<1> SUFFICES ASSUME Init PROVE KInv
  OBVIOUS
<1>1. Phases
  BY InitIInv DEF IInv
<1>2. db \in Starts /\ \A r \in Reqs : req[r] = Fresh
  BY DEF Init
<1>3. Access(db) /\ \A k \in Keys : db[Key(k)] # None => db[Key(k)].revoked \/ Within(db, db[Key(k)])
  BY <1>2, AccessAssumption DEF Access
<1>4. ASSUME NEW r \in Reqs PROVE db[Key(r)] = None
  <2>1. r \in Keys /\ r \notin Standing
    BY NamesAssumption DEF Keys
  <2> QED
    BY <1>2, <2>1, AccessAssumption
<1>5. Fresh.pc = "idle" /\ Fresh.loaded = <<>>
  BY DEF Fresh
<1>6. \A r \in Reqs : Tidy(r)
  <2>1. DOMAIN <<>> = {}
    OBVIOUS
  <2> QED
    BY <1>2, <1>5, <2>1 DEF Tidy, Creating, Unread, Writing
<1> QED
  BY <1>1, <1>3, <1>4, <1>6 DEF KInv, Backed

\* No step leaves a key beyond the role of its creator unnoticed.
THEOREM NextKInv == IInv /\ KInv /\ [Next]_vars => KInv'
<1> SUFFICES ASSUME IInv, KInv, [Next]_vars PROVE KInv'
  OBVIOUS
<1>1. Phases'
  BY NextIInv DEF IInv
<1>2. ASSUME NEW r \in Reqs, Start(r) PROVE KInv'
  BY <1>1, <1>2, StartKeepsKeys
<1>3. ASSUME NEW r \in Reqs, Enter(r) PROVE KInv'
  BY <1>1, <1>3, EnterKeepsKeys
<1>4. ASSUME NEW r \in Reqs, Read(r) PROVE KInv'
  BY <1>1, <1>4, ReadKeepsKeys
<1>5. ASSUME NEW r \in Reqs, Write(r) PROVE KInv'
  BY <1>1, <1>5, WriteKeepsKeys
<1>6. ASSUME NEW r \in Reqs, Commit(r) PROVE KInv'
  BY <1>1, <1>6, CommitKeepsKeys
<1>7. ASSUME NEW r \in Reqs, Victim(r) PROVE KInv'
  BY <1>1, <1>7, VictimKeepsKeys
<1>8. CASE UNCHANGED vars
  <2>1. db' = db /\ req' = req /\ prior' = prior
    BY <1>8 DEF vars
  <2>2. \A q \in Reqs : Wrote(q)' = Wrote(q)
    BY <2>1 DEF Wrote, Ok
  <2>3. \A u, k : Changed(u, k)' <=> Changed(u, k)
    BY <2>1, <2>2 DEF Changed
  <2>4. \A key, k : Backed(key, k)' <=> Backed(key, k)
    BY <2>1, <2>3 DEF Backed, Within
  <2>5. \A x, r : (Creating(x, r)' <=> Creating(x, r)) /\ (Writing(x, r)' <=> Writing(x, r))
    BY <2>1, <2>3, <2>4 DEF Creating, Writing
  <2>6. \A r \in Reqs : Tidy(r)'
    BY <2>1, <2>5 DEF KInv, Tidy, Unread
  <2>7. Access(db)'
    BY <2>1 DEF KInv, Access
  <2>8. \A r \in Reqs : db'[Key(r)] # None => req'[r].pc = "done"
    BY <2>1 DEF KInv
  <2>9. (\A k \in Keys : db[Key(k)] # None => db[Key(k)].revoked \/ Backed(db[Key(k)], k))'
    <3>1. ASSUME NEW k \in Keys, db[Key(k)] # None, ~db[Key(k)].revoked
          PROVE  Backed(db[Key(k)], k)'
      <4>1. PICK key : key = db[Key(k)]
        OBVIOUS
      <4>2. Backed(key, k)'
        BY <2>4, <3>1, <4>1 DEF KInv
      <4> QED
        BY <2>1, <4>1, <4>2 DEF Backed, Within, Changed
    <3> QED
      BY <2>1, <3>1
  <2> QED
    BY <1>1, <2>6, <2>7, <2>8, <2>9 DEF KInv
<1> QED
  BY <1>2, <1>3, <1>4, <1>5, <1>6, <1>7, <1>8 DEF Next

\* A key grants no more than its creator may do until the creator's membership
\* changes: the scope check of apikeys/router.py judges by a role that was read
\* earlier in the request, and only a change of that membership by a request
\* that had not ended by then makes the key exceed it.
THEOREM KeyWithinCreatorHolds == Spec => []KeyWithinCreator
BY KInvSuffices, InitIInv, NextIInv, InitKInv, NextKInv, PTL DEF Spec
-------------------------------------------------------------------------------
(***************************************************************************)
(* Steps.  What the actions do to a request, said once: it begins, takes a *)
(* row lock, decides, commits, or ends without a commit.                   *)
(***************************************************************************)
Turns(r, y) ==
  /\ req[r].end # "ok" /\ req'[r] = y
  /\ \A q \in Reqs \ {r} : req'[q] = req[q]
Kept(x, y) == y.in = x.in /\ y.me = x.me /\ y.loaded = x.loaded
Same(x, y) == Kept(x, y) /\ y.cells = x.cells /\ y.syncs = x.syncs

Caller(i) == IF "s" \in DOMAIN i THEN db[Live(i.s)].of ELSE None
Loads(i) ==
  CASE i.op \in Scims    -> ScimColumns
    [] "s" \in DOMAIN i -> UserColumns(Caller(i))
    [] OTHER            -> <<>>

Begins(r) ==
  \E i \in Inputs : \E y :
    /\ Turns(r, y) /\ req[r].pc = "idle" /\ db' = db /\ held' = held
    /\ prior' = [prior EXCEPT ![r] = {q \in Reqs : req[q].pc = "done"}]
    /\ y.pc = (IF i.op \in SignIns THEN "read" ELSE "enter")
    /\ y.in = i /\ y.me = Caller(i) /\ y.loaded = Loads(i)
    /\ y.cells = <<>> /\ y.syncs = {} /\ y.end = "none"
    /\ i.op \in Scims => db[Token] # None
    /\ "s" \in DOMAIN i => db[Live(i.s)] # None
Takes(r) ==
  \E y, l :
    /\ Turns(r, y) /\ db' = db /\ prior' = prior
    /\ Same(req[r], y) /\ y.end # "ok"
    /\ \/ req[r].pc = "enter" /\ y.pc = "read" /\ l = FirstLock(req[r].in)
       \/ req[r].pc = "write" /\ y.pc = "write"
    /\ Free(r, l) /\ held' = [held EXCEPT ![r] = @ \cup {l}]
Decides(r) ==
  \E y, D, E :
    /\ Turns(r, y) /\ db' = db /\ prior' = prior /\ held' = held
    /\ req[r].pc = "read" /\ y.pc = "write" /\ y.end # "ok"
    /\ D = Put(db, req[r].loaded) /\ E = Handler(r, req[r].in, req[r].me, req[r].role, D)
    /\ E # None /\ Kept(req[r], y) /\ y.cells = Changes(D, E) /\ y.syncs = Syncs(req[r].in, D)
Commits(r) ==
  \E y :
    /\ Turns(r, y) /\ prior' = prior
    /\ req[r].pc = "write" /\ y.pc = "done" /\ y.end = "ok" /\ Same(req[r], y)
    /\ db' = Put(db, req[r].cells) /\ held' = [held EXCEPT ![r] = {}]
Aborts(r) ==
  \E y :
    /\ Turns(r, y) /\ db' = db /\ prior' = prior
    /\ req[r].pc \notin {"idle", "done"} /\ y.pc = "done" /\ y.end # "ok" /\ Same(req[r], y)
    /\ held' = [held EXCEPT ![r] = {}]

LEMMA TurnsTo ==
  ASSUME Phases, NEW r \in Reqs, NEW y, Become(r, y), req[r].pc # "done"
  PROVE  Turns(r, y)
<1>1. req = [q \in Reqs |-> req[q]] /\ Shape(req[r])
  BY DEF Phases
<1>2. req[r].end # "ok"
  BY <1>1 DEF Shape
<1> QED
  BY <1>1, <1>2 DEF Turns, Become

LEMMA StopMoves ==
  ASSUME Phases, NEW r \in Reqs, NEW how, Stop(r, how), req[r].pc # "done"
  PROVE  LET y == Stopped(req[r], how) IN
           /\ Turns(r, y) /\ Same(req[r], y) /\ y.pc = "done" /\ y.end = how
           /\ held' = [held EXCEPT ![r] = {}]
<1> DEFINE y == Stopped(req[r], how)
<1>1. Shape(req[r])
  BY DEF Phases
<1>2. y.pc = "done" /\ y.end = how /\ Same(req[r], y)
  BY <1>1 DEF Shape, IsRequest, Fields, Stopped, Same, Kept
<1>3. Become(r, y) /\ held' = [held EXCEPT ![r] = {}]
  BY DEF Stop, Stopped
<1> HIDE DEF y
<1>4. Turns(r, y)
  BY <1>3, TurnsTo
<1> QED
  BY <1>2, <1>3, <1>4 DEF y

LEMMA StopAborts ==
  ASSUME Phases, NEW r \in Reqs, NEW how, how # "ok", Stop(r, how), db' = db, prior' = prior,
         req[r].pc \notin {"idle", "done"}
  PROVE  Aborts(r)
<1> DEFINE y == Stopped(req[r], how)
<1>1. /\ Turns(r, y) /\ Same(req[r], y) /\ y.pc = "done" /\ y.end = how
      /\ held' = [held EXCEPT ![r] = {}]
  BY StopMoves
<1> HIDE DEF y
<1> QED
  BY <1>1 DEF Aborts

LEMMA StartBegins ==
  ASSUME Phases, NEW r \in Reqs, Start(r)
  PROVE  Begins(r)
<1>1. PICK i \in Inputs :
        /\ i.op \in Scims => db[Token] # None
        /\ "s" \in DOMAIN i => db[Live(i.s)] # None
        /\ Become(r, [Fresh EXCEPT
            !.pc = IF i.op \in SignIns THEN "read" ELSE "enter", !.in = i, !.me = Caller(i),
            !.loaded = Loads(i)])
  BY DEF Start, Caller, Loads
<1> DEFINE e == IF i.op \in SignIns THEN "read" ELSE "enter"
           a == [Fresh EXCEPT !.pc = e, !.in = i]
           me == Caller(i)
           l == Loads(i)
           y == [a EXCEPT !.me = me, !.loaded = l]
<1>2. Become(r, y)
  <2> HIDE DEF e, me, l
  <2>1. y = [Fresh EXCEPT !.pc = e, !.in = i, !.me = me, !.loaded = l]
    BY DEF Fresh
  <2> QED
    BY <1>1, <2>1 DEF e, me, l
<1> HIDE DEF e, me, l
<1>3. /\ y.pc = e /\ y.in = i /\ y.me = me /\ y.loaded = l
      /\ y.cells = <<>> /\ y.syncs = {} /\ y.end = "none"
  <2>1. /\ IsRequest(a) /\ a.pc = e /\ a.in = i
        /\ a.cells = <<>> /\ a.syncs = {} /\ a.end = "none"
    BY DEF Fresh, IsRequest, Fields
  <2> HIDE DEF a
  <2> QED
    BY <2>1 DEF IsRequest, Fields
<1> HIDE DEF y
<1>4. Turns(r, y)
  BY <1>2, TurnsTo DEF Start
<1>5. /\ req[r].pc = "idle" /\ db' = db /\ held' = held
      /\ prior' = [prior EXCEPT ![r] = {q \in Reqs : req[q].pc = "done"}]
  BY DEF Start
<1> QED
  BY <1>1, <1>3, <1>4, <1>5 DEF Begins, e, me, l

LEMMA EnterMoves ==
  ASSUME Phases, NEW r \in Reqs, Enter(r)
  PROVE  Takes(r) \/ Aborts(r)
<1> DEFINE i == req[r].in
           role == IF i.op \in Scims THEN None ELSE db[Member(req[r].me)]
           y == [req[r] EXCEPT !.pc = "read", !.role = role]
<1>1. req[r].pc = "enter" /\ db' = db /\ prior' = prior /\ Free(r, FirstLock(i))
  BY DEF Enter
<1>2. Stop(r, "refused") \/ (Take(r, FirstLock(i)) /\ Become(r, y))
  BY DEF Enter
<1>3. CASE Stop(r, "refused")
  BY <1>1, <1>3, StopAborts
<1>4. CASE Take(r, FirstLock(i)) /\ Become(r, y)
  <2> HIDE DEF role
  <2>1. Shape(req[r])
    BY DEF Phases
  <2>2. y.pc = "read" /\ y.end # "ok" /\ Same(req[r], y)
    BY <1>1, <2>1 DEF Shape, IsRequest, Fields, Same, Kept
  <2> HIDE DEF y
  <2>3. Turns(r, y)
    BY <1>1, <1>4, TurnsTo
  <2> QED
    BY <1>1, <1>4, <2>2, <2>3 DEF Takes, Take
<1> HIDE DEF y
<1> QED
  BY <1>2, <1>3, <1>4

LEMMA ReadMoves ==
  ASSUME Phases, NEW r \in Reqs, Read(r)
  PROVE  Decides(r) \/ Aborts(r)
<1> DEFINE i == req[r].in
           D == Put(db, req[r].loaded)
           E == Handler(r, i, req[r].me, req[r].role, D)
           f == Changes(D, E)
           rows == {Row(c) : c \in DOMAIN f}
           there == {row \in rows : Exists(D, row)}
           us == Syncs(i, D)
           want == rows \cup (IF i.op = "login" THEN {Account(i.u)} ELSE {})
           y == Deciding(req[r], f, there, us, want)
<1>1. req[r].pc = "read" /\ db' = db /\ prior' = prior
  BY DEF Read
<1>2. Stop(r, "refused") \/ (E # None /\ Become(r, y) /\ held' = held)
  BY DEF Read, Deciding
<1>3. CASE Stop(r, "refused")
  BY <1>1, <1>3, StopAborts
<1>4. CASE E # None /\ Become(r, y) /\ held' = held
  <2>1. Shape(req[r])
    BY DEF Phases
  <2>2. y.pc = "write" /\ y.end # "ok" /\ y.cells = f /\ y.syncs = us /\ Kept(req[r], y)
    <3> HIDE DEF f, there, us, want, i
    <3> QED
      BY <1>1, <2>1 DEF Shape, IsRequest, Fields, Deciding, Kept
  <2> HIDE DEF y
  <2>3. Turns(r, y)
    BY <1>1, <1>4, TurnsTo
  <2> HIDE DEF E, D
  <2>4. PICK A, B : A = D /\ B = E
    OBVIOUS
  <2>5. A = Put(db, req[r].loaded) /\ B = Handler(r, req[r].in, req[r].me, req[r].role, A)
    BY <2>4 DEF D, E
  <2> QED
    BY <1>1, <1>4, <2>2, <2>3, <2>4, <2>5 DEF Decides
<1> HIDE DEF y, E
<1> QED
  BY <1>2, <1>3, <1>4

LEMMA WriteMoves ==
  ASSUME Phases, NEW r \in Reqs, Write(r)
  PROVE  Takes(r) \/ Aborts(r)
<1>1. req[r].pc = "write" /\ db' = db /\ prior' = prior
  BY DEF Write
<1>2. PICK row : /\ Free(r, row)
                 /\ \/ Stop(r, "clash")
                    \/ Take(r, row) /\ Become(r, [req[r] EXCEPT !.want = @ \ {row}])
  BY DEF Write
<1>3. CASE Stop(r, "clash")
  BY <1>1, <1>3, StopAborts
<1>4. CASE Take(r, row) /\ Become(r, [req[r] EXCEPT !.want = @ \ {row}])
  <2> DEFINE w == req[r].want \ {row}
             y == [req[r] EXCEPT !.want = w]
  <2>1. Shape(req[r]) /\ Become(r, y)
    BY <1>4 DEF Phases
  <2> HIDE DEF w
  <2>2. y.pc = "write" /\ y.end # "ok" /\ Same(req[r], y)
    BY <1>1, <2>1 DEF Shape, IsRequest, Fields, Same, Kept
  <2> HIDE DEF y
  <2>3. Turns(r, y)
    BY <1>1, <2>1, TurnsTo
  <2> QED
    BY <1>1, <1>2, <1>4, <2>2, <2>3 DEF Takes, Take
<1> QED
  BY <1>2, <1>3, <1>4

LEMMA CommitMoves ==
  ASSUME Phases, NEW r \in Reqs, Commit(r)
  PROVE  Commits(r)
<1> DEFINE y == Stopped(req[r], "ok")
<1>1. /\ req[r].pc = "write" /\ db' = Put(db, req[r].cells) /\ prior' = prior
      /\ Stop(r, "ok")
  BY DEF Commit
<1>2. /\ Turns(r, y) /\ Same(req[r], y) /\ y.pc = "done" /\ y.end = "ok"
      /\ held' = [held EXCEPT ![r] = {}]
  BY <1>1, StopMoves
<1> HIDE DEF y
<1> QED
  BY <1>1, <1>2 DEF Commits

\* Every step is one of these.
LEMMA Moves ==
  ASSUME Phases, [Next]_vars
  PROVE  \/ UNCHANGED vars
         \/ \E r \in Reqs : Begins(r) \/ Takes(r) \/ Decides(r) \/ Commits(r) \/ Aborts(r)
<1>1. ASSUME NEW r \in Reqs, Victim(r) PROVE Aborts(r)
  <2>1. db' = db /\ prior' = prior /\ Stop(r, "deadlock") /\ Wants(r) # {}
    BY <1>1 DEF Victim
  <2>2. req[r].pc \notin {"idle", "done"}
    BY <2>1 DEF Wants, Phases, Shape
  <2> QED
    BY <2>1, <2>2, StopAborts
<1> QED
  BY <1>1, StartBegins, EnterMoves, ReadMoves, WriteMoves, CommitMoves DEF Next

\* What is committed, and by whom, changes with commits only.
LEMMA QuietWrites ==
  ASSUME NEW r \in Reqs, NEW y, Turns(r, y), y.end # "ok"
  PROVE  \A q \in Reqs : (Ok(q)' <=> Ok(q)) /\ Wrote(q)' = Wrote(q)
BY DEF Turns, Ok, Wrote
LEMMA CommitWrites ==
  ASSUME NEW r \in Reqs, NEW y, Turns(r, y), y.end = "ok"
  PROVE  /\ Ok(r)' /\ ~Ok(r) /\ Wrote(r)' = DOMAIN y.cells /\ Wrote(r) = {}
         /\ \A q \in Reqs \ {r} : (Ok(q)' <=> Ok(q)) /\ Wrote(q)' = Wrote(q)
BY DEF Turns, Ok, Wrote
\* Nothing that has ended began after what has not.
LEMMA Unfinished ==
  ASSUME Phases, NEW r \in Reqs, req[r].pc # "done"
  PROVE  \A q \in Reqs : r \notin prior[q]
BY DEF Phases

-------------------------------------------------------------------------------
(***************************************************************************)
(* Footprints: the columns that the handler of an operation may change.    *)
(***************************************************************************)
Footprint(op) ==
  CASE op \in {"add", "role", "remove", "register"}       -> {"member", "user"}
    [] op \in {"key", "revoke_key"}                       -> {"key"}
    [] op \in {"config", "rotate", "revoke_token"}        -> {"token", "enabled", "default"}
    [] op \in {"connect", "reconnect", "disconnect"}      -> {"sso", "on", "enforced"}
    [] op \in Self                                        -> {"secret", "mfa"}
    [] op \in {"login", "verify", "switch", "oauth", "sso"} -> {"user", "member", "session"}
    [] op \in Scims                                       -> {"user", "member", "session", "scim", "group"}
    [] OTHER                                              -> {}

Only(D, E, K) == IsFunction(E) /\ \A c \in Cells : c[1] \notin K => E[c] = D[c]
Stays(D, E, K) == E = None \/ Only(D, E, K)

LEMMA Tags ==
  /\ \A x : /\ Member(x)[1] = "member" /\ Account(x)[1] = "user" /\ Secret(x)[1] = "secret"
            /\ Mfa(x)[1] = "mfa" /\ Scim(x)[1] = "scim" /\ Group(x)[1] = "group"
            /\ Live(x)[1] = "session" /\ Key(x)[1] = "key"
  /\ Token[1] = "token" /\ Enabled[1] = "enabled" /\ Default[1] = "default"
  /\ SsoRole[1] = "sso" /\ SsoOn[1] = "on" /\ Enforced[1] = "enforced"
BY DEF Member, Account, Secret, Mfa, Scim, Group, Live, Key, Token, Enabled, Default, SsoRole, SsoOn, Enforced

LEMMA OneCell ==
  ASSUME NEW D, IsFunction(D), NEW x, NEW v, NEW K, x[1] \in K
  PROVE  Only(D, [D EXCEPT ![x] = v], K)
BY DEF Only, IsFunction

LEMMA NoCell ==
  ASSUME NEW D, IsFunction(D), NEW K
  PROVE  Only(D, D, K)
BY DEF Only

LEMMA MoreCells ==
  ASSUME NEW D, NEW E, NEW F, NEW K, Only(D, E, K), Only(E, F, K)
  PROVE  Only(D, F, K)
BY DEF Only

LEMMA TwoCells ==
  ASSUME NEW D, IsFunction(D), NEW x, NEW v, NEW y, NEW w, NEW K, x[1] \in K, y[1] \in K
  PROVE  Only(D, [D EXCEPT ![x] = v, ![y] = w], K)
<1> DEFINE E == [D EXCEPT ![x] = v]
<1>1. Only(D, E, K) /\ IsFunction(E)
  BY OneCell DEF Only
<1> HIDE DEF E
<1>2. Only(E, [E EXCEPT ![y] = w], K)
  BY <1>1, OneCell
<1>3. [E EXCEPT ![y] = w] = [D EXCEPT ![x] = v, ![y] = w]
  BY DEF E
<1> QED
  BY <1>1, <1>2, <1>3, MoreCells

LEMMA SyncStays ==
  ASSUME NEW D, NEW us, NEW K, "member" \in K, "session" \in K
  PROVE  Only(D, SyncMembership(D, us), K)
BY DEF SyncMembership, Only, IsFunction

LEMMA MembersStay ==
  ASSUME NEW D, IsFunction(D)
  PROVE  /\ \A u, role : Stays(D, AddMember(D, u, role), {"member", "user"})
         /\ \A u, role : Stays(D, UpdateMemberRole(D, u, role), {"member", "user"})
         /\ \A u : Stays(D, RemoveMember(D, u), {"member", "user"})
         /\ \A u : Stays(D, Register(D, u), {"member", "user"})
<1> DEFINE K == {"member", "user"}
<1>1. ASSUME NEW u, NEW role PROVE Stays(D, AddMember(D, u, role), K)
  <2>1. ASSUME NEW v PROVE Only(D, [D EXCEPT ![Account(u)] = v, ![Member(u)] = role], K)
    BY Tags, TwoCells
  <2>2. [D EXCEPT ![Account(u)] = IF @ = None THEN "shell" ELSE @, ![Member(u)] = role]
          = [D EXCEPT ![Account(u)] = IF D[Account(u)] = None THEN "shell" ELSE D[Account(u)],
                      ![Member(u)] = role]
    OBVIOUS
  <2>3. Only(D, [D EXCEPT ![Account(u)] = IF @ = None THEN "shell" ELSE @, ![Member(u)] = role], K)
    BY <2>1, <2>2
  <2> QED
    BY <2>3 DEF Stays, AddMember
<1>2. \A u, role : Stays(D, UpdateMemberRole(D, u, role), K)
  BY Tags, OneCell DEF Stays, UpdateMemberRole
<1>3. \A u : Stays(D, RemoveMember(D, u), K)
  BY Tags, OneCell DEF Stays, RemoveMember
<1>4. \A u : Stays(D, Register(D, u), K)
  BY Tags, OneCell DEF Stays, Register
<1> QED
  BY <1>1, <1>2, <1>3, <1>4

LEMMA KeysStay ==
  ASSUME NEW D, IsFunction(D)
  PROVE  /\ \A k, me, role, scopes : Stays(D, CreateKey(D, k, me, role, scopes), {"key"})
         /\ \A k : Stays(D, RevokeKey(D, k), {"key"})
<1>1. \A k, me, role, scopes : Stays(D, CreateKey(D, k, me, role, scopes), {"key"})
  BY Tags, OneCell DEF Stays, CreateKey
<1>2. ASSUME NEW k PROVE Stays(D, RevokeKey(D, k), {"key"})
  <2>1. [D EXCEPT ![Key(k)].revoked = TRUE] = [D EXCEPT ![Key(k)] = [D[Key(k)] EXCEPT !.revoked = TRUE]]
    OBVIOUS
  <2>2. \A v : Only(D, [D EXCEPT ![Key(k)] = v], {"key"})
    BY Tags, OneCell
  <2> QED
    BY <2>1, <2>2 DEF Stays, RevokeKey
<1> QED
  BY <1>1, <1>2

LEMMA SettingsStay ==
  ASSUME NEW D, IsFunction(D)
  PROVE  /\ \A v, x : Stays(D, EnrollMfa(D, v, x), {"secret", "mfa"})
         /\ \A v : Stays(D, ActivateMfa(D, v), {"secret", "mfa"})
         /\ \A v : Stays(D, DisableMfa(D, v), {"secret", "mfa"})
         /\ \A on, role : Stays(D, UpsertConfig(D, on, role), {"token", "enabled", "default"})
         /\ \A x : Stays(D, RotateToken(D, x), {"token", "enabled", "default"})
         /\ Stays(D, RevokeToken(D), {"token", "enabled", "default"})
         /\ \A role, on : Stays(D, CreateConnection(D, role, on), {"sso", "on", "enforced"})
         /\ \A c \in {SsoRole, SsoOn, Enforced} : \A x :
              Stays(D, UpdateConnection(D, c, x), {"sso", "on", "enforced"})
         /\ Stays(D, DeleteConnection(D), {"sso", "on", "enforced"})
<1>1. \A v, x : Stays(D, EnrollMfa(D, v, x), {"secret", "mfa"})
  BY Tags, OneCell DEF Stays, EnrollMfa
<1>2. \A v : Stays(D, ActivateMfa(D, v), {"secret", "mfa"})
  BY Tags, OneCell DEF Stays, ActivateMfa
<1>3. \A v : Stays(D, DisableMfa(D, v), {"secret", "mfa"})
  BY Tags, TwoCells DEF Stays, DisableMfa
<1>4. \A on, role : Stays(D, UpsertConfig(D, on, role), {"token", "enabled", "default"})
  BY Tags, TwoCells DEF Stays, UpsertConfig
<1>5. \A x : Stays(D, RotateToken(D, x), {"token", "enabled", "default"})
  BY Tags DEF Stays, RotateToken, Only, IsFunction
<1>6. Stays(D, RevokeToken(D), {"token", "enabled", "default"})
  BY Tags, NoCell, TwoCells DEF Stays, RevokeToken
<1>7. \A role, on : Stays(D, CreateConnection(D, role, on), {"sso", "on", "enforced"})
  BY Tags DEF Stays, CreateConnection, Only, IsFunction
<1>8. \A c \in {SsoRole, SsoOn, Enforced} : \A x :
        Stays(D, UpdateConnection(D, c, x), {"sso", "on", "enforced"})
  BY Tags, OneCell DEF Stays, UpdateConnection
<1>9. Stays(D, DeleteConnection(D), {"sso", "on", "enforced"})
  BY Tags DEF Stays, DeleteConnection, Only, IsFunction
<1> QED
  BY <1>1, <1>2, <1>3, <1>4, <1>5, <1>6, <1>7, <1>8, <1>9

LEMMA OpeningStays ==
  ASSUME NEW D, IsFunction(D), NEW r, NEW u
  PROVE  /\ Only(D, CreateSession(D, r, u), {"user", "member", "session"})
         /\ Only(D, ResolveMembership(D, r, u), {"user", "member", "session"})
BY Tags, OneCell, NoCell DEF CreateSession, ResolveMembership

LEMMA SignInsStay ==
  ASSUME NEW D, IsFunction(D), NEW r, NEW u
  PROVE  \A E \in {Login(D, r, u), VerifyMfa(D, r, u), SwitchOrg(D, r, u), OAuthCallback(D, r, u),
                   SsoSignIn(D, r, u)} :
           Stays(D, E, {"user", "member", "session"})
<1> DEFINE K == {"user", "member", "session"}
<1>1. Stays(D, Login(D, r, u), K)
  BY NoCell, OpeningStays DEF Stays, Login
<1>2. Stays(D, VerifyMfa(D, r, u), K) /\ Stays(D, SwitchOrg(D, r, u), K)
  BY OpeningStays DEF Stays, VerifyMfa, SwitchOrg
<1>3. Stays(D, OAuthCallback(D, r, u), K)
  <2> DEFINE F == [D EXCEPT ![Account(u)] = IF @ = None THEN "bare" ELSE @]
  <2>1. Only(D, F, K)
    <3>1. \A v : Only(D, [D EXCEPT ![Account(u)] = v], K)
      BY Tags, OneCell
    <3>2. F = [D EXCEPT ![Account(u)] = IF D[Account(u)] = None THEN "bare" ELSE D[Account(u)]]
      OBVIOUS
    <3> QED
      BY <3>1, <3>2
  <2>2. OAuthCallback(D, r, u) = ResolveMembership(F, r, u)
    BY DEF OAuthCallback
  <2> HIDE DEF F
  <2>3. Only(F, ResolveMembership(F, r, u), K)
    BY <2>1, OpeningStays DEF Only
  <2> QED
    BY <2>1, <2>2, <2>3, MoreCells DEF Stays
<1>4. Stays(D, SsoSignIn(D, r, u), K)
  <2> DEFINE F == Provision(D, u)
  <2>1. Only(D, F, K)
    <3> DEFINE a == IF D[Account(u)] = None THEN "bare" ELSE D[Account(u)]
               b == IF D[Member(u)] = None THEN D[SsoRole] ELSE D[Member(u)]
    <3>1. F = [D EXCEPT ![Account(u)] = a, ![Member(u)] = b]
      BY OtherCells DEF Provision
    <3> HIDE DEF a, b
    <3>2. Only(D, [D EXCEPT ![Account(u)] = a, ![Member(u)] = b], K)
      BY Tags, TwoCells
    <3> HIDE DEF F
    <3> QED
      BY <3>1, <3>2
  <2>2. SsoSignIn(D, r, u) = None \/ SsoSignIn(D, r, u) = CreateSession(F, r, u)
    BY DEF SsoSignIn
  <2> HIDE DEF F
  <2>3. Only(F, CreateSession(F, r, u), K)
    BY <2>1, OpeningStays DEF Only
  <2> QED
    BY <2>1, <2>2, <2>3, MoreCells DEF Stays
<1> QED
  BY <1>1, <1>2, <1>3, <1>4

LEMMA ScimsStay ==
  ASSUME NEW D, IsFunction(D), NEW u, NEW on, NEW g, NEW name, NEW us
  PROVE  \A E \in {ScimCreateUser(D, u, on), ScimSetActive(D, u, on), ScimDeleteUser(D, u),
                   ScimCreateGroup(D, g, name, us), ScimSetGroup(D, g, name, us), ScimDeleteGroup(D, g)} :
           Stays(D, E, {"user", "member", "session", "scim", "group"})
<1> DEFINE K == {"user", "member", "session", "scim", "group"}
<1>1. ASSUME NEW F, NEW vs, Only(D, F, K) PROVE Only(D, SyncMembership(F, vs), K)
  <2>1. Only(F, SyncMembership(F, vs), K)
    BY SyncStays
  <2> QED
    BY <1>1, <2>1, MoreCells
<1>2. \A v : Only(D, [D EXCEPT ![Scim(u)] = v], K) /\ Only(D, [D EXCEPT ![Group(g)] = v], K)
  BY Tags, OneCell
<1>3. Stays(D, ScimCreateUser(D, u, on), K)
  <2> DEFINE a == IF D[Account(u)] = None THEN "bare" ELSE D[Account(u)]
             F == [D EXCEPT ![Account(u)] = a, ![Scim(u)] = Status(on)]
  <2>1. ScimCreateUser(D, u, on) = None \/ ScimCreateUser(D, u, on) = SyncMembership(F, {u})
    BY DEF ScimCreateUser
  <2> HIDE DEF a
  <2>2. Only(D, F, K)
    BY Tags, TwoCells
  <2> HIDE DEF F
  <2> QED
    BY <1>1, <2>1, <2>2 DEF Stays
<1>4. Stays(D, ScimSetActive(D, u, on), K)
  BY <1>1, <1>2 DEF Stays, ScimSetActive
<1>5. Stays(D, ScimDeleteUser(D, u), K)
  <2> DEFINE G == SyncMembership([D EXCEPT ![Scim(u)] = "inactive"], {u})
             H == Without(G, u)
  <2>1. ScimDeleteUser(D, u) = None \/ ScimDeleteUser(D, u) = [H EXCEPT ![Scim(u)] = None]
    BY DEF ScimDeleteUser
  <2>2. Only(D, G, K)
    BY <1>1, <1>2
  <2> HIDE DEF G
  <2>3. Only(G, H, K)
    BY DEF Without, Only, IsFunction
  <2>4. IsFunction(H)
    BY <2>3 DEF Only
  <2> HIDE DEF H
  <2>5. Only(H, [H EXCEPT ![Scim(u)] = None], K)
    BY <2>4, Tags, OneCell
  <2> QED
    BY <2>1, <2>2, <2>3, <2>5, MoreCells DEF Stays
<1>6. \A n, ms : Only(D, SetMembers(D, g, n, ms), K)
  BY <1>1, <1>2 DEF SetMembers
<1>7. Stays(D, ScimCreateGroup(D, g, name, us), K) /\ Stays(D, ScimSetGroup(D, g, name, us), K)
  BY <1>6 DEF Stays, ScimCreateGroup, ScimSetGroup
<1>8. Stays(D, ScimDeleteGroup(D, g), K)
  BY <1>1, <1>2 DEF Stays, ScimDeleteGroup
<1> QED
  BY <1>3, <1>4, <1>5, <1>7, <1>8

\* What a handler changes.
LEMMA HandlerStays ==
  ASSUME NEW D, IsFunction(D), NEW i \in Inputs, NEW r, NEW me, NEW role
  PROVE  Stays(D, Handler(r, i, me, role, D), Footprint(i.op))
<1> DEFINE E == Handler(r, i, me, role, D)
<1>1. CASE i.op \in {"add", "role", "remove", "register"}
  <2>1. \/ E = AddMember(D, i.u, i.role)
        \/ E = UpdateMemberRole(D, i.u, i.role)
        \/ E = RemoveMember(D, i.u)
        \/ E = Register(D, i.u)
    BY <1>1 DEF Handler
  <2> HIDE DEF E
  <2>2. Footprint(i.op) = {"member", "user"}
    BY <1>1 DEF Footprint, Self, Scims
  <2>3. Stays(D, E, {"member", "user"})
    BY <2>1, MembersStay
  <2> QED
    BY <2>2, <2>3 DEF E
<1>2. CASE i.op \in {"key", "revoke_key"}
  <2>1. E = CreateKey(D, r, me, role, i.scopes) \/ E = RevokeKey(D, i.k)
    BY <1>2 DEF Handler
  <2> HIDE DEF E
  <2>2. Footprint(i.op) = {"key"}
    BY <1>2 DEF Footprint, Self, Scims
  <2>3. Stays(D, E, {"key"})
    BY <2>1, KeysStay
  <2> QED
    BY <2>2, <2>3 DEF E
<1>3. CASE i.op \in {"config", "rotate", "revoke_token"}
  <2>1. \/ E = UpsertConfig(D, i.on, i.role)
        \/ E = RotateToken(D, r)
        \/ E = RevokeToken(D)
    BY <1>3 DEF Handler
  <2> HIDE DEF E
  <2>2. Footprint(i.op) = {"token", "enabled", "default"}
    BY <1>3 DEF Footprint, Self, Scims
  <2>3. Stays(D, E, {"token", "enabled", "default"})
    BY <2>1, SettingsStay
  <2> QED
    BY <2>2, <2>3 DEF E
<1>4. CASE i.op \in {"connect", "reconnect", "disconnect"}
  <2>1. \/ E = CreateConnection(D, i.role, i.on)
        \/ i.op = "reconnect" /\ E = UpdateConnection(D, i.column, i.value)
        \/ E = DeleteConnection(D)
    BY <1>4 DEF Handler
  <2>2. i.op = "reconnect" => i.column \in {SsoRole, SsoOn, Enforced}
    BY InputFields
  <2> HIDE DEF E
  <2>3. Footprint(i.op) = {"sso", "on", "enforced"}
    BY <1>4 DEF Footprint, Self, Scims
  <2>4. Stays(D, E, {"sso", "on", "enforced"})
    BY <2>1, <2>2, SettingsStay
  <2> QED
    BY <2>3, <2>4 DEF E
<1>5. CASE i.op \in Self
  <2>1. E = EnrollMfa(D, me, r) \/ E = ActivateMfa(D, me) \/ E = DisableMfa(D, me)
    BY <1>5 DEF Handler, Self
  <2> HIDE DEF E
  <2>2. Footprint(i.op) = {"secret", "mfa"}
    BY <1>5 DEF Footprint, Self, Scims
  <2>3. Stays(D, E, {"secret", "mfa"})
    BY <2>1, SettingsStay
  <2> QED
    BY <2>2, <2>3 DEF E
<1>6. CASE i.op \in {"login", "verify", "switch", "oauth", "sso"}
  <2>1. E \in {Login(D, r, i.u), VerifyMfa(D, r, i.u), SwitchOrg(D, r, i.u), OAuthCallback(D, r, i.u),
               SsoSignIn(D, r, i.u)}
    BY <1>6 DEF Handler
  <2> HIDE DEF E
  <2>2. Footprint(i.op) = {"user", "member", "session"}
    BY <1>6 DEF Footprint, Self, Scims
  <2>3. Stays(D, E, {"user", "member", "session"})
    BY <2>1, SignInsStay
  <2> QED
    BY <2>2, <2>3 DEF E
<1>7. CASE i.op \in Scims
  <2>1. E \in {ScimCreateUser(D, i.u, i.on), ScimSetActive(D, i.u, i.on), ScimDeleteUser(D, i.u),
               ScimCreateGroup(D, i.g, i.name, i.us), ScimSetGroup(D, i.g, i.name, i.us),
               ScimDeleteGroup(D, i.g)}
    BY <1>7 DEF Handler, Scims
  <2> HIDE DEF E
  <2>2. Footprint(i.op) = {"user", "member", "session", "scim", "group"}
    BY <1>7 DEF Footprint, Self, Scims
  <2>3. Stays(D, E, {"user", "member", "session", "scim", "group"})
    BY <2>1, ScimsStay
  <2> QED
    BY <2>2, <2>3 DEF E
<1> QED
  BY <1>1, <1>2, <1>3, <1>4, <1>5, <1>6, <1>7, InputFields DEF SignIns

-------------------------------------------------------------------------------
(***************************************************************************)
(* Order.  A request writes no more than its operation may change, and the *)
(* requests of the identity provider come one after the other: each holds  *)
(* the row of the SCIM configuration from its first query to its end.      *)
(***************************************************************************)
Planning(x) ==
  /\ \A c \in DOMAIN x.cells : c \in Cells /\ c[1] \in Footprint(x.in.op)
  /\ x.in.op \notin Scims => x.syncs = {}
Syncing(x) == x.in.op \in Scims /\ x.pc \in {"read", "write"}

Order ==
  /\ \A r \in Reqs : Planning(req[r])
  /\ held = [r \in Reqs |-> held[r]]
  /\ \A r \in Reqs : Syncing(req[r]) => Default \in held[r]
  /\ \A p, q \in Reqs : p # q => held[p] \cap held[q] = {}

LEMMA OneSyncs ==
  ASSUME Order, NEW p \in Reqs, NEW q \in Reqs, Syncing(req[p]), Syncing(req[q])
  PROVE  p = q
BY DEF Order

LEMMA EmptyDomain == DOMAIN <<>> = {}
OBVIOUS

LEMMA InitOrder == Init => Order
<1> SUFFICES ASSUME Init PROVE Order
  OBVIOUS
<1>1. Fresh.in.op = "none" /\ Fresh.cells = <<>> /\ Fresh.syncs = {} /\ Fresh.pc = "idle"
  BY DEF Fresh, Nobody
<1>2. \A r \in Reqs : req[r] = Fresh /\ held[r] = {}
  BY DEF Init
<1>3. held = [r \in Reqs |-> held[r]]
  BY DEF Init
<1>4. Planning(Fresh)
  BY <1>1, EmptyDomain DEF Planning
<1> QED
  BY <1>1, <1>2, <1>3, <1>4 DEF Order, Syncing

\* What a request turns into keeps within its operation.
LEMMA TurnsKeepPlanning ==
  ASSUME Phases, Order, NEW r \in Reqs,
         Begins(r) \/ Takes(r) \/ Decides(r) \/ Commits(r) \/ Aborts(r)
  PROVE  \A q \in Reqs : Planning(req'[q])
<1>1. Planning(req[r])
  BY DEF Order
<1>2. ASSUME NEW y, Same(req[r], y) PROVE Planning(y)
  BY <1>1, <1>2 DEF Planning, Same, Kept
<1>3. ASSUME NEW y, Turns(r, y), Planning(y) PROVE \A q \in Reqs : Planning(req'[q])
  BY <1>3 DEF Turns, Order
<1>4. CASE Begins(r)
  <2>1. PICK y : Turns(r, y) /\ y.cells = <<>> /\ y.syncs = {}
    BY <1>4 DEF Begins
  <2>2. Planning(y)
    BY <2>1, EmptyDomain DEF Planning
  <2> QED
    BY <1>3, <2>1, <2>2
<1>5. CASE Takes(r)
  <2>1. PICK y : Turns(r, y) /\ Same(req[r], y)
    BY <1>5 DEF Takes
  <2> QED
    BY <1>2, <1>3, <2>1
<1>6. CASE Decides(r)
  <2>1. PICK y, D, E :
          /\ Turns(r, y) /\ D = Put(db, req[r].loaded) /\ req[r].pc = "read"
          /\ E = Handler(r, req[r].in, req[r].me, req[r].role, D)
          /\ E # None /\ Kept(req[r], y) /\ y.cells = Changes(D, E) /\ y.syncs = Syncs(req[r].in, D)
    BY <1>6 DEF Decides
  <2>2. req[r].in \in Inputs /\ IsFunction(D)
    BY <2>1, PutIsFunction DEF Phases, Shape, IsFunction
  <2>3. Only(D, E, Footprint(req[r].in.op))
    BY <2>1, <2>2, HandlerStays DEF Stays
  <2>4. \A c \in DOMAIN y.cells : c \in Cells /\ c[1] \in Footprint(req[r].in.op)
    BY <2>1, <2>3 DEF Changes, Only
  <2>5. req[r].in.op \notin Scims => y.syncs = {}
    BY <2>1 DEF Syncs, Scims
  <2>6. Planning(y)
    BY <2>1, <2>4, <2>5 DEF Planning, Kept
  <2> QED
    BY <1>3, <2>1, <2>6
<1>7. CASE Commits(r)
  <2>1. PICK y : Turns(r, y) /\ Same(req[r], y)
    BY <1>7 DEF Commits
  <2> QED
    BY <1>2, <1>3, <2>1
<1>8. CASE Aborts(r)
  <2>1. PICK y : Turns(r, y) /\ Same(req[r], y)
    BY <1>8 DEF Aborts
  <2> QED
    BY <1>2, <1>3, <2>1
<1> QED
  BY <1>4, <1>5, <1>6, <1>7, <1>8

\* Who takes a lock takes one that is free; who is done holds none.
LEMMA NextOrder ==
  ASSUME Phases, Order, [Next]_vars
  PROVE  Order'
<1> DEFINE Locked(h, x) == \A r \in Reqs : Syncing(x[r]) => Default \in h[r]
           Apart(h) == \A p, q \in Reqs : p # q => h[p] \cap h[q] = {}
<1>1. SUFFICES ASSUME NEW r \in Reqs,
                      Begins(r) \/ Takes(r) \/ Decides(r) \/ Commits(r) \/ Aborts(r)
               PROVE  Order'
  <2>1. CASE UNCHANGED vars
    BY <2>1 DEF vars, Order, Planning, Syncing
  <2> QED
    BY <1>1, <2>1, Moves
<1>2. \A q \in Reqs : Planning(req'[q])
  BY <1>1, TurnsKeepPlanning
<1>3. held = [q \in Reqs |-> held[q]] /\ Locked(held, req) /\ Apart(held)
  BY DEF Order
<1>4. SUFFICES held' = [q \in Reqs |-> held'[q]] /\ Locked(held', req') /\ Apart(held')
  BY <1>2 DEF Order, Planning, Syncing
<1>5. ASSUME NEW y, Turns(r, y), held' = held, Syncing(y) => Syncing(req[r])
      PROVE  held' = [q \in Reqs |-> held'[q]] /\ Locked(held', req') /\ Apart(held')
  BY <1>3, <1>5 DEF Turns
<1>6. CASE Begins(r)
  <2>1. PICK y, i : Turns(r, y) /\ held' = held /\ y.in = i
                    /\ y.pc = (IF i.op \in SignIns THEN "read" ELSE "enter")
    BY <1>6 DEF Begins
  <2>2. ~Syncing(y)
    BY <2>1 DEF Syncing, SignIns, Scims
  <2> QED
    BY <1>5, <2>1, <2>2
<1>7. CASE Takes(r)
  <2>1. PICK y, l :
          /\ Turns(r, y) /\ Same(req[r], y) /\ Free(r, l) /\ held' = [held EXCEPT ![r] = @ \cup {l}]
          /\ \/ req[r].pc = "enter" /\ y.pc = "read" /\ l = FirstLock(req[r].in)
             \/ req[r].pc = "write" /\ y.pc = "write"
    BY <1>7 DEF Takes
  <2>2. held'[r] = held[r] \cup {l} /\ \A q \in Reqs \ {r} : held'[q] = held[q] /\ l \notin held[q]
    BY <1>3, <2>1 DEF Free
  <2>3. Syncing(y) => Default \in held'[r]
    BY <1>3, <2>1, <2>2 DEF Syncing, FirstLock, Same, Kept
  <2>4. Locked(held', req')
    BY <1>3, <2>1, <2>2, <2>3 DEF Turns
  <2>5. Apart(held')
    BY <1>3, <2>2
  <2> QED
    BY <1>3, <2>1, <2>4, <2>5
<1>8. CASE Decides(r)
  <2>1. PICK y : Turns(r, y) /\ held' = held /\ req[r].pc = "read" /\ Kept(req[r], y)
    BY <1>8 DEF Decides
  <2>2. Syncing(y) => Syncing(req[r])
    BY <2>1 DEF Syncing, Kept
  <2> QED
    BY <1>5, <2>1, <2>2
<1>9. CASE Commits(r) \/ Aborts(r)
  <2>1. PICK y : Turns(r, y) /\ y.pc = "done" /\ held' = [held EXCEPT ![r] = {}]
    BY <1>9 DEF Commits, Aborts
  <2>2. held'[r] = {} /\ (\A q \in Reqs \ {r} : held'[q] = held[q]) /\ ~Syncing(y)
    BY <1>3, <2>1 DEF Syncing
  <2>3. Locked(held', req')
    BY <1>3, <2>1, <2>2 DEF Turns
  <2>4. Apart(held')
    BY <1>3, <2>2
  <2> QED
    BY <1>3, <2>1, <2>3, <2>4
<1> QED
  BY <1>1, <1>6, <1>7, <1>8, <1>9

-------------------------------------------------------------------------------
(***************************************************************************)
(* MFA.  A request acts on the secret and the flag the principal was loaded *)
(* with.  Those are the committed ones unless another of these requests has *)
(* committed since, and then the two have overlapped (Raced).               *)
(***************************************************************************)
MfaRace(u) ==
  \E p, q \in Reqs : /\ Overlap(p, q) /\ Ok(p) /\ Ok(q)
                     /\ {req[p].in.op, req[q].in.op} \subseteq Self
                     /\ req[p].me = u /\ req[q].me = u
Raced(r) == \E q \in Reqs : Overlap(q, r) /\ Ok(q) /\ req[q].in.op \in Self /\ req[q].me = req[r].me
Shown(u) ==
  \E r \in Reqs : /\ Ok(r) /\ req[r].in.op = "activate" /\ req[r].me = u
                  /\ req[r].loaded[Secret(u)] = db[Secret(u)]
Current(x) ==
  /\ db[Secret(x.me)] = x.loaded[Secret(x.me)]
  /\ db[Mfa(x.me)] = x.loaded[Mfa(x.me)]

\* What request r, at x, knows of its user's MFA, and what it will write of it.
Secretive(x, r) ==
  x.in.op \in Self =>
    /\ x.pc \in {"enter", "read", "write"} => x.me \in Users /\ (Current(x) \/ Raced(r))
    /\ x.pc \in {"enter", "read"} => DOMAIN x.loaded = {Account(x.me), Secret(x.me), Mfa(x.me)}
    /\ x.pc = "write" =>
         /\ DOMAIN x.cells \subseteq {Secret(x.me), Mfa(x.me)}
         /\ x.in.op = "enroll" => Mfa(x.me) \notin DOMAIN x.cells /\ x.loaded[Mfa(x.me)] # TRUE
         /\ x.in.op = "activate" => Secret(x.me) \notin DOMAIN x.cells
         /\ x.in.op = "disable" => Mfa(x.me) \in DOMAIN x.cells /\ x.cells[Mfa(x.me)] = FALSE

MInv ==
  /\ \A u \in Users : db[Mfa(u)] /\ db[Secret(u)] # "proved" => Shown(u) \/ MfaRace(u)
  /\ \A r \in Reqs : Secretive(req[r], r)

LEMMA SecretCells ==
  /\ \A u \in Users : Secret(u) \in Cells /\ Mfa(u) \in Cells /\ Account(u) \in Cells /\ Scim(u) \in Cells
  /\ \A u, v : Secret(u) # Mfa(v) /\ Secret(u) # Account(v) /\ Mfa(u) # Account(v)
  /\ \A u, v : (Secret(u) = Secret(v) => u = v) /\ (Mfa(u) = Mfa(v) => u = v)
<1>1. ASSUME NEW u \in Users
      PROVE  Secret(u) \in Cells /\ Mfa(u) \in Cells /\ Account(u) \in Cells /\ Scim(u) \in Cells
  <2> DEFINE S == {{Member(v), Account(v), Secret(v), Mfa(v), Scim(v)} : v \in Users}
  <2>1. {Member(u), Account(u), Secret(u), Mfa(u), Scim(u)} \in S
    OBVIOUS
  <2>2. {Secret(u), Mfa(u), Account(u), Scim(u)} \subseteq UNION S
    BY <2>1
  <2> QED
    BY <2>2 DEF Cells
<1>2. /\ \A u, v : Secret(u) # Mfa(v) /\ Secret(u) # Account(v) /\ Mfa(u) # Account(v)
      /\ \A u, v : (Secret(u) = Secret(v) => u = v) /\ (Mfa(u) = Mfa(v) => u = v)
  BY DEF Secret, Mfa, Account
<1> QED
  BY <1>1, <1>2

\* A step of r that commits nothing.
LEMMA QuietSecrets ==
  ASSUME MInv, NEW r \in Reqs, NEW y, Turns(r, y), y.end # "ok", db' = db,
         \A q \in Reqs \ {r} : prior'[q] = prior[q], req[r].pc = "idle" \/ prior'[r] = prior[r],
         Secretive(y, r)'
  PROVE  MInv'
<1>1. \A q \in Reqs : (Ok(q)' <=> Ok(q)) /\ (Ok(q) => q # r /\ req'[q] = req[q])
  BY QuietWrites DEF Turns, Ok
<1>2. \A p, q \in Reqs : p # r /\ q # r => (Overlap(p, q)' <=> Overlap(p, q))
  BY DEF Overlap
<1>3. \A q \in Reqs : q # r => (Raced(q)' <=> Raced(q))
  BY <1>1, <1>2 DEF Raced, Turns
<1>4. \A u : MfaRace(u) => MfaRace(u)'
  BY <1>1, <1>2 DEF MfaRace
<1>5. \A u : Shown(u) => Shown(u)'
  BY <1>1 DEF Shown
<1>6. ASSUME NEW q \in Reqs PROVE Secretive(req[q], q)'
  <2>1. CASE q = r
    BY <2>1 DEF Turns, Secretive, Current
  <2>2. CASE q # r
    <3>1. req'[q] = req[q] /\ Secretive(req[q], q) /\ (Raced(q)' <=> Raced(q))
      BY <1>3, <2>2 DEF Turns, MInv
    <3> QED
      BY <3>1 DEF Secretive, Current
  <2> QED
    BY <2>1, <2>2
<1> QED
  BY <1>4, <1>5, <1>6 DEF MInv

LEMMA BeginsKeepsSecrets ==
  ASSUME Phases, KInv, MInv, NEW r \in Reqs, Begins(r)
  PROVE  MInv'
<1>1. PICK i \in Inputs : \E y :
        /\ Turns(r, y) /\ req[r].pc = "idle" /\ db' = db
        /\ prior' = [prior EXCEPT ![r] = {q \in Reqs : req[q].pc = "done"}]
        /\ y.pc = (IF i.op \in SignIns THEN "read" ELSE "enter")
        /\ y.in = i /\ y.me = Caller(i) /\ y.loaded = Loads(i) /\ y.end = "none"
        /\ "s" \in DOMAIN i => db[Live(i.s)] # None
  BY DEF Begins
<1>0. PICK y :
        /\ Turns(r, y) /\ req[r].pc = "idle" /\ db' = db
        /\ prior' = [prior EXCEPT ![r] = {q \in Reqs : req[q].pc = "done"}]
        /\ y.pc = (IF i.op \in SignIns THEN "read" ELSE "enter")
        /\ y.in = i /\ y.me = Caller(i) /\ y.loaded = Loads(i) /\ y.end = "none"
        /\ "s" \in DOMAIN i => db[Live(i.s)] # None
  BY <1>1
<1>2. \A q \in Reqs \ {r} : prior'[q] = prior[q]
  BY <1>0 DEF Phases
<1>3. ASSUME i.op \in Self
      PROVE  y.me \in Users /\ y.loaded = UserColumns(y.me)
  <2>1. "s" \in DOMAIN i /\ i.s \in Sess /\ i.op \notin Scims
    BY <1>3 DEF Inputs, Self, SignIns, Scims, Sess
  <2>2. db[Live(i.s)] \in Session
    BY <1>0, <2>1 DEF KInv, Access
  <2> QED
    BY <1>0, <2>1, <2>2 DEF Caller, Loads, Session
<1>4. ASSUME i.op \in Self PROVE Current(y)' /\ DOMAIN y.loaded = {Account(y.me), Secret(y.me), Mfa(y.me)}
  BY <1>0, <1>3, <1>4 DEF Current, UserColumns
<1>5. Secretive(y, r)'
  BY <1>0, <1>3, <1>4 DEF Secretive
<1> QED
  BY <1>0, <1>2, <1>5, QuietSecrets

\* What a handler does to the MFA of its user, as it sees it.
Reminds(i, me, D, f) ==
  /\ DOMAIN f \subseteq {Secret(me), Mfa(me)}
  /\ i.op = "enroll" => Mfa(me) \notin DOMAIN f /\ D[Mfa(me)] # TRUE
  /\ i.op = "activate" => Secret(me) \notin DOMAIN f
  /\ i.op = "disable" => Mfa(me) \in DOMAIN f /\ f[Mfa(me)] = FALSE
LEMMA HandlerSecrets ==
  ASSUME NEW D, IsFunction(D), NEW i, i.op \in Self, NEW r, NEW me \in Users, NEW role,
         Handler(r, i, me, role, D) # None
  PROVE  Reminds(i, me, D, Changes(D, Handler(r, i, me, role, D)))
<1> DEFINE E == Handler(r, i, me, role, D)
           f == Changes(D, E)
<1> SUFFICES E # None => Reminds(i, me, D, f)
  OBVIOUS
<1>1. Secret(me) \in Cells /\ Mfa(me) \in Cells /\ Secret(me) # Mfa(me)
  BY SecretCells
<1>2. CASE i.op = "enroll"
  <2>1. D[Mfa(me)] # TRUE /\ E = [D EXCEPT ![Secret(me)] = r]
    BY <1>2 DEF Handler, EnrollMfa
  <2> HIDE DEF E
  <2> QED
    BY <1>1, <1>2, <2>1 DEF Changes, IsFunction, Reminds
<1>3. CASE i.op = "activate"
  <2>1. E = [D EXCEPT ![Mfa(me)] = TRUE]
    BY <1>3 DEF Handler, ActivateMfa
  <2> HIDE DEF E
  <2> QED
    BY <1>1, <1>3, <2>1 DEF Changes, IsFunction, Reminds
<1>4. CASE i.op = "disable"
  <2>1. D[Mfa(me)] = TRUE /\ E = [D EXCEPT ![Mfa(me)] = FALSE, ![Secret(me)] = None]
    BY <1>4 DEF Handler, DisableMfa
  <2> HIDE DEF E
  <2>2. E[Mfa(me)] = FALSE /\ \A c \in Cells : c \notin {Secret(me), Mfa(me)} => E[c] = D[c]
    BY <1>1, <2>1 DEF IsFunction
  <2>3. D[Mfa(me)] # FALSE
    BY <2>1
  <2> QED
    BY <1>1, <1>4, <2>2, <2>3 DEF Changes, Reminds
<1> QED
  BY <1>2, <1>3, <1>4 DEF Self

LEMMA DecidesKeepsSecrets ==
  ASSUME Phases, MInv, NEW r \in Reqs, Decides(r)
  PROVE  MInv'
<1>1. PICK y, D, E :
        /\ Turns(r, y) /\ db' = db /\ prior' = prior
        /\ req[r].pc = "read" /\ y.pc = "write" /\ y.end # "ok"
        /\ D = Put(db, req[r].loaded) /\ E = Handler(r, req[r].in, req[r].me, req[r].role, D)
        /\ E # None /\ Kept(req[r], y) /\ y.cells = Changes(D, E)
  BY DEF Decides
<1>2. Secretive(req[r], r) /\ IsFunction(D) /\ DOMAIN db = Cells
  BY <1>1, PutIsFunction DEF MInv, Phases, IsFunction
<1>3. ASSUME req[r].in.op \in Self
      PROVE  /\ y.me \in Users /\ (Current(y) \/ Raced(r))
             /\ D[Mfa(y.me)] = y.loaded[Mfa(y.me)]
  <2>1. /\ req[r].me \in Users /\ (Current(req[r]) \/ Raced(r))
        /\ Mfa(req[r].me) \in DOMAIN req[r].loaded
    BY <1>1, <1>2, <1>3 DEF Secretive
  <2>2. D[Mfa(req[r].me)] = req[r].loaded[Mfa(req[r].me)]
    BY <1>1, <1>2, <2>1, SecretCells DEF Put
  <2> QED
    BY <1>1, <2>1, <2>2 DEF Kept, Current
<1>4. Secretive(y, r)
  <2>1. ASSUME y.in.op \in Self
        PROVE  /\ DOMAIN y.cells \subseteq {Secret(y.me), Mfa(y.me)}
               /\ y.in.op = "enroll" => Mfa(y.me) \notin DOMAIN y.cells /\ D[Mfa(y.me)] # TRUE
               /\ y.in.op = "activate" => Secret(y.me) \notin DOMAIN y.cells
               /\ y.in.op = "disable" => Mfa(y.me) \in DOMAIN y.cells /\ y.cells[Mfa(y.me)] = FALSE
    <3>1. y.in = req[r].in /\ y.me = req[r].me /\ y.me \in Users
      BY <1>1, <1>3, <2>1 DEF Kept
    <3>2. Reminds(y.in, y.me, D, Changes(D, Handler(r, y.in, y.me, req[r].role, D)))
      <4>1. PICK i, me : i = y.in /\ me = y.me
        OBVIOUS
      <4>2. Handler(r, i, me, req[r].role, D) # None
        BY <1>1, <3>1, <4>1
      <4>3. IsFunction(D) /\ i.op \in Self /\ me \in Users
        BY <1>2, <2>1, <3>1, <4>1
      <4>4. Reminds(i, me, D, Changes(D, Handler(r, i, me, req[r].role, D)))
        BY <4>2, <4>3, HandlerSecrets
      <4> QED
        BY <4>1, <4>4
    <3>3. y.cells = Changes(D, Handler(r, y.in, y.me, req[r].role, D))
      BY <1>1, <3>1
    <3>4. Reminds(y.in, y.me, D, y.cells)
      BY <3>2, <3>3
    <3> QED
      BY <3>4 DEF Reminds
  <2> QED
    BY <1>1, <1>3, <2>1 DEF Secretive, Kept
<1>5. Raced(r) => Raced(r)'
  BY <1>1, QuietWrites DEF Raced, Overlap, Turns, Ok, Kept
<1>6. Secretive(y, r)'
  BY <1>1, <1>4, <1>5 DEF Secretive, Current
<1> QED
  BY <1>1, <1>6, QuietSecrets

LEMMA OtherFootprints ==
  ASSUME NEW op, op \notin Self
  PROVE  "secret" \notin Footprint(op) /\ "mfa" \notin Footprint(op)
BY DEF Footprint, Self

\* What a commit leaves of the MFA of user u.
LEMMA CommitsSecrets ==
  ASSUME Phases, Order, MInv, NEW r \in Reqs, req[r].pc = "write", db' = Put(db, req[r].cells),
         NEW u \in Users, req[r].in.op \notin Self \/ req[r].me # u
  PROVE  db'[Secret(u)] = db[Secret(u)] /\ db'[Mfa(u)] = db[Mfa(u)]
<1>1. Secret(u) \in DOMAIN db /\ Mfa(u) \in DOMAIN db
  BY SecretCells DEF Phases
<1>2. SUFFICES Secret(u) \notin DOMAIN req[r].cells /\ Mfa(u) \notin DOMAIN req[r].cells
  BY <1>1, <1>2 DEF Put
<1>3. CASE req[r].in.op \notin Self
  <2>1. \A c \in DOMAIN req[r].cells : c[1] \in Footprint(req[r].in.op)
    BY DEF Order, Planning
  <2>2. \A c \in DOMAIN req[r].cells : c[1] # "secret" /\ c[1] # "mfa"
    BY <1>3, <2>1, OtherFootprints
  <2> QED
    BY <2>2, Tags
<1>4. CASE req[r].in.op \in Self
  <2>1. DOMAIN req[r].cells \subseteq {Secret(req[r].me), Mfa(req[r].me)} /\ req[r].me # u
    BY <1>4 DEF MInv, Secretive
  <2> QED
    BY <2>1, SecretCells
<1> QED
  BY <1>3, <1>4

LEMMA CommitsKeepsSecrets ==
  ASSUME Phases, Order, MInv, NEW r \in Reqs, Commits(r)
  PROVE  MInv'
<1>1. PICK y :
        /\ Turns(r, y) /\ prior' = prior /\ req[r].pc = "write" /\ y.pc = "done" /\ y.end = "ok"
        /\ Same(req[r], y) /\ db' = Put(db, req[r].cells)
  BY DEF Commits
<1> DEFINE op == req[r].in.op
<1>2. /\ req'[r] = y /\ Ok(r)' /\ ~Ok(r) /\ req'[r].in = req[r].in /\ req'[r].me = req[r].me
      /\ req'[r].loaded = req[r].loaded
  BY <1>1 DEF Turns, Ok, Same, Kept
<1>3. \A q \in Reqs : Ok(q) => Ok(q)' /\ q # r /\ req'[q] = req[q]
  BY <1>1, <1>2 DEF Turns, Ok
<1>4. \A p, q \in Reqs : Overlap(p, q)' <=> Overlap(p, q)
  BY <1>1 DEF Overlap
<1>5. \A u : MfaRace(u) => MfaRace(u)'
  BY <1>3, <1>4 DEF MfaRace
<1>6. \A q \in Reqs : Raced(q) => Raced(q)'
  <2> SUFFICES ASSUME NEW q \in Reqs, Raced(q) PROVE Raced(q)'
    OBVIOUS
  <2>1. req'[q].me = req[q].me
    BY <1>1, <1>2 DEF Turns
  <2> QED
    BY <1>3, <1>4, <2>1 DEF Raced
<1>7. ASSUME NEW u \in Users, op \notin Self \/ req[r].me # u
      PROVE  /\ db'[Secret(u)] = db[Secret(u)] /\ db'[Mfa(u)] = db[Mfa(u)]
             /\ Shown(u) => Shown(u)'
  <2>1. db'[Secret(u)] = db[Secret(u)] /\ db'[Mfa(u)] = db[Mfa(u)]
    BY <1>1, <1>7, CommitsSecrets
  <2> QED
    BY <1>3, <2>1 DEF Shown
<1>8. ASSUME NEW q \in Reqs PROVE Secretive(req[q], q)'
  <2>1. CASE q = r
    BY <1>1, <1>2, <2>1 DEF Secretive
  <2>2. CASE q # r
    <3>1. req'[q] = req[q] /\ Secretive(req[q], q)
      BY <1>1, <2>2 DEF Turns, MInv
    <3>2. SUFFICES ASSUME req[q].in.op \in Self, req[q].pc \in {"enter", "read", "write"},
                          req[q].me \in Users, Current(req[q]) \/ Raced(q)
                   PROVE  Current(req[q])' \/ Raced(q)'
      BY <3>1 DEF Secretive
    <3>3. CASE op \in Self /\ req[r].me = req[q].me
      <4>1. r \notin prior[q] /\ q \notin prior[r]
        BY <1>1, <3>2, Unfinished
      <4> QED
        BY <1>2, <1>4, <2>2, <3>1, <3>3, <4>1 DEF Raced, Overlap
    <3>4. CASE op \notin Self \/ req[r].me # req[q].me
      BY <1>6, <1>7, <3>1, <3>2, <3>4 DEF Current
    <3> QED
      BY <3>3, <3>4
  <2> QED
    BY <2>1, <2>2
<1>9. ASSUME NEW u \in Users, ~MfaRace(u)', db'[Mfa(u)] /\ db'[Secret(u)] # "proved"
      PROVE  Shown(u)'
  <2>1. db[Mfa(u)] /\ db[Secret(u)] # "proved" => Shown(u)
    BY <1>5, <1>9 DEF MInv
  <2>2. CASE op \notin Self \/ req[r].me # u
    BY <1>7, <1>9, <2>1, <2>2
  <2>3. CASE op \in Self /\ req[r].me = u
    <3>1. Secretive(req[r], r) /\ ~Raced(r)
      BY <1>2, <1>3, <1>4, <1>9, <2>3 DEF MInv, MfaRace, Raced
    <3>2. /\ db[Secret(u)] = req[r].loaded[Secret(u)] /\ db[Mfa(u)] = req[r].loaded[Mfa(u)]
          /\ op = "enroll" => Mfa(u) \notin DOMAIN req[r].cells /\ req[r].loaded[Mfa(u)] # TRUE
          /\ op = "activate" => Secret(u) \notin DOMAIN req[r].cells
          /\ op = "disable" => Mfa(u) \in DOMAIN req[r].cells /\ req[r].cells[Mfa(u)] = FALSE
      BY <1>1, <2>3, <3>1 DEF Secretive, Current
    <3>3. Secret(u) \in DOMAIN db /\ Mfa(u) \in DOMAIN db
      BY SecretCells DEF Phases
    <3>4. op # "enroll"
      <4>1. op = "enroll" => db'[Mfa(u)] # TRUE
        BY <1>1, <3>2, <3>3 DEF Put
      <4> QED
        BY <1>9, <4>1
    <3>5. op # "disable"
      <4>1. op = "disable" => db'[Mfa(u)] = FALSE
        BY <1>1, <3>2, <3>3 DEF Put
      <4> QED
        BY <1>9, <4>1
    <3>6. op = "activate"
      BY <2>3, <3>4, <3>5 DEF Self
    <3>7. db'[Secret(u)] = req[r].loaded[Secret(u)]
      BY <1>1, <3>2, <3>3, <3>6 DEF Put
    <3> QED
      BY <1>2, <2>3, <3>6, <3>7 DEF Shown
  <2> QED
    BY <2>2, <2>3
<1> QED
  BY <1>8, <1>9 DEF MInv

LEMMA NextMInv ==
  ASSUME Phases, KInv, Order, MInv, [Next]_vars
  PROVE  MInv'
<1>1. CASE UNCHANGED vars
  <2>1. db' = db /\ req' = req /\ prior' = prior
    BY <1>1 DEF vars
  <2>2. (\A p, q \in Reqs : Overlap(p, q)' <=> Overlap(p, q)) /\ \A q \in Reqs : Ok(q)' <=> Ok(q)
    BY <2>1 DEF Overlap, Ok
  <2>3. (\A r \in Reqs : Raced(r)' <=> Raced(r)) /\ \A u : MfaRace(u)' <=> MfaRace(u)
    BY <2>1, <2>2 DEF Raced, MfaRace
  <2>4. (\A u : Shown(u)' <=> Shown(u)) /\ \A x : Current(x)' <=> Current(x)
    BY <2>1, <2>2 DEF Shown, Current
  <2>5. \A r \in Reqs : Secretive(req[r], r) => Secretive(req[r], r)'
    BY <2>1, <2>3, <2>4 DEF Secretive
  <2> QED
    BY <2>1, <2>3, <2>4, <2>5 DEF MInv
<1>2. ASSUME NEW r \in Reqs, Takes(r) \/ Aborts(r) PROVE MInv'
  <2>1. PICK y :
          /\ Turns(r, y) /\ db' = db /\ prior' = prior /\ Same(req[r], y) /\ y.end # "ok"
          /\ y.pc \in {"read", "write", "done"}
          /\ y.pc \in {"read", "write"} => req[r].pc \in {"enter", "read", "write"}
          /\ y.pc = "read" => req[r].pc = "enter"
          /\ y.pc = "write" => req[r].pc = "write"
    BY <1>2 DEF Takes, Aborts
  <2>2. Secretive(req[r], r)
    BY DEF MInv
  <2>3. Raced(r) => Raced(r)'
    BY <2>1, QuietWrites DEF Raced, Overlap, Turns, Ok, Same, Kept
  <2>4. Secretive(y, r)'
    BY <2>1, <2>2, <2>3 DEF Secretive, Current, Same, Kept
  <2> QED
    BY <2>1, <2>4, QuietSecrets
<1> QED
  BY <1>1, <1>2, Moves, BeginsKeepsSecrets, DecidesKeepsSecrets, CommitsKeepsSecrets

\* The accounts with MFA at the start have shown their code.
LEMMA InitMInv == Init => MInv
<1> SUFFICES ASSUME Init PROVE MInv
  OBVIOUS
<1>1. \A u \in Users : db[Mfa(u)] => db[Secret(u)] = "proved"
  BY MfaAssumption DEF Init
<1>2. \A r \in Reqs : req[r] = Fresh
  BY DEF Init
<1>3. Fresh.in.op = "none"
  BY DEF Fresh, Nobody
<1>4. \A r \in Reqs : Secretive(req[r], r)
  BY <1>2, <1>3 DEF Secretive, Self
<1> QED
  BY <1>1, <1>4 DEF MInv

\* The secret an account's MFA asks for is one whose code the user has shown,
\* however many requests there are, unless two of that user's requests to enrol,
\* activate and disable overlapped (auth/router.py).
THEOREM MfaProvedHolds == Spec => []MfaProved
<1> DEFINE Inv == IInv /\ KInv /\ Order /\ MInv
<1>1. Init => Inv
  BY InitIInv, InitKInv, InitOrder, InitMInv
<1>2. Inv /\ [Next]_vars => Inv'
  <2> SUFFICES ASSUME Inv, [Next]_vars PROVE Inv'
    OBVIOUS
  <2>1. IInv' /\ KInv'
    BY NextIInv, NextKInv
  <2>2. Order' /\ MInv'
    BY NextOrder, NextMInv DEF IInv
  <2> QED
    BY <2>1, <2>2
<1>3. Inv => MfaProved
  BY DEF MInv, MfaProved, MfaRace, Shown
<1> QED
  BY <1>1, <1>2, <1>3, PTL DEF Spec

-------------------------------------------------------------------------------
(***************************************************************************)
(* Types.  A column is given values of its own type (Fits); a handler that *)
(* writes a membership or a SCIM row writes the account too or has found   *)
(* one of the two there, and then the account is there already (Grounds);  *)
(* accounts stay.                                                          *)
(***************************************************************************)
Fits(c, v) ==
  /\ c[1] = "member" => v \in Roles \cup {None}
  /\ c[1] = "user"   => v \in {"shell", "bare", "full", None}
  /\ c[1] = "scim"   => v \in {"active", "inactive", None}
  /\ c[1] = "group"  => v = None \/ v \in GroupRow
  /\ c[1] \in {"default", "sso"} => v \in Roles \cup {None}
Fitting(D) == \A c \in Cells : Fits(c, D[c])

Listed(D) ==
  \A g \in Groups : D[Group(g)] # None => \A u \in D[Group(g)].members : D[Scim(u)] # None
Known(D, u) == D[Member(u)] # None \/ D[Scim(u)] # None
Accounted(D) == \A u \in Users : Known(D, u) => D[Account(u)] # None

Grounds(D, E) ==
  \A u \in Users :
    /\ E[Account(u)] = None => D[Account(u)] = None
    /\ Known(E, u) => E[Account(u)] # None \/ Known(D, u)

\* What a request has loaded and will write.
Typing(x) ==
  /\ \A c \in DOMAIN x.loaded : c \in Cells /\ c[1] \notin {"member", "scim", "group", "session"} /\ Fits(c, x.loaded[c])
  /\ \A c \in DOMAIN x.cells : Fits(c, x.cells[c])
  /\ \A u \in Users :
       /\ Account(u) \in DOMAIN x.loaded /\ x.loaded[Account(u)] # None => db[Account(u)] # None
       /\ Account(u) \in DOMAIN x.cells => x.cells[Account(u)] # None
       /\ \A c \in {Member(u), Scim(u)} : c \in DOMAIN x.cells /\ x.cells[c] # None =>
            Account(u) \in DOMAIN x.cells \/ db[Account(u)] # None
  /\ x.in.op \in Scims /\ x.pc = "write" => Listed(Put(db, x.cells))

TInv ==
  /\ Fitting(db) /\ Accounted(db) /\ Listed(db)
  /\ \A r \in Reqs : Typing(req[r])

LEMMA UserCells ==
  /\ \A u \in Users : /\ Member(u) \in Cells /\ Account(u) \in Cells /\ Scim(u) \in Cells
                        /\ Secret(u) \in Cells /\ Mfa(u) \in Cells
  /\ \A g \in Groups : Group(g) \in Cells
  /\ Token \in Cells /\ Enabled \in Cells /\ Default \in Cells
  /\ SsoRole \in Cells /\ SsoOn \in Cells /\ Enforced \in Cells
<1>1. \A u \in Users : {Member(u), Account(u), Secret(u), Mfa(u), Scim(u)} \subseteq Cells
  <2> SUFFICES ASSUME NEW u \in Users
               PROVE  {Member(u), Account(u), Secret(u), Mfa(u), Scim(u)} \subseteq Cells
    OBVIOUS
  <2> DEFINE S == {{Member(v), Account(v), Secret(v), Mfa(v), Scim(v)} : v \in Users}
  <2>1. {Member(u), Account(u), Secret(u), Mfa(u), Scim(u)} \in S
    OBVIOUS
  <2>2. {Member(u), Account(u), Secret(u), Mfa(u), Scim(u)} \subseteq UNION S
    BY <2>1
  <2> QED
    BY <2>2 DEF Cells
<1>2. \A g \in Groups : Group(g) \in Cells
  BY DEF Cells
<1>3. {Token, Enabled, Default, SsoRole, SsoOn, Enforced} \subseteq Cells
  BY DEF Cells
<1> QED
  BY <1>1, <1>2, <1>3

\* The cells of one kind.
LEMMA CellKinds ==
  ASSUME NEW c \in Cells
  PROVE  /\ c[1] = "member" => \E u \in Users : c = Member(u)
         /\ c[1] = "user" => \E u \in Users : c = Account(u)
         /\ c[1] = "scim" => \E u \in Users : c = Scim(u)
         /\ c[1] = "group" => \E g \in Groups : c = Group(g)
         /\ c[1] = "session" => \E s \in Sess : c = Live(s)
         /\ c[1] = "default" => c = Default
         /\ c[1] = "sso" => c = SsoRole
<1>1. \/ \E g \in Groups : c = Group(g)
      \/ \E s \in Sess : c = Live(s)
      \/ \E k \in Keys : c = Key(k)
      \/ c \in {Token, Enabled, Default, SsoRole, SsoOn, Enforced}
      \/ \E u \in Users : c \in {Member(u), Account(u), Secret(u), Mfa(u), Scim(u)}
  BY DEF Cells
<1> QED
  BY <1>1, Tags

LEMMA DifferentCells ==
  \A u, v : /\ Account(u) # Scim(v) /\ Account(u) # Member(v) /\ Scim(u) # Member(v)
            /\ Group(u) # Account(v) /\ Group(u) # Scim(v) /\ Group(u) # Member(v)
            /\ Live(u) \notin {Account(v), Scim(v), Member(v), Group(v)}
            /\ (Account(u) = Account(v) => u = v) /\ (Scim(u) = Scim(v) => u = v)
            /\ (Group(u) = Group(v) => u = v) /\ (Live(u) = Live(v) => u = v)
            /\ Default \notin {Account(u), Scim(u), Member(u), Group(u), Live(u)}
BY DEF Account, Scim, Member, Group, Live, Default

LEMMA TypedFits ==
  ASSUME NEW D
  PROVE  /\ Typed(D) => Fitting(D) /\ Accounted(D) /\ Listed(D)
         /\ Fitting(D) /\ Accounted(D) /\ Listed(D) => Typed(D)
<1>1. ASSUME Typed(D), NEW c \in Cells PROVE Fits(c, D[c])
  <2>1. CASE c[1] \in {"member", "user", "scim"}
    <3>1. PICK u \in Users : c \in {Member(u), Account(u), Scim(u)}
      BY <2>1, CellKinds
    <3> QED
      BY <1>1, <3>1, Tags DEF Typed, Fits
  <2>2. CASE c[1] = "group"
    <3>1. PICK g \in Groups : c = Group(g)
      BY <2>2, CellKinds
    <3> QED
      BY <1>1, <2>2, <3>1 DEF Typed, Fits
  <2>3. CASE c[1] \in {"default", "sso"}
    <3>1. c \in {Default, SsoRole}
      BY <2>3, CellKinds
    <3> QED
      BY <1>1, <2>3, <3>1 DEF Typed, Fits
  <2> QED
    BY <2>1, <2>2, <2>3 DEF Fits
<1>2. Typed(D) => Accounted(D) /\ Listed(D)
  BY DEF Typed, Accounted, Listed, Known
<1>3. ASSUME Fitting(D), Accounted(D), Listed(D) PROVE Typed(D)
  <2>1. ASSUME NEW u \in Users
        PROVE  /\ D[Member(u)] \in Roles \cup {None}
               /\ D[Account(u)] \in {"shell", "bare", "full", None}
               /\ D[Scim(u)] \in {"active", "inactive", None}
    <3>1. Member(u) \in Cells /\ Account(u) \in Cells /\ Scim(u) \in Cells
      BY UserCells
    <3> QED
      BY <1>3, <3>1, Tags DEF Fitting, Fits
  <2>2. ASSUME NEW g \in Groups PROVE D[Group(g)] = None \/ D[Group(g)] \in GroupRow
    BY <1>3, <2>2, UserCells, Tags DEF Fitting, Fits
  <2>3. D[Default] \in Roles \cup {None} /\ D[SsoRole] \in Roles \cup {None}
    BY <1>3, UserCells, Tags DEF Fitting, Fits
  <2> QED
    BY <1>3, <2>1, <2>2, <2>3 DEF Typed, Accounted, Listed, Known
<1> QED
  BY <1>1, <1>2, <1>3 DEF Fitting

-------------------------------------------------------------------------------
\* The role a user is given is one of the roles.
LEMMA StrongestIsRole ==
  ASSUME NEW S, S \subseteq Roles \ {"owner"}, S # {}
  PROVE  MostPrivileged(S) \in S
<1> DEFINE P(i) == Priority[i] \in S /\ \A j \in DOMAIN Priority : Priority[j] \in S => i <= j
<1>1. /\ DOMAIN Priority = 1 .. 6
      /\ Priority[1] = "admin" /\ Priority[2] = "security_admin" /\ Priority[3] = "security_analyst"
      /\ Priority[4] = "developer" /\ Priority[5] = "billing_admin" /\ Priority[6] = "auditor"
  BY DEF Priority
<1>2. \A j \in 1 .. 6 : j = 1 \/ j = 2 \/ j = 3 \/ j = 4 \/ j = 5 \/ j = 6
  OBVIOUS
<1>3. \E i \in 1 .. 6 : Priority[i] \in S
  <2>1. PICK x \in S : TRUE
    OBVIOUS
  <2>2. x \in {"admin", "security_admin", "security_analyst", "developer", "billing_admin", "auditor"}
    BY DEF Roles
  <2>3. \E i \in 1 .. 6 : Priority[i] = x
    BY <1>1, <2>2
  <2> QED
    BY <2>3
<1>4. \E i \in DOMAIN Priority : P(i)
  BY <1>1, <1>2, <1>3
<1>5. Priority[CHOOSE i \in DOMAIN Priority : P(i)] \in S
  BY <1>4
<1> QED
  BY <1>5 DEF MostPrivileged

\* Only the default role can be owner.
LEMMA MappedOwner ==
  ASSUME NEW D, NEW u
  PROVE  /\ GroupRoles(D, u) \subseteq Roles \ {"owner"}
         /\ GroupRoles(D, u) # {} => MostPrivileged(GroupRoles(D, u)) \in Roles \ {"owner"}
         /\ SyncedRole(D, u) = "owner" => D[Default] = "owner"
<1>1. GroupRoles(D, u) \subseteq Roles \ {"owner"}
  <2>1. \A name : RoleFromDisplayName(name) \in (Roles \ {"owner"}) \cup {None}
    BY DEF RoleFromDisplayName, Roles
  <2> QED
    BY <2>1 DEF GroupRoles
<1>2. GroupRoles(D, u) # {} => MostPrivileged(GroupRoles(D, u)) \in Roles \ {"owner"}
  BY <1>1, StrongestIsRole
<1>3. None # "owner"
  BY NoneAssumption DEF Roles
<1> QED
  BY <1>1, <1>2, <1>3 DEF SyncedRole, MappedRole

LEMMA MappedIsRole ==
  ASSUME NEW D, D[Default] \in Roles \cup {None}, NEW u
  PROVE  SyncedRole(D, u) \in Roles \cup {None} /\ GroupRoles(D, u) \subseteq Roles \ {"owner"}
BY MappedOwner DEF SyncedRole, MappedRole

-------------------------------------------------------------------------------
\* Handlers keep the types.
LEMMA OneFits ==
  ASSUME NEW D, IsFunction(D), Fitting(D), NEW x, NEW v, Fits(x, v)
  PROVE  Fitting([D EXCEPT ![x] = v]) /\ IsFunction([D EXCEPT ![x] = v])
BY DEF Fitting, IsFunction

LEMMA TwoFit ==
  ASSUME NEW D, IsFunction(D), Fitting(D), NEW x, NEW v, Fits(x, v), NEW y, NEW w, Fits(y, w)
  PROVE  Fitting([D EXCEPT ![x] = v, ![y] = w]) /\ IsFunction([D EXCEPT ![x] = v, ![y] = w])
<1> DEFINE E == [D EXCEPT ![x] = v]
<1>1. Fitting(E) /\ IsFunction(E)
  BY OneFits
<1> HIDE DEF E
<1>2. Fitting([E EXCEPT ![y] = w]) /\ IsFunction([E EXCEPT ![y] = w])
  BY <1>1, OneFits
<1>3. [E EXCEPT ![y] = w] = [D EXCEPT ![x] = v, ![y] = w]
  BY DEF E
<1> QED
  BY <1>2, <1>3

\* What fits each kind of cell.
LEMMA Fitted ==
  /\ \A u, v : (v \in Roles \cup {None} => Fits(Member(u), v)) /\ (v \in {"shell", "bare", "full", None} => Fits(Account(u), v))
  /\ \A u, v : (v \in {"active", "inactive", None} => Fits(Scim(u), v)) /\ (v = None \/ v \in GroupRow => Fits(Group(u), v))
  /\ \A u, v : Fits(Secret(u), v) /\ Fits(Mfa(u), v) /\ Fits(Live(u), v) /\ Fits(Key(u), v)
  /\ \A v : Fits(Token, v) /\ Fits(Enabled, v) /\ Fits(SsoOn, v) /\ Fits(Enforced, v)
  /\ \A v \in Roles \cup {None} : Fits(Default, v) /\ Fits(SsoRole, v)
BY Tags DEF Fits

LEMMA FitsAt ==
  ASSUME NEW D, Fitting(D)
  PROVE  /\ \A u \in Users : /\ D[Member(u)] \in Roles \cup {None}
                             /\ D[Account(u)] \in {"shell", "bare", "full", None}
                             /\ D[Scim(u)] \in {"active", "inactive", None}
         /\ \A g \in Groups : D[Group(g)] = None \/ D[Group(g)] \in GroupRow
         /\ D[Default] \in Roles \cup {None} /\ D[SsoRole] \in Roles \cup {None}
<1>1. ASSUME NEW u \in Users
      PROVE  /\ D[Member(u)] \in Roles \cup {None}
             /\ D[Account(u)] \in {"shell", "bare", "full", None}
             /\ D[Scim(u)] \in {"active", "inactive", None}
  <2>1. Member(u) \in Cells /\ Account(u) \in Cells /\ Scim(u) \in Cells
    BY UserCells
  <2> QED
    BY <2>1, Tags DEF Fitting, Fits
<1>2. ASSUME NEW g \in Groups PROVE D[Group(g)] = None \/ D[Group(g)] \in GroupRow
  BY UserCells, Tags DEF Fitting, Fits
<1>3. D[Default] \in Roles \cup {None} /\ D[SsoRole] \in Roles \cup {None}
  BY UserCells, Tags DEF Fitting, Fits
<1> QED
  BY <1>1, <1>2, <1>3

LEMMA SyncFits ==
  ASSUME NEW D, IsFunction(D), Fitting(D), NEW us
  PROVE  /\ Fitting(SyncMembership(D, us)) /\ IsFunction(SyncMembership(D, us))
         /\ Grounds(D, SyncMembership(D, us))
         /\ \A u \in Users : SyncMembership(D, us)[Scim(u)] = D[Scim(u)]
         /\ \A g \in Groups : SyncMembership(D, us)[Group(g)] = D[Group(g)]
<1> DEFINE E == SyncMembership(D, us)
<1>1. \A c \in Cells : c[1] \notin {"member", "session"} => E[c] = D[c]
  BY DEF SyncMembership
<1>2. IsFunction(E)
  BY DEF SyncMembership, IsFunction
<1>3. ASSUME NEW c \in Cells, c[1] = "member" PROVE E[c] \in Roles \cup {None}
  <2>1. E[c] = SyncedRole(D, c[2]) \/ E[c] = D[c]
    BY <1>3 DEF SyncMembership
  <2>2. D[c] \in Roles \cup {None}
    BY <1>3 DEF Fitting, Fits
  <2>3. SyncedRole(D, c[2]) \in Roles \cup {None}
    BY FitsAt, MappedIsRole
  <2> QED
    BY <2>1, <2>2, <2>3
<1>4. ASSUME NEW u \in Users, E[Member(u)] # None PROVE Known(D, u)
  <2>1. Member(u) \in Cells /\ Member(u)[1] = "member" /\ Member(u)[2] = u
    BY MemberCells
  <2>2. Managed(D, u) \/ E[Member(u)] = D[Member(u)]
    BY <2>1 DEF SyncMembership
  <2> QED
    BY <1>4, <2>2 DEF Managed, Known
<1> HIDE DEF E
<1>5. Fitting(E)
  BY <1>1, <1>3 DEF Fitting, Fits
<1>6. \A u \in Users : E[Scim(u)] = D[Scim(u)] /\ E[Account(u)] = D[Account(u)]
  BY <1>1, UserCells, Tags
<1>7. \A g \in Groups : E[Group(g)] = D[Group(g)]
  BY <1>1, UserCells, Tags
<1>8. Grounds(D, E)
  BY <1>4, <1>6 DEF Grounds, Known
<1> QED
  BY <1>2, <1>5, <1>6, <1>7, <1>8 DEF E

LEMMA GroundsAgain ==
  ASSUME NEW D, NEW E, NEW F, Grounds(D, E), Grounds(E, F)
  PROVE  Grounds(D, F)
BY DEF Grounds

LEMMA Ungrounded ==
  ASSUME NEW D, NEW E, \A u \in Users : /\ E[Member(u)] = D[Member(u)] /\ E[Scim(u)] = D[Scim(u)]
                                        /\ E[Account(u)] = D[Account(u)] \/ E[Account(u)] # None
  PROVE  Grounds(D, E)
BY DEF Grounds, Known

\* A handler's outcome, E, of D.
Sound(D, E) == E # None => Fitting(E) /\ Grounds(D, E)

LEMMA MembersSound ==
  ASSUME NEW D, IsFunction(D), Fitting(D), NEW u \in Users
  PROVE  /\ \A role \in Roles : Sound(D, AddMember(D, u, role)) /\ Sound(D, UpdateMemberRole(D, u, role))
         /\ Sound(D, RemoveMember(D, u)) /\ Sound(D, Register(D, u))
<1>0. {Member(u), Account(u)} \subseteq Cells
  BY UserCells
<1>1. ASSUME NEW role \in Roles PROVE Sound(D, AddMember(D, u, role))
  <2> DEFINE a == IF D[Account(u)] = None THEN "shell" ELSE D[Account(u)]
             E == [D EXCEPT ![Account(u)] = a, ![Member(u)] = role]
  <2>1. AddMember(D, u, role) = None \/ AddMember(D, u, role) = E
    BY DEF AddMember
  <2>2. a \in {"shell", "bare", "full"}
    BY FitsAt
  <2> HIDE DEF a
  <2>3. Fitting(E)
    BY <2>2, Fitted, TwoFit
  <2>4. Grounds(D, E)
    <3>1. E[Account(u)] = a /\ a # None
      BY <1>0, <2>2, DifferentCells, NoneAssumption DEF IsFunction
    <3>2. ASSUME NEW v \in Users \ {u}
          PROVE  E[Account(v)] = D[Account(v)] /\ E[Member(v)] = D[Member(v)] /\ E[Scim(v)] = D[Scim(v)]
      <4>1. /\ Account(v) \notin {Account(u), Member(u)} /\ Member(v) \notin {Account(u), Member(u)}
            /\ Scim(v) \notin {Account(u), Member(u)}
        BY <3>2, DifferentCells, MemberCells
      <4>2. \A c \in Cells : c \notin {Account(u), Member(u)} => E[c] = D[c]
        BY DEF IsFunction
      <4> QED
        BY <4>1, <4>2, UserCells
    <3> QED
      BY <3>1, <3>2 DEF Grounds, Known
  <2> QED
    BY <2>1, <2>3, <2>4 DEF Sound
<1>2. ASSUME NEW role \in Roles \cup {None}, D[Member(u)] # None PROVE Sound(D, [D EXCEPT ![Member(u)] = role])
  <2> DEFINE E == [D EXCEPT ![Member(u)] = role]
  <2>1. Fitting(E)
    BY Fitted, OneFits
  <2>2. \A v \in Users : E[Account(v)] = D[Account(v)] /\ E[Scim(v)] = D[Scim(v)]
    BY DifferentCells
  <2>3. \A v \in Users \ {u} : E[Member(v)] = D[Member(v)]
    BY MemberCells
  <2> QED
    BY <1>2, <2>1, <2>2, <2>3 DEF Sound, Grounds, Known
<1>3. \A role \in Roles : Sound(D, UpdateMemberRole(D, u, role))
  BY <1>2 DEF UpdateMemberRole, Sound
<1>4. Sound(D, RemoveMember(D, u))
  BY <1>2 DEF RemoveMember, Sound
<1>5. Sound(D, Register(D, u))
  <2> DEFINE E == [D EXCEPT ![Account(u)] = "full"]
  <2>1. Fitting(E)
    BY Fitted, OneFits
  <2>2. \A v \in Users : E[Member(v)] = D[Member(v)] /\ E[Scim(v)] = D[Scim(v)]
    BY DifferentCells
  <2>3. E[Account(u)] # None /\ \A v \in Users \ {u} : E[Account(v)] = D[Account(v)]
    BY <1>0, DifferentCells, NoneAssumption DEF IsFunction
  <2>4. Grounds(D, E)
    <3> HIDE DEF E
    <3> QED
      BY <2>2, <2>3, Ungrounded
  <2> QED
    BY <2>1, <2>4 DEF Sound, Register
<1> QED
  BY <1>1, <1>3, <1>4, <1>5

\* Operations that touch neither members nor accounts nor SCIM users.
LEMMA ElsewhereGrounds ==
  ASSUME NEW D, NEW E, NEW K, Only(D, E, K), "member" \notin K, "user" \notin K, "scim" \notin K
  PROVE  Grounds(D, E)
<1>1. ASSUME NEW u \in Users
      PROVE  /\ E[Member(u)] = D[Member(u)] /\ E[Scim(u)] = D[Scim(u)] /\ E[Account(u)] = D[Account(u)]
  <2>1. Member(u) \in Cells /\ Account(u) \in Cells /\ Scim(u) \in Cells
    BY UserCells
  <2> QED
    BY <2>1, Tags DEF Only
<1> QED
  BY <1>1, Ungrounded

LEMMA KeysFit ==
  ASSUME NEW D, IsFunction(D), Fitting(D), NEW k
  PROVE  /\ \A me, role, scopes : CreateKey(D, k, me, role, scopes) # None => Fitting(CreateKey(D, k, me, role, scopes))
         /\ RevokeKey(D, k) # None => Fitting(RevokeKey(D, k))
<1>1. \A v : Fitting([D EXCEPT ![Key(k)] = v])
  BY Fitted, OneFits
<1>2. [D EXCEPT ![Key(k)].revoked = TRUE] = [D EXCEPT ![Key(k)] = [D[Key(k)] EXCEPT !.revoked = TRUE]]
  OBVIOUS
<1> QED
  BY <1>1, <1>2 DEF CreateKey, RevokeKey

LEMMA SettingsFit ==
  ASSUME NEW D, IsFunction(D), Fitting(D), NEW E, E # None
  PROVE  /\ \A v, x : E = EnrollMfa(D, v, x) => Fitting(E)
         /\ \A v : E = ActivateMfa(D, v) \/ E = DisableMfa(D, v) => Fitting(E)
         /\ \A on : \A role \in Roles : E = UpsertConfig(D, on, role) => Fitting(E)
         /\ \A x : E = RotateToken(D, x) => Fitting(E)
         /\ E = RevokeToken(D) => Fitting(E)
         /\ \A role \in Roles : \A on : E = CreateConnection(D, role, on) => Fitting(E)
         /\ \A c, x : Fits(c, x) /\ E = UpdateConnection(D, c, x) => Fitting(E)
         /\ E = DeleteConnection(D) => Fitting(E)
<1>1. \A v, x : E = EnrollMfa(D, v, x) => Fitting(E)
  BY Fitted, OneFits DEF EnrollMfa
<1>2. \A v : E = ActivateMfa(D, v) => Fitting(E)
  BY Fitted, OneFits DEF ActivateMfa
<1>3. ASSUME NEW v, E = DisableMfa(D, v) PROVE Fitting(E)
  <2>1. Fits(Mfa(v), FALSE) /\ Fits(Secret(v), None)
    BY Fitted
  <2>2. Fitting([D EXCEPT ![Mfa(v)] = FALSE, ![Secret(v)] = None])
    BY <2>1, TwoFit
  <2> QED
    BY <1>3, <2>2 DEF DisableMfa
<1>4. ASSUME NEW on, NEW role \in Roles, E = UpsertConfig(D, on, role) PROVE Fitting(E)
  <2>1. Fits(Enabled, on) /\ Fits(Default, role)
    BY Fitted
  <2>2. Fitting([D EXCEPT ![Enabled] = on, ![Default] = role])
    BY <2>1, TwoFit
  <2> QED
    BY <1>4, <2>2 DEF UpsertConfig
<1>5. ASSUME NEW x, E = RotateToken(D, x) PROVE Fitting(E)
  <2> DEFINE d == IF D[Default] = None THEN "developer" ELSE D[Default]
             F == [D EXCEPT ![Token] = x, ![Enabled] = TRUE]
  <2>1. E = [F EXCEPT ![Default] = d]
    <3>1. Default # Token /\ Default # Enabled
      BY DEF Default, Token, Enabled
    <3>2. F[Default] = D[Default]
      BY <3>1, UserCells DEF IsFunction
    <3>3. E = [D EXCEPT ![Token] = x, ![Enabled] = TRUE, ![Default] = d]
      BY <1>5, <3>1 DEF RotateToken
    <3> QED
      BY <3>2, <3>3
  <2>2. d \in Roles
    BY FitsAt DEF Roles
  <2>3. Fitting(F) /\ IsFunction(F)
    BY Fitted, TwoFit
  <2> HIDE DEF d, F
  <2> QED
    BY <2>1, <2>2, <2>3, Fitted, OneFits
<1>6. ASSUME E = RevokeToken(D) PROVE Fitting(E)
  <2>1. Fits(Token, None) /\ Fits(Enabled, FALSE)
    BY Fitted
  <2>2. Fitting([D EXCEPT ![Token] = None, ![Enabled] = FALSE])
    BY <2>1, TwoFit
  <2> QED
    BY <1>6, <2>2 DEF RevokeToken
<1>7. ASSUME NEW role \in Roles \cup {None}, NEW on, NEW e, E = [D EXCEPT ![SsoRole] = role, ![SsoOn] = on, ![Enforced] = e]
      PROVE  Fitting(E)
  <2> DEFINE F == [D EXCEPT ![SsoRole] = role, ![SsoOn] = on]
  <2>1. Fitting(F) /\ IsFunction(F)
    BY Fitted, TwoFit
  <2>2. E = [F EXCEPT ![Enforced] = e]
    BY <1>7
  <2> HIDE DEF F
  <2> QED
    BY <2>1, <2>2, Fitted, OneFits
<1>8. \A role \in Roles : \A on : E = CreateConnection(D, role, on) => Fitting(E)
  BY <1>7 DEF CreateConnection
<1>9. \A c, x : Fits(c, x) /\ E = UpdateConnection(D, c, x) => Fitting(E)
  BY OneFits DEF UpdateConnection
<1>10. E = DeleteConnection(D) => Fitting(E)
  BY <1>7 DEF DeleteConnection
<1> QED
  BY <1>1, <1>2, <1>3, <1>4, <1>5, <1>6, <1>8, <1>9, <1>10

LEMMA OpeningSound ==
  ASSUME NEW D, IsFunction(D), Fitting(D), NEW r, NEW u
  PROVE  /\ Fitting(CreateSession(D, r, u)) /\ Grounds(D, CreateSession(D, r, u))
         /\ Fitting(ResolveMembership(D, r, u)) /\ Grounds(D, ResolveMembership(D, r, u))
<1> DEFINE E == CreateSession(D, r, u)
<1>1. Fitting(E)
  BY Fitted, OneFits DEF CreateSession
<1>2. \A v \in Users : E[Member(v)] = D[Member(v)] /\ E[Scim(v)] = D[Scim(v)] /\ E[Account(v)] = D[Account(v)]
  BY DifferentCells DEF CreateSession
<1> HIDE DEF E
<1>3. Grounds(D, E)
  BY <1>2, Ungrounded
<1>4. Grounds(D, D)
  BY Ungrounded
<1>5. ResolveMembership(D, r, u) = D \/ ResolveMembership(D, r, u) = E
  BY DEF ResolveMembership, E
<1> QED
  BY <1>1, <1>3, <1>4, <1>5 DEF E

LEMMA SignInsSound ==
  ASSUME NEW D, IsFunction(D), Fitting(D), NEW r, NEW u \in Users
  PROVE  \A E \in {Login(D, r, u), VerifyMfa(D, r, u), SwitchOrg(D, r, u), OAuthCallback(D, r, u),
                   SsoSignIn(D, r, u)} : Sound(D, E)
<1> DEFINE a == IF D[Account(u)] = None THEN "bare" ELSE D[Account(u)]
           b == IF D[Member(u)] = None THEN D[SsoRole] ELSE D[Member(u)]
<1>0. a \in {"shell", "bare", "full"} /\ b \in Roles \cup {None} /\ Fitting(D) /\ Grounds(D, D)
  BY FitsAt, Ungrounded
<1>1. Sound(D, Login(D, r, u))
  BY <1>0, OpeningSound DEF Sound, Login
<1>2. Sound(D, VerifyMfa(D, r, u)) /\ Sound(D, SwitchOrg(D, r, u))
  BY OpeningSound DEF Sound, VerifyMfa, SwitchOrg
<1>3. Sound(D, OAuthCallback(D, r, u))
  <2> DEFINE F == [D EXCEPT ![Account(u)] = a]
  <2>1. OAuthCallback(D, r, u) = ResolveMembership(F, r, u)
    BY DEF OAuthCallback
  <2> HIDE DEF a
  <2>2. Fitting(F) /\ IsFunction(F)
    BY <1>0, Fitted, OneFits
  <2>3. F[Account(u)] # None
    BY <1>0, UserCells, NoneAssumption DEF IsFunction
  <2>4. \A v \in Users : F[Member(v)] = D[Member(v)] /\ F[Scim(v)] = D[Scim(v)]
    BY DifferentCells
  <2>5. \A v \in Users \ {u} : F[Account(v)] = D[Account(v)]
    BY DifferentCells
  <2> HIDE DEF F
  <2>6. Grounds(D, F)
    BY <2>3, <2>4, <2>5, Ungrounded
  <2> QED
    BY <2>1, <2>2, <2>6, OpeningSound, GroundsAgain DEF Sound
<1>4. Sound(D, SsoSignIn(D, r, u))
  <2> DEFINE F == [D EXCEPT ![Account(u)] = a, ![Member(u)] = b]
  <2>1. SsoSignIn(D, r, u) = None \/ SsoSignIn(D, r, u) = CreateSession(F, r, u)
    BY DifferentCells DEF SsoSignIn, Provision
  <2> HIDE DEF a, b
  <2>2. Fitting(F) /\ IsFunction(F)
    BY <1>0, Fitted, TwoFit
  <2>3. F[Account(u)] # None
    BY <1>0, UserCells, DifferentCells, NoneAssumption DEF IsFunction
  <2>7. \A c \in Cells : c \notin {Account(u), Member(u)} => F[c] = D[c]
    BY DEF IsFunction
  <2>4. \A v \in Users : F[Scim(v)] = D[Scim(v)]
    BY <2>7, UserCells, DifferentCells
  <2>5. ASSUME NEW v \in Users \ {u} PROVE F[Account(v)] = D[Account(v)] /\ F[Member(v)] = D[Member(v)]
    <3>1. Account(v) \notin {Account(u), Member(u)} /\ Member(v) \notin {Account(u), Member(u)}
      BY <2>5, DifferentCells, MemberCells
    <3> QED
      BY <2>7, <3>1, UserCells
  <2> HIDE DEF F
  <2>6. Grounds(D, F)
    BY <2>3, <2>4, <2>5 DEF Grounds, Known
  <2> QED
    BY <2>1, <2>2, <2>6, OpeningSound, GroundsAgain DEF Sound
<1> QED
  BY <1>1, <1>2, <1>3, <1>4

\* SCIM handlers: the members of groups stay provisioned.
ScimSound(D, E) == E # None => Fitting(E) /\ Grounds(D, E) /\ (Listed(D) => Listed(E))

LEMMA SyncSound ==
  ASSUME NEW D, NEW F, IsFunction(F), Fitting(F), Grounds(D, F), Listed(D) => Listed(F), NEW us
  PROVE  ScimSound(D, SyncMembership(F, us))
<1> DEFINE E == SyncMembership(F, us)
<1>1. /\ Fitting(E) /\ IsFunction(E) /\ Grounds(F, E)
      /\ \A u \in Users : E[Scim(u)] = F[Scim(u)]
      /\ \A g \in Groups : E[Group(g)] = F[Group(g)]
  BY SyncFits
<1> HIDE DEF E
<1>2. Grounds(D, E)
  BY <1>1, GroundsAgain
<1>3. ASSUME Listed(F) PROVE Listed(E)
  <2>1. \A g \in Groups : F[Group(g)] # None => F[Group(g)].members \subseteq Users
    BY FitsAt DEF GroupRow
  <2> QED
    BY <1>1, <1>3, <2>1 DEF Listed
<1> QED
  BY <1>1, <1>2, <1>3 DEF E, ScimSound

\* What writing the SCIM row of a user there is, or the row of a group, changes.
LEMMA ScimRow ==
  ASSUME NEW D, IsFunction(D), Fitting(D), NEW u \in Users, Known(D, u),
         NEW v \in {"active", "inactive"}
  PROVE  LET F == [D EXCEPT ![Scim(u)] = v] IN
           IsFunction(F) /\ Fitting(F) /\ Grounds(D, F) /\ (Listed(D) => Listed(F))
<1> DEFINE F == [D EXCEPT ![Scim(u)] = v]
<1>1. Fitting(F) /\ IsFunction(F)
  BY Fitted, OneFits
<1>2. \A c \in Cells : c # Scim(u) => F[c] = D[c]
  BY DEF IsFunction
<1>3. F[Scim(u)] = v
  BY UserCells DEF IsFunction
<1> HIDE DEF F
<1>4. \A w \in Users : F[Member(w)] = D[Member(w)] /\ F[Account(w)] = D[Account(w)]
  BY <1>2, UserCells, DifferentCells
<1>5. \A w \in Users : F[Scim(w)] = D[Scim(w)] \/ (w = u /\ F[Scim(w)] # None)
  BY <1>2, <1>3, UserCells, DifferentCells, NoneAssumption
<1>6. \A g \in Groups : F[Group(g)] = D[Group(g)]
  BY <1>2, UserCells, DifferentCells
<1>7. Grounds(D, F)
  BY <1>4, <1>5 DEF Grounds, Known
<1>8. ASSUME Listed(D) PROVE Listed(F)
  <2>1. \A g \in Groups : D[Group(g)] # None => D[Group(g)].members \subseteq Users
    BY FitsAt DEF GroupRow
  <2> QED
    BY <1>5, <1>6, <1>8, <2>1 DEF Listed
<1> QED
  BY <1>1, <1>7, <1>8 DEF F

LEMMA GroupCell ==
  ASSUME NEW D, IsFunction(D), Fitting(D), NEW g \in Groups, NEW v, v = None \/ v \in GroupRow,
         v # None => \A u \in v.members : D[Scim(u)] # None
  PROVE  LET F == [D EXCEPT ![Group(g)] = v] IN
           IsFunction(F) /\ Fitting(F) /\ Grounds(D, F) /\ (Listed(D) => Listed(F))
<1> DEFINE F == [D EXCEPT ![Group(g)] = v]
<1>1. Fitting(F) /\ IsFunction(F)
  BY Fitted, OneFits
<1>2. \A c \in Cells : c # Group(g) => F[c] = D[c]
  BY DEF IsFunction
<1>3. F[Group(g)] = v
  BY UserCells DEF IsFunction
<1> HIDE DEF F
<1>4. \A w \in Users : /\ F[Member(w)] = D[Member(w)] /\ F[Account(w)] = D[Account(w)]
                       /\ F[Scim(w)] = D[Scim(w)]
  BY <1>2, UserCells, DifferentCells
<1>5. \A h \in Groups \ {g} : F[Group(h)] = D[Group(h)]
  BY <1>2, UserCells, DifferentCells
<1>6. Grounds(D, F)
  BY <1>4, Ungrounded
<1>7. ASSUME Listed(D) PROVE Listed(F)
  <2>1. ASSUME NEW h \in Groups, F[Group(h)] # None, NEW u \in F[Group(h)].members PROVE F[Scim(u)] # None
    <3>1. F[Group(h)].members \subseteq Users
      BY <1>1, <2>1, FitsAt DEF GroupRow
    <3>2. D[Scim(u)] # None
      BY <1>3, <1>5, <1>7, <2>1 DEF Listed
    <3> QED
      BY <1>4, <2>1, <3>1, <3>2
  <2> QED
    BY <2>1 DEF Listed
<1> QED
  BY <1>1, <1>6, <1>7 DEF F

LEMMA MembersListed ==
  ASSUME NEW D, IsFunction(D), Fitting(D), NEW g \in Groups, NEW name \in Names, NEW us \in SUBSET Users
  PROVE  ScimSound(D, SetMembers(D, g, name, us))
<1> DEFINE v == [name |-> name, members |-> Provisioned(D, us)]
           F == [D EXCEPT ![Group(g)] = v]
<1>1. v \in GroupRow /\ \A u \in v.members : D[Scim(u)] # None
  BY DEF GroupRow, Provisioned
<1>2. SetMembers(D, g, name, us) = SyncMembership(F, Resynced(D, g, us))
  BY DEF SetMembers
<1> HIDE DEF v
<1>3. IsFunction(F) /\ Fitting(F) /\ Grounds(D, F) /\ (Listed(D) => Listed(F))
  BY <1>1, GroupCell
<1> HIDE DEF F
<1> QED
  BY <1>2, <1>3, SyncSound

\* A user that is deleted leaves its groups.
LEMMA WithoutUser ==
  ASSUME NEW D, Fitting(D), NEW u
  PROVE  LET E == Without(D, u) IN
           /\ IsFunction(E) /\ \A c \in Cells : c[1] # "group" => E[c] = D[c]
           /\ \A g \in Groups :
                \/ E[Group(g)] = None /\ D[Group(g)] = None
                \/ /\ D[Group(g)] # None /\ E[Group(g)] \in GroupRow /\ E[Group(g)].name = D[Group(g)].name
                   /\ E[Group(g)].members = D[Group(g)].members \ {u}
<1> DEFINE E == Without(D, u)
<1>1. IsFunction(E) /\ \A c \in Cells : c[1] # "group" => E[c] = D[c]
  BY DEF Without, IsFunction
<1>2. ASSUME NEW g \in Groups
      PROVE  \/ E[Group(g)] = None /\ D[Group(g)] = None
             \/ /\ D[Group(g)] # None /\ E[Group(g)] \in GroupRow /\ E[Group(g)].name = D[Group(g)].name
                /\ E[Group(g)].members = D[Group(g)].members \ {u}
  <2>1. Group(g) \in Cells /\ Group(g)[1] = "group" /\ (D[Group(g)] = None \/ D[Group(g)] \in GroupRow)
    BY UserCells, Tags, FitsAt
  <2>2. CASE D[Group(g)] = None
    BY <2>1, <2>2 DEF Without
  <2>3. CASE D[Group(g)] # None
    <3>1. E[Group(g)] = [D[Group(g)] EXCEPT !.members = @ \ {u}]
      BY <2>1, <2>3 DEF Without
    <3> QED
      BY <2>1, <2>3, <3>1 DEF GroupRow
  <2> QED
    BY <2>2, <2>3
<1> QED
  BY <1>1, <1>2

LEMMA DeletedSound ==
  ASSUME NEW D, IsFunction(D), Fitting(D), NEW u \in Users
  PROVE  ScimSound(D, ScimDeleteUser(D, u))
<1> DEFINE F == [D EXCEPT ![Scim(u)] = "inactive"]
           G == SyncMembership(F, {u})
           H == Without(G, u)
           E == [H EXCEPT ![Scim(u)] = None]
<1>1. SUFFICES ASSUME D[Scim(u)] # None PROVE ScimSound(D, E)
  BY DEF ScimDeleteUser, ScimSound
<1>2. IsFunction(F) /\ Fitting(F) /\ Grounds(D, F) /\ (Listed(D) => Listed(F))
  BY <1>1, ScimRow DEF Known
<1> HIDE DEF F
<1>3. ScimSound(D, G) /\ IsFunction(G) /\ Fitting(G)
  BY <1>2, SyncSound, SyncFits
<1>4. Grounds(D, G) /\ (Listed(D) => Listed(G))
  <2>1. Grounds(F, G) /\ (Listed(F) => Listed(G))
    <3>1. /\ \A w \in Users : G[Scim(w)] = F[Scim(w)]
          /\ \A g \in Groups : G[Group(g)] = F[Group(g)] /\ (F[Group(g)] = None \/ F[Group(g)].members \subseteq Users)
      BY <1>2, SyncFits, FitsAt DEF GroupRow
    <3>2. Listed(F) => Listed(G)
      BY <3>1 DEF Listed
    <3> QED
      BY <1>2, <3>2, SyncFits
  <2> QED
    BY <1>2, <2>1, GroundsAgain
<1> HIDE DEF G
<1>5. IsFunction(H) /\ \A c \in Cells : c[1] # "group" => H[c] = G[c]
  BY <1>3, WithoutUser
<1>6. \A g \in Groups : \/ H[Group(g)] = None /\ G[Group(g)] = None
                        \/ /\ G[Group(g)] # None /\ H[Group(g)] \in GroupRow
                           /\ H[Group(g)].members = G[Group(g)].members \ {u}
  BY <1>3, WithoutUser
<1> HIDE DEF H
<1>8. Fitting(H)
  <2>1. ASSUME NEW c \in Cells PROVE Fits(c, H[c])
    <3>1. CASE c[1] = "group"
      <4>1. PICK g \in Groups : c = Group(g)
        BY <3>1, CellKinds
      <4>2. H[Group(g)] = None \/ H[Group(g)] \in GroupRow
        BY <1>6
      <4> QED
        BY <4>1, <4>2, Fitted
    <3>2. CASE c[1] # "group"
      BY <1>3, <1>5, <3>2 DEF Fitting
    <3> QED
      BY <3>1, <3>2
  <2> QED
    BY <2>1 DEF Fitting
<1>9. \A c \in Cells : c # Scim(u) => E[c] = H[c]
  BY <1>5 DEF IsFunction
<1>10. E[Scim(u)] = None
  BY <1>5, UserCells DEF IsFunction
<1>11. Fitting(E)
  BY <1>5, <1>8, Fitted, OneFits
<1> HIDE DEF E
<1>12. ASSUME NEW w \in Users
       PROVE  /\ E[Member(w)] = G[Member(w)] /\ E[Account(w)] = G[Account(w)]
              /\ E[Scim(w)] = G[Scim(w)] \/ (w = u /\ E[Scim(w)] = None)
  BY <1>5, <1>9, <1>10, UserCells, DifferentCells, Tags
<1>13. \A g \in Groups : E[Group(g)] = H[Group(g)]
  BY <1>9, UserCells, DifferentCells
<1>14. Grounds(G, E)
  BY <1>12 DEF Grounds, Known
<1>15. ASSUME Listed(G) PROVE Listed(E)
  <2>1. ASSUME NEW g \in Groups, E[Group(g)] # None, NEW w \in E[Group(g)].members PROVE E[Scim(w)] # None
    <3>1. G[Group(g)] # None /\ w \in G[Group(g)].members /\ w # u
      BY <1>6, <1>13, <2>1
    <3>2. w \in Users
      BY <1>3, <3>1, FitsAt DEF GroupRow
    <3> QED
      BY <1>12, <1>15, <3>1, <3>2 DEF Listed
  <2> QED
    BY <2>1 DEF Listed
<1> QED
  BY <1>4, <1>11, <1>14, <1>15, GroundsAgain DEF ScimSound

LEMMA ScimsSound ==
  ASSUME NEW D, IsFunction(D), Fitting(D), NEW i \in Inputs, i.op \in Scims, NEW r, NEW me, NEW role
  PROVE  ScimSound(D, Handler(r, i, me, role, D))
<1> DEFINE E == Handler(r, i, me, role, D)
<1>1. /\ i.op \in {"scim_create", "scim_set", "scim_delete"} => i.u \in Users
      /\ i.op \in {"group_create", "group_set", "group_delete"} => i.g \in Groups
      /\ i.op \in {"group_create", "group_set"} => i.name \in Names /\ i.us \in SUBSET Users
  BY DEF Inputs, Self, SignIns, Scims
<1>2. ScimSound(D, None)
  BY DEF ScimSound
<1>3. CASE i.op = "scim_create"
  <2> DEFINE a == IF D[Account(i.u)] = None THEN "bare" ELSE D[Account(i.u)]
             F == [D EXCEPT ![Account(i.u)] = a]
             G == [F EXCEPT ![Scim(i.u)] = Status(i.on)]
  <2>1. E = None \/ E = SyncMembership(G, {i.u})
    <3>1. E = None \/ E = SyncMembership([D EXCEPT ![Account(i.u)] = a, ![Scim(i.u)] = Status(i.on)], {i.u})
      BY <1>3 DEF Handler, ScimCreateUser
    <3>2. G = [D EXCEPT ![Account(i.u)] = a, ![Scim(i.u)] = Status(i.on)]
      OBVIOUS
    <3> QED
      BY <3>1, <3>2
  <2>2. a \in {"shell", "bare", "full"} /\ i.u \in Users
    BY <1>1, <1>3, FitsAt
  <2> HIDE DEF a, E
  <2>3. Fitting(F) /\ IsFunction(F)
    BY <2>2, Fitted, OneFits
  <2>4. F[Account(i.u)] = a /\ \A c \in Cells : c # Account(i.u) => F[c] = D[c]
    BY <2>2, UserCells DEF IsFunction
  <2> HIDE DEF F
  <2>5. /\ \A w \in Users : F[Member(w)] = D[Member(w)] /\ F[Scim(w)] = D[Scim(w)]
        /\ \A w \in Users \ {i.u} : F[Account(w)] = D[Account(w)]
        /\ \A g \in Groups : F[Group(g)] = D[Group(g)]
    BY <2>2, <2>4, UserCells, DifferentCells
  <2>6. Status(i.on) \in {"active", "inactive"} /\ Fits(Scim(i.u), Status(i.on))
    BY Fitted DEF Status
  <2>7. Fitting(G) /\ IsFunction(G)
    BY <2>3, <2>6, OneFits
  <2>8. G[Scim(i.u)] = Status(i.on) /\ \A c \in Cells : c # Scim(i.u) => G[c] = F[c]
    BY <2>2, <2>3, UserCells DEF IsFunction
  <2> HIDE DEF G
  <2>9. /\ \A w \in Users : G[Member(w)] = F[Member(w)] /\ G[Account(w)] = F[Account(w)]
        /\ \A w \in Users \ {i.u} : G[Scim(w)] = F[Scim(w)]
        /\ \A g \in Groups : G[Group(g)] = F[Group(g)]
    BY <2>2, <2>8, UserCells, DifferentCells
  <2>10. Grounds(D, G)
    BY <2>2, <2>4, <2>5, <2>9, NoneAssumption DEF Grounds, Known
  <2>11. ASSUME Listed(D) PROVE Listed(G)
    <3>1. G[Scim(i.u)] # None
      BY <2>6, <2>8, NoneAssumption
    <3>2. \A g \in Groups : D[Group(g)] # None => D[Group(g)].members \subseteq Users
      BY FitsAt DEF GroupRow
    <3> QED
      BY <2>5, <2>9, <2>11, <3>1, <3>2 DEF Listed
  <2> QED
    BY <1>2, <2>1, <2>7, <2>10, <2>11, SyncSound DEF E
<1>4. CASE i.op = "scim_set"
  <2> DEFINE F == [D EXCEPT ![Scim(i.u)] = Status(i.on)]
  <2>1. E = None \/ (D[Scim(i.u)] # None /\ E = SyncMembership(F, {i.u}))
    BY <1>4 DEF Handler, ScimSetActive
  <2>2. Status(i.on) \in {"active", "inactive"} /\ i.u \in Users
    BY <1>1, <1>4 DEF Status
  <2> HIDE DEF E
  <2>3. CASE D[Scim(i.u)] # None
    <3>1. IsFunction(F) /\ Fitting(F) /\ Grounds(D, F) /\ (Listed(D) => Listed(F))
      BY <2>2, <2>3, ScimRow DEF Known
    <3> HIDE DEF F
    <3> QED
      BY <1>2, <2>1, <3>1, SyncSound DEF E
  <2> QED
    BY <1>2, <2>1, <2>3 DEF E
<1>5. CASE i.op = "scim_delete"
  BY <1>1, <1>5, DeletedSound DEF Handler
<1>6. CASE i.op \in {"group_create", "group_set"}
  <2>1. E = None \/ E = SetMembers(D, i.g, i.name, i.us)
    BY <1>6 DEF Handler, ScimCreateGroup, ScimSetGroup
  <2> HIDE DEF E
  <2> QED
    BY <1>1, <1>2, <1>6, <2>1, MembersListed DEF E
<1>7. CASE i.op = "group_delete"
  <2> DEFINE F == [D EXCEPT ![Group(i.g)] = None]
  <2>1. E = None \/ E = SyncMembership(F, HasMembers(D, i.g))
    BY <1>7 DEF Handler, ScimDeleteGroup
  <2> HIDE DEF E
  <2>2. IsFunction(F) /\ Fitting(F) /\ Grounds(D, F) /\ (Listed(D) => Listed(F))
    BY <1>1, <1>7, GroupCell
  <2> HIDE DEF F
  <2> QED
    BY <1>2, <2>1, <2>2, SyncSound DEF E
<1> QED
  BY <1>3, <1>4, <1>5, <1>6, <1>7 DEF Scims

\* Every handler keeps the types.
LEMMA HandlerSound ==
  ASSUME NEW D, IsFunction(D), Fitting(D), NEW i \in Inputs, NEW r, NEW me, NEW role,
         Handler(r, i, me, role, D) # None
  PROVE  /\ Fitting(Handler(r, i, me, role, D)) /\ Grounds(D, Handler(r, i, me, role, D))
         /\ i.op \in Scims /\ Listed(D) => Listed(Handler(r, i, me, role, D))
<1> DEFINE E == Handler(r, i, me, role, D)
<1>0. E # None
  OBVIOUS
<1>1. /\ i.op \in {"add", "role", "remove"} \cup SignIns => i.u \in Users
      /\ i.op \in {"add", "role", "config", "connect"} => i.role \in Roles
      /\ i.op = "reconnect" => Fits(i.column, i.value)
  <2>1. i.op = "reconnect" => i.column \in {SsoOn, Enforced} \/ (i.column = SsoRole /\ i.value \in Offered)
    BY DEF Inputs, Self, SignIns, Scims
  <2>2. i.op \in {"add", "role", "config", "connect"} => i.role \in Offered
    BY DEF Inputs, Self, SignIns, Scims
  <2> QED
    BY <2>1, <2>2, OfferedAssumption, InputFields, Fitted
<1>2. CASE i.op \in {"add", "role", "remove", "register"}
  <2>1. \/ i.op = "add" /\ E = AddMember(D, i.u, i.role)
        \/ i.op = "role" /\ E = UpdateMemberRole(D, i.u, i.role)
        \/ E = RemoveMember(D, i.u)
        \/ E = Register(D, i.u)
    BY <1>2 DEF Handler
  <2> HIDE DEF E
  <2>2. i.u \in Users /\ i.op \notin Scims
    BY <1>1, <1>2 DEF SignIns, Scims
  <2>3. Sound(D, E)
    BY <1>1, <2>1, <2>2, MembersSound
  <2> QED
    BY <1>0, <2>2, <2>3 DEF Sound, E
<1>3. CASE i.op \in {"key", "revoke_key", "config", "rotate", "revoke_token", "connect", "reconnect",
                     "disconnect"} \cup Self
  <2>1. i.op \in {"key", "revoke_key"} => E = CreateKey(D, r, me, role, i.scopes) \/ E = RevokeKey(D, i.k)
    BY DEF Handler
  <2>2. i.op \in {"config", "rotate", "revoke_token"} =>
          (i.op = "config" /\ E = UpsertConfig(D, i.on, i.role)) \/ E = RotateToken(D, r) \/ E = RevokeToken(D)
    BY DEF Handler
  <2>3. i.op \in {"connect", "reconnect", "disconnect"} =>
          \/ i.op = "connect" /\ E = CreateConnection(D, i.role, i.on)
          \/ i.op = "reconnect" /\ E = UpdateConnection(D, i.column, i.value)
          \/ E = DeleteConnection(D)
    BY DEF Handler
  <2>4. i.op \in Self => E = EnrollMfa(D, me, r) \/ E = ActivateMfa(D, me) \/ E = DisableMfa(D, me)
    BY DEF Handler, Self
  <2>5. Stays(D, E, Footprint(i.op))
    BY HandlerStays
  <2> HIDE DEF E
  <2>6. i.op \notin Scims
    BY <1>3 DEF Self, Scims
  <2>7. "member" \notin Footprint(i.op) /\ "user" \notin Footprint(i.op) /\ "scim" \notin Footprint(i.op)
    BY <1>3 DEF Footprint, Self, Scims
  <2>8. Grounds(D, E)
    BY <1>0, <2>5, <2>7, ElsewhereGrounds DEF Stays, E
  <2>9. Fitting(E)
    <3>0. E # None
      BY <1>0 DEF E
    <3>1. CASE i.op \in {"key", "revoke_key"}
      BY <2>1, <3>0, <3>1, KeysFit
    <3>2. CASE i.op \in {"config", "rotate", "revoke_token"}
      BY <1>1, <2>2, <3>0, <3>2, SettingsFit
    <3>3. CASE i.op \in {"connect", "reconnect", "disconnect"}
      BY <1>1, <2>3, <3>0, <3>3, SettingsFit
    <3>4. CASE i.op \in Self
      BY <2>4, <3>0, <3>4, SettingsFit
    <3> QED
      BY <1>3, <3>1, <3>2, <3>3, <3>4
  <2> QED
    BY <2>6, <2>8, <2>9 DEF E
<1>4. CASE i.op \in {"login", "verify", "switch", "oauth", "sso"}
  <2>1. E \in {Login(D, r, i.u), VerifyMfa(D, r, i.u), SwitchOrg(D, r, i.u), OAuthCallback(D, r, i.u),
               SsoSignIn(D, r, i.u)}
    BY <1>4 DEF Handler
  <2> HIDE DEF E
  <2>2. i.u \in Users /\ i.op \notin Scims
    BY <1>1, <1>4 DEF SignIns, Scims
  <2>3. Sound(D, E)
    BY <2>1, <2>2, SignInsSound
  <2> QED
    BY <1>0, <2>2, <2>3 DEF Sound, E
<1>5. CASE i.op \in Scims
  BY <1>0, <1>5, ScimsSound DEF ScimSound
<1> QED
  BY <1>2, <1>3, <1>4, <1>5, InputFields DEF SignIns

-------------------------------------------------------------------------------
\* Steps keep the types.
LEMMA PutFits ==
  ASSUME NEW D, DOMAIN D = Cells, Fitting(D), NEW f, \A c \in DOMAIN f : Fits(c, f[c])
  PROVE  Fitting(Put(D, f))
BY DEF Fitting, Put

\* A plan leaves what its handler left, but for what the request had loaded.
LEMMA PutChanges ==
  ASSUME NEW B, DOMAIN B = Cells, NEW l, NEW D, D = Put(B, l), NEW E, NEW c \in Cells, c \notin DOMAIN l
  PROVE  Put(B, Changes(D, E))[c] = E[c] /\ D[c] = B[c]
BY DEF Put, Changes

LEMMA PutAtCell ==
  ASSUME NEW D, DOMAIN D = Cells, NEW f, NEW c \in Cells
  PROVE  Put(D, f)[c] = IF c \in DOMAIN f THEN f[c] ELSE D[c]
BY DEF Put

LEMMA ListedAgrees ==
  ASSUME NEW D, NEW E, Fitting(D),
         \A u \in Users : E[Scim(u)] = D[Scim(u)], \A g \in Groups : E[Group(g)] = D[Group(g)]
  PROVE  Listed(D) => Listed(E)
<1>1. \A g \in Groups : D[Group(g)] # None => D[Group(g)].members \subseteq Users
  BY FitsAt DEF GroupRow
<1> QED
  BY <1>1 DEF Listed

LEMMA HandFootprints ==
  ASSUME NEW op, op \notin Scims
  PROVE  "scim" \notin Footprint(op) /\ "group" \notin Footprint(op)
BY DEF Footprint, Scims

\* Only the identity provider writes its rows.
LEMMA HandsOff ==
  ASSUME Phases, Order, NEW r \in Reqs, req[r].in.op \notin Scims, db' = Put(db, req[r].cells)
  PROVE  /\ \A u \in Users : Scim(u) \notin DOMAIN req[r].cells /\ db'[Scim(u)] = db[Scim(u)]
         /\ \A g \in Groups : Group(g) \notin DOMAIN req[r].cells /\ db'[Group(g)] = db[Group(g)]
<1>1. \A c \in DOMAIN req[r].cells : c[1] # "scim" /\ c[1] # "group"
  BY HandFootprints DEF Order, Planning
<1>2. /\ \A u \in Users : Scim(u) \notin DOMAIN req[r].cells
      /\ \A g \in Groups : Group(g) \notin DOMAIN req[r].cells
  BY <1>1, Tags
<1>3. DOMAIN db = Cells
  BY DEF Phases
<1> QED
  BY <1>2, <1>3, UserCells, PutAtCell

LEMMA QuietTypes ==
  ASSUME TInv, NEW r \in Reqs, NEW y, Turns(r, y), db' = db, Typing(y)
  PROVE  TInv'
<1>1. \A x : Typing(x)' <=> Typing(x)
  BY DEF Typing
<1>2. \A q \in Reqs : Typing(req'[q])
  BY DEF Turns, TInv
<1>3. \A q \in Reqs : Typing(req[q])'
  BY <1>2 DEF Typing
<1> QED
  BY <1>3 DEF TInv

LEMMA BeginsKeepsTypes ==
  ASSUME Phases, KInv, TInv, NEW r \in Reqs, Begins(r)
  PROVE  TInv'
<1>1. PICK i \in Inputs : \E y :
        /\ Turns(r, y) /\ db' = db /\ y.pc # "write" /\ y.loaded = Loads(i) /\ y.cells = <<>>
        /\ "s" \in DOMAIN i => db[Live(i.s)] # None
  BY DEF Begins
<1>2. PICK y :
        /\ Turns(r, y) /\ db' = db /\ y.pc # "write" /\ y.loaded = Loads(i) /\ y.cells = <<>>
        /\ "s" \in DOMAIN i => db[Live(i.s)] # None
  BY <1>1
<1>3. ASSUME "s" \in DOMAIN i PROVE Caller(i) \in Users
  <2>1. i.s \in Sess
    BY <1>3 DEF Inputs, Self, SignIns, Scims, Sess
  <2>2. db[Live(i.s)] \in Session
    BY <1>2, <1>3, <2>1 DEF KInv, Access
  <2> QED
    BY <1>3, <2>2 DEF Caller, Session
<1> DEFINE l == Loads(i)
<1>4. \A c \in DOMAIN l :
        c \in Cells /\ c[1] \notin {"member", "scim", "group", "session"} /\ l[c] = db[c]
  <2>1. CASE i.op \in Scims
    <3>1. l = [c \in {Token, Enabled, Default} |-> db[c]]
      <4>1. "s" \notin DOMAIN i
        BY <2>1 DEF Inputs, Self, SignIns, Scims
      <4> QED
        BY <2>1, <4>1 DEF Loads, ScimColumns
    <3>2. \A c \in {Token, Enabled, Default} :
            c \in Cells /\ c[1] \notin {"member", "scim", "group", "session"}
      BY UserCells, Tags
    <3> HIDE DEF l
    <3> QED
      BY <3>1, <3>2
  <2>2. CASE i.op \notin Scims /\ "s" \in DOMAIN i
    <3>1. PICK u \in Users : u = Caller(i)
      BY <1>3, <2>2
    <3>2. l = [c \in {Account(u), Secret(u), Mfa(u)} |-> db[c]]
      BY <2>2, <3>1 DEF Loads, UserColumns
    <3> HIDE DEF l
    <3> QED
      BY <3>1, <3>2, UserCells, Tags
  <2>3. CASE i.op \notin Scims /\ "s" \notin DOMAIN i
    BY <2>3, EmptyDomain DEF Loads
  <2> QED
    BY <2>1, <2>2, <2>3
<1>5. DOMAIN y.cells = {} /\ y.loaded = l
  BY <1>2, EmptyDomain
<1> HIDE DEF l
<1>6. Typing(y)
  BY <1>2, <1>4, <1>5 DEF Typing, TInv, Fitting
<1> QED
  BY <1>2, <1>6, QuietTypes

LEMMA DecidesKeepsTypes ==
  ASSUME Phases, TInv, NEW r \in Reqs, Decides(r)
  PROVE  TInv'
<1>1. PICK y, D, E :
        /\ Turns(r, y) /\ db' = db /\ req[r].pc = "read"
        /\ D = Put(db, req[r].loaded) /\ E = Handler(r, req[r].in, req[r].me, req[r].role, D)
        /\ E # None /\ Kept(req[r], y) /\ y.cells = Changes(D, E)
  BY DEF Decides
<1> DEFINE l == req[r].loaded
<1>2. DOMAIN db = Cells /\ IsFunction(D) /\ req[r].in \in Inputs /\ Typing(req[r])
  BY <1>1, PutIsFunction DEF Phases, Shape, IsFunction, TInv
<1>3. Fitting(D)
  BY <1>1, <1>2, PutFits DEF TInv, Typing
<1>4. /\ Fitting(E) /\ Grounds(D, E)
      /\ req[r].in.op \in Scims /\ Listed(D) => Listed(E)
  BY <1>1, <1>2, <1>3, HandlerSound
<1>5. \A c \in Cells : c[1] \in {"member", "scim", "group", "session"} =>
        c \notin DOMAIN l /\ Put(db, y.cells)[c] = E[c] /\ D[c] = db[c]
  <2>1. \A c \in Cells : c[1] \in {"member", "scim", "group", "session"} => c \notin DOMAIN l
    BY <1>2 DEF Typing
  <2> QED
    BY <1>1, <1>2, <2>1, PutChanges
<1>6. /\ \A u \in Users : Put(db, y.cells)[Scim(u)] = E[Scim(u)] /\ D[Scim(u)] = db[Scim(u)]
      /\ \A g \in Groups : Put(db, y.cells)[Group(g)] = E[Group(g)] /\ D[Group(g)] = db[Group(g)]
      /\ \A u \in Users : D[Member(u)] = db[Member(u)]
  BY <1>5, UserCells, Tags
<1>7. ASSUME req[r].in.op \in Scims PROVE Listed(Put(db, y.cells))
  <2>1. Listed(D)
    BY <1>6, ListedAgrees DEF TInv
  <2>2. Listed(E)
    BY <1>4, <1>7, <2>1
  <2> QED
    BY <1>4, <1>6, <2>2, ListedAgrees
<1>8. \A c \in DOMAIN y.cells : y.cells[c] = E[c] /\ E[c] # D[c] /\ c \in Cells
  BY <1>1 DEF Changes
<1>9. \A c \in Cells : c \notin DOMAIN y.cells => E[c] = D[c]
  BY <1>1 DEF Changes
<1>10. ASSUME NEW u \in Users
       PROVE  /\ Account(u) \in DOMAIN y.cells => y.cells[Account(u)] # None
              /\ \A c \in {Member(u), Scim(u)} : c \in DOMAIN y.cells /\ y.cells[c] # None =>
                   Account(u) \in DOMAIN y.cells \/ db[Account(u)] # None
  <2>1. Account(u) \in DOMAIN y.cells => y.cells[Account(u)] # None
    BY <1>4, <1>8 DEF Grounds
  <2>2. ASSUME Known(E, u), Account(u) \notin DOMAIN y.cells PROVE db[Account(u)] # None
    <3>1. CASE Known(D, u)
      BY <1>6, <3>1 DEF TInv, Accounted, Known
    <3>2. CASE E[Account(u)] # None
      <4>1. D[Account(u)] # None
        BY <1>9, <2>2, <3>2, UserCells
      <4>2. D[Account(u)] = IF Account(u) \in DOMAIN l THEN l[Account(u)] ELSE db[Account(u)]
        BY <1>1, <1>2, UserCells, PutAtCell
      <4> QED
        BY <1>2, <4>1, <4>2 DEF Typing
    <3> QED
      BY <1>4, <2>2, <3>1, <3>2 DEF Grounds
  <2>3. ASSUME NEW c \in {Member(u), Scim(u)}, c \in DOMAIN y.cells, y.cells[c] # None PROVE Known(E, u)
    BY <1>8, <2>3 DEF Known
  <2> QED
    BY <2>1, <2>2, <2>3
<1>11. Typing(y)
  <2>1. y.loaded = req[r].loaded /\ y.in = req[r].in
    BY <1>1 DEF Kept
  <2>2. \A c \in DOMAIN y.cells : Fits(c, y.cells[c])
    BY <1>4, <1>8 DEF Fitting
  <2>3. y.in.op \in Scims => Listed(Put(db, y.cells))
    BY <1>7, <2>1
  <2> QED
    BY <1>2, <1>10, <2>1, <2>2, <2>3 DEF Typing
<1> QED
  BY <1>1, <1>11, QuietTypes

LEMMA CommitsKeepsTypes ==
  ASSUME Phases, Order, TInv, NEW r \in Reqs, Commits(r)
  PROVE  TInv'
<1>1. PICK y :
        /\ Turns(r, y) /\ req[r].pc = "write" /\ y.pc = "done" /\ Same(req[r], y)
        /\ db' = Put(db, req[r].cells)
  BY DEF Commits
<1> DEFINE f == req[r].cells
<1>2. DOMAIN db = Cells /\ Typing(req[r])
  BY DEF Phases, TInv
<1>3. \A c \in Cells : db'[c] = IF c \in DOMAIN f THEN f[c] ELSE db[c]
  BY <1>1, <1>2, PutAtCell
<1>4. Fitting(db')
  BY <1>1, <1>2, PutFits DEF TInv, Typing
<1>5. \A u \in Users : db[Account(u)] # None => db'[Account(u)] # None
  BY <1>2, <1>3, UserCells DEF Typing
<1>6. ASSUME NEW u \in Users, Known(db', u) PROVE db'[Account(u)] # None
  <2>1. Member(u) \in Cells /\ Scim(u) \in Cells /\ Account(u) \in Cells
    BY UserCells
  <2>2. CASE Known(db, u)
    BY <1>5, <2>2 DEF TInv, Accounted
  <2>3. CASE \E c \in {Member(u), Scim(u)} : c \in DOMAIN f /\ f[c] # None
    <3>1. Account(u) \in DOMAIN f \/ db[Account(u)] # None
      BY <1>2, <2>3 DEF Typing
    <3>2. Account(u) \in DOMAIN f => f[Account(u)] # None
      BY <1>2 DEF Typing
    <3> QED
      BY <1>3, <2>1, <3>1, <3>2
  <2> QED
    BY <1>3, <1>6, <2>1, <2>2, <2>3 DEF Known
<1>7. Listed(db')
  <2>1. CASE req[r].in.op \in Scims
    BY <1>1, <1>2, <2>1 DEF Typing
  <2>2. CASE req[r].in.op \notin Scims
    BY <1>1, <2>2, HandsOff, ListedAgrees DEF TInv
  <2> QED
    BY <2>1, <2>2
<1>8. ASSUME NEW q \in Reqs PROVE Typing(req[q])'
  <2>1. Typing(req[q]) /\ req'[q].cells = req[q].cells /\ req'[q].loaded = req[q].loaded /\ req'[q].in = req[q].in
    BY <1>1 DEF Turns, Same, Kept, TInv
  <2>2. ASSUME req'[q].in.op \in Scims, req'[q].pc = "write" PROVE Listed(Put(db', req'[q].cells))
    <3>1. q # r /\ req[q].pc = "write" /\ req[q].in.op \in Scims
      BY <1>1, <2>1, <2>2 DEF Turns
    <3>2. req[r].in.op \notin Scims
      BY <1>1, <3>1, OneSyncs DEF Syncing
    <3> DEFINE A == Put(db, req[q].cells)
               B == Put(db', req[q].cells)
    <3>3. DOMAIN db' = Cells
      BY <1>1, <1>2, PutIsFunction
    <3>4. /\ \A u \in Users : B[Scim(u)] = A[Scim(u)]
          /\ \A g \in Groups : B[Group(g)] = A[Group(g)]
      BY <1>1, <1>2, <3>2, <3>3, HandsOff, PutAtCell, UserCells
    <3>5. Listed(A) /\ Fitting(A)
      BY <1>2, <2>1, <3>1, PutFits DEF Typing, TInv
    <3> HIDE DEF A, B
    <3>6. Listed(B)
      BY <3>4, <3>5, ListedAgrees
    <3> QED
      BY <2>1, <3>6 DEF B
  <2> QED
    BY <1>5, <2>1, <2>2 DEF Typing
<1> QED
  BY <1>4, <1>6, <1>7, <1>8 DEF TInv, Fitting, Accounted, Listed, Known

LEMMA NextTInv ==
  ASSUME Phases, KInv, Order, TInv, [Next]_vars
  PROVE  TInv'
<1>1. CASE UNCHANGED vars
  <2>1. db' = db /\ req' = req
    BY <1>1 DEF vars
  <2>2. \A r \in Reqs : Typing(req[r])'
    BY <2>1 DEF TInv, Typing
  <2> QED
    BY <2>1, <2>2 DEF TInv
<1>2. ASSUME NEW r \in Reqs, Takes(r) \/ Aborts(r) PROVE TInv'
  <2>1. PICK y : /\ Turns(r, y) /\ db' = db /\ Same(req[r], y)
                 /\ y.pc = "write" => req[r].pc = "write"
    BY <1>2 DEF Takes, Aborts
  <2>2. Typing(y)
    BY <2>1 DEF TInv, Typing, Same, Kept
  <2> QED
    BY <2>1, <2>2, QuietTypes
<1> QED
  BY <1>1, <1>2, Moves, BeginsKeepsTypes, DecidesKeepsTypes, CommitsKeepsTypes

LEMMA InitTInv == Init => TInv
<1> SUFFICES ASSUME Init PROVE TInv
  OBVIOUS
<1>1. Fitting(db) /\ Accounted(db) /\ Listed(db)
  BY TypesAssumption, TypedFits DEF Init
<1>2. \A r \in Reqs : req[r] = Fresh
  BY DEF Init
<1>3. DOMAIN Fresh.cells = {} /\ DOMAIN Fresh.loaded = {} /\ Fresh.in.op = "none"
  BY EmptyDomain DEF Fresh, Nobody
<1>4. Typing(Fresh)
  BY <1>3 DEF Typing, Scims
<1> QED
  BY <1>1, <1>2, <1>4 DEF TInv

\* Memberships, accounts, provisioned users and groups have their types; whoever
\* is a member or provisioned has an account, and groups list provisioned users
\* only, for any users, groups and number of requests.
THEOREM TypeCorrect == Spec => []TypeOK
<1> DEFINE Inv == IInv /\ KInv /\ Order /\ TInv
<1>1. Init => Inv
  BY InitIInv, InitKInv, InitOrder, InitTInv
<1>2. Inv /\ [Next]_vars => Inv'
  <2> SUFFICES ASSUME Inv, [Next]_vars PROVE Inv'
    OBVIOUS
  <2>1. IInv' /\ KInv'
    BY NextIInv, NextKInv
  <2>2. Order' /\ TInv'
    BY NextOrder, NextTInv DEF IInv
  <2> QED
    BY <2>1, <2>2
<1>3. Inv => TypeOK
  BY TypedFits DEF IInv, Phases, TInv, TypeOK, Order, Planning
<1> QED
  BY <1>1, <1>2, <1>3, PTL DEF Spec

-------------------------------------------------------------------------------
(***************************************************************************)
(* The identity provider.  A SCIM handler brings the users it syncs in     *)
(* line, makes an owner only of the default role, and leaves the others as *)
(* they are (Aligned).  Between its decision and its commit only people    *)
(* may write, and only memberships, sessions and the default role.         *)
(***************************************************************************)
Opened(D) == \A s \in Sess : D[Live(s)] = None \/ D[Live(s)] \in Session
Aligned(D, E, us) ==
  /\ \A u \in Users :
       /\ u \in us => InLine(E, u)
       /\ u \notin us => /\ E[Member(u)] = D[Member(u)] /\ E[Scim(u)] = D[Scim(u)]
                         /\ GroupRoles(E, u) = GroupRoles(D, u)
       /\ E[Member(u)] = "owner" => "owner" \in {D[Member(u)], D[Default]}
  /\ \A s \in Sess : E[Live(s)] = D[Live(s)] \/ E[Live(s)].revoked

LEMMA SameGroupRoles ==
  ASSUME NEW D, NEW E, NEW u,
         \A g \in Groups : D[Group(g)] # None /\ u \in D[Group(g)].members <=>
                           E[Group(g)] # None /\ u \in E[Group(g)].members,
         \A g \in Groups : D[Group(g)] # None /\ u \in D[Group(g)].members =>
                           E[Group(g)].name = D[Group(g)].name
  PROVE  GroupRoles(E, u) = GroupRoles(D, u)
<1> DEFINE A == {x \in Groups : D[Group(x)] # None /\ u \in D[Group(x)].members}
           B == {x \in Groups : E[Group(x)] # None /\ u \in E[Group(x)].members}
<1>1. A = B
  OBVIOUS
<1>2. \A g \in A : RoleFromDisplayName(E[Group(g)].name) = RoleFromDisplayName(D[Group(g)].name)
  OBVIOUS
<1>3. /\ GroupRoles(D, u) = {RoleFromDisplayName(D[Group(g)].name) : g \in A} \ {None}
      /\ GroupRoles(E, u) = {RoleFromDisplayName(E[Group(g)].name) : g \in B} \ {None}
  BY DEF GroupRoles
<1> HIDE DEF A, B
<1> QED
  BY <1>1, <1>2, <1>3

LEMMA SameGroups ==
  ASSUME NEW D, NEW E, \A g \in Groups : E[Group(g)] = D[Group(g)]
  PROVE  \A u : GroupRoles(E, u) = GroupRoles(D, u)
<1> SUFFICES ASSUME NEW u PROVE GroupRoles(E, u) = GroupRoles(D, u)
  OBVIOUS
<1> QED
  BY SameGroupRoles

LEMMA SyncAligns ==
  ASSUME NEW D, IsFunction(D), Opened(D), NEW us
  PROVE  LET E == SyncMembership(D, us) IN
           /\ \A u \in Users : /\ u \in us => InLine(E, u)
                               /\ u \notin us => E[Member(u)] = D[Member(u)]
                               /\ E[Member(u)] = "owner" => "owner" \in {D[Member(u)], D[Default]}
           /\ \A s \in Sess : E[Live(s)] = D[Live(s)] \/ E[Live(s)].revoked
           /\ \A u \in Users : E[Scim(u)] = D[Scim(u)]
           /\ \A g \in Groups : E[Group(g)] = D[Group(g)]
<1> DEFINE E == SyncMembership(D, us)
<1>1. \A c \in Cells : c[1] \notin {"member", "session"} => E[c] = D[c]
  BY DEF SyncMembership
<1>2. /\ \A u \in Users : E[Scim(u)] = D[Scim(u)]
      /\ \A g \in Groups : E[Group(g)] = D[Group(g)]
      /\ E[Default] = D[Default]
  BY <1>1, UserCells, Tags
<1>3. ASSUME NEW u \in Users
      PROVE  E[Member(u)] = IF u \in us /\ Managed(D, u) THEN SyncedRole(D, u) ELSE D[Member(u)]
  <2>1. Member(u) \in Cells /\ Member(u)[1] = "member" /\ Member(u)[2] = u
    BY MemberCells
  <2> QED
    BY <2>1 DEF SyncMembership
<1>4. ASSUME NEW s \in Sess
      PROVE  E[Live(s)] = IF D[Live(s)] # None /\ D[Live(s)].of \in us /\ Revocable(D, D[Live(s)])
                          THEN [D[Live(s)] EXCEPT !.revoked = TRUE] ELSE D[Live(s)]
  <2>1. Live(s) \in Cells /\ Live(s)[1] = "session"
    BY AccessCells
  <2> QED
    BY <2>1 DEF SyncMembership
<1> HIDE DEF E
<1>5. ASSUME NEW s \in Sess
      PROVE  \/ D[Live(s)] # None /\ D[Live(s)].of \in us /\ Revocable(D, D[Live(s)]) /\ E[Live(s)].revoked
             \/ /\ E[Live(s)] = D[Live(s)]
                /\ D[Live(s)] # None => ~(D[Live(s)].of \in us /\ Revocable(D, D[Live(s)]))
  <2>1. D[Live(s)] = None \/ D[Live(s)] \in Session
    BY DEF Opened
  <2> QED
    BY <1>4, <2>1 DEF Session
<1>6. ASSUME NEW u \in Users, u \in us PROVE InLine(E, u)
  <2>1. MappedRole(E, u) = MappedRole(D, u)
    BY <1>2, SameGroups DEF MappedRole
  <2>2. ASSUME D[Scim(u)] = "active" PROVE E[Member(u)] \in {"owner", MappedRole(D, u)}
    BY <1>3, <1>6, <2>2, NoneAssumption DEF Managed, SyncedRole
  <2>3. ASSUME D[Scim(u)] = "inactive", E[Member(u)] # "owner"
        PROVE  /\ E[Member(u)] = None
               /\ \A s \in Sess : E[Live(s)] # None /\ E[Live(s)].of = u => E[Live(s)].revoked
    <3>1. Managed(D, u)
      BY <1>3, <1>6, <2>3, NoneAssumption DEF Managed
    <3>2. E[Member(u)] = None
      BY <1>3, <1>6, <2>3, <3>1 DEF SyncedRole
    <3>3. \A x : x.of = u => Revocable(D, x)
      BY <2>3, <3>1 DEF Revocable
    <3> QED
      BY <1>5, <1>6, <3>2, <3>3
  <2> QED
    BY <1>2, <2>1, <2>2, <2>3 DEF InLine
<1>7. \A u \in Users : E[Member(u)] = "owner" => "owner" \in {D[Member(u)], D[Default]}
  BY <1>3, MappedOwner
<1> QED
  BY <1>2, <1>3, <1>5, <1>6, <1>7 DEF E

\* Bringing users in line after writing rows of their own: F is D but for those.
LEMMA SyncedAligns ==
  ASSUME NEW D, NEW F, IsFunction(F), Opened(D), NEW us,
         \A s \in Sess : F[Live(s)] = D[Live(s)],
         \A u \in Users : F[Member(u)] = D[Member(u)], F[Default] = D[Default],
         \A u \in Users : u \notin us => F[Scim(u)] = D[Scim(u)] /\ GroupRoles(F, u) = GroupRoles(D, u)
  PROVE  Aligned(D, SyncMembership(F, us), us)
<1> DEFINE E == SyncMembership(F, us)
<1>1. Opened(F)
  BY DEF Opened
<1>2. /\ \A u \in Users : /\ u \in us => InLine(E, u)
                          /\ u \notin us => E[Member(u)] = F[Member(u)]
                          /\ E[Member(u)] = "owner" => "owner" \in {F[Member(u)], F[Default]}
      /\ \A s \in Sess : E[Live(s)] = F[Live(s)] \/ E[Live(s)].revoked
      /\ \A u \in Users : E[Scim(u)] = F[Scim(u)]
      /\ \A g \in Groups : E[Group(g)] = F[Group(g)]
  BY <1>1, SyncAligns
<1> HIDE DEF E
<1>3. \A u : GroupRoles(E, u) = GroupRoles(F, u)
  BY <1>2, SameGroups
<1> QED
  BY <1>2, <1>3 DEF Aligned, E

\* Writing a SCIM row, with the account or without.
LEMMA RowAligns ==
  ASSUME NEW D, IsFunction(D), Opened(D), NEW u \in Users, NEW F, IsFunction(F),
         \A c \in Cells : c \notin {Account(u), Scim(u)} => F[c] = D[c]
  PROVE  Aligned(D, SyncMembership(F, {u}), {u})
<1>1. \A s \in Sess : F[Live(s)] = D[Live(s)]
  BY AccessCells, DifferentCells
<1>2. F[Default] = D[Default] /\ \A v \in Users : F[Member(v)] = D[Member(v)]
  BY UserCells, DifferentCells
<1>3. \A g \in Groups : F[Group(g)] = D[Group(g)]
  BY UserCells, DifferentCells
<1>4. \A v \in Users : v # u => F[Scim(v)] = D[Scim(v)]
  BY UserCells, DifferentCells
<1>5. \A v : GroupRoles(F, v) = GroupRoles(D, v)
  BY <1>3, SameGroups
<1> QED
  BY <1>1, <1>2, <1>4, <1>5, SyncedAligns

\* Writing the row of a group.
LEMMA GroupAligns ==
  ASSUME NEW D, IsFunction(D), Opened(D), NEW g \in Groups, NEW v, NEW us,
         \A u \in Users : u \notin us => /\ v # None => u \notin v.members
                                         /\ u \notin HasMembers(D, g)
  PROVE  Aligned(D, SyncMembership([D EXCEPT ![Group(g)] = v], us), us)
<1> DEFINE F == [D EXCEPT ![Group(g)] = v]
<1>1. IsFunction(F) /\ (\A c \in Cells : c # Group(g) => F[c] = D[c]) /\ F[Group(g)] = v
  BY UserCells DEF IsFunction
<1> HIDE DEF F
<1>2. \A s \in Sess : F[Live(s)] = D[Live(s)]
  BY <1>1, AccessCells, DifferentCells
<1>3. F[Default] = D[Default] /\ \A u \in Users : F[Member(u)] = D[Member(u)] /\ F[Scim(u)] = D[Scim(u)]
  BY <1>1, UserCells, DifferentCells
<1>4. \A h \in Groups : h # g => F[Group(h)] = D[Group(h)]
  BY <1>1, UserCells, DifferentCells
<1>5. ASSUME NEW u \in Users, u \notin us PROVE GroupRoles(F, u) = GroupRoles(D, u)
  <2>1. ~(D[Group(g)] # None /\ u \in D[Group(g)].members)
    BY <1>5 DEF HasMembers
  <2>2. ~(F[Group(g)] # None /\ u \in F[Group(g)].members)
    BY <1>1, <1>5
  <2> QED
    BY <1>4, <2>1, <2>2, SameGroupRoles
<1>6. Aligned(D, SyncMembership(F, us), us)
  BY <1>1, <1>2, <1>3, <1>5, SyncedAligns
<1> QED
  BY <1>6 DEF F

LEMMA DeletedAligns ==
  ASSUME NEW D, IsFunction(D), Opened(D), Fitting(D), NEW u \in Users, ScimDeleteUser(D, u) # None
  PROVE  Aligned(D, ScimDeleteUser(D, u), {u})
<1> DEFINE F == [D EXCEPT ![Scim(u)] = "inactive"]
           G == SyncMembership(F, {u})
           H == Without(G, u)
           E == [H EXCEPT ![Scim(u)] = None]
<1>1. ScimDeleteUser(D, u) = E
  BY DEF ScimDeleteUser
<1>2. IsFunction(F) /\ \A c \in Cells : c \notin {Account(u), Scim(u)} => F[c] = D[c]
  BY DEF IsFunction
<1>3. Fitting(F)
  BY Fitted, OneFits
<1> HIDE DEF F
<1>4. Aligned(D, G, {u}) /\ Fitting(G)
  BY <1>2, <1>3, RowAligns, SyncFits
<1> HIDE DEF G
<1>5. /\ IsFunction(H) /\ \A c \in Cells : c[1] # "group" => H[c] = G[c]
      /\ \A g \in Groups : \/ H[Group(g)] = None /\ G[Group(g)] = None
                           \/ /\ G[Group(g)] # None /\ H[Group(g)] \in GroupRow
                              /\ H[Group(g)].name = G[Group(g)].name
                              /\ H[Group(g)].members = G[Group(g)].members \ {u}
  BY <1>4, WithoutUser
<1> HIDE DEF H
<1>6. (\A c \in Cells : c # Scim(u) => E[c] = H[c]) /\ E[Scim(u)] = None
  BY <1>5, UserCells DEF IsFunction
<1> HIDE DEF E
<1>7. \A g \in Groups : E[Group(g)] = H[Group(g)]
  BY <1>6, UserCells, DifferentCells
<1>8. ASSUME NEW v \in Users, v # u
      PROVE  /\ E[Member(v)] = D[Member(v)] /\ E[Scim(v)] = D[Scim(v)]
             /\ GroupRoles(E, v) = GroupRoles(D, v)
  <2>1. E[Member(v)] = G[Member(v)] /\ E[Scim(v)] = G[Scim(v)]
    BY <1>5, <1>6, <1>8, UserCells, DifferentCells, Tags
  <2>2. \A g \in Groups : G[Group(g)] # None /\ v \in G[Group(g)].members <=>
                          E[Group(g)] # None /\ v \in E[Group(g)].members
    BY <1>5, <1>7, <1>8, NoneAssumption
  <2>3. \A g \in Groups : G[Group(g)] # None /\ v \in G[Group(g)].members => E[Group(g)].name = G[Group(g)].name
    BY <1>5, <1>7
  <2>4. GroupRoles(E, v) = GroupRoles(G, v)
    BY <2>2, <2>3, SameGroupRoles
  <2> QED
    BY <1>4, <1>8, <2>1, <2>4 DEF Aligned
<1>9. InLine(E, u)
  BY <1>6, NoneAssumption DEF InLine
<1>10. ASSUME NEW s \in Sess PROVE E[Live(s)] = G[Live(s)]
  <2>1. Live(s) \in Cells /\ Live(s)[1] = "session" /\ Live(s) # Scim(u)
    BY AccessCells, DifferentCells
  <2> QED
    BY <1>5, <1>6, <2>1
<1>11. E[Member(u)] = G[Member(u)]
  BY <1>5, <1>6, UserCells, DifferentCells, Tags
<1>12. Aligned(D, E, {u})
  BY <1>4, <1>8, <1>9, <1>10, <1>11 DEF Aligned
<1> QED
  BY <1>1, <1>12

\* What a SCIM handler does to the users it syncs, and to the others.
LEMMA ScimAligns ==
  ASSUME NEW D, IsFunction(D), Opened(D), Fitting(D), NEW i \in Inputs, i.op \in Scims,
         NEW r, NEW me, NEW role, Handler(r, i, me, role, D) # None
  PROVE  Aligned(D, Handler(r, i, me, role, D), Syncs(i, D))
<1> DEFINE E == Handler(r, i, me, role, D)
<1>1. /\ i.op \in {"scim_create", "scim_set", "scim_delete"} => i.u \in Users
      /\ i.op \in {"group_create", "group_set", "group_delete"} => i.g \in Groups
  BY DEF Inputs, Self, SignIns, Scims
<1>2. CASE i.op \in {"scim_create", "scim_set"}
  <2>1. PICK F : /\ IsFunction(F) /\ E = SyncMembership(F, {i.u})
                 /\ \A c \in Cells : c \notin {Account(i.u), Scim(i.u)} => F[c] = D[c]
    <3>1. CASE i.op = "scim_create"
      <4> DEFINE a == IF D[Account(i.u)] = None THEN "bare" ELSE D[Account(i.u)]
                 F == [D EXCEPT ![Account(i.u)] = a, ![Scim(i.u)] = Status(i.on)]
      <4>1. E = SyncMembership(F, {i.u})
        BY <3>1 DEF Handler, ScimCreateUser
      <4> HIDE DEF a, E
      <4>2. IsFunction(F) /\ \A c \in Cells : c \notin {Account(i.u), Scim(i.u)} => F[c] = D[c]
        BY DEF IsFunction
      <4> HIDE DEF F
      <4> QED
        BY <4>1, <4>2
    <3>2. CASE i.op = "scim_set"
      <4> DEFINE F == [D EXCEPT ![Scim(i.u)] = Status(i.on)]
      <4>1. E = SyncMembership(F, {i.u})
        BY <3>2 DEF Handler, ScimSetActive
      <4> HIDE DEF E
      <4>2. IsFunction(F) /\ \A c \in Cells : c \notin {Account(i.u), Scim(i.u)} => F[c] = D[c]
        BY DEF IsFunction
      <4> HIDE DEF F
      <4> QED
        BY <4>1, <4>2
    <3> QED
      BY <1>2, <3>1, <3>2
  <2>2. Syncs(i, D) = {i.u}
    BY <1>2 DEF Syncs
  <2> HIDE DEF E
  <2>3. Aligned(D, E, {i.u})
    BY <1>1, <1>2, <2>1, RowAligns
  <2> QED
    BY <2>2, <2>3 DEF E
<1>3. CASE i.op = "scim_delete"
  <2>1. E = ScimDeleteUser(D, i.u) /\ Syncs(i, D) = {i.u}
    BY <1>3 DEF Handler, Syncs
  <2>2. ScimDeleteUser(D, i.u) # None
    BY <2>1
  <2> HIDE DEF E
  <2>3. Aligned(D, E, {i.u})
    BY <1>1, <1>3, <2>1, <2>2, DeletedAligns
  <2> QED
    BY <2>1, <2>3 DEF E
<1>4. CASE i.op \in {"group_create", "group_set"}
  <2> DEFINE v == [name |-> i.name, members |-> Provisioned(D, i.us)]
             us == Resynced(D, i.g, i.us)
  <2>1. E = SyncMembership([D EXCEPT ![Group(i.g)] = v], us) /\ Syncs(i, D) = us
    BY <1>4 DEF Handler, ScimCreateGroup, ScimSetGroup, SetMembers, Syncs
  <2> HIDE DEF E
  <2>2. \A u \in Users : u \notin us => (v # None => u \notin v.members) /\ u \notin HasMembers(D, i.g)
    BY DEF Resynced
  <2> HIDE DEF v, us
  <2>3. Aligned(D, SyncMembership([D EXCEPT ![Group(i.g)] = v], us), us)
    BY <1>1, <1>4, <2>2, GroupAligns
  <2> QED
    BY <2>1, <2>3 DEF E
<1>5. CASE i.op = "group_delete"
  <2> DEFINE us == HasMembers(D, i.g)
  <2>1. E = SyncMembership([D EXCEPT ![Group(i.g)] = None], us) /\ Syncs(i, D) = us
    BY <1>5 DEF Handler, ScimDeleteGroup, Syncs
  <2> HIDE DEF E
  <2>2. Aligned(D, SyncMembership([D EXCEPT ![Group(i.g)] = None], us), us)
    BY <1>1, <1>5, GroupAligns
  <2> QED
    BY <2>1, <2>2 DEF E
<1> QED
  BY <1>2, <1>3, <1>4, <1>5 DEF Scims

-------------------------------------------------------------------------------
(***************************************************************************)
(* Who stands out in database D: an active user with another role than its *)
(* groups give it, an inactive one with a membership, or with session s.   *)
(* Somebody's hand explains each (Explained).  What a SCIM request is      *)
(* about to commit leaves nobody out of line whom it syncs, but those whom *)
(* a request that had not ended when this one began has written since      *)
(* (Lately), or the default role (Restated).                               *)
(***************************************************************************)
StraysRole(D, u)  == D[Scim(u)] = "active" /\ D[Member(u)] \notin {"owner", MappedRole(D, u)}
StraysIn(D, u)    == D[Scim(u)] = "inactive" /\ D[Member(u)] \notin {"owner", None}
Lingers(D, u, s)  ==
  /\ D[Scim(u)] = "inactive" /\ D[Member(u)] # "owner"
  /\ D[Live(s)] # None /\ D[Live(s)].of = u /\ ~D[Live(s)].revoked

Restated(q)      == \E p \in Reqs : Default \in Wrote(p) /\ p \notin prior[q]
Lately(q, u, K)  ==
  \E p \in Reqs : req[p].in.op \notin Scims /\ Wrote(p) \cap K # {} /\ Since(p, u) /\ p \notin prior[q]

Explained ==
  \A u \in Users :
    /\ StraysRole(db, u) => ByHand(u, {Member(u), Default}) \/ StaleDefault(u)
    /\ StraysIn(db, u) => ByHand(u, {Member(u)})
    /\ \A s \in Sess : Lingers(db, u, s) => ByHand(u, {Member(u), Live(s)})

Syncable(D, x, q) ==
  /\ \A u \in Users :
       /\ u \in x.syncs =>
            /\ StraysRole(D, u) => Restated(q) \/ Lately(q, u, {Member(u)})
            /\ StraysIn(D, u) => Lately(q, u, {Member(u)})
            /\ \A s \in Sess : Lingers(D, u, s) => Lately(q, u, {Member(u), Live(s)})
       /\ u \notin x.syncs =>
            /\ Member(u) \notin DOMAIN x.cells /\ Scim(u) \notin DOMAIN x.cells
            /\ GroupRoles(D, u) = GroupRoles(db, u)
  /\ \A s \in Sess : Live(s) \in DOMAIN x.cells => x.cells[Live(s)].revoked

Scimming(x, q) ==
  x.in.op \in Scims =>
    /\ x.pc = "write" => Syncable(Put(db, x.cells), x, q)
    /\ x.pc \in {"enter", "read"} =>
         /\ DOMAIN x.loaded = {Token, Enabled, Default}
         /\ x.loaded[Default] = db[Default] \/ Restated(q)

SInv == Explained /\ \A r \in Reqs : Scimming(req[r], r)

(***************************************************************************)
(* Ownership: a SCIM request is about to make an owner only of the default *)
(* role it loaded (Promoting), so every owner is accounted for.            *)
(***************************************************************************)
Promoting(x) ==
  x.in.op \in Scims /\ x.pc = "write" =>
    \A u \in Users : Member(u) \in DOMAIN x.cells /\ x.cells[Member(u)] = "owner" =>
      x.loaded[Default] = "owner"
Owned ==
  /\ \A u \in Users : db[Member(u)] = "owner" => OwnerAccounted(u)
  /\ \A r \in Reqs : Promoting(req[r])

LEMMA SInvSuffices == SInv /\ Owned => RoleFollowsGroups /\ DeprovisionedStaysOut
<1> SUFFICES ASSUME SInv, Owned PROVE RoleFollowsGroups /\ DeprovisionedStaysOut
  OBVIOUS
<1>1. RoleFollowsGroups
  BY DEF SInv, Explained, StraysRole, Owned, RoleFollowsGroups
<1>2. ASSUME NEW u \in Users, db[Scim(u)] = "inactive", db[Member(u)] # "owner",
             db[Member(u)] # None \/ LiveSessions(u) # {}
      PROVE  ByHand(u, {Member(u)} \cup {Live(s) : s \in LiveSessions(u)})
  <2> DEFINE K == {Member(u)} \cup {Live(s) : s \in LiveSessions(u)}
  <2>1. CASE db[Member(u)] # None
    <3>1. ByHand(u, {Member(u)})
      BY <1>2, <2>1 DEF SInv, Explained, StraysIn
    <3>2. {Member(u)} \subseteq K
      OBVIOUS
    <3> HIDE DEF K
    <3>3. ByHand(u, K)
      BY <3>1, <3>2 DEF ByHand
    <3> QED
      BY <3>3 DEF K
  <2>2. CASE LiveSessions(u) # {}
    <3>1. PICK s \in Sess : s \in LiveSessions(u) /\ Lingers(db, u, s)
      BY <1>2, <2>2 DEF LiveSessions, Lingers
    <3>2. ByHand(u, {Member(u), Live(s)})
      BY <3>1 DEF SInv, Explained
    <3>3. {Member(u), Live(s)} \subseteq K
      BY <3>1
    <3> HIDE DEF K
    <3>4. ByHand(u, K)
      BY <3>2, <3>3 DEF ByHand
    <3> QED
      BY <3>4 DEF K
  <2> QED
    BY <1>2, <2>1, <2>2
<1> QED
  BY <1>1, <1>2 DEF DeprovisionedStaysOut

\* A step of r that commits nothing: who wrote what, and since when, stays.
LEMMA QuietHands ==
  ASSUME NEW r \in Reqs, NEW y, Turns(r, y), y.end # "ok",
         \A q \in Reqs \ {r} : prior'[q] = prior[q]
  PROVE  /\ \A u, K : ByHand(u, K) => ByHand(u, K)'
         /\ \A u : StaleDefault(u) => StaleDefault(u)'
         /\ \A q \in Reqs \ {r} : /\ Restated(q) => Restated(q)'
                                  /\ \A u, K : Lately(q, u, K) => Lately(q, u, K)'
         /\ prior'[r] = prior[r] => /\ Restated(r) => Restated(r)'
                                    /\ \A u, K : Lately(r, u, K) => Lately(r, u, K)'
<1>1. \A q \in Reqs : (Ok(q)' <=> Ok(q)) /\ Wrote(q)' = Wrote(q) /\ (Ok(q) => q # r /\ req'[q] = req[q])
  BY QuietWrites DEF Turns, Ok
<1>2. \A q \in Reqs : Wrote(q) # {} => Ok(q)
  BY DEF Wrote
<1>3. \A p, u : Since(p, u)' <=> Since(p, u)
  BY <1>1 DEF Since
<1>4. \A u, K : ByHand(u, K) => ByHand(u, K)'
  BY <1>1, <1>2, <1>3 DEF ByHand
<1>5. \A u : StaleDefault(u) => StaleDefault(u)'
  BY <1>1, <1>3 DEF StaleDefault
<1>6. ASSUME NEW q \in Reqs, prior'[q] = prior[q]
      PROVE  /\ Restated(q) => Restated(q)'
             /\ \A u, K : Lately(q, u, K) => Lately(q, u, K)'
  BY <1>1, <1>2, <1>3, <1>6 DEF Restated, Lately
<1> QED
  BY <1>4, <1>5, <1>6

LEMMA QuietScims ==
  ASSUME SInv, NEW r \in Reqs, NEW y, Turns(r, y), y.end # "ok", db' = db,
         \A q \in Reqs \ {r} : prior'[q] = prior[q], Scimming(y, r)'
  PROVE  SInv'
<1>1. Explained'
  BY QuietHands DEF SInv, Explained
<1>2. ASSUME NEW q \in Reqs \ {r} PROVE Scimming(req[q], q)'
  <2>1. Scimming(req[q], q) /\ req'[q] = req[q]
    BY DEF SInv, Turns
  <2>2. /\ Restated(q) => Restated(q)'
        /\ \A u, K : Lately(q, u, K) => Lately(q, u, K)'
    BY QuietHands
  <2>3. \A D : Syncable(D, req[q], q) => Syncable(D, req[q], q)'
    BY <2>1, <2>2 DEF Syncable
  <2> QED
    BY <2>1, <2>2, <2>3 DEF Scimming
<1> QED
  BY <1>1, <1>2 DEF SInv, Turns

LEMMA BeginsKeepsScims ==
  ASSUME Phases, SInv, NEW r \in Reqs, Begins(r)
  PROVE  SInv'
<1>1. PICK i \in Inputs : \E y :
        /\ Turns(r, y) /\ db' = db /\ prior' = [prior EXCEPT ![r] = {q \in Reqs : req[q].pc = "done"}]
        /\ y.pc \in {"enter", "read"} /\ y.loaded = Loads(i) /\ y.in = i /\ y.end = "none"
  BY DEF Begins
<1>2. PICK y :
        /\ Turns(r, y) /\ db' = db /\ prior' = [prior EXCEPT ![r] = {q \in Reqs : req[q].pc = "done"}]
        /\ y.pc \in {"enter", "read"} /\ y.loaded = Loads(i) /\ y.in = i /\ y.end = "none"
  BY <1>1
<1>3. \A q \in Reqs \ {r} : prior'[q] = prior[q]
  BY <1>2 DEF Phases
<1>4. ASSUME i.op \in Scims PROVE y.loaded = [c \in {Token, Enabled, Default} |-> db[c]]
  <2>1. "s" \notin DOMAIN i
    BY <1>4 DEF Inputs, Self, SignIns, Scims
  <2> QED
    BY <1>2, <1>4, <2>1 DEF Loads, ScimColumns
<1>5. Scimming(y, r)'
  BY <1>2, <1>4 DEF Scimming
<1> QED
  BY <1>2, <1>3, <1>5, QuietScims

LEMMA TakesKeepsScims ==
  ASSUME Phases, SInv, NEW r \in Reqs, Takes(r) \/ Aborts(r)
  PROVE  SInv'
<1>1. PICK y :
        /\ Turns(r, y) /\ db' = db /\ prior' = prior /\ Same(req[r], y) /\ y.end # "ok"
        /\ y.pc \in {"read", "write", "done"}
        /\ y.pc = "read" => req[r].pc = "enter"
        /\ y.pc = "write" => req[r].pc = "write"
  BY DEF Takes, Aborts
<1>2. Scimming(req[r], r)
  BY DEF SInv
<1>3. /\ Restated(r) => Restated(r)'
      /\ \A u, K : Lately(r, u, K) => Lately(r, u, K)'
  BY <1>1, QuietHands
<1>4. y.in = req[r].in /\ y.cells = req[r].cells /\ y.syncs = req[r].syncs /\ y.loaded = req[r].loaded
  BY <1>1 DEF Same, Kept
<1>5. \A D : Syncable(D, req[r], r) => Syncable(D, y, r)'
  BY <1>1, <1>3, <1>4 DEF Syncable
<1>6. Scimming(y, r)'
  BY <1>1, <1>2, <1>3, <1>4, <1>5 DEF Scimming
<1> QED
  BY <1>1, <1>6, QuietScims

\* Databases that agree on what tells whether u stands out.
LEMMA StraysAgree ==
  ASSUME NEW D, NEW E, NEW u, D[Scim(u)] = E[Scim(u)], D[Member(u)] = E[Member(u)],
         GroupRoles(D, u) = GroupRoles(E, u)
  PROVE  /\ D[Default] = E[Default] => (StraysRole(D, u) <=> StraysRole(E, u))
         /\ StraysIn(D, u) <=> StraysIn(E, u)
         /\ \A s : D[Live(s)] = E[Live(s)] => (Lingers(D, u, s) <=> Lingers(E, u, s))
BY DEF StraysRole, StraysIn, Lingers, MappedRole

\* Nobody in line stands out.
LEMMA InLineIsIn ==
  ASSUME NEW D, NEW u, InLine(D, u)
  PROVE  ~StraysRole(D, u) /\ ~StraysIn(D, u) /\ \A s \in Sess : ~Lingers(D, u, s)
BY DEF InLine, StraysRole, StraysIn, Lingers

LEMMA DecidesKeepsScims ==
  ASSUME Phases, KInv, TInv, SInv, NEW r \in Reqs, Decides(r)
  PROVE  SInv'
<1>1. PICK y, D, E :
        /\ Turns(r, y) /\ db' = db /\ prior' = prior
        /\ req[r].pc = "read" /\ y.pc = "write" /\ y.end # "ok"
        /\ D = Put(db, req[r].loaded) /\ E = Handler(r, req[r].in, req[r].me, req[r].role, D)
        /\ E # None /\ Kept(req[r], y) /\ y.cells = Changes(D, E) /\ y.syncs = Syncs(req[r].in, D)
  BY DEF Decides
<1> DEFINE X == Put(db, y.cells)
<1>2. SUFFICES ASSUME req[r].in.op \in Scims PROVE Syncable(X, y, r)
  <2>1. /\ Restated(r) => Restated(r)'
        /\ \A u, K : Lately(r, u, K) => Lately(r, u, K)'
    BY <1>1, QuietHands
  <2>2. ASSUME Syncable(X, y, r) PROVE Syncable(Put(db, y.cells), y, r)'
    BY <1>1, <2>1, <2>2 DEF Syncable
  <2>3. Scimming(y, r)'
    BY <1>1, <1>2, <2>2 DEF Scimming, Kept
  <2> QED
    BY <1>1, <2>3, QuietScims
<1>3. /\ DOMAIN db = Cells /\ IsFunction(D) /\ req[r].in \in Inputs
      /\ DOMAIN req[r].loaded = {Token, Enabled, Default}
      /\ req[r].loaded[Default] = db[Default] \/ Restated(r)
  <2>1. DOMAIN db = Cells /\ req[r].in \in Inputs
    BY <1>1 DEF Phases, Shape
  <2>2. IsFunction(D)
    BY <1>1, <2>1, PutIsFunction DEF IsFunction
  <2>3. Scimming(req[r], r)
    BY DEF SInv
  <2> QED
    BY <1>1, <1>2, <2>1, <2>2, <2>3 DEF Scimming
<1>4. Fitting(D)
  BY <1>1, <1>3, PutFits DEF TInv, Typing
<1>5. \A c \in Cells : c \notin {Token, Enabled, Default} => X[c] = E[c] /\ D[c] = db[c]
  BY <1>1, <1>3, PutChanges
<1>6. /\ \A u \in Users : /\ X[Member(u)] = E[Member(u)] /\ D[Member(u)] = db[Member(u)]
                          /\ X[Scim(u)] = E[Scim(u)] /\ D[Scim(u)] = db[Scim(u)]
      /\ \A g \in Groups : X[Group(g)] = E[Group(g)] /\ D[Group(g)] = db[Group(g)]
      /\ \A s \in Sess : X[Live(s)] = E[Live(s)] /\ D[Live(s)] = db[Live(s)]
  BY <1>5, UserCells, AccessCells, Tags
<1>7. Opened(D)
  BY <1>6 DEF Opened, KInv, Access
<1>8. Aligned(D, E, y.syncs)
  BY <1>1, <1>2, <1>3, <1>4, <1>7, ScimAligns
<1>9. E[Default] = D[Default] /\ X[Default] = db[Default]
  <2>1. Only(D, E, Footprint(req[r].in.op))
    BY <1>1, <1>3, HandlerStays DEF Stays
  <2>2. "default" \notin Footprint(req[r].in.op)
    BY <1>2 DEF Footprint, Self, Scims
  <2>3. E[Default] = D[Default]
    BY <2>1, <2>2, UserCells, Tags DEF Only
  <2>4. Default \notin DOMAIN y.cells
    BY <1>1, <2>3 DEF Changes
  <2> QED
    BY <1>3, <2>3, <2>4, UserCells, PutAtCell
<1>10. \A u : GroupRoles(X, u) = GroupRoles(E, u) /\ GroupRoles(D, u) = GroupRoles(db, u)
  BY <1>6, SameGroups
<1>11. \A c \in DOMAIN y.cells : c \in Cells /\ E[c] # D[c] /\ y.cells[c] = E[c]
  BY <1>1 DEF Changes
<1> HIDE DEF X
<1>12. ASSUME NEW u \in Users, u \in y.syncs
       PROVE  /\ StraysRole(X, u) => Restated(r)
              /\ ~StraysIn(X, u) /\ \A s \in Sess : ~Lingers(X, u, s)
  <2>1. ~StraysRole(E, u) /\ ~StraysIn(E, u) /\ \A s \in Sess : ~Lingers(E, u, s)
    BY <1>8, <1>12, InLineIsIn DEF Aligned
  <2>2. /\ X[Default] = E[Default] => (StraysRole(X, u) <=> StraysRole(E, u))
        /\ StraysIn(X, u) <=> StraysIn(E, u)
        /\ \A s \in Sess : Lingers(X, u, s) <=> Lingers(E, u, s)
    BY <1>6, <1>10, StraysAgree
  <2>3. X[Default] = E[Default] \/ Restated(r)
    <3>1. D[Default] = req[r].loaded[Default]
      BY <1>1, <1>3, UserCells, PutAtCell
    <3> QED
      BY <1>3, <1>9, <3>1
  <2> QED
    BY <2>1, <2>2, <2>3
<1>13. ASSUME NEW u \in Users, u \notin y.syncs
       PROVE  /\ Member(u) \notin DOMAIN y.cells /\ Scim(u) \notin DOMAIN y.cells
              /\ GroupRoles(X, u) = GroupRoles(db, u)
  BY <1>8, <1>10, <1>11, <1>13 DEF Aligned
<1>14. \A s \in Sess : Live(s) \in DOMAIN y.cells => y.cells[Live(s)].revoked
  BY <1>8, <1>11 DEF Aligned
<1> QED
  BY <1>12, <1>13, <1>14 DEF Syncable

-------------------------------------------------------------------------------
\* Commits.  Whoever commits has not ended before anybody began.
LEMMA CommitHands ==
  ASSUME Phases, Order, NEW r \in Reqs, NEW y, Turns(r, y), prior' = prior, req[r].pc = "write",
         y.end = "ok", Same(req[r], y)
  PROVE  /\ \A p, u : Since(p, u) /\ (u \in req[r].syncs => p \notin prior[r]) => Since(p, u)'
         /\ \A u : Since(r, u)' /\ \A q \in Reqs : r \notin prior'[q]
         /\ Wrote(r)' = DOMAIN req[r].cells /\ req'[r].in = req[r].in /\ req'[r].syncs = req[r].syncs
         /\ \A q \in Reqs : Wrote(q) \subseteq Wrote(q)' /\ req'[q].in = req[q].in
         /\ \A q \in Reqs : Restated(q) => Restated(q)'
<1>1. /\ Ok(r)' /\ ~Ok(r) /\ Wrote(r)' = DOMAIN req[r].cells /\ Wrote(r) = {}
      /\ \A q \in Reqs \ {r} : (Ok(q)' <=> Ok(q)) /\ Wrote(q)' = Wrote(q) /\ req'[q] = req[q]
      /\ req'[r].in = req[r].in /\ req'[r].syncs = req[r].syncs
  BY CommitWrites DEF Turns, Same, Kept
<1>2. \A q \in Reqs : r \notin prior[q]
  BY Unfinished
<1>3. ASSUME NEW p, NEW u, Since(p, u), u \in req[r].syncs => p \notin prior[r] PROVE Since(p, u)'
  BY <1>1, <1>3 DEF Since
<1>4. \A u : Since(r, u)'
  BY <1>2 DEF Since
<1>5. \A q \in Reqs : Wrote(q) \subseteq Wrote(q)' /\ req'[q].in = req[q].in
  BY <1>1
<1>6. \A q \in Reqs : Restated(q) => Restated(q)'
  BY <1>5 DEF Restated
<1> QED
  BY <1>1, <1>2, <1>3, <1>4, <1>5, <1>6

LEMMA CommitExplains ==
  ASSUME Phases, Order, NEW r \in Reqs, NEW y, Turns(r, y), prior' = prior, req[r].pc = "write",
         y.end = "ok", Same(req[r], y)
  PROVE  \A u : \A K :
           /\ ByHand(u, K) /\ u \notin req[r].syncs => ByHand(u, K)'
           /\ Lately(r, u, K) => ByHand(u, K)'
           /\ StaleDefault(u) /\ u \notin req[r].syncs => StaleDefault(u)'
           /\ Restated(r) /\ u \in req[r].syncs => StaleDefault(u)'
           /\ req[r].in.op \notin Scims =>
                /\ \A q \in Reqs : Lately(q, u, K) => Lately(q, u, K)'
                /\ DOMAIN req[r].cells \cap K # {} => ByHand(u, K)' /\ \A q \in Reqs : Lately(q, u, K)'
                /\ Default \in DOMAIN req[r].cells => \A q \in Reqs : Restated(q)'
<1> SUFFICES ASSUME NEW u, NEW K
             PROVE  /\ ByHand(u, K) /\ u \notin req[r].syncs => ByHand(u, K)'
                    /\ Lately(r, u, K) => ByHand(u, K)'
                    /\ StaleDefault(u) /\ u \notin req[r].syncs => StaleDefault(u)'
                    /\ Restated(r) /\ u \in req[r].syncs => StaleDefault(u)'
                    /\ req[r].in.op \notin Scims =>
                         /\ \A q \in Reqs : Lately(q, u, K) => Lately(q, u, K)'
                         /\ DOMAIN req[r].cells \cap K # {} => ByHand(u, K)' /\ \A q \in Reqs : Lately(q, u, K)'
                         /\ Default \in DOMAIN req[r].cells => \A q \in Reqs : Restated(q)'
  OBVIOUS
<1>1. /\ \A p, v : Since(p, v) /\ (v \in req[r].syncs => p \notin prior[r]) => Since(p, v)'
      /\ \A v : Since(r, v)' /\ \A q \in Reqs : r \notin prior'[q]
      /\ Wrote(r)' = DOMAIN req[r].cells /\ req'[r].in = req[r].in /\ req'[r].syncs = req[r].syncs
      /\ \A q \in Reqs : Wrote(q) \subseteq Wrote(q)' /\ req'[q].in = req[q].in
      /\ \A q \in Reqs : Restated(q) => Restated(q)'
  BY CommitHands
<1>2. Ok(r)' /\ \A q \in Reqs : Ok(q) => Ok(q)' /\ req'[q] = req[q]
  BY CommitWrites DEF Turns, Ok
<1>3. ByHand(u, K) /\ u \notin req[r].syncs => ByHand(u, K)'
  BY <1>1 DEF ByHand
<1>4. Lately(r, u, K) => ByHand(u, K)'
  BY <1>1 DEF ByHand, Lately
<1>5. ASSUME StaleDefault(u), u \notin req[r].syncs PROVE StaleDefault(u)'
  <2>1. PICK p \in Reqs : \E q \in Reqs :
          Default \in Wrote(p) /\ p \notin prior[q] /\ Ok(q) /\ u \in req[q].syncs /\ Since(q, u)
    BY <1>5 DEF StaleDefault
  <2>2. PICK q \in Reqs : Default \in Wrote(p) /\ p \notin prior[q] /\ Ok(q) /\ u \in req[q].syncs /\ Since(q, u)
    BY <2>1
  <2>3. Default \in Wrote(p)' /\ p \notin prior'[q] /\ Ok(q)' /\ u \in req'[q].syncs /\ Since(q, u)'
    BY <1>1, <1>2, <1>5, <2>2
  <2> QED
    BY <2>3 DEF StaleDefault
<1>6. ASSUME Restated(r), u \in req[r].syncs PROVE StaleDefault(u)'
  <2>1. PICK p \in Reqs : Default \in Wrote(p) /\ p \notin prior[r]
    BY <1>6 DEF Restated
  <2>2. Default \in Wrote(p)' /\ p \notin prior'[r] /\ Ok(r)' /\ u \in req'[r].syncs /\ Since(r, u)'
    BY <1>1, <1>2, <1>6, <2>1
  <2> QED
    BY <2>2 DEF StaleDefault
<1>7. ASSUME req[r].in.op \notin Scims
      PROVE  /\ \A q \in Reqs : Lately(q, u, K) => Lately(q, u, K)'
             /\ DOMAIN req[r].cells \cap K # {} => ByHand(u, K)' /\ \A q \in Reqs : Lately(q, u, K)'
             /\ Default \in DOMAIN req[r].cells => \A q \in Reqs : Restated(q)'
  <2>1. u \notin req[r].syncs
    BY <1>7 DEF Order, Planning
  <2>2. \A q \in Reqs : Lately(q, u, K) => Lately(q, u, K)'
    BY <1>1, <2>1 DEF Lately
  <2>3. DOMAIN req[r].cells \cap K # {} => ByHand(u, K)' /\ \A q \in Reqs : Lately(q, u, K)'
    BY <1>1, <1>7 DEF ByHand, Lately
  <2>4. Default \in DOMAIN req[r].cells => \A q \in Reqs : Restated(q)'
    BY <1>1 DEF Restated
  <2> QED
    BY <2>2, <2>3, <2>4
<1> QED
  BY <1>3, <1>4, <1>5, <1>6, <1>7

\* What a request of somebody's writes to who stands out in any database.
LEMMA HandStrays ==
  ASSUME NEW f, NEW A, NEW B,
         \A u \in Users : Scim(u) \notin DOMAIN f, \A g \in Groups : Group(g) \notin DOMAIN f,
         \A c \in Cells : c \notin DOMAIN f => B[c] = A[c],
         NEW u \in Users
  PROVE  /\ StraysRole(B, u) => StraysRole(A, u) \/ DOMAIN f \cap {Member(u)} # {} \/ Default \in DOMAIN f
         /\ StraysIn(B, u) => StraysIn(A, u) \/ DOMAIN f \cap {Member(u)} # {}
         /\ \A s \in Sess : Lingers(B, u, s) => Lingers(A, u, s) \/ DOMAIN f \cap {Member(u), Live(s)} # {}
         /\ GroupRoles(B, u) = GroupRoles(A, u)
<1>1. /\ B[Scim(u)] = A[Scim(u)] /\ \A g \in Groups : B[Group(g)] = A[Group(g)]
      /\ Member(u) \notin DOMAIN f => B[Member(u)] = A[Member(u)]
      /\ Default \notin DOMAIN f => B[Default] = A[Default]
      /\ \A s \in Sess : Live(s) \notin DOMAIN f => B[Live(s)] = A[Live(s)]
  BY UserCells, AccessCells
<1>2. GroupRoles(B, u) = GroupRoles(A, u)
  BY <1>1, SameGroups
<1>3. CASE Member(u) \in DOMAIN f
  BY <1>2, <1>3
<1>4. CASE Member(u) \notin DOMAIN f
  BY <1>1, <1>2, <1>4, StraysAgree
<1> QED
  BY <1>3, <1>4

LEMMA HandCommitKeeps ==
  ASSUME Phases, Order, SInv, NEW r \in Reqs, Commits(r), req[r].in.op \notin Scims
  PROVE  SInv'
<1>1. PICK y :
        /\ Turns(r, y) /\ prior' = prior /\ req[r].pc = "write" /\ y.pc = "done" /\ y.end = "ok"
        /\ Same(req[r], y) /\ db' = Put(db, req[r].cells)
  BY DEF Commits
<1> DEFINE f == req[r].cells
<1>2. DOMAIN db = Cells /\ DOMAIN db' = Cells
  BY <1>1, PutIsFunction DEF Phases
<1>3. /\ \A u \in Users : Scim(u) \notin DOMAIN f
      /\ \A g \in Groups : Group(g) \notin DOMAIN f
      /\ \A u : u \notin req[r].syncs
  BY <1>1, HandsOff DEF Order, Planning
<1>4. \A u : \A K :
        /\ ByHand(u, K) => ByHand(u, K)'
        /\ StaleDefault(u) => StaleDefault(u)'
        /\ \A q \in Reqs : Lately(q, u, K) => Lately(q, u, K)'
        /\ DOMAIN f \cap K # {} => ByHand(u, K)' /\ \A q \in Reqs : Lately(q, u, K)'
        /\ Default \in DOMAIN f => \A q \in Reqs : Restated(q)'
  BY <1>1, <1>3, CommitExplains
<1>5. \A q \in Reqs : Restated(q) => Restated(q)'
  BY <1>1, CommitHands
<1>6. \A c \in Cells : c \notin DOMAIN f => db'[c] = db[c]
  BY <1>1, <1>2, PutAtCell
<1> HIDE DEF f
<1>7. Explained'
  <2> SUFFICES ASSUME NEW u \in Users
               PROVE  /\ StraysRole(db', u) => ByHand(u, {Member(u), Default})' \/ StaleDefault(u)'
                      /\ StraysIn(db', u) => ByHand(u, {Member(u)})'
                      /\ \A s \in Sess : Lingers(db', u, s) => ByHand(u, {Member(u), Live(s)})'
    BY DEF Explained
  <2>1. /\ StraysRole(db', u) => StraysRole(db, u) \/ DOMAIN f \cap {Member(u)} # {} \/ Default \in DOMAIN f
        /\ StraysIn(db', u) => StraysIn(db, u) \/ DOMAIN f \cap {Member(u)} # {}
        /\ \A s \in Sess : Lingers(db', u, s) => Lingers(db, u, s) \/ DOMAIN f \cap {Member(u), Live(s)} # {}
    BY <1>3, <1>6, HandStrays
  <2>2. DOMAIN f \cap {Member(u)} # {} \/ Default \in DOMAIN f => DOMAIN f \cap {Member(u), Default} # {}
    OBVIOUS
  <2> QED
    BY <1>4, <2>1, <2>2 DEF SInv, Explained
<1>8. ASSUME NEW q \in Reqs PROVE Scimming(req[q], q)'
  <2>1. CASE q = r
    BY <1>1, <2>1 DEF Turns, Scimming
  <2>2. CASE q # r
    <3>1. req'[q] = req[q] /\ Scimming(req[q], q)
      BY <1>1, <2>2 DEF Turns, SInv
    <3>0. PICK A, B : A = Put(db, req[q].cells) /\ B = Put(db', req[q].cells)
      OBVIOUS
    <3>2. \A c \in Cells : c \notin DOMAIN f => B[c] = A[c]
      BY <1>2, <1>6, <3>0, PutAtCell
    <3>3. ASSUME Syncable(A, req[q], q) PROVE Syncable(Put(db, req[q].cells), req[q], q)'
      <4>1. ASSUME NEW u \in Users
            PROVE  /\ u \in req[q].syncs =>
                        /\ StraysRole(B, u) => Restated(q)' \/ Lately(q, u, {Member(u)})'
                        /\ StraysIn(B, u) => Lately(q, u, {Member(u)})'
                        /\ \A s \in Sess : Lingers(B, u, s) => Lately(q, u, {Member(u), Live(s)})'
                   /\ u \notin req[q].syncs =>
                        /\ Member(u) \notin DOMAIN req[q].cells /\ Scim(u) \notin DOMAIN req[q].cells
                        /\ GroupRoles(B, u) = GroupRoles(db', u)
        <5>1. /\ StraysRole(B, u) => StraysRole(A, u) \/ DOMAIN f \cap {Member(u)} # {} \/ Default \in DOMAIN f
              /\ StraysIn(B, u) => StraysIn(A, u) \/ DOMAIN f \cap {Member(u)} # {}
              /\ \A s \in Sess : Lingers(B, u, s) => Lingers(A, u, s) \/ DOMAIN f \cap {Member(u), Live(s)} # {}
              /\ GroupRoles(B, u) = GroupRoles(A, u)
          BY <1>3, <3>2, HandStrays
        <5>2. GroupRoles(db', u) = GroupRoles(db, u)
          BY <1>3, <1>6, HandStrays
        <5> QED
          BY <1>4, <1>5, <3>3, <5>1, <5>2 DEF Syncable
      <4> QED
        BY <3>0, <3>1, <3>3, <4>1 DEF Syncable
    <3>4. ASSUME req[q].in.op \in Scims, req[q].pc \in {"enter", "read"}
          PROVE  DOMAIN req[q].loaded = {Token, Enabled, Default}
                 /\ (req[q].loaded[Default] = db'[Default] \/ Restated(q)')
      <4>1. DOMAIN req[q].loaded = {Token, Enabled, Default}
            /\ (req[q].loaded[Default] = db[Default] \/ Restated(q))
        BY <3>1, <3>4 DEF Scimming
      <4>2. Default \notin DOMAIN f => db'[Default] = db[Default]
        BY <1>6, UserCells
      <4> QED
        BY <1>4, <1>5, <4>1, <4>2
    <3> QED
      <4>1. req[q].in.op \in Scims /\ req[q].pc = "write" => Syncable(A, req[q], q)
        BY <3>0, <3>1 DEF Scimming
      <4> QED
        BY <3>1, <3>3, <3>4, <4>1 DEF Scimming
  <2> QED
    BY <2>1, <2>2
<1> QED
  BY <1>7, <1>8 DEF SInv

LEMMA ScimCommitKeeps ==
  ASSUME Phases, Order, SInv, NEW r \in Reqs, Commits(r), req[r].in.op \in Scims
  PROVE  SInv'
<1>1. PICK y :
        /\ Turns(r, y) /\ prior' = prior /\ req[r].pc = "write" /\ y.pc = "done" /\ y.end = "ok"
        /\ Same(req[r], y) /\ db' = Put(db, req[r].cells)
  BY DEF Commits
<1> DEFINE f == req[r].cells
<1>2. DOMAIN db = Cells /\ \A c \in Cells : db'[c] = IF c \in DOMAIN f THEN f[c] ELSE db[c]
  BY <1>1, PutAtCell DEF Phases
<1>3. db'[Default] = db[Default]
  <2>1. \A c \in DOMAIN f : c[1] \in Footprint(req[r].in.op)
    BY DEF Order, Planning
  <2>2. "default" \notin Footprint(req[r].in.op)
    BY DEF Footprint, Self, Scims
  <2> QED
    BY <1>2, <2>1, <2>2, UserCells, Tags
<1>4. \A u : \A K :
        /\ ByHand(u, K) /\ u \notin req[r].syncs => ByHand(u, K)'
        /\ Lately(r, u, K) => ByHand(u, K)'
        /\ StaleDefault(u) /\ u \notin req[r].syncs => StaleDefault(u)'
        /\ Restated(r) /\ u \in req[r].syncs => StaleDefault(u)'
  BY <1>1, CommitExplains
<1>5. \A q \in Reqs : Restated(q) => Restated(q)'
  BY <1>1, CommitHands
<1>6. Syncable(db', req[r], r)
  <2>1. Scimming(req[r], r)
    BY DEF SInv
  <2> QED
    BY <1>1, <2>1 DEF Scimming
<1>7. ASSUME NEW u \in Users, u \in req[r].syncs
      PROVE  /\ StraysRole(db', u) => ByHand(u, {Member(u), Default})' \/ StaleDefault(u)'
             /\ StraysIn(db', u) => ByHand(u, {Member(u)})'
             /\ \A s \in Sess : Lingers(db', u, s) => ByHand(u, {Member(u), Live(s)})'
  <2>1. /\ StraysRole(db', u) => Restated(r) \/ Lately(r, u, {Member(u)})
        /\ StraysIn(db', u) => Lately(r, u, {Member(u)})
        /\ \A s \in Sess : Lingers(db', u, s) => Lately(r, u, {Member(u), Live(s)})
    BY <1>6, <1>7 DEF Syncable
  <2>2. Lately(r, u, {Member(u)}) => Lately(r, u, {Member(u), Default})
    BY DEF Lately
  <2> QED
    BY <1>4, <1>7, <2>1, <2>2
<1>8. ASSUME NEW u \in Users, u \notin req[r].syncs
      PROVE  /\ StraysRole(db', u) => ByHand(u, {Member(u), Default})' \/ StaleDefault(u)'
             /\ StraysIn(db', u) => ByHand(u, {Member(u)})'
             /\ \A s \in Sess : Lingers(db', u, s) => ByHand(u, {Member(u), Live(s)})'
  <2>1. Member(u) \notin DOMAIN f /\ Scim(u) \notin DOMAIN f /\ GroupRoles(db', u) = GroupRoles(db, u)
    BY <1>6, <1>8 DEF Syncable
  <2>2. db'[Member(u)] = db[Member(u)] /\ db'[Scim(u)] = db[Scim(u)]
    BY <1>2, <2>1, UserCells
  <2>3. /\ StraysRole(db', u) <=> StraysRole(db, u)
        /\ StraysIn(db', u) <=> StraysIn(db, u)
        /\ \A s : db'[Live(s)] = db[Live(s)] => (Lingers(db', u, s) <=> Lingers(db, u, s))
    BY <1>3, <2>1, <2>2, StraysAgree
  <2>4. ASSUME NEW s \in Sess, Lingers(db', u, s) PROVE Lingers(db, u, s)
    <3>1. Live(s) \in DOMAIN f => f[Live(s)].revoked
      BY <1>6 DEF Syncable
    <3>2. Live(s) \notin DOMAIN f
      BY <1>2, <2>4, <3>1, AccessCells DEF Lingers
    <3>3. db'[Live(s)] = db[Live(s)]
      BY <1>2, <3>2, AccessCells
    <3> QED
      BY <2>3, <2>4, <3>3
  <2> QED
    BY <1>4, <1>8, <2>3, <2>4 DEF SInv, Explained
<1>9. Explained'
  BY <1>7, <1>8 DEF Explained
<1>10. ASSUME NEW q \in Reqs PROVE Scimming(req[q], q)'
  <2>1. CASE q = r
    BY <1>1, <2>1 DEF Turns, Scimming
  <2>2. CASE q # r
    <3>1. req'[q] = req[q] /\ Scimming(req[q], q)
      BY <1>1, <2>2 DEF Turns, SInv
    <3>2. ~(req[q].in.op \in Scims /\ req[q].pc = "write")
      BY <1>1, <2>2, OneSyncs DEF Syncing
    <3> QED
      BY <1>3, <1>5, <3>1, <3>2 DEF Scimming
  <2> QED
    BY <2>1, <2>2
<1> QED
  BY <1>9, <1>10 DEF SInv

LEMMA NextSInv ==
  ASSUME Phases, KInv, Order, TInv, SInv, [Next]_vars
  PROVE  SInv'
<1>1. CASE UNCHANGED vars
  <2>1. db' = db /\ req' = req /\ prior' = prior
    BY <1>1 DEF vars
  <2>2. \A q \in Reqs : (Ok(q)' <=> Ok(q)) /\ Wrote(q)' = Wrote(q)
    BY <2>1 DEF Ok, Wrote
  <2>3. \A p, u : Since(p, u)' <=> Since(p, u)
    BY <2>1, <2>2 DEF Since
  <2>4. /\ \A u, K : ByHand(u, K)' <=> ByHand(u, K)
        /\ \A u : StaleDefault(u)' <=> StaleDefault(u)
    BY <2>1, <2>2, <2>3 DEF ByHand, StaleDefault
  <2>5. \A q \in Reqs : /\ Restated(q)' <=> Restated(q)
                        /\ \A u, K : Lately(q, u, K)' <=> Lately(q, u, K)
    BY <2>1, <2>2, <2>3 DEF Restated, Lately
  <2>6. Explained'
    BY <2>1, <2>4 DEF SInv, Explained
  <2>7. ASSUME NEW q \in Reqs PROVE Scimming(req[q], q)'
    <3>1. Scimming(req[q], q)
      BY DEF SInv
    <3>2. \A D : Syncable(D, req[q], q) => Syncable(D, req[q], q)'
      BY <2>1, <2>5 DEF Syncable
    <3> QED
      BY <2>1, <2>5, <3>1, <3>2 DEF Scimming
  <2> QED
    BY <2>6, <2>7 DEF SInv
<1>2. \A r \in Reqs : Commits(r) => SInv'
  BY HandCommitKeeps, ScimCommitKeeps
<1> QED
  BY <1>1, <1>2, Moves, BeginsKeepsScims, TakesKeepsScims, DecidesKeepsScims

\* A step of r keeps whoever is accounted for so, unless r commits the
\* membership.
LEMMA AccountedStays ==
  ASSUME NEW r \in Reqs, NEW y, Turns(r, y), NEW u, OwnerAccounted(u),
         y.end # "ok" \/ Member(u) \notin DOMAIN y.cells
  PROVE  OwnerAccounted(u)'
<1>1. \A q \in Reqs : Member(u) \in Wrote(q)' => Member(u) \in Wrote(q)
  BY QuietWrites, CommitWrites
<1>2. ASSUME NEW p \in Reqs, Member(u) \in Wrote(p), req[p].cells[Member(u)] = "owner",
             req[p].in.op \in Scims => req[p].loaded[Default] = "owner"
      PROVE  OwnerAccounted(u)'
  <2>1. p # r /\ Ok(p)
    BY <1>2, QuietWrites, CommitWrites DEF Wrote, Turns, Ok
  <2>2. req'[p] = req[p] /\ Member(u) \in Wrote(p)'
    BY <1>2, <2>1, QuietWrites, CommitWrites DEF Turns
  <2> QED
    BY <1>2, <2>2 DEF OwnerAccounted
<1> QED
  BY <1>1, <1>2 DEF OwnerAccounted

LEMMA QuietOwned ==
  ASSUME Owned, NEW r \in Reqs, NEW y, Turns(r, y), y.end # "ok", db' = db, Promoting(y)
  PROVE  Owned'
<1>1. \A u \in Users : db'[Member(u)] = "owner" => OwnerAccounted(u)'
  BY AccountedStays DEF Owned
<1>2. ASSUME NEW q \in Reqs PROVE Promoting(req'[q])
  BY DEF Owned, Turns
<1> QED
  BY <1>1, <1>2 DEF Owned, Promoting

LEMMA DecidesKeepsOwned ==
  ASSUME Phases, KInv, TInv, SInv, Owned, NEW r \in Reqs, Decides(r)
  PROVE  Owned'
<1>1. PICK y, D, E :
        /\ Turns(r, y) /\ db' = db /\ prior' = prior
        /\ req[r].pc = "read" /\ y.pc = "write" /\ y.end # "ok"
        /\ D = Put(db, req[r].loaded) /\ E = Handler(r, req[r].in, req[r].me, req[r].role, D)
        /\ E # None /\ Kept(req[r], y) /\ y.cells = Changes(D, E) /\ y.syncs = Syncs(req[r].in, D)
  BY DEF Decides
<1>2. ASSUME req[r].in.op \in Scims, NEW u \in Users,
             Member(u) \in DOMAIN y.cells, y.cells[Member(u)] = "owner"
      PROVE  req[r].loaded[Default] = "owner"
  <2>1. /\ DOMAIN db = Cells /\ req[r].in \in Inputs
        /\ DOMAIN req[r].loaded = {Token, Enabled, Default}
    BY <1>1, <1>2 DEF Phases, Shape, SInv, Scimming
  <2>2. IsFunction(D) /\ Fitting(D)
    BY <1>1, <2>1, PutIsFunction, PutFits DEF IsFunction, TInv, Typing
  <2>3. \A s \in Sess : D[Live(s)] = db[Live(s)]
    <3>1. \A c \in Cells : c \notin {Token, Enabled, Default} => D[c] = db[c]
      BY <1>1, <2>1, PutAtCell
    <3> QED
      BY <3>1, AccessCells, Tags
  <2>4. Opened(D)
    BY <2>3 DEF Opened, KInv, Access
  <2>5. Aligned(D, E, y.syncs)
    BY <1>1, <1>2, <2>1, <2>2, <2>4, ScimAligns
  <2>6. E[Member(u)] = "owner" /\ D[Member(u)] # "owner"
    BY <1>1, <1>2 DEF Changes
  <2>7. D[Default] = "owner"
    BY <2>5, <2>6 DEF Aligned
  <2> QED
    BY <1>1, <2>1, <2>7, UserCells, PutAtCell
<1>3. Promoting(y)
  BY <1>1, <1>2 DEF Promoting, Kept
<1> QED
  BY <1>1, <1>3, QuietOwned

LEMMA CommitsKeepsOwned ==
  ASSUME Phases, Owned, NEW r \in Reqs, Commits(r)
  PROVE  Owned'
<1>1. PICK y :
        /\ Turns(r, y) /\ prior' = prior /\ req[r].pc = "write" /\ y.pc = "done" /\ y.end = "ok"
        /\ Same(req[r], y) /\ db' = Put(db, req[r].cells)
  BY DEF Commits
<1>2. ASSUME NEW u \in Users, db'[Member(u)] = "owner" PROVE OwnerAccounted(u)'
  <2>1. db'[Member(u)] = IF Member(u) \in DOMAIN req[r].cells THEN req[r].cells[Member(u)] ELSE db[Member(u)]
    BY <1>1, UserCells, PutAtCell DEF Phases
  <2>2. CASE Member(u) \notin DOMAIN req[r].cells
    BY <1>1, <1>2, <2>1, <2>2, AccountedStays DEF Owned, Same
  <2>3. CASE Member(u) \in DOMAIN req[r].cells
    <3>1. Member(u) \in Wrote(r)' /\ req'[r] = y
      BY <1>1, <2>3, CommitWrites DEF Turns, Same
    <3>2. y.cells[Member(u)] = "owner" /\ y.in = req[r].in /\ y.loaded = req[r].loaded
      BY <1>1, <1>2, <2>1, <2>3 DEF Same, Kept
    <3>3. req[r].in.op \in Scims => req[r].loaded[Default] = "owner"
      BY <1>1, <1>2, <2>1, <2>3 DEF Owned, Promoting
    <3> QED
      BY <3>1, <3>2, <3>3 DEF OwnerAccounted
  <2> QED
    BY <2>2, <2>3
<1>3. ASSUME NEW q \in Reqs PROVE Promoting(req'[q])
  <2>1. req'[q] = y \/ req'[q] = req[q]
    BY <1>1 DEF Turns
  <2> QED
    BY <1>1, <2>1 DEF Owned, Promoting
<1> QED
  BY <1>2, <1>3 DEF Owned, Promoting

LEMMA NextOwned ==
  ASSUME Phases, KInv, TInv, SInv, Owned, [Next]_vars
  PROVE  Owned'
<1>1. CASE UNCHANGED vars
  <2>1. db' = db /\ req' = req
    BY <1>1 DEF vars
  <2>2. \A u : OwnerAccounted(u)' <=> OwnerAccounted(u)
    BY <2>1 DEF OwnerAccounted, Wrote, Ok
  <2> QED
    BY <2>1, <2>2 DEF Owned, Promoting
<1>2. ASSUME NEW r \in Reqs, Begins(r) PROVE Owned'
  <2>1. PICK i \in Inputs : \E y :
          Turns(r, y) /\ db' = db /\ y.pc = (IF i.op \in SignIns THEN "read" ELSE "enter") /\ y.end = "none"
    BY <1>2 DEF Begins
  <2>2. PICK y : Turns(r, y) /\ db' = db /\ y.pc # "write" /\ y.end # "ok"
    BY <2>1
  <2> QED
    BY <2>2, QuietOwned DEF Promoting
<1>3. ASSUME NEW r \in Reqs, Takes(r) \/ Aborts(r) PROVE Owned'
  <2>1. PICK y : /\ Turns(r, y) /\ db' = db /\ Same(req[r], y) /\ y.end # "ok"
                 /\ y.pc = "write" => req[r].pc = "write"
    BY <1>3 DEF Takes, Aborts
  <2>2. Promoting(y)
    BY <2>1 DEF Owned, Promoting, Same, Kept
  <2> QED
    BY <2>1, <2>2, QuietOwned
<1> QED
  BY <1>1, <1>2, <1>3, Moves, DecidesKeepsOwned, CommitsKeepsOwned

LEMMA InitOwned == Init => Owned
<1> SUFFICES ASSUME Init PROVE Owned
  OBVIOUS
<1>1. \A r \in Reqs : req[r] = Fresh
  BY DEF Init
<1>2. Fresh.end = "none" /\ Fresh.pc = "idle"
  BY FreshShape
<1>3. \A u : OwnerAccounted(u)
  BY <1>1, <1>2 DEF OwnerAccounted, Wrote, Ok
<1> QED
  BY <1>1, <1>2, <1>3 DEF Owned, Promoting

LEMMA InitSInv == Init => SInv
<1> SUFFICES ASSUME Init PROVE SInv
  OBVIOUS
<1>1. \A u \in Users : InLine(db, u)
  BY InLineAssumption DEF Init
<1>2. \A r \in Reqs : req[r] = Fresh
  BY DEF Init
<1>3. Fresh.in.op = "none"
  BY DEF Fresh, Nobody
<1>4. Explained
  BY <1>1, InLineIsIn DEF Explained
<1>5. \A r \in Reqs : Scimming(req[r], r)
  BY <1>2, <1>3 DEF Scimming, Scims
<1> QED
  BY <1>4, <1>5 DEF SInv

LEMMA ScimsStayInLine == Spec => [](IInv /\ KInv /\ Order /\ TInv /\ SInv /\ Owned)
<1> DEFINE Inv == IInv /\ KInv /\ Order /\ TInv /\ SInv /\ Owned
<1>1. Init => Inv
  BY InitIInv, InitKInv, InitOrder, InitTInv, InitSInv, InitOwned
<1>2. Inv /\ [Next]_vars => Inv'
  <2> SUFFICES ASSUME Inv, [Next]_vars PROVE Inv'
    OBVIOUS
  <2>1. IInv' /\ KInv'
    BY NextIInv, NextKInv
  <2>2. Order' /\ TInv' /\ SInv' /\ Owned'
    BY NextOrder, NextTInv, NextSInv, NextOwned DEF IInv
  <2> QED
    BY <2>1, <2>2
<1> QED
  BY <1>1, <1>2, PTL DEF Spec

\* A provisioned user has the role of its groups, or the default, however the
\* identity provider's requests overlap; only what people changed by hand since,
\* or a default that was replaced while the last request to sync the user was
\* under way (scim/service.py:41), stands out.  An owner was one from the start,
\* was made one by somebody, or by a SCIM request whose default role was owner.
THEOREM RoleFollowsGroupsHolds == Spec => []RoleFollowsGroups
BY ScimsStayInLine, SInvSuffices, PTL

\* A deactivated user has neither a membership nor a session of the organization,
\* an owner apart, unless a request that was not the identity provider's, and
\* that had not ended when the last one to sync the user began, has given it.
THEOREM DeprovisionedStaysOutHolds == Spec => []DeprovisionedStaysOut
BY ScimsStayInLine, SInvSuffices, PTL

=============================================================================
