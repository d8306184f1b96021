------------------------------- MODULE Identity -------------------------------
(***************************************************************************)
(* Who belongs to an organization and what they may do                     *)
(* (apps/api/agentguard_api/organizations, scim, sso, auth, apikeys, rbac). *)
(*                                                                         *)
(* Three parties write the same rows: people who administer members, keys   *)
(* and settings under a session; people who sign in; and the identity       *)
(* provider, which provisions users and groups over SCIM.  A request is one *)
(* READ COMMITTED transaction in four steps: it authenticates and loads     *)
(* some rows; it takes its first row lock, which its first query flushes;   *)
(* it reads the rest and decides; it takes the other locks and commits.     *)
(*                                                                         *)
(* db maps cells, the columns of rows, to values.  What a handler assigns   *)
(* is an operator that takes the database as the request sees it to the     *)
(* database it would leave, or to None when the handler refuses; the ORM    *)
(* writes the difference of the two.                                        *)
(***************************************************************************)
EXTENDS Naturals, Sequences, FiniteSets

CONSTANTS None,       \* a missing row, a null column, a refusal
          Users, Groups,
          Standing,     \* the sessions and keys there are at the start
          Offered,      \* the roles requests name
          Names,        \* display names of groups
          Starts,       \* the databases to start from
          Reqs          \* bound: the requests there are

\* What request r creates, a session, a key, a token or a secret, is named r.
Sess == Standing \cup Reqs
Keys == Standing \cup Reqs

Roles == {"owner", "admin", "security_admin", "security_analyst", "developer",
          "billing_admin", "auditor"}

\* The permissions that the operations below ask for or hand out, by role.
Permissions == {"org.manage", "org.billing", "member.manage", "apikey.manage", "runtime.evaluate"}
SystemRoleGrants ==
  [r \in Roles |->
     CASE r = "owner"         -> Permissions
       [] r = "admin"         -> Permissions \ {"org.billing"}
       [] r = "developer"     -> {"apikey.manage", "runtime.evaluate"}
       [] r = "billing_admin" -> {"org.billing"}
       [] OTHER               -> {}]

Member(u) == <<"member", u>>      \* the role, or no membership
Account(u) == <<"user", u>>       \* "shell": invited, inactive; "bare": no password; "full"
Secret(u) == <<"secret", u>>      \* mfa_secret
Mfa(u)    == <<"mfa", u>>         \* mfa_enabled
Scim(u)   == <<"scim", u>>        \* "active", "inactive", or not provisioned
Group(g)  == <<"group", g>>       \* display name and members
Live(s)   == <<"session", s>>     \* whose it is, in this organization; revoked or not
Key(k)    == <<"key", k>>         \* creator, scopes, revoked or not
Token     == <<"token", "org">>   \* the SCIM configuration
Enabled   == <<"enabled", "org">>
Default   == <<"default", "org">>
SsoRole   == <<"sso", "org">>     \* the SSO connection: default role
SsoOn     == <<"on", "org">>
Enforced  == <<"enforced", "org">>

Cells ==
  {Group(g) : g \in Groups} \cup {Live(s) : s \in Sess} \cup {Key(k) : k \in Keys}
    \cup {Token, Enabled, Default, SsoRole, SsoOn, Enforced}
    \cup UNION {{Member(u), Account(u), Secret(u), Mfa(u), Scim(u)} : u \in Users}

\* The row a cell is a column of; the cell that tells whether a row is there.
Row(c) ==
  CASE c[1] \in {"secret", "mfa"}                -> Account(c[2])
    [] c[1] \in {"token", "enabled", "default"}  -> Default
    [] c[1] \in {"sso", "on", "enforced"}        -> SsoRole
    [] OTHER                                     -> c

ASSUME StartsAssumption == \A D \in Starts : D = [c \in Cells |-> D[c]]
ASSUME OwnedAssumption == \A D \in Starts : \E u \in Users : D[Member(u)] = "owner"
ASSUME OfferedAssumption == Offered \subseteq Roles
ASSUME NamesAssumption == Standing \cap Reqs = {}

Session  == [of : Users, revoked : BOOLEAN]
ApiKey   == [by : Users, scopes : SUBSET Permissions, revoked : BOOLEAN]
GroupRow == [name : Names, members : SUBSET Users]
ASSUME NoneAssumption ==
  None \notin Roles \cup {"shell", "bare", "full", "active", "inactive"} \cup GroupRow

\* What the columns hold: a member and a provisioned user have an account, and
\* the members of groups are provisioned.
Typed(D) ==
  /\ \A u \in Users :
       /\ D[Member(u)] \in Roles \cup {None}
       /\ D[Account(u)] \in {"shell", "bare", "full", None}
       /\ D[Scim(u)] \in {"active", "inactive", None}
       /\ D[Member(u)] # None \/ D[Scim(u)] # None => D[Account(u)] # None
  /\ \A g \in Groups : D[Group(g)] # None =>
       D[Group(g)] \in GroupRow /\ \A u \in D[Group(g)].members : D[Scim(u)] # None
  /\ D[Default] \in Roles \cup {None} /\ D[SsoRole] \in Roles \cup {None}
ASSUME TypesAssumption == \A D \in Starts : Typed(D)

\* Whether a key grants no more than its creator's role, where the database is D.
Within(D, key) ==
  key.scopes = {} \/ (D[Member(key.by)] # None /\ key.scopes \subseteq SystemRoleGrants[D[Member(key.by)]])
ASSUME AccessAssumption ==
  \A D \in Starts :
    /\ \A s \in Sess : D[Live(s)] = None \/ D[Live(s)] \in Session
    /\ \A k \in Keys : D[Key(k)] = None \/ (D[Key(k)] \in ApiKey /\ k \in Standing)
    /\ \A k \in Keys : D[Key(k)] # None => D[Key(k)].revoked \/ Within(D, D[Key(k)])
\* MFA is on where its secret was shown to be the user's.
ASSUME MfaAssumption ==
  \A D \in Starts : \A u \in Users : D[Mfa(u)] => D[Secret(u)] = "proved"

VARIABLES
  db,      \* what is committed
  req,     \* the requests
  held,    \* the row locks each of them holds
  prior    \* history: the requests that had ended when it started

vars == <<db, req, held, prior>>

Put(D, f) == [c \in DOMAIN D |-> IF c \in DOMAIN f THEN f[c] ELSE D[c]]
Changes(D, E) == [c \in {x \in Cells : E[x] # D[x]} |-> E[c]]

-----------------------------------------------------------------------------
\* Members (organizations/router.py).

Owners(D) == {u \in Users : D[Member(u)] = "owner"}

AddMember(D, u, role) ==
  IF D[Member(u)] # None THEN None
  ELSE [D EXCEPT ![Account(u)] = IF @ = None THEN "shell" ELSE @, ![Member(u)] = role]

LastOwner_BelowOne(D, u) == D[Member(u)] = "owner" /\ Cardinality(Owners(D)) < 1
LastOwner(D, u) == D[Member(u)] = "owner" /\ Cardinality(Owners(D)) <= 1

UpdateMemberRole(D, u, role) ==
  IF D[Member(u)] = None \/ (role # "owner" /\ LastOwner(D, u)) THEN None
  ELSE [D EXCEPT ![Member(u)] = role]

RemoveMember(D, u) ==
  IF D[Member(u)] = None \/ LastOwner(D, u) THEN None
  ELSE [D EXCEPT ![Member(u)] = None]

\* API keys (apikeys/router.py); role is what the principal was loaded with.
Grantable_Any(scopes, role) == TRUE
Grantable(scopes, role) == scopes \subseteq SystemRoleGrants[role]

CreateKey(D, k, by, role, scopes) ==
  IF ~Grantable(scopes, role) THEN None
  ELSE [D EXCEPT ![Key(k)] = [by |-> by, scopes |-> scopes, revoked |-> FALSE]]

RevokeKey(D, k) ==
  IF D[Key(k)] = None THEN None ELSE [D EXCEPT ![Key(k)].revoked = TRUE]

\* MFA (auth/router.py).
EnrollMfa_Again(D, u, secret) == [D EXCEPT ![Secret(u)] = secret]
EnrollMfa(D, u, secret) ==
  IF D[Mfa(u)] THEN None ELSE [D EXCEPT ![Secret(u)] = secret]
\* The code is checked against the secret the user was loaded with.
ActivateMfa(D, u) ==
  IF D[Secret(u)] = None THEN None
  ELSE [D EXCEPT ![Mfa(u)] = TRUE]
DisableMfa(D, u) ==
  IF ~D[Mfa(u)] \/ D[Secret(u)] = None THEN None
  ELSE [D EXCEPT ![Mfa(u)] = FALSE, ![Secret(u)] = None]

\* The SCIM configuration (scim/admin.py) and the SSO connection (sso/router.py).
UpsertConfig(D, on, role) == [D EXCEPT ![Enabled] = on, ![Default] = role]
RotateToken(D, token) ==
  [D EXCEPT ![Token] = token, ![Enabled] = TRUE, ![Default] = IF @ = None THEN "developer" ELSE @]
RevokeToken(D) ==
  IF D[Default] = None THEN D ELSE [D EXCEPT ![Token] = None, ![Enabled] = FALSE]

CreateConnection(D, role, enforced) ==
  IF D[SsoRole] # None THEN None
  ELSE [D EXCEPT ![SsoRole] = role, ![SsoOn] = TRUE, ![Enforced] = enforced]
UpdateConnection(D, column, value) ==
  IF D[SsoRole] = None THEN None ELSE [D EXCEPT ![column] = value]
DeleteConnection(D) ==
  IF D[SsoRole] = None THEN None
  ELSE [D EXCEPT ![SsoRole] = None, ![SsoOn] = FALSE, ![Enforced] = FALSE]

-----------------------------------------------------------------------------
\* Sign-in (auth/router.py, auth/service.py, sso/service.py).  The session r
\* opens is of this organization when the user is a member of it then.

CreateSession(D, r, u) == [D EXCEPT ![Live(r)] = [of |-> u, revoked |-> FALSE]]
ResolveMembership(D, r, u) == IF D[Member(u)] = None THEN D ELSE CreateSession(D, r, u)

Register(D, u) ==
  IF D[Account(u)] # None THEN None ELSE [D EXCEPT ![Account(u)] = "full"]

\* authenticate(): no password where the SSO connection forbids it.
SsoEnforced(D) == D[Enforced] /\ D[SsoOn]
Authenticates(D, u) == ~SsoEnforced(D) /\ D[Account(u)] = "full"

\* With MFA on, login() answers with a challenge and opens no session.
Login(D, r, u) ==
  IF ~Authenticates(D, u) THEN None
  ELSE IF D[Mfa(u)] /\ D[Secret(u)] # None THEN D ELSE ResolveMembership(D, r, u)

\* The challenge names the organization: membership is not looked up again.
VerifyMfa(D, r, u) ==
  IF ~D[Mfa(u)] \/ D[Secret(u)] = None THEN None ELSE CreateSession(D, r, u)

\* From a session of another organization into one of this organization.
SwitchOrg(D, r, u) == IF D[Member(u)] = None THEN None ELSE CreateSession(D, r, u)

OAuthCallback(D, r, u) ==
  ResolveMembership([D EXCEPT ![Account(u)] = IF @ = None THEN "bare" ELSE @], r, u)

\* provision() adds the membership when there is none.
Provision(D, u) ==
  [D EXCEPT ![Account(u)] = IF @ = None THEN "bare" ELSE @,
            ![Member(u)] = IF @ = None THEN D[SsoRole] ELSE @]
SsoSignIn(D, r, u) ==
  IF D[SsoRole] = None \/ ~D[SsoOn] THEN None ELSE CreateSession(Provision(D, u), r, u)

-----------------------------------------------------------------------------
\* SCIM (scim/service.py, scim/roles.py).

Priority == <<"admin", "security_admin", "security_analyst", "developer", "billing_admin", "auditor">>

RoleFromDisplayName(name) ==
  IF name = "owner" THEN "admin" ELSE IF name \in Roles THEN name ELSE None

GroupRoles(D, u) ==
  {RoleFromDisplayName(D[Group(g)].name) :
     g \in {x \in Groups : D[Group(x)] # None /\ u \in D[Group(x)].members}} \ {None}

MostPrivileged(S) ==
  Priority[CHOOSE i \in DOMAIN Priority :
             Priority[i] \in S /\ \A j \in DOMAIN Priority : Priority[j] \in S => i <= j]

MappedRole(D, u) ==
  IF GroupRoles(D, u) = {} THEN D[Default] ELSE MostPrivileged(GroupRoles(D, u))

\* u is in line with the identity provider: an active user has the role of its
\* groups, an inactive one no membership and no session.
InLine(D, u) ==
  /\ D[Scim(u)] = "active" => D[Member(u)] \in {"owner", MappedRole(D, u)}
  /\ D[Scim(u)] = "inactive" /\ D[Member(u)] # "owner" =>
       /\ D[Member(u)] = None
       /\ \A s \in Sess : D[Live(s)] # None /\ D[Live(s)].of = u => D[Live(s)].revoked
ASSUME InLineAssumption == \A D \in Starts : \A u \in Users : InLine(D, u)

\* sync_membership(), for every user in us.
Managed(D, u) == D[Scim(u)] # None /\ D[Member(u)] # "owner"
SyncedRole(D, u) == IF D[Scim(u)] = "inactive" THEN None ELSE MappedRole(D, u)

Revocable_Kept(D, x) == FALSE
Revocable(D, x) == D[Scim(x.of)] = "inactive" /\ Managed(D, x.of)

SyncMembership(D, us) ==
  [c \in Cells |->
     CASE c[1] = "member" /\ c[2] \in us /\ Managed(D, c[2]) -> SyncedRole(D, c[2])
       [] c[1] = "session" /\ D[c] # None /\ D[c].of \in us /\ Revocable(D, D[c]) ->
            [D[c] EXCEPT !.revoked = TRUE]
       [] OTHER -> D[c]]

Status(active) == IF active THEN "active" ELSE "inactive"

ScimCreateUser(D, u, active) ==
  IF D[Scim(u)] # None THEN None
  ELSE SyncMembership([D EXCEPT ![Account(u)] = IF @ = None THEN "bare" ELSE @,
                                ![Scim(u)] = Status(active)], {u})

\* replace_user and patch_user.
ScimSetActive(D, u, active) ==
  IF D[Scim(u)] = None THEN None
  ELSE SyncMembership([D EXCEPT ![Scim(u)] = Status(active)], {u})

Without(D, u) ==
  [c \in Cells |-> IF c[1] = "group" /\ D[c] # None
                   THEN [D[c] EXCEPT !.members = @ \ {u}] ELSE D[c]]
ScimDeleteUser(D, u) ==
  IF D[Scim(u)] = None THEN None
  ELSE [Without(SyncMembership([D EXCEPT ![Scim(u)] = "inactive"], {u}), u)
          EXCEPT ![Scim(u)] = None]

\* Members that are not provisioned here are dropped.
Provisioned_Any(D, us) == us
Provisioned(D, us) == {u \in us : D[Scim(u)] # None}
HasMembers(D, g) == IF D[Group(g)] = None THEN {} ELSE D[Group(g)].members

Resynced(D, g, us) == HasMembers(D, g) \cup Provisioned(D, us)

SetMembers(D, g, name, us) ==
  SyncMembership([D EXCEPT ![Group(g)] = [name |-> name, members |-> Provisioned(D, us)]],
                 Resynced(D, g, us))

\* create_group looks for the name; replace_group and patch_group meet the
\* unique index.
NameTaken(D, g, name) ==
  \E h \in Groups \ {g} : D[Group(h)] # None /\ D[Group(h)].name = name

ScimCreateGroup(D, g, name, us) ==
  IF D[Group(g)] # None \/ NameTaken(D, g, name) THEN None ELSE SetMembers(D, g, name, us)

ScimSetGroup(D, g, name, us) ==
  IF D[Group(g)] = None \/ NameTaken(D, g, name) THEN None ELSE SetMembers(D, g, name, us)

ScimDeleteGroup(D, g) ==
  IF D[Group(g)] = None THEN None
  ELSE SyncMembership([D EXCEPT ![Group(g)] = None], HasMembers(D, g))

-----------------------------------------------------------------------------
\* Requests.

Self    == {"enroll", "activate", "disable"}
SignIns == {"register", "login", "verify", "switch", "oauth", "sso"}
Scims   == {"scim_create", "scim_set", "scim_delete", "group_create", "group_set", "group_delete"}

\* What a request asks for: u, g, k: its object; v: a role, a name, a flag, a
\* set of scopes or of users; s: the session it comes with.
Inputs ==
       [op : {"add", "role"}, s : Standing, u : Users, role : Offered]
  \cup [op : {"remove"}, s : Standing, u : Users]
  \cup [op : {"key"}, s : Standing, scopes : {{"runtime.evaluate"}, {"member.manage"}}]
  \cup [op : {"revoke_key"}, s : Standing, k : Standing]
  \cup [op : {"config"}, s : Standing, on : BOOLEAN, role : Offered]
  \cup [op : {"rotate", "revoke_token", "disconnect"} \cup Self, s : Standing]
  \cup [op : {"connect"}, s : Standing, on : BOOLEAN, role : Offered]
  \cup [op : {"reconnect"}, s : Standing, column : {SsoOn, Enforced}, value : BOOLEAN]
  \cup [op : {"reconnect"}, s : Standing, column : {SsoRole}, value : Offered]
  \cup [op : SignIns, u : Users]
  \cup [op : {"scim_create", "scim_set"}, u : Users, on : BOOLEAN]
  \cup [op : {"scim_delete"}, u : Users]
  \cup [op : {"group_create", "group_set"}, g : Groups, name : Names, us : SUBSET Users]
  \cup [op : {"group_delete"}, g : Groups]

Needs(op) ==
  CASE op \in {"add", "role", "remove"} -> "member.manage"
    [] op \in {"key", "revoke_key"}     -> "apikey.manage"
    [] OTHER                            -> "org.manage"

Permitted(op, role) == op \in Self \/ Needs(op) \in SystemRoleGrants[role]

\* The handler r runs, on the database as it sees it.
Handler(r, i, me, role, D) ==
  CASE i.op = "add"          -> AddMember(D, i.u, i.role)
    [] i.op = "role"         -> UpdateMemberRole(D, i.u, i.role)
    [] i.op = "remove"       -> RemoveMember(D, i.u)
    [] i.op = "key"          -> CreateKey(D, r, me, role, i.scopes)
    [] i.op = "revoke_key"   -> RevokeKey(D, i.k)
    [] i.op = "config"       -> UpsertConfig(D, i.on, i.role)
    [] i.op = "rotate"       -> RotateToken(D, r)
    [] i.op = "revoke_token" -> RevokeToken(D)
    [] i.op = "connect"      -> CreateConnection(D, i.role, i.on)
    [] i.op = "reconnect"    -> UpdateConnection(D, i.column, i.value)
    [] i.op = "disconnect"   -> DeleteConnection(D)
    [] i.op = "enroll"       -> EnrollMfa(D, me, r)
    [] i.op = "activate"     -> ActivateMfa(D, me)
    [] i.op = "disable"      -> DisableMfa(D, me)
    [] i.op = "register"     -> Register(D, i.u)
    [] i.op = "login"        -> Login(D, r, i.u)
    [] i.op = "verify"       -> VerifyMfa(D, r, i.u)
    [] i.op = "switch"       -> SwitchOrg(D, r, i.u)
    [] i.op = "oauth"        -> OAuthCallback(D, r, i.u)
    [] i.op = "sso"          -> SsoSignIn(D, r, i.u)
    [] i.op = "scim_create"  -> ScimCreateUser(D, i.u, i.on)
    [] i.op = "scim_set"     -> ScimSetActive(D, i.u, i.on)
    [] i.op = "scim_delete"  -> ScimDeleteUser(D, i.u)
    [] i.op = "group_create" -> ScimCreateGroup(D, i.g, i.name, i.us)
    [] i.op = "group_set"    -> ScimSetGroup(D, i.g, i.name, i.us)
    [] i.op = "group_delete" -> ScimDeleteGroup(D, i.g)

\* Whose membership a SCIM request brings in line.
Syncs(i, D) ==
  CASE i.op \in {"scim_create", "scim_set", "scim_delete"} -> {i.u}
    [] i.op \in {"group_create", "group_set"}              -> Resynced(D, i.g, i.us)
    [] i.op = "group_delete"                               -> HasMembers(D, i.g)
    [] OTHER                                               -> {}

Nobody == [op |-> "none"]
Fresh  == [pc |-> "idle", in |-> Nobody, me |-> None, loaded |-> <<>>, role |-> None,
           cells |-> <<>>, there |-> {}, want |-> {}, syncs |-> {}, end |-> "none"]

Init ==
  /\ db \in Starts
  /\ req = [r \in Reqs |-> Fresh]
  /\ held = [r \in Reqs |-> {}] /\ prior = [r \in Reqs |-> {}]

Become(r, x) == req' = [req EXCEPT ![r] = x]
Stop(r, how) ==
  /\ Become(r, [req[r] EXCEPT !.pc = "done", !.want = {}, !.end = how])
  /\ held' = [held EXCEPT ![r] = {}]
Free(r, l) == \A q \in Reqs \ {r} : l \notin held[q]
Take(r, l) == held' = [held EXCEPT ![r] = @ \cup {l}]

\* The user's columns as the principal loads them, and the SCIM row.
UserColumns(u) == [c \in {Account(u), Secret(u), Mfa(u)} |-> db[c]]
ScimColumns    == [c \in {Token, Enabled, Default} |-> db[c]]

\* A request authenticates; one that may not enter leaves nothing and is left
\* out.
Start(r) ==
  /\ req[r].pc = "idle"
  /\ \E i \in Inputs :
       /\ i.op \in Scims => db[Token] # None /\ db[Enabled]
       /\ "s" \in DOMAIN i =>
            /\ db[Live(i.s)] # None /\ ~db[Live(i.s)].revoked
            /\ db[Account(db[Live(i.s)].of)] # "shell"
       /\ LET me == IF "s" \in DOMAIN i THEN db[Live(i.s)].of ELSE None IN
            Become(r, [Fresh EXCEPT
              !.pc = IF i.op \in SignIns THEN "read" ELSE "enter", !.in = i, !.me = me,
              !.loaded = CASE i.op \in Scims    -> ScimColumns
                           [] "s" \in DOMAIN i -> UserColumns(me)
                           [] OTHER            -> <<>>])
  /\ prior' = [prior EXCEPT ![r] = {q \in Reqs : req[q].pc = "done"}]
  /\ UNCHANGED <<db, held>>

FirstLock_NoScim(i) == IF i.op \in Scims THEN <<"request", i>> ELSE Live(i.s)
FirstLock(i) == IF i.op \in Scims THEN Default ELSE Live(i.s)

\* The time of the request is written to the SCIM row, or to the session's; the
\* principal's membership is read after that.
Enter(r) ==
  /\ req[r].pc = "enter"
  /\ LET i == req[r].in
         role == IF i.op \in Scims THEN None ELSE db[Member(req[r].me)] IN
       /\ Free(r, FirstLock(i))
       /\ IF \/ i.op \in Scims
             \/ role # None /\ Permitted(i.op, role)
          THEN Take(r, FirstLock(i)) /\ Become(r, [req[r] EXCEPT !.pc = "read", !.role = role])
          ELSE Stop(r, "refused")
  /\ UNCHANGED <<db, prior>>

Exists(D, row) == D[row] # None

\* The handler reads the rest and decides.
Read(r) ==
  /\ req[r].pc = "read"
  /\ LET i == req[r].in
         D == Put(db, req[r].loaded)
         E == Handler(r, i, req[r].me, req[r].role, D) IN
       IF E = None THEN Stop(r, "refused")
       ELSE LET rows == {Row(c) : c \in DOMAIN Changes(D, E)} IN
              /\ Become(r, [req[r] EXCEPT !.pc = "write", !.cells = Changes(D, E),
                             !.there = {x \in rows : Exists(D, x)},
                             !.syncs = Syncs(i, D),
                             !.want = rows \cup (IF i.op = "login" THEN {Account(i.u)} ELSE {})])
              /\ UNCHANGED held
  /\ UNCHANGED <<db, prior>>

\* An INSERT meets a row that has appeared; an UPDATE misses one that is gone.
\* A DELETE of a row that is gone passes.
Deleted(r, row) == row \in DOMAIN req[r].cells /\ req[r].cells[row] = None
Clash(r, row) ==
  IF row \in req[r].there THEN ~Exists(db, row) /\ ~Deleted(r, row) ELSE Exists(db, row)

Write(r) ==
  /\ req[r].pc = "write"
  /\ \E row \in req[r].want :
       /\ Free(r, row)
       /\ IF row \in {Row(c) : c \in DOMAIN req[r].cells} /\ Clash(r, row)
          THEN Stop(r, "clash")
          ELSE Take(r, row) /\ Become(r, [req[r] EXCEPT !.want = @ \ {row}])
  /\ UNCHANGED <<db, prior>>

Commit(r) ==
  /\ req[r].pc = "write" /\ req[r].want = {}
  /\ db' = Put(db, req[r].cells)
  /\ Stop(r, "ok")
  /\ UNCHANGED prior

\* Of two requests that wait for each other PostgreSQL ends one.
Wants(r) == IF req[r].pc = "enter" THEN {FirstLock(req[r].in)} ELSE req[r].want
Victim(r) ==
  /\ \E q \in Reqs \ {r} :
       /\ Wants(r) # {} /\ Wants(r) \subseteq held[q]
       /\ Wants(q) # {} /\ Wants(q) \subseteq held[r]
  /\ Stop(r, "deadlock")
  /\ UNCHANGED <<db, prior>>

Next == \E r \in Reqs : Start(r) \/ Enter(r) \/ Read(r) \/ Write(r) \/ Commit(r) \/ Victim(r)

Spec == Init /\ [][Next]_vars

-----------------------------------------------------------------------------
Ok(r) == req[r].end = "ok"
Wrote(r) == IF Ok(r) THEN DOMAIN req[r].cells ELSE {}
WroteMembers(r) == \E u \in Users : Member(u) \in Wrote(r)
Overlap(p, q) == p # q /\ p \notin prior[q] /\ q \notin prior[p]

\* p has not been followed by a SCIM request that began later and brought u's
\* membership in line.
Since(p, u) == \A q \in Reqs : Ok(q) /\ u \in req[q].syncs => p \notin prior[q]

ByHand(u, cells) ==
  \E p \in Reqs : req[p].in.op \notin Scims /\ Wrote(p) \cap cells # {} /\ Since(p, u)

LiveSessions(u) == {s \in Sess : db[Live(s)] # None /\ db[Live(s)].of = u /\ ~db[Live(s)].revoked}

TypeOK ==
  /\ DOMAIN db = Cells /\ Typed(db)
  /\ \A r \in Reqs : DOMAIN req[r].cells \subseteq Cells

\* The organization keeps an owner, unless two requests that both wrote
\* memberships overlapped: the other owners are counted without a lock
\* (organizations/router.py:244).
OwnerRemains ==
  Owners(db) # {} \/ \E p, q \in Reqs : Overlap(p, q) /\ WroteMembers(p) /\ WroteMembers(q)

\* The default role changed while the last requests to bring u's membership in
\* line were under way: one of them had loaded the old one (scim/service.py:41).
StaleDefault(u) ==
  \E p, q \in Reqs :
    /\ Default \in Wrote(p) /\ p \notin prior[q]
    /\ Ok(q) /\ u \in req[q].syncs /\ Since(q, u)

\* How u came to be an owner: u was one from the start, or somebody made u one,
\* or a SCIM request did that had loaded owner as the default role.
OwnerAccounted(u) ==
  \/ \A p \in Reqs : Member(u) \notin Wrote(p)
  \/ \E p \in Reqs :
       /\ Member(u) \in Wrote(p) /\ req[p].cells[Member(u)] = "owner"
       /\ req[p].in.op \in Scims => req[p].loaded[Default] = "owner"

\* The role of a provisioned member is the strongest its groups map to, or the
\* default, however the identity provider's requests overlap; only what people
\* changed by hand since, or while a request had the old default, stands out,
\* and an owner, whom SCIM leaves alone (scim/service.py:83).  No group makes an
\* owner; the default role does where it is set to owner, which scim/admin.py:118
\* accepts, although docs/SCIM.md:62 says "SCIM never assigns `owner`".
RoleFollowsGroups ==
  \A u \in Users :
    db[Scim(u)] = "active" =>
      /\ db[Member(u)] \notin {"owner", MappedRole(db, u)} =>
           ByHand(u, {Member(u), Default}) \/ StaleDefault(u)
      /\ db[Member(u)] = "owner" => OwnerAccounted(u)

\* A deactivated user has neither a membership nor a session of the
\* organization, an owner apart, unless somebody added them again or they were
\* signing in.
DeprovisionedStaysOut ==
  \A u \in Users :
    db[Scim(u)] = "inactive" /\ db[Member(u)] # "owner"
      /\ (db[Member(u)] # None \/ LiveSessions(u) # {}) =>
      ByHand(u, {Member(u)} \cup {Live(s) : s \in LiveSessions(u)})

\* A key grants no more than its creator may do, until the creator's membership
\* changes, perhaps while the key was being created.
KeyWithinCreator ==
  \A k \in Keys :
    LET key == db[Key(k)] IN
      key # None /\ ~key.revoked =>
        \/ Within(db, key)
        \/ \E p \in Reqs : Member(key.by) \in Wrote(p) /\ (k \in Reqs => p \notin prior[k])

\* The secret an account's MFA asks for is one whose code the user has shown,
\* unless two of the user's requests to enrol, activate and disable overlapped.
MfaProved ==
  \A u \in Users :
    db[Mfa(u)] /\ db[Secret(u)] # "proved" =>
      \/ \E r \in Reqs : /\ Ok(r) /\ req[r].in.op = "activate" /\ req[r].me = u
                         /\ req[r].loaded[Secret(u)] = db[Secret(u)]
      \/ \E p, q \in Reqs : /\ Overlap(p, q) /\ Ok(p) /\ Ok(q)
                             /\ {req[p].in.op, req[q].in.op} \subseteq Self
                             /\ req[p].me = u /\ req[q].me = u
=============================================================================
