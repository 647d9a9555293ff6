------------------------------ MODULE Accounts ------------------------------
(***************************************************************************)
(* Users, roles and permissions.  Administrators edit them through         *)
(* handlers that read, check and write in separate awaits without a        *)
(* transaction, while users sign in or refresh and get access tokens whose *)
(* claims were read from the same tables.  Two counters make such tokens   *)
(* stale: `token_version` of the user, and the global `perm_version`.      *)
(*                                                                         *)
(* Left out: password hashes, lockout counters and refresh-token rows (a   *)
(* mint is what a successful sign-in and a successful refresh share), the  *)
(* texts of names and descriptions, and the awaits inside the check of one *)
(* request's token, which is one step here.                                *)
(***************************************************************************)
EXTENDS Naturals, FiniteSets

CONSTANTS
  Users,          \* email addresses, with or without an account
  Admin,          \* the account seed-user created
  Roles,          \* role ids, with or without a row
  AdminRole, ReviewerRole,  \* the two system roles
  Perms,          \* permission keys
  ReviewerPerms,  \* what the migrations grant to reviewers
  Requests,       \* administration requests in flight
  Mints,          \* sign-ins and refreshes in flight
  Acts,           \* the operations in use
  MaxVersion,     \* bound: no request starts once a counter is that high
  MaxTokens,      \* bound: live access tokens and mints
  MaxBypassed,    \* bound: no request starts once the team view overwrote that many
  MaxFaults       \* bound: database calls that fail for good

Critical == {"roles:manage", "team:manage"}
AllActs == {"updateUser", "ownPassword", "provision", "invite", "rename",
            "updateRole", "createRole", "deleteRole"}

ASSUME AccountsAssumption ==
  /\ Admin \in Users
  /\ {AdminRole, ReviewerRole} \subseteq Roles /\ AdminRole # ReviewerRole
  /\ Critical \subseteq Perms /\ ReviewerPerms \subseteq Perms
  /\ Acts \subseteq AllActs

VARIABLES
  users,        \* table users: email -> row; an absent row has status "absent"
  roles,        \* table roles: role id -> unborn, present or deleted
  grants,       \* table role_permissions: role id -> permission keys
  permVersion,  \* auth_meta.perm_version
  tokens,       \* access tokens that have not expired
  mints,        \* what each sign-in or refresh is doing
  requests,     \* what each administration request is doing
  bypassed,     \* history: users whose role or status the team view overwrote
  torn,         \* history: users a failed request wrote without a bump since
  tornGrants,   \* history: grants were written by a failed request, no bump since
  crossed,      \* history: requests in flight since whose start another changed who holds what
  outrun,       \* history: a crossed request wrote what it had decided on before
  faults        \* failures so far

vars == <<users, roles, grants, permVersion, tokens, mints, requests,
          bypassed, torn, tornGrants, crossed, outrun, faults>>
tables == <<users, roles, grants, permVersion>>
history == <<bypassed, torn, tornGrants, faults>>

SystemRoles == {AdminRole, ReviewerRole}
Status == {"absent", "invited", "active", "disabled"}
Row == [status: Status, role: Roles, version: Nat]
NoRow == [status |-> "absent", role |-> ReviewerRole, version |-> 0]
View == [status: Status, role: Roles]   \* of a row, what handlers decide on
ViewOf(row) == [status |-> row.status, role |-> row.role]

\* Of the claims: whose they are, what they grant, and the two versions.
\* readAt is history: perm_version when the grants were read.
Token == [user: Users, role: Roles, perms: SUBSET Perms,
          version: Nat, permVersion: Nat, readAt: Nat]
Mint == [stage: {"idle", "user", "perms"}, user: Users, role: Roles,
         perms: SUBSET Perms, version: Nat, readAt: Nat]
NoMint == [stage |-> "idle", user |-> Admin, role |-> AdminRole,
           perms |-> {}, version |-> 0, readAt |-> 0]

Fields == {"role", "status", "password"}
Writes == {"role", "status", "version", "row", "member", "insert", "grants", "delete", "perms"}
Stages == {"idle", "load", "role", "gain", "list", "count", "email", "decide", "write"}
Request ==
  [op: AllActs, stage: Stages, user: Users, role: Roles, status: Status, perms: SUBSET Perms,
   given: SUBSET Fields,   \* the fields a user patch sets
   seen: View,             \* the user's row as the handler read it
   listed: SUBSET {"users", "grants"},
   rows: [Users -> View], held: [Roles -> SUBSET Perms],  \* the two listings of a guard
   gained: SUBSET Perms,   \* the grants of the one role a guard asks for
   todo: SUBSET Writes]    \* the writes still to do
NoRows == [u \in Users |-> ViewOf(NoRow)]
NoGrants == [r \in Roles |-> {}]
Idle ==
  [op |-> "updateUser", stage |-> "idle", user |-> Admin, role |-> AdminRole, status |-> "active",
   perms |-> {}, given |-> {}, seen |-> ViewOf(NoRow), listed |-> {}, rows |-> NoRows,
   held |-> NoGrants, gained |-> {}, todo |-> {}]

Init ==
  /\ users = [u \in Users |-> IF u = Admin
                THEN [status |-> "active", role |-> AdminRole, version |-> 0] ELSE NoRow]
  /\ roles = [r \in Roles |-> IF r \in SystemRoles THEN "present" ELSE "unborn"]
  /\ grants = [r \in Roles |-> IF r = AdminRole THEN Perms
                ELSE IF r = ReviewerRole THEN ReviewerPerms ELSE {}]
  /\ permVersion = 0
  /\ tokens = {}
  /\ mints = [m \in Mints |-> NoMint]
  /\ requests = [q \in Requests |-> Idle]
  /\ bypassed = {} /\ torn = {} /\ tornGrants = FALSE /\ faults = 0
  /\ crossed = {} /\ outrun = FALSE

-----------------------------------------------------------------------------
(* Sign-in and refresh.                                                     *)

\* The user is read and must be active, its password or refresh token checked.
ReadUser(m, u) ==
  /\ mints[m].stage = "idle"
  /\ users[u].status = "active"
  /\ Cardinality(tokens) + Cardinality({x \in Mints : mints[x].stage # "idle"}) < MaxTokens
  /\ mints' = [mints EXCEPT ![m] = [mints[m] EXCEPT
       !.stage = "user", !.user = u, !.role = users[u].role, !.version = users[u].version]]
  /\ UNCHANGED <<tables, tokens, requests, history>>

\* claimInputsForRole: three statements in one READ COMMITTED transaction, so
\* each sees what was committed before it.  First the grants,
ReadClaims(m) ==
  /\ mints[m].stage = "user"
  /\ mints' = [mints EXCEPT ![m] = [mints[m] EXCEPT
       !.stage = "perms", !.perms = grants[mints[m].role], !.readAt = permVersion]]
  /\ UNCHANGED <<tables, tokens, requests, history>>

\* and perm_version last; the token is signed with both.
Sign(m) ==
  /\ mints[m].stage = "perms"
  /\ tokens' = tokens \cup
       {[user |-> mints[m].user, role |-> mints[m].role, perms |-> mints[m].perms,
         version |-> mints[m].version, permVersion |-> permVersion, readAt |-> mints[m].readAt]}
  /\ mints' = [mints EXCEPT ![m] = NoMint]
  /\ UNCHANGED <<tables, requests, history>>

\* An access token expires; a mint may fail or its answer get lost.
Expire(t) ==
  /\ tokens' = tokens \ {t}
  /\ UNCHANGED <<tables, mints, requests, history>>
GiveUp(m) ==
  /\ mints[m].stage # "idle"
  /\ mints' = [mints EXCEPT ![m] = NoMint]
  /\ UNCHANGED <<tables, tokens, requests, history>>

\* authenticate: whether a token is accepted, and what it then may do.
Authenticated(t) ==
  users[t.user].status = "active" /\ t.version = users[t.user].version
Effective(t) ==
  IF t.permVersion = permVersion THEN t.perms ELSE grants[users[t.user].role]
Permitted(perm) == \E t \in tokens : Authenticated(t) /\ perm \in Effective(t)
SignedIn(u) == \E t \in tokens : t.user = u /\ Authenticated(t)

-----------------------------------------------------------------------------
(* Requests: what starts them.                                              *)

Begin(q, request) ==
  /\ request.op \in Acts
  /\ Cardinality(bypassed) < MaxBypassed
  /\ requests' = [requests EXCEPT ![q] = [request EXCEPT !.stage = "load"]]
  /\ UNCHANGED <<tables, tokens, mints, history>>

\* PATCH /api/users/:id with any of role, status and password.
StartUpdateUser(q, u, given, role, status) ==
  /\ Permitted("team:manage")
  /\ given # {} /\ status \in {"active", "disabled"}
  /\ "role" \notin given => role = AdminRole
  /\ "status" \notin given => status = "active"
  /\ users[u].version < MaxVersion
  /\ Begin(q, [Idle EXCEPT !.op = "updateUser", !.user = u, !.given = given,
                           !.role = role, !.status = status])

\* PATCH /api/profile with the current and a new password.
StartOwnPassword(q, u) ==
  /\ SignedIn(u)
  /\ users[u].version < MaxVersion
  /\ Begin(q, [Idle EXCEPT !.op = "ownPassword", !.user = u, !.given = {"password"}])

\* POST /api/users, or seed-user on the command line, which asks nobody.
StartProvision(q, u, role) ==
  Begin(q, [Idle EXCEPT !.op = "provision", !.user = u, !.role = role])

\* POST /api/team.
StartInvite(q, u, role) ==
  /\ Permitted("team:manage")
  /\ role \in SystemRoles
  /\ Begin(q, [Idle EXCEPT !.op = "invite", !.user = u, !.role = role])

\* PATCH /api/profile by the user, or PATCH /api/users/:id by an administrator;
\* where that patch has other fields as well, it is a request of its own after them.
StartRename(q, u) ==
  /\ SignedIn(u) \/ Permitted("team:manage")
  /\ Begin(q, [Idle EXCEPT !.op = "rename", !.user = u])

\* PATCH, POST and DELETE of /api/roles.
StartRoleEdit(q, op, role, perms) ==
  /\ Permitted("roles:manage")
  /\ op \in {"updateRole", "createRole", "deleteRole"}
  /\ op = "deleteRole" => perms = {}
  /\ permVersion < MaxVersion
  /\ Begin(q, [Idle EXCEPT !.op = op, !.role = role, !.perms = perms])

-----------------------------------------------------------------------------
(* Requests: reads and checks.                                              *)

Set(q, request) == requests' = [requests EXCEPT ![q] = request]
Finish(q) == Set(q, Idle)
Goto(q, stage) == Set(q, [requests[q] EXCEPT !.stage = stage])
\* All reads are done; what is left to do, if anything, are the writes.
Commit(q, todo) ==
  Set(q, IF todo = {} THEN Idle
         ELSE [requests[q] EXCEPT !.stage = "write", !.todo = todo, !.listed = {},
                                  !.rows = NoRows, !.held = NoGrants, !.gained = {}])
At(q, stage) == requests[q].stage = stage
Reading == UNCHANGED <<tables, tokens, mints, history>>

UserOps == {"updateUser", "ownPassword"}
TeamOps == {"invite", "rename"}
RoleOps == {"updateRole", "createRole", "deleteRole"}

\* requireUser; the team view reads the same row.
LoadUser(q) ==
  /\ At(q, "load") /\ requests[q].op \in UserOps \cup TeamOps
  /\ LET r == requests[q]  row == ViewOf(users[r.user]) IN
       IF row.status = "absent" /\ r.op # "invite" THEN Finish(q)
       ELSE Set(q, [r EXCEPT !.seen = row,
                             !.stage = IF r.op = "updateUser" THEN "role" ELSE "write",
                             !.todo = IF r.op \in TeamOps THEN {"member"}
                                      ELSE IF r.op = "ownPassword" THEN {"version"} ELSE {}])
  /\ Reading

Demotes(r) == "role" \in r.given /\ r.role # r.seen.role
Disables(r) == "status" \in r.given /\ r.status = "disabled"

\* updateUser: the new role must exist; then which guard applies.
PickRole(q) ==
  /\ At(q, "role")
  /\ LET r == requests[q] IN
       IF "role" \in r.given /\ roles[r.role] # "present" THEN Finish(q)
       ELSE Goto(q, IF Disables(r) THEN "list" ELSE IF Demotes(r) THEN "gain" ELSE "decide")
  /\ Reading

\* updateRole, createRole, deleteRole and provision look a role up by name.
LoadRole(q) ==
  /\ At(q, "load") /\ requests[q].op \in RoleOps \cup {"provision"}
  /\ LET r == requests[q]  state == roles[r.role] IN
       CASE r.op = "createRole" ->
              IF state = "unborn" THEN Commit(q, {"insert", "grants", "perms"}) ELSE Finish(q)
         [] r.op = "provision" ->
              IF state = "present" THEN Goto(q, "email") ELSE Finish(q)
         [] OTHER ->
              IF state = "present" /\ r.role \notin SystemRoles
              THEN Goto(q, IF r.op = "updateRole" THEN "list" ELSE "count") ELSE Finish(q)
  /\ Reading

\* deleteRole: nobody may have the role.
CountUsers(q) ==
  /\ At(q, "count")
  /\ IF \E u \in Users : users[u].status # "absent" /\ users[u].role = requests[q].role
     THEN Finish(q) ELSE Commit(q, {"grants", "delete", "perms"})
  /\ Reading

\* provision: no account may have the address.
CheckEmail(q) ==
  /\ At(q, "email")
  /\ IF users[requests[q].user].status = "absent" THEN Commit(q, {"row"}) ELSE Finish(q)
  /\ Reading

\* The grants of one role: those a demoted user gets, or those a role has now.
Weigh(q) ==
  /\ At(q, "gain")
  /\ Set(q, [requests[q] EXCEPT !.gained = grants[requests[q].role],
               !.stage = IF requests[q].op = "updateUser" THEN "list" ELSE "decide"])
  /\ Reading

\* The two listings are awaited together, and answered in either order.
Listed(q, table) ==
  /\ At(q, "list") /\ table \notin requests[q].listed
  /\ LET r == requests[q]  listed == r.listed \cup {table} IN
       Set(q, [r EXCEPT !.listed = listed,
                        !.rows = IF table = "users" THEN [u \in Users |-> ViewOf(users[u])] ELSE @,
                        !.held = IF table = "grants" THEN grants ELSE @,
                        !.stage = IF listed # {"users", "grants"} THEN "list"
                                  ELSE IF r.op = "updateRole" THEN "gain" ELSE "decide"])
  /\ Reading

\* permissionsForRole over a listing.
Holds(rows, held, u, perm) == rows[u].status = "active" /\ perm \in held[rows[u].role]

\* Mutant: a user who is invited or disabled counts as a holder that stays.
AnybodyStays(rows, held, u, kept) ==
  \E perm \in Critical \ kept :
    Holds(rows, held, u, perm) /\ \A v \in Users \ {u} : perm \notin held[rows[v].role]

\* wouldRemoveLastHolder, for the permissions the user would lose.
RemovesLastHolder(rows, held, u, kept) ==
  \E perm \in Critical \ kept :
    Holds(rows, held, u, perm) /\ \A v \in Users \ {u} : ~Holds(rows, held, v, perm)

\* wouldRoleEditRemoveLastHolder, for the permissions the role would lose.
RoleEditRemovesLastHolder(rows, held, role, lost) ==
  \E perm \in Critical \cap lost :
    /\ \E u \in Users : rows[u].role = role /\ Holds(rows, held, u, perm)
    /\ \A v \in Users : rows[v].role # role => ~Holds(rows, held, v, perm)

Refused(r) ==
  IF r.op = "updateRole"
  THEN RoleEditRemovesLastHolder(r.rows, r.held, r.role, r.gained \ r.perms)
  ELSE IF Disables(r) THEN RemovesLastHolder(r.rows, r.held, r.user, {})
  ELSE Demotes(r) /\ RemovesLastHolder(r.rows, r.held, r.user, r.gained)

\* updateUser compares with the row it read; one bump covers all of it.
PatchWrites(r) ==
  LET changes == (IF Demotes(r) THEN {"role"} ELSE {}) \cup
                 (IF "status" \in r.given /\ r.status # r.seen.status THEN {"status"} ELSE {})
  IN  changes \cup (IF changes # {} \/ "password" \in r.given THEN {"version"} ELSE {})

Decide(q) ==
  /\ At(q, "decide")
  /\ LET r == requests[q] IN
       IF Refused(r) THEN Finish(q)
       ELSE Commit(q, IF r.op = "updateRole" THEN {"grants", "perms"} ELSE PatchWrites(r))
  /\ Reading

-----------------------------------------------------------------------------
(* Requests: writes, each one statement.                                    *)

Todo(q) == IF At(q, "write") THEN requests[q].todo ELSE {}
Wrote(q, w) ==
  Set(q, IF requests[q].todo = {w} THEN Idle ELSE [requests[q] EXCEPT !.todo = @ \ {w}])

SetRole(q) ==
  /\ "role" \in Todo(q)
  /\ roles[requests[q].role] = "present"
  /\ users' = [users EXCEPT ![requests[q].user].role = requests[q].role]
  /\ Wrote(q, "role")
  /\ UNCHANGED <<roles, grants, permVersion, tokens, mints, history>>

SetStatus(q) ==
  /\ "status" \in Todo(q) /\ "role" \notin Todo(q)
  /\ users' = [users EXCEPT ![requests[q].user].status = requests[q].status]
  /\ Wrote(q, "status")
  /\ UNCHANGED <<roles, grants, permVersion, tokens, mints, history>>

\* Mutant: the bump need not wait for the other writes.
BumpTokenVersionEarly(q) ==
  /\ "version" \in Todo(q)
  /\ users' = [users EXCEPT ![requests[q].user].version = @ + 1]
  /\ torn' = torn \ {requests[q].user}
  /\ Wrote(q, "version")
  /\ UNCHANGED <<roles, grants, permVersion, tokens, mints, bypassed, tornGrants, faults>>

BumpTokenVersion(q) ==
  /\ Todo(q) = {"version"}
  /\ users' = [users EXCEPT ![requests[q].user].version = @ + 1]
  /\ torn' = torn \ {requests[q].user}
  /\ Wrote(q, "version")
  /\ UNCHANGED <<roles, grants, permVersion, tokens, mints, bypassed, tornGrants, faults>>

\* provision: an active account with the role that was looked up.
InsertUser(q) ==
  /\ "row" \in Todo(q)
  /\ users[requests[q].user].status = "absent" /\ roles[requests[q].role] = "present"
  /\ users' = [users EXCEPT ![requests[q].user] =
                 [status |-> "active", role |-> requests[q].role, version |-> 0]]
  /\ Wrote(q, "row")
  /\ UNCHANGED <<roles, grants, permVersion, tokens, mints, history>>

\* team.upsert: the team view knows two roles only, and writes back the role
\* and status it read; no guard is asked and no counter bumped.
TeamRole(r) ==
  IF r.op = "invite" THEN r.role
  ELSE IF r.seen.role = AdminRole THEN AdminRole ELSE ReviewerRole
TeamStatus(r) == IF r.seen.status = "absent" THEN "invited" ELSE r.seen.status

PutMember(q) ==
  /\ "member" \in Todo(q)
  /\ LET r == requests[q]
         row == [users[r.user] EXCEPT !.role = TeamRole(r), !.status = TeamStatus(r)]
     IN  /\ users' = [users EXCEPT ![r.user] = row]
         /\ bypassed' = IF users[r.user].status = "absent" \/ users[r.user] = row
                        THEN bypassed ELSE bypassed \cup {r.user}
  /\ Wrote(q, "member")
  /\ UNCHANGED <<roles, grants, permVersion, tokens, mints, torn, tornGrants, faults>>

InsertRole(q) ==
  /\ "insert" \in Todo(q)
  /\ roles[requests[q].role] = "unborn"
  /\ roles' = [roles EXCEPT ![requests[q].role] = "present"]
  /\ Wrote(q, "insert")
  /\ UNCHANGED <<users, grants, permVersion, tokens, mints, history>>

\* rolePermissions.setForRole: the whole set is replaced in one transaction.
SetGrants(q) ==
  /\ "grants" \in Todo(q) /\ "insert" \notin Todo(q)
  /\ roles[requests[q].role] = "present" \/ requests[q].perms = {}
  /\ grants' = [grants EXCEPT ![requests[q].role] = requests[q].perms]
  /\ Wrote(q, "grants")
  /\ UNCHANGED <<users, roles, permVersion, tokens, mints, history>>

\* The foreign key from users refuses it, that from role_permissions cascades.
DeleteRole(q) ==
  /\ "delete" \in Todo(q) /\ "grants" \notin Todo(q)
  /\ \A u \in Users : users[u].status # "absent" => users[u].role # requests[q].role
  /\ roles' = [roles EXCEPT ![requests[q].role] = "deleted"]
  /\ grants' = [grants EXCEPT ![requests[q].role] = {}]
  /\ Wrote(q, "delete")
  /\ UNCHANGED <<users, permVersion, tokens, mints, history>>

\* Mutant: the bump need not wait for the new grants.
BumpPermVersionEarly(q) ==
  /\ "perms" \in Todo(q)
  /\ permVersion' = permVersion + 1
  /\ tornGrants' = FALSE
  /\ Wrote(q, "perms")
  /\ UNCHANGED <<users, roles, grants, tokens, mints, bypassed, torn, faults>>

BumpPermVersion(q) ==
  /\ Todo(q) = {"perms"}
  /\ permVersion' = permVersion + 1
  /\ tornGrants' = FALSE
  /\ Wrote(q, "perms")
  /\ UNCHANGED <<users, roles, grants, tokens, mints, bypassed, torn, faults>>

\* What a request that stops here has written without the bump that goes with it.
UserUnbumped(q) == "version" \in Todo(q) /\ "role" \notin Todo(q)
GrantsUnbumped(q) == "perms" \in Todo(q) /\ "grants" \notin Todo(q)

Abort(q) ==
  /\ Finish(q)
  /\ torn' = IF UserUnbumped(q) THEN torn \cup {requests[q].user} ELSE torn
  /\ tornGrants' = (tornGrants \/ GrantsUnbumped(q))
  /\ UNCHANGED <<tables, tokens, mints, bypassed>>

\* A foreign key or a unique index refuses a write.
Violates(q) ==
  LET r == requests[q] IN
  \/ "role" \in Todo(q) /\ roles[r.role] # "present"
  \/ "row" \in Todo(q) /\ (users[r.user].status # "absent" \/ roles[r.role] # "present")
  \/ "insert" \in Todo(q) /\ roles[r.role] # "unborn"
  \/ "grants" \in Todo(q) /\ "insert" \notin Todo(q) /\ roles[r.role] # "present" /\ r.perms # {}
  \/ /\ "delete" \in Todo(q) /\ "grants" \notin Todo(q)
     /\ \E u \in Users : users[u].status # "absent" /\ users[u].role = r.role
Constraint(q) == Violates(q) /\ Abort(q) /\ UNCHANGED faults

\* A call fails after its retries, or the process dies.
Fail(q) ==
  /\ ~At(q, "idle")
  /\ faults < MaxFaults
  /\ faults' = faults + 1
  /\ Abort(q)

-----------------------------------------------------------------------------
\* History: who holds what changes under the requests of others.
Changed == grants' # grants \/ \E u \in Users : ViewOf(users[u])' # ViewOf(users[u])
Decided(q) == Todo(q) \cap {"role", "status", "grants"} # {}

Crossing(q) ==
  /\ crossed' = {p \in Requests : requests'[p].stage # "idle" /\ (p \in crossed \/ (p # q /\ Changed))}
  /\ outrun' = (outrun \/ (q \in crossed /\ Decided(q) /\ Changed))

MintStep(m) == (\E u \in Users : ReadUser(m, u)) \/ ReadClaims(m) \/ Sign(m) \/ GiveUp(m)

Start(q) ==
  /\ At(q, "idle")
  /\ \/ \E u \in Users, given \in SUBSET Fields, role \in Roles, status \in Status :
          StartUpdateUser(q, u, given, role, status)
     \/ \E u \in Users : StartOwnPassword(q, u) \/ StartRename(q, u)
     \/ \E u \in Users, role \in Roles : StartProvision(q, u, role) \/ StartInvite(q, u, role)
     \/ \E op \in RoleOps, role \in Roles, perms \in SUBSET Perms :
          StartRoleEdit(q, op, role, perms)

Read(q) ==
  \/ LoadUser(q) \/ PickRole(q) \/ LoadRole(q) \/ CountUsers(q) \/ CheckEmail(q) \/ Weigh(q)
  \/ \E table \in {"users", "grants"} : Listed(q, table)
  \/ Decide(q)

Write(q) ==
  \/ SetRole(q) \/ SetStatus(q) \/ BumpTokenVersion(q) \/ InsertUser(q) \/ PutMember(q)
  \/ InsertRole(q) \/ SetGrants(q) \/ DeleteRole(q) \/ BumpPermVersion(q)
  \/ Constraint(q) \/ Fail(q)

Next ==
  \/ (\E m \in Mints : MintStep(m)) /\ UNCHANGED <<crossed, outrun>>
  \/ (\E t \in tokens : Expire(t)) /\ UNCHANGED <<crossed, outrun>>
  \/ \E q \in Requests : (Start(q) \/ Read(q) \/ Write(q)) /\ Crossing(q)

Spec == Init /\ [][Next]_vars

-----------------------------------------------------------------------------
(* Properties.                                                              *)

\* Every table, token, mint and request has its type.
TypeOK ==
  /\ users \in [Users -> Row]
  /\ roles \in [Roles -> {"unborn", "present", "deleted"}]
  /\ grants \in [Roles -> SUBSET Perms]
  /\ permVersion \in Nat
  /\ tokens \subseteq Token
  /\ mints \in [Mints -> Mint]
  /\ requests \in [Requests -> Request]
  /\ bypassed \subseteq Users /\ torn \subseteq Users
  /\ tornGrants \in BOOLEAN
  /\ crossed \subseteq Requests /\ outrun \in BOOLEAN
  /\ faults \in Nat

\* Somebody can always administer: each critical permission has an active
\* holder, at every instant between the writes of a request too.  This is what
\* the last-admin guards of ManageRolesUseCase are for.  They read and check before
\* they write: two requests that overlap may each demote the administrator the other
\* one counted, so it is claimed until a request writes what it decided on before
\* another one changed a role, a status or grants; and the team view's upsert asks no
\* guard, so it is claimed until that has overwritten somebody.
AdministrationSurvives ==
  bypassed = {} /\ ~outrun =>
    \A perm \in Critical : \E u \in Users : Holds(users, grants, u, perm)

\* token_version works: a token that still matches its user's version was
\* issued for the role the user has, unless the request that changed the role
\* has not come to its bump (or died before it).
TokensFollowUser ==
  \A t \in tokens :
    t.version = users[t.user].version /\ t.role # users[t.user].role =>
      \/ t.user \in torn \cup bypassed
      \/ \E q \in Requests : requests[q].user = t.user /\ UserUnbumped(q)

\* perm_version works: a token trusted for its own permissions carries those
\* its role has, unless the edit of that role has not come to its bump, or an
\* edit committed between the two statements that read the token's claims.
TokensFollowGrants ==
  \A t \in tokens :
    t.readAt = permVersion /\ t.permVersion = permVersion /\ t.perms # grants[t.role] =>
      \/ tornGrants
      \/ \E q \in Requests : requests[q].role = t.role /\ GrantsUnbumped(q)
=============================================================================
