----------------------------- MODULE AccountTables -----------------------------
(***************************************************************************)
(* users, roles, role_permissions and auth_meta in both adapters, with the *)
(* Team screen as a projection of users.  Postgres has foreign keys and    *)
(* unique names; the Maps of the in-memory adapter have neither, so the    *)
(* comparison ends where a constraint has refused a write.                 *)
(***************************************************************************)
EXTENDS Tables

CONSTANTS
  UserRows,    \* the rows a user is inserted as or rewritten to
  RoleRows,    \* the rows a role is inserted as or rewritten to
  SystemRoles, \* the roles the migrations seed, a subset of RoleRows
  Grants,      \* permission keys
  Names,       \* the names of users and roles, in alphabetical order
  MaxCount     \* bounds the counters, locks and new passwords, all together

VARIABLES
  pgUsers, pgRoles,   \* sets of rows
  pgGrants,           \* pairs of a role id and a permission
  memUsers, memRoles, \* sequences of rows
  memGrants,          \* by role id, the granted keys
  permVersions,       \* the counter of auth_meta, by adapter
  accountAnswer,      \* what the last write returned, by adapter
  accountRefused      \* history: did a constraint of Postgres refuse a write?

accountTableVars == <<pgUsers, pgRoles, pgGrants, memUsers, memRoles, memGrants, permVersions, accountAnswer, accountRefused>>

RoleIds == {r.id : r \in RoleRows}
UserIds == {u.id : u \in UserRows}
TeamRoles == {"admin", "reviewer"}
NotLocked == 0
UserStatuses == {"invited", "active", "disabled"}

UserRow == [id: UserIds, email: STRING, name: STRING, role: RoleIds, status: UserStatuses, hash: {"none", "old", "new"},
            version: 0..MaxCount, failed: 0..MaxCount, locked: 0..1]
RoleRow == [id: RoleIds, name: STRING, description: STRING, is_system: BOOLEAN]

\* Ids are numbers, every name has a place in the alphabet, no account is made with
\* a changed password, and the roles that are seeded differ in id and in name.
ASSUME AccountTablesAssumption ==
  /\ MaxCount \in Nat /\ Names \in Seq(STRING)
  /\ UserRows \subseteq [id: Nat, email: STRING, name: STRING, role: Nat, status: UserStatuses, hash: {"none", "old"}]
  /\ RoleRows \subseteq [id: Nat, name: STRING, description: STRING, is_system: BOOLEAN]
  /\ \A x \in UserRows \cup RoleRows : \E i \in DOMAIN Names : Names[i] = x.name
  /\ SystemRoles \subseteq RoleRows /\ IsFiniteSet(SystemRoles)
  /\ \A r, s \in SystemRoles : r.id = s.id \/ r.name = s.name => r = s

\* The constructor seeds what the migrations install.
AccountTablesInit ==
  /\ pgUsers = {} /\ memUsers = <<>>
  /\ pgRoles = SystemRoles /\ memRoles = SetToSeq(SystemRoles)
  /\ pgGrants = {r.id : r \in SystemRoles} \X Grants
  /\ memGrants = [id \in {r.id : r \in SystemRoles} |-> Grants]
  /\ permVersions = <<0, 0>> /\ accountAnswer = <<0, 0>> /\ accountRefused = FALSE

\* A write of users: each side's new rows and whether a constraint stands against it.
WriteUsers(pg, mem, refused) ==
  /\ pgUsers' = IF refused THEN pgUsers ELSE pg
  /\ memUsers' = mem
  /\ accountRefused' = refused
  /\ UNCHANGED <<pgRoles, pgGrants, memRoles, memGrants, permVersions>>

WriteRoles(pg, mem, refused) ==
  /\ pgRoles' = IF refused THEN pgRoles ELSE pg
  /\ memRoles' = mem
  /\ accountRefused' = refused
  /\ accountAnswer' = <<0, 0>>
  /\ UNCHANGED <<pgUsers, memUsers, permVersions>>

Silent == accountAnswer' = <<0, 0>>

Spent == permVersions[1] + MapThenSumSet(LAMBDA v : v.version + v.failed + v.locked + (IF v.hash = "new" THEN 1 ELSE 0), pgUsers)

-----------------------------------------------------------------------------
(* users.                                                                   *)

Signup(u) == [id |-> u.id, email |-> u.email, name |-> u.name, role |-> u.role, status |-> u.status,
              hash |-> u.hash, version |-> 0, failed |-> 0, locked |-> NotLocked]

InsertUser(u) ==
  /\ u.id \notin {v.id : v \in pgUsers}
  /\ WriteUsers(pgUsers \cup {Signup(u)}, Put(memUsers, "email", Signup(u)),
                u.email \in {v.email : v \in pgUsers} \/ u.role \notin {r.id : r \in pgRoles})
  /\ Silent

\* An UPDATE of one column, by id; there the column, here the row of the Map.
Assign(id, F(_), refused) ==
  WriteUsers(Update(pgUsers, LAMBDA v : v.id = id, F), Rewrite(memUsers, LAMBDA v : v.id = id, F), refused)

SetUserRole(id, role) == Assign(id, LAMBDA v : [v EXCEPT !.role = role], role \notin {r.id : r \in pgRoles}) /\ Silent
SetUserStatus(id, status) == Assign(id, LAMBDA v : [v EXCEPT !.status = status], FALSE) /\ Silent
UpdatePasswordHash(id) == Spent < MaxCount /\ Assign(id, LAMBDA v : [v EXCEPT !.hash = "new"], FALSE) /\ Silent
SetLock(id, until) == Spent < MaxCount /\ Assign(id, LAMBDA v : [v EXCEPT !.locked = until], FALSE) /\ Silent
RecordLogin(id) == Assign(id, LAMBDA v : [v EXCEPT !.failed = 0, !.locked = NotLocked], FALSE) /\ Silent

PgFind(id) == One(Select(pgUsers, LAMBDA v : v.id = id))
MemFind(id) == FirstOf(Scan(memUsers, LAMBDA v : v.id = id))
OrZero(row, field) == IF row = NoRow THEN 0 ELSE row[field]

\* RETURNING the counter; zero when no row was met.
BumpTokenVersion(id) ==
  /\ Spent < MaxCount
  /\ Assign(id, LAMBDA v : [v EXCEPT !.version = @ + 1], FALSE)
  /\ accountAnswer' = <<OrZero(PgFind(id)', "version"), OrZero(MemFind(id)', "version")>>

CountFailedLogin(id) ==
  /\ Spent < MaxCount
  /\ Assign(id, LAMBDA v : [v EXCEPT !.failed = @ + 1], FALSE)
  /\ accountAnswer' = <<OrZero(PgFind(id)', "failed"), OrZero(MemFind(id)', "failed")>>

-----------------------------------------------------------------------------
(* The Team screen writes users by email, with a role by name.              *)

RoleNamed(name) == One(Select(pgRoles, LAMBDA r : r.name = name))
MemRoleNamed(name) == FirstOf(Scan(memRoles, LAMBDA r : r.name = name))

PgTeamUpsert(m, role) ==
  IF \E v \in pgUsers : v.email = m.email
  THEN Update(pgUsers, LAMBDA v : v.email = m.email, LAMBDA v : [v EXCEPT !.name = m.name, !.role = role, !.status = m.status])
  ELSE pgUsers \cup {[Signup(m) EXCEPT !.role = role, !.hash = "none"]}

\* Mutant: every update from the screen is a person of its own.
MemUpsertProjectionTwice(m, role) == Append(memUsers, [Signup(m) EXCEPT !.role = role, !.hash = "none"])

MemUpsertProjection(m, role) ==
  LET known == FirstOf(Scan(memUsers, LAMBDA v : v.email = m.email))
  IN  Put(memUsers, "email", IF known = NoRow THEN [Signup(m) EXCEPT !.role = role, !.hash = "none"]
                             ELSE [known EXCEPT !.name = m.name, !.role = role, !.status = m.status])

\* An unknown role name throws on both sides.
TeamUpsert(m, name) ==
  /\ m.id \notin {v.id : v \in pgUsers} \/ \E v \in pgUsers : v.id = m.id /\ v.email = m.email
  /\ RoleNamed(name) # NoRow
  /\ WriteUsers(PgTeamUpsert(m, RoleNamed(name).id), MemUpsertProjection(m, MemRoleNamed(name).id), FALSE)
  /\ Silent

-----------------------------------------------------------------------------
(* roles and role_permissions.                                              *)

InsertRole(r) ==
  /\ r.id \notin {s.id : s \in pgRoles}
  /\ WriteRoles(pgRoles \cup {r}, Put(memRoles, "id", r), r.name \in {s.name : s \in pgRoles})
  /\ UNCHANGED <<pgGrants, memGrants>>

\* CASE WHEN is_system THEN name: a system role is never renamed.
PgRenamed(s, r) == [s EXCEPT !.name = IF s.is_system THEN s.name ELSE r.name, !.description = r.description]

\* Mutant: the boundary takes the name it is given.
MemRenamedAnyway(s, r) == r
MemRenamed(s, r) == [r EXCEPT !.name = IF s.is_system THEN s.name ELSE r.name]

\* The callers pass on the is_system they read.
UpdateRole(r) ==
  /\ \E s \in pgRoles : s.id = r.id /\ s.is_system = r.is_system
  /\ WriteRoles(Update(pgRoles, LAMBDA s : s.id = r.id, LAMBDA s : PgRenamed(s, r)),
                Rewrite(memRoles, LAMBDA s : s.id = r.id, LAMBDA s : MemRenamed(s, r)),
                \E s, t \in pgRoles : s.id = r.id /\ t.id # r.id /\ t.name = PgRenamed(s, r).name)
  /\ UNCHANGED <<pgGrants, memGrants>>

\* Postgres cascades to the grants; the one caller has cleared them first.
DeleteRole(id) ==
  /\ ~\E g \in Grants : <<id, g>> \in pgGrants
  /\ WriteRoles({r \in pgRoles : r.id # id}, Scan(memRoles, LAMBDA r : r.id # id), id \in {v.role : v \in pgUsers})
  /\ pgGrants' = IF accountRefused' THEN pgGrants ELSE {p \in pgGrants : p[1] # id}
  /\ UNCHANGED memGrants

\* Deleted and inserted in one transaction; an unknown role breaks the foreign key.
SetForRole(id, keys) ==
  LET refused == keys # {} /\ id \notin {r.id : r \in pgRoles}
  IN  /\ pgGrants' = IF refused THEN pgGrants ELSE {p \in pgGrants : p[1] # id} \cup ({id} \X keys)
      /\ memGrants' = [i \in DOMAIN memGrants \cup {id} |-> IF i = id THEN keys ELSE memGrants[i]]
      /\ accountRefused' = refused
      /\ Silent
      /\ UNCHANGED <<pgUsers, pgRoles, memUsers, memRoles, permVersions>>

\* An upsert that casts the text, adds one and returns it; a field that is counted up.
BumpPermVersion ==
  /\ Spent < MaxCount
  /\ permVersions' = <<permVersions[1] + 1, permVersions[2] + 1>>
  /\ accountAnswer' = permVersions'
  /\ UNCHANGED <<pgUsers, pgRoles, pgGrants, memUsers, memRoles, memGrants, accountRefused>>

AccountTablesNext ==
  /\ ~accountRefused
  /\ \/ \E u \in UserRows : InsertUser(u) \/ \E name \in TeamRoles : TeamUpsert(u, name)
     \/ \E id \in UserIds : \/ \E role \in RoleIds : SetUserRole(id, role)
                            \/ SetUserStatus(id, "disabled") \/ UpdatePasswordHash(id) \/ SetLock(id, 1)
                            \/ RecordLogin(id) \/ BumpTokenVersion(id) \/ CountFailedLogin(id)
     \/ \E r \in RoleRows : InsertRole(r) \/ UpdateRole(r)
     \/ \E id \in RoleIds : DeleteRole(id) \/ \E keys \in SUBSET Grants : SetForRole(id, keys)
     \/ BumpPermVersion

AccountTablesSpec == AccountTablesInit /\ [][AccountTablesNext]_accountTableVars

-----------------------------------------------------------------------------
(* Reads.                                                                   *)

Place(name) == CHOOSE i \in DOMAIN Names : Names[i] = name
ByName(a, b) == Place(a.name) < Place(b.name) \/ (a.name = b.name /\ a.id < b.id)

PgListUsers == InOrder(pgUsers, ByName)
MemListUsers == StableSort(memUsers, ByName)

PgListRoles == InOrder(pgRoles, ByName)
MemListRoles == StableSort(memRoles, ByName)

PgCountUsers(role) == Cardinality(Select(pgUsers, LAMBDA v : v.role = role))
MemCountUsers(role) == FoldLeft(LAMBDA n, v : IF v.role = role THEN n + 1 ELSE n, 0, memUsers)

PgPermissionsForRole(id) == {g \in Grants : <<id, g>> \in pgGrants}
MemPermissionsForRole(id) == IF id \in DOMAIN memGrants THEN memGrants[id] ELSE {}

MemListGrants == UNION {{id} \X memGrants[id] : id \in DOMAIN memGrants}

\* The three reads of a token's claims; an unknown role has no name and no permission.
PgClaimInputs(id) ==
  [permissions |-> PgPermissionsForRole(id), permVersion |-> permVersions[1],
   roleName    |-> LET r == One(Select(pgRoles, LAMBDA s : s.id = id)) IN IF r = NoRow THEN Unset ELSE r.name]
MemClaimInputs(id) ==
  [permissions |-> MemPermissionsForRole(id), permVersion |-> permVersions[2],
   roleName    |-> LET r == FirstOf(Scan(memRoles, LAMBDA s : s.id = id)) IN IF r = NoRow THEN Unset ELSE r.name]

\* users LEFT JOIN roles: what is not admin shows as reviewer.
PgProject(v) ==
  LET r == One(Select(pgRoles, LAMBDA s : s.id = v.role))
  IN  IF r # NoRow /\ r.name = "admin" THEN "admin" ELSE "reviewer"

\* The role's own name is parsed: one the enum does not know throws.
MemProject(v) ==
  LET r == FirstOf(Scan(memRoles, LAMBDA s : s.id = v.role))
      name == IF r = NoRow THEN "reviewer" ELSE r.name
  IN  IF name \in TeamRoles THEN name ELSE "throws"

-----------------------------------------------------------------------------
\* Both adapters hold the same accounts.
AccountTablesTypeOK ==
  /\ \A v \in pgUsers : v \in UserRow
  /\ \A r \in pgRoles : r \in RoleRow
  /\ pgGrants \subseteq RoleIds \X Grants
  /\ permVersions \in (0..MaxCount) \X (0..MaxCount)
  /\ ~accountRefused => Len(memUsers) = Cardinality(pgUsers) /\ Len(memRoles) = Cardinality(pgRoles)

\* Whoever the tests sign in, Postgres signs in: after any writes its constraints
\* accept, both adapters hold the same users (hash, counters and lock included)
\* and roles, mint the same claims for every role id, a deleted one too, count
\* the same holders of a role, return the same counters, never rename a system
\* role, and list in the same order.  The Team screen shows the same roles,
\* except that the in-memory projection throws on a role of the operators' own.
AccountsAgree ==
  ~accountRefused =>
    /\ accountAnswer[1] = accountAnswer[2]
    /\ PgListUsers = MemListUsers
    /\ PgListRoles = MemListRoles
    /\ \A id \in UserIds : PgFind(id) = MemFind(id)
    /\ \A id \in RoleIds : PgClaimInputs(id) = MemClaimInputs(id) /\ PgCountUsers(id) = MemCountUsers(id)
    /\ MemListGrants = pgGrants
    /\ \A v \in pgUsers : \/ MemProject(v) = PgProject(v)
                          \/ /\ MemProject(v) = "throws"
                             /\ \E r \in pgRoles : r.id = v.role /\ r.name \notin TeamRoles
=============================================================================
