--------------------------- MODULE AccountsProofs ---------------------------
(***************************************************************************)
(* Proofs about Accounts for any number of users, roles, permissions,      *)
(* sign-ins and administration requests: its types, that the two version   *)
(* counters make stale tokens recognisable, and that somebody can always   *)
(* administer until a request writes what others outran.                   *)
(***************************************************************************)
EXTENDS Accounts, TLAPS

-----------------------------------------------------------------------------
(* Types.                                                                   *)

\* The constant records have their types.
LEMMA ConstantTypes ==
  /\ NoRow \in Row /\ ViewOf(NoRow) \in View
  /\ NoRows \in [Users -> View] /\ NoGrants \in [Roles -> SUBSET Perms]
  /\ Idle \in Request /\ NoMint \in Mint
<1>1. NoRow \in Row /\ ViewOf(NoRow) \in View
  BY AccountsAssumption DEF NoRow, Row, ViewOf, View, Status
<1>2. NoRows \in [Users -> View] /\ NoGrants \in [Roles -> SUBSET Perms]
  BY <1>1 DEF NoRows, NoGrants
<1>3. Idle \in Request
  BY <1>1, <1>2, AccountsAssumption DEF Idle, Request, AllActs, Stages, Status, Fields, Writes
<1>4. NoMint \in Mint
  BY AccountsAssumption DEF NoMint, Mint
<1> QED BY <1>1, <1>2, <1>3, <1>4

\* The view of a typed row is typed.
LEMMA ViewType ==
  ASSUME TypeOK, NEW u \in Users
  PROVE  ViewOf(users[u]) \in View
BY DEF TypeOK, Row, ViewOf, View

\* A step that sets one request to a typed record keeps the requests typed.
LEMMA SetType ==
  ASSUME TypeOK, NEW q \in Requests, NEW r \in Request, Set(q, r)
  PROVE  requests' \in [Requests -> Request]
BY DEF TypeOK, Set

\* So do the usual ends of a reading step.
LEMMA StageType ==
  ASSUME TypeOK, NEW q \in Requests
  PROVE  /\ \A stage \in Stages : Goto(q, stage) => requests' \in [Requests -> Request]
         /\ \A todo \in SUBSET Writes : Commit(q, todo) => requests' \in [Requests -> Request]
         /\ \A w \in Writes : Wrote(q, w) => requests' \in [Requests -> Request]
         /\ Finish(q) => requests' \in [Requests -> Request]
<1>1. requests[q] \in Request
  BY DEF TypeOK
<1>2. \A stage \in Stages : [requests[q] EXCEPT !.stage = stage] \in Request
  BY <1>1 DEF Request
<1>3. \A todo \in SUBSET Writes :
        [requests[q] EXCEPT !.stage = "write", !.todo = todo, !.listed = {},
                            !.rows = NoRows, !.held = NoGrants, !.gained = {}] \in Request
  BY <1>1, ConstantTypes DEF Request, Stages
<1>4. \A w \in Writes : [requests[q] EXCEPT !.todo = @ \ {w}] \in Request
  BY <1>1 DEF Request
<1> QED BY <1>2, <1>3, <1>4, ConstantTypes, SetType DEF Goto, Commit, Wrote, Finish

\* A sign-in, a refresh or an expiry keeps every type.
LEMMA MintType ==
  ASSUME TypeOK, (\E m \in Mints : MintStep(m)) \/ (\E t \in tokens : Expire(t)),
         crossed' \in SUBSET Requests, outrun' \in BOOLEAN
  PROVE  TypeOK'
<1>1. ASSUME NEW m \in Mints, NEW u \in Users, ReadUser(m, u) PROVE TypeOK'
  <2>1. [mints[m] EXCEPT !.stage = "user", !.user = u, !.role = users[u].role,
                         !.version = users[u].version] \in Mint
    BY DEF TypeOK, Mint, Row
  <2> QED BY <1>1, <2>1 DEF ReadUser, TypeOK, tables, history
<1>2. ASSUME NEW m \in Mints, ReadClaims(m) PROVE TypeOK'
  <2>1. [mints[m] EXCEPT !.stage = "perms", !.perms = grants[mints[m].role],
                         !.readAt = permVersion] \in Mint
    BY DEF TypeOK, Mint
  <2> QED BY <1>2, <2>1 DEF ReadClaims, TypeOK, tables, history
<1>3. ASSUME NEW m \in Mints, Sign(m) PROVE TypeOK'
  <2>1. [user |-> mints[m].user, role |-> mints[m].role, perms |-> mints[m].perms,
         version |-> mints[m].version, permVersion |-> permVersion,
         readAt |-> mints[m].readAt] \in Token
    BY DEF TypeOK, Mint, Token
  <2> QED BY <1>3, <2>1, ConstantTypes DEF Sign, TypeOK, tables, history
<1>4. ASSUME NEW m \in Mints, GiveUp(m) PROVE TypeOK'
  BY <1>4, ConstantTypes DEF GiveUp, TypeOK, tables, history
<1>5. ASSUME NEW t \in tokens, Expire(t) PROVE TypeOK'
  BY <1>5 DEF Expire, TypeOK, tables, history
<1> QED BY <1>1, <1>2, <1>3, <1>4, <1>5 DEF MintStep

\* The request a start puts in place is typed, and about to load.
LEMMA StartShape ==
  ASSUME TypeOK, NEW q \in Requests, Start(q)
  PROVE  /\ \E r \in Request : r.stage = "load" /\ r.todo = {} /\ r.listed = {} /\ Set(q, r)
         /\ requests[q].stage = "idle"
         /\ UNCHANGED <<tables, tokens, mints, history>>
<1> DEFINE Good(r) == r \in Request /\ r.todo = {} /\ r.listed = {}
<1>1. \A r : Good(r) /\ Begin(q, r) =>
        /\ \E x \in Request : x.stage = "load" /\ x.todo = {} /\ x.listed = {} /\ Set(q, x)
        /\ UNCHANGED <<tables, tokens, mints, history>>
  <2>1. SUFFICES ASSUME NEW r, Good(r), Begin(q, r)
                 PROVE  /\ \E x \in Request :
                             x.stage = "load" /\ x.todo = {} /\ x.listed = {} /\ Set(q, x)
                        /\ UNCHANGED <<tables, tokens, mints, history>>
    OBVIOUS
  <2>2. LET x == [r EXCEPT !.stage = "load"] IN
          x \in Request /\ x.stage = "load" /\ x.todo = {} /\ x.listed = {}
    BY <2>1 DEF Request, Stages
  <2> QED BY <2>1, <2>2 DEF Begin, Set
<1>2. ASSUME NEW u \in Users, NEW given \in SUBSET Fields, NEW role \in Roles, NEW status \in Status,
             StartUpdateUser(q, u, given, role, status)
      PROVE  \E r : Good(r) /\ Begin(q, r)
  <2>1. Good([Idle EXCEPT !.op = "updateUser", !.user = u, !.given = given,
                          !.role = role, !.status = status])
    BY ConstantTypes DEF Request, Idle, AllActs
  <2> QED BY <1>2, <2>1 DEF StartUpdateUser
<1>3. ASSUME NEW u \in Users, StartOwnPassword(q, u) PROVE \E r : Good(r) /\ Begin(q, r)
  <2>1. Good([Idle EXCEPT !.op = "ownPassword", !.user = u, !.given = {"password"}])
    BY ConstantTypes DEF Request, Idle, AllActs, Fields
  <2> QED BY <1>3, <2>1 DEF StartOwnPassword
<1>4. ASSUME NEW u \in Users, StartRename(q, u) PROVE \E r : Good(r) /\ Begin(q, r)
  <2>1. Good([Idle EXCEPT !.op = "rename", !.user = u])
    BY ConstantTypes DEF Request, Idle, AllActs
  <2> QED BY <1>4, <2>1 DEF StartRename
<1>5. ASSUME NEW u \in Users, NEW role \in Roles, StartProvision(q, u, role)
      PROVE  \E r : Good(r) /\ Begin(q, r)
  <2>1. Good([Idle EXCEPT !.op = "provision", !.user = u, !.role = role])
    BY ConstantTypes DEF Request, Idle, AllActs
  <2> QED BY <1>5, <2>1 DEF StartProvision
<1>6. ASSUME NEW u \in Users, NEW role \in Roles, StartInvite(q, u, role)
      PROVE  \E r : Good(r) /\ Begin(q, r)
  <2>1. Good([Idle EXCEPT !.op = "invite", !.user = u, !.role = role])
    BY ConstantTypes DEF Request, Idle, AllActs
  <2> QED BY <1>6, <2>1 DEF StartInvite
<1>7. ASSUME NEW op \in RoleOps, NEW role \in Roles, NEW perms \in SUBSET Perms,
             StartRoleEdit(q, op, role, perms)
      PROVE  \E r : Good(r) /\ Begin(q, r)
  <2>1. Good([Idle EXCEPT !.op = op, !.role = role, !.perms = perms])
    BY ConstantTypes DEF Request, Idle, AllActs, RoleOps
  <2> QED BY <1>7, <2>1 DEF StartRoleEdit
<1>8. \E r : Good(r) /\ Begin(q, r)
  BY <1>2, <1>3, <1>4, <1>5, <1>6, <1>7 DEF Start
<1>9. requests[q].stage = "idle"
  BY DEF Start, At
<1> QED BY <1>1, <1>8, <1>9

\* A reading step keeps every type.
LEMMA ReadType ==
  ASSUME TypeOK, NEW q \in Requests, Read(q),
         crossed' \in SUBSET Requests, outrun' \in BOOLEAN
  PROVE  TypeOK'
<1>0. requests[q] \in Request
  BY DEF TypeOK
<1>1. CASE LoadUser(q)
  <2>1. LET r == requests[q]  row == ViewOf(users[r.user]) IN
          [r EXCEPT !.seen = row,
                    !.stage = IF r.op = "updateUser" THEN "role" ELSE "write",
                    !.todo = IF r.op \in TeamOps THEN {"member"}
                             ELSE IF r.op = "ownPassword" THEN {"version"} ELSE {}] \in Request
    <3>1. ViewOf(users[requests[q].user]) \in View
      BY <1>0, ViewType DEF Request
    <3> QED BY <1>0, <3>1 DEF Request, Stages, Writes
  <2>2. requests' \in [Requests -> Request]
    BY <1>1, <2>1, SetType, StageType DEF LoadUser
  <2> QED BY <1>1, <2>2 DEF LoadUser, Reading, TypeOK, tables, history
<1>2. CASE PickRole(q)
  <2>1. requests' \in [Requests -> Request]
    BY <1>2, StageType DEF PickRole, Stages
  <2> QED BY <1>2, <2>1 DEF PickRole, Reading, TypeOK, tables, history
<1>3. CASE LoadRole(q)
  <2>1. requests' \in [Requests -> Request]
    BY <1>3, StageType DEF LoadRole, Stages, Writes
  <2> QED BY <1>3, <2>1 DEF LoadRole, Reading, TypeOK, tables, history
<1>4. CASE CountUsers(q)
  <2>1. requests' \in [Requests -> Request]
    BY <1>4, StageType DEF CountUsers, Writes
  <2> QED BY <1>4, <2>1 DEF CountUsers, Reading, TypeOK, tables, history
<1>5. CASE CheckEmail(q)
  <2>1. requests' \in [Requests -> Request]
    BY <1>5, StageType DEF CheckEmail, Writes
  <2> QED BY <1>5, <2>1 DEF CheckEmail, Reading, TypeOK, tables, history
<1>6. CASE Weigh(q)
  <2>1. [requests[q] EXCEPT !.gained = grants[requests[q].role],
           !.stage = IF requests[q].op = "updateUser" THEN "list" ELSE "decide"] \in Request
    BY <1>0 DEF Request, Stages, TypeOK
  <2>2. requests' \in [Requests -> Request]
    BY <1>6, <2>1, SetType DEF Weigh
  <2> QED BY <1>6, <2>2 DEF Weigh, Reading, TypeOK, tables, history
<1>7. ASSUME NEW table \in {"users", "grants"}, Listed(q, table) PROVE TypeOK'
  <2>1. [u \in Users |-> ViewOf(users[u])] \in [Users -> View] /\ grants \in [Roles -> SUBSET Perms]
    BY ViewType DEF TypeOK
  <2>2. LET r == requests[q]  listed == r.listed \cup {table} IN
          [r EXCEPT !.listed = listed,
                    !.rows = IF table = "users" THEN [u \in Users |-> ViewOf(users[u])] ELSE @,
                    !.held = IF table = "grants" THEN grants ELSE @,
                    !.stage = IF listed # {"users", "grants"} THEN "list"
                              ELSE IF r.op = "updateRole" THEN "gain" ELSE "decide"] \in Request
    BY <1>0, <2>1 DEF Request, Stages
  <2>3. requests' \in [Requests -> Request]
    BY <1>7, <2>2, SetType DEF Listed
  <2> QED BY <1>7, <2>3 DEF Listed, Reading, TypeOK, tables, history
<1>8. CASE Decide(q)
  <2>1. PatchWrites(requests[q]) \in SUBSET Writes /\ {"grants", "perms"} \in SUBSET Writes
    BY DEF PatchWrites, Writes
  <2>2. requests' \in [Requests -> Request]
    BY <1>8, <2>1, StageType DEF Decide
  <2> QED BY <1>8, <2>2 DEF Decide, Reading, TypeOK, tables, history
<1> QED BY <1>1, <1>2, <1>3, <1>4, <1>5, <1>6, <1>7, <1>8 DEF Read

\* A write keeps every type.
LEMMA WriteType ==
  ASSUME TypeOK, NEW q \in Requests, Write(q),
         crossed' \in SUBSET Requests, outrun' \in BOOLEAN
  PROVE  TypeOK'
<1>0. requests[q] \in Request
  BY DEF TypeOK
<1>1. /\ requests[q].user \in Users /\ requests[q].role \in Roles
      /\ requests[q].status \in Status /\ requests[q].perms \in SUBSET Perms
      /\ requests[q].seen.status \in Status /\ requests[q].seen.role \in Roles
  BY <1>0 DEF Request, View
<1>2. users[requests[q].user] \in Row
  BY <1>1 DEF TypeOK
<1>3. CASE SetRole(q)
  <2>1. requests' \in [Requests -> Request]
    BY <1>3, StageType DEF SetRole, Writes
  <2>2. [users[requests[q].user] EXCEPT !.role = requests[q].role] \in Row
    BY <1>1, <1>2 DEF Row
  <2> QED BY <1>3, <1>1, <2>1, <2>2 DEF SetRole, TypeOK, history
<1>4. CASE SetStatus(q)
  <2>1. requests' \in [Requests -> Request]
    BY <1>4, StageType DEF SetStatus, Writes
  <2>2. [users[requests[q].user] EXCEPT !.status = requests[q].status] \in Row
    BY <1>1, <1>2 DEF Row
  <2> QED BY <1>4, <1>1, <2>1, <2>2 DEF SetStatus, TypeOK, history
<1>5. CASE BumpTokenVersion(q)
  <2>1. requests' \in [Requests -> Request]
    BY <1>5, StageType DEF BumpTokenVersion, Writes
  <2>2. [users[requests[q].user] EXCEPT !.version = @ + 1] \in Row
    BY <1>1, <1>2 DEF Row
  <2> QED BY <1>5, <1>1, <2>1, <2>2 DEF BumpTokenVersion, TypeOK
<1>6. CASE InsertUser(q)
  <2>1. requests' \in [Requests -> Request]
    BY <1>6, StageType DEF InsertUser, Writes
  <2>2. [status |-> "active", role |-> requests[q].role, version |-> 0] \in Row
    BY <1>1 DEF Row, Status
  <2> QED BY <1>6, <1>1, <2>1, <2>2 DEF InsertUser, TypeOK, history
<1>7. CASE PutMember(q)
  <2>1. requests' \in [Requests -> Request]
    BY <1>7, StageType DEF PutMember, Writes
  <2>2. TeamRole(requests[q]) \in Roles /\ TeamStatus(requests[q]) \in Status
    BY <1>1, AccountsAssumption DEF TeamRole, TeamStatus, Status
  <2>3. [users[requests[q].user] EXCEPT !.role = TeamRole(requests[q]),
                                        !.status = TeamStatus(requests[q])] \in Row
    BY <1>2, <2>2 DEF Row
  <2> QED BY <1>7, <1>1, <2>1, <2>3 DEF PutMember, TypeOK
<1>8. CASE InsertRole(q)
  <2>1. requests' \in [Requests -> Request]
    BY <1>8, StageType DEF InsertRole, Writes
  <2> QED BY <1>8, <1>1, <2>1 DEF InsertRole, TypeOK, history
<1>9. CASE SetGrants(q)
  <2>1. requests' \in [Requests -> Request]
    BY <1>9, StageType DEF SetGrants, Writes
  <2> QED BY <1>9, <1>1, <2>1 DEF SetGrants, TypeOK, history
<1>10. CASE DeleteRole(q)
  <2>1. requests' \in [Requests -> Request]
    BY <1>10, StageType DEF DeleteRole, Writes
  <2> QED BY <1>10, <1>1, <2>1 DEF DeleteRole, TypeOK, history
<1>11. CASE BumpPermVersion(q)
  <2>1. requests' \in [Requests -> Request]
    BY <1>11, StageType DEF BumpPermVersion, Writes
  <2>2. tornGrants' \in BOOLEAN
    BY <1>11, Zenon DEF BumpPermVersion
  <2>3. permVersion' \in Nat
    BY <1>11 DEF BumpPermVersion, TypeOK
  <2>4. UNCHANGED <<users, roles, grants, tokens, mints, bypassed, torn, faults>>
    BY <1>11 DEF BumpPermVersion
  <2> QED BY <2>1, <2>2, <2>3, <2>4 DEF TypeOK
<1>12. ASSUME Abort(q), faults' \in Nat PROVE TypeOK'
  <2>1. requests' \in [Requests -> Request]
    BY <1>12, StageType DEF Abort
  <2>2. torn' \subseteq Users
    BY <1>12, <1>1 DEF Abort, TypeOK
  <2>3. tornGrants' \in BOOLEAN
    BY <1>12, Zenon DEF Abort
  <2>4. UNCHANGED <<users, roles, grants, permVersion, tokens, mints, bypassed>>
    BY <1>12 DEF Abort, tables
  <2> QED BY <1>12, <2>1, <2>2, <2>3, <2>4 DEF TypeOK
<1>13. CASE Constraint(q) \/ Fail(q)
  BY <1>13, <1>12 DEF Constraint, Fail, TypeOK
<1> QED
  BY <1>3, <1>4, <1>5, <1>6, <1>7, <1>8, <1>9, <1>10, <1>11, <1>13 DEF Write

\* Every variable always has its type.
THEOREM TypeCorrect == Spec => []TypeOK
<1>1. Init => TypeOK
  <2> SUFFICES ASSUME Init PROVE TypeOK
    OBVIOUS
  <2>1. users \in [Users -> Row]
    <3>1. [status |-> "active", role |-> AdminRole, version |-> 0] \in Row
      BY AccountsAssumption DEF Row, Status
    <3> QED BY <3>1, ConstantTypes DEF Init
  <2>2. roles \in [Roles -> {"unborn", "present", "deleted"}]
    BY DEF Init
  <2>3. grants \in [Roles -> SUBSET Perms]
    BY AccountsAssumption DEF Init
  <2>4. mints \in [Mints -> Mint] /\ requests \in [Requests -> Request]
    BY ConstantTypes DEF Init
  <2> QED BY <2>1, <2>2, <2>3, <2>4 DEF Init, TypeOK
<1>2. TypeOK /\ [Next]_vars => TypeOK'
  <2> SUFFICES ASSUME TypeOK, [Next]_vars PROVE TypeOK'
    OBVIOUS
  <2>1. ASSUME NEW q \in Requests, Start(q), Crossing(q) PROVE TypeOK'
    BY <2>1, StartShape, SetType DEF TypeOK, Crossing, tables, history
  <2>2. CASE UNCHANGED vars
    BY <2>2 DEF vars, TypeOK
  <2>3. \A q \in Requests : Crossing(q) => crossed' \in SUBSET Requests /\ outrun' \in BOOLEAN
    BY DEF Crossing, TypeOK
  <2>4. UNCHANGED <<crossed, outrun>> => crossed' \in SUBSET Requests /\ outrun' \in BOOLEAN
    BY DEF TypeOK
  <2> QED BY <2>1, <2>2, <2>3, <2>4, MintType, ReadType, WriteType DEF Next
<1> QED BY <1>1, <1>2, PTL DEF Spec

-----------------------------------------------------------------------------
(* What a request has planned.                                              *)

\* A change of role is followed by a bump of token_version, new grants by a
\* bump of perm_version; an account can only be enabled or disabled.
Plans(todo) ==
  /\ "role" \in todo => "version" \in todo
  /\ "grants" \in todo \/ "delete" \in todo => "perms" \in todo
Settable == {"active", "disabled"}
Planned ==
  \A q \in Requests : Plans(Todo(q)) /\ requests[q].status \in Settable

\* A start changes one idle request, and only that.
LEMMA StartFrame ==
  ASSUME TypeOK, NEW q \in Requests, Start(q)
  PROVE  /\ Todo(q) = {} /\ Todo(q)' = {}
         /\ \A p \in Requests \ {q} : requests'[p] = requests[p]
         /\ requests'[q].stage = "load" /\ requests'[q].listed = {}
         /\ UNCHANGED <<users, roles, grants, permVersion, tokens, mints,
                        bypassed, torn, tornGrants, faults>>
BY StartShape DEF Set, TypeOK, Todo, At, tables, history

\* The status it asks for is one that a patch may set.
LEMMA StartStatus ==
  ASSUME TypeOK, NEW q \in Requests, Start(q)
  PROVE  requests'[q].status \in Settable
<1>1. Idle.status = "active" /\ DOMAIN Idle = DOMAIN [Idle EXCEPT !.user = Admin]
  BY DEF Idle
<1>2. ASSUME NEW r, Begin(q, r), r.status \in Settable,
             r \in Request PROVE requests'[q].status \in Settable
  BY <1>2 DEF Begin, TypeOK, Request
<1>3. ASSUME NEW u \in Users, NEW given \in SUBSET Fields, NEW role \in Roles, NEW status \in Status,
             StartUpdateUser(q, u, given, role, status)
      PROVE  requests'[q].status \in Settable
  <2>1. LET r == [Idle EXCEPT !.op = "updateUser", !.user = u, !.given = given,
                              !.role = role, !.status = status]
        IN  r \in Request /\ r.status \in Settable
    BY <1>3, ConstantTypes DEF StartUpdateUser, Request, Idle, AllActs, Settable
  <2> QED BY <1>2, <1>3, <2>1 DEF StartUpdateUser
<1>4. ASSUME NEW u \in Users, StartOwnPassword(q, u) PROVE requests'[q].status \in Settable
  <2>1. LET r == [Idle EXCEPT !.op = "ownPassword", !.user = u, !.given = {"password"}]
        IN  r \in Request /\ r.status \in Settable
    BY ConstantTypes DEF Request, Idle, AllActs, Settable, Fields
  <2> QED BY <1>2, <1>4, <2>1 DEF StartOwnPassword
<1>5. ASSUME NEW u \in Users, StartRename(q, u) PROVE requests'[q].status \in Settable
  <2>1. LET r == [Idle EXCEPT !.op = "rename", !.user = u] IN r \in Request /\ r.status \in Settable
    BY ConstantTypes DEF Request, Idle, AllActs, Settable
  <2> QED BY <1>2, <1>5, <2>1 DEF StartRename
<1>6. ASSUME NEW u \in Users, NEW role \in Roles, StartProvision(q, u, role)
      PROVE  requests'[q].status \in Settable
  <2>1. LET r == [Idle EXCEPT !.op = "provision", !.user = u, !.role = role]
        IN  r \in Request /\ r.status \in Settable
    BY ConstantTypes DEF Request, Idle, AllActs, Settable
  <2> QED BY <1>2, <1>6, <2>1 DEF StartProvision
<1>7. ASSUME NEW u \in Users, NEW role \in Roles, StartInvite(q, u, role)
      PROVE  requests'[q].status \in Settable
  <2>1. LET r == [Idle EXCEPT !.op = "invite", !.user = u, !.role = role]
        IN  r \in Request /\ r.status \in Settable
    BY ConstantTypes DEF Request, Idle, AllActs, Settable
  <2> QED BY <1>2, <1>7, <2>1 DEF StartInvite
<1>8. ASSUME NEW op \in RoleOps, NEW role \in Roles, NEW perms \in SUBSET Perms,
             StartRoleEdit(q, op, role, perms)
      PROVE  requests'[q].status \in Settable
  <2>1. LET r == [Idle EXCEPT !.op = op, !.role = role, !.perms = perms]
        IN  r \in Request /\ r.status \in Settable
    BY ConstantTypes DEF Request, Idle, AllActs, Settable, RoleOps
  <2> QED BY <1>2, <1>8, <2>1 DEF StartRoleEdit
<1> QED BY <1>3, <1>4, <1>5, <1>6, <1>7, <1>8 DEF Start

\* A reading step changes one request that is not writing, and only that.
LEMMA ReadFrame ==
  ASSUME TypeOK, Planned, NEW q \in Requests, Read(q)
  PROVE  /\ Todo(q) = {} /\ Plans(Todo(q)')
         /\ requests'[q].status \in Settable
         /\ \A p \in Requests \ {q} : requests'[p] = requests[p]
         /\ UNCHANGED <<users, roles, grants, permVersion, tokens, mints,
                        bypassed, torn, tornGrants, faults>>
<1>0. requests[q] \in Request /\ requests[q].status \in Settable /\ DOMAIN requests = Requests
  BY DEF TypeOK, Planned
<1>1. UNCHANGED <<users, roles, grants, permVersion, tokens, mints,
                  bypassed, torn, tornGrants, faults>>
  BY DEF Read, LoadUser, PickRole, LoadRole, CountUsers, CheckEmail, Weigh, Listed, Decide,
         Reading, tables, history
<1>2. ~At(q, "write")
  BY DEF Read, LoadUser, PickRole, LoadRole, CountUsers, CheckEmail, Weigh, Listed, Decide, At
<1> DEFINE Good(x) == x.status \in Settable /\ (x.stage = "write" => Plans(x.todo))
<1>3. \A x : Set(q, x) /\ Good(x) =>
        /\ Plans(Todo(q)') /\ requests'[q].status \in Settable
        /\ \A p \in Requests \ {q} : requests'[p] = requests[p]
  BY <1>0 DEF Set, Todo, At, Plans
<1>4. Good(Idle)
  BY DEF Idle, Settable
<1>5. \A stage \in Stages \ {"write"} : Goto(q, stage) => \E x : Set(q, x) /\ Good(x)
  <2>1. \A stage \in Stages \ {"write"} : Good([requests[q] EXCEPT !.stage = stage])
    BY <1>0 DEF Request
  <2> QED BY <2>1 DEF Goto
<1>6. \A todo : Plans(todo) /\ Commit(q, todo) => \E x : Set(q, x) /\ Good(x)
  <2>1. \A todo : Plans(todo) =>
          Good([requests[q] EXCEPT !.stage = "write", !.todo = todo, !.listed = {},
                                   !.rows = NoRows, !.held = NoGrants, !.gained = {}])
    BY <1>0 DEF Request
  <2> QED BY <1>4, <2>1 DEF Commit
<1>7. \E x : Set(q, x) /\ Good(x)
  <2>1. CASE LoadUser(q)
    <3>1. LET r == requests[q] IN
            \A row : Good([r EXCEPT !.seen = row,
                                    !.stage = IF r.op = "updateUser" THEN "role" ELSE "write",
                                    !.todo = IF r.op \in TeamOps THEN {"member"}
                                             ELSE IF r.op = "ownPassword" THEN {"version"} ELSE {}])
      BY <1>0 DEF Request, Plans
    <3> QED BY <2>1, <3>1, <1>4 DEF LoadUser, Finish
  <2>2. CASE PickRole(q)
    BY <2>2, <1>4, <1>5 DEF PickRole, Finish, Stages
  <2>3. CASE LoadRole(q)
    <3>1. Plans({"insert", "grants", "perms"})
      BY DEF Plans
    <3> QED BY <2>3, <3>1, <1>4, <1>5, <1>6 DEF LoadRole, Finish, Stages
  <2>4. CASE CountUsers(q)
    <3>1. Plans({"grants", "delete", "perms"})
      BY DEF Plans
    <3> QED BY <2>4, <3>1, <1>4, <1>6 DEF CountUsers, Finish
  <2>5. CASE CheckEmail(q)
    <3>1. Plans({"row"})
      BY DEF Plans
    <3> QED BY <2>5, <3>1, <1>4, <1>6 DEF CheckEmail, Finish
  <2>6. CASE Weigh(q)
    <3> DEFINE x == [requests[q] EXCEPT !.gained = grants[requests[q].role],
                       !.stage = IF requests[q].op = "updateUser" THEN "list" ELSE "decide"]
    <3>1. x.status = requests[q].status /\ x.stage # "write"
      BY <1>0 DEF Request
    <3>2. Set(q, x)
      BY <2>6 DEF Weigh
    <3> HIDE DEF x
    <3> QED BY <1>0, <3>1, <3>2
  <2>7. ASSUME NEW table \in {"users", "grants"}, Listed(q, table)
        PROVE  \E x : Set(q, x) /\ Good(x)
    <3> DEFINE r == requests[q]
               listed == r.listed \cup {table}
               x == [r EXCEPT !.listed = listed,
                       !.rows = IF table = "users" THEN [u \in Users |-> ViewOf(users[u])] ELSE @,
                       !.held = IF table = "grants" THEN grants ELSE @,
                       !.stage = IF listed # {"users", "grants"} THEN "list"
                                 ELSE IF r.op = "updateRole" THEN "gain" ELSE "decide"]
    <3>1. x.status = r.status /\ x.stage # "write"
      BY <1>0 DEF Request
    <3>2. Set(q, x)
      BY <2>7 DEF Listed
    <3> HIDE DEF x
    <3> QED BY <1>0, <3>1, <3>2
  <2>8. CASE Decide(q)
    <3>1. Plans(PatchWrites(requests[q])) /\ Plans({"grants", "perms"})
      BY DEF Plans, PatchWrites
    <3> QED BY <2>8, <3>1, <1>4, <1>6 DEF Decide, Finish
  <2> QED BY <2>1, <2>2, <2>3, <2>4, <2>5, <2>6, <2>7, <2>8 DEF Read
<1> QED BY <1>1, <1>2, <1>3, <1>7 DEF Todo

\* A write strikes itself off its request's plan.
LEMMA WroteShape ==
  ASSUME TypeOK, Planned, NEW q \in Requests, NEW w, w \in Todo(q), Wrote(q, w)
  PROVE  /\ Todo(q)' = Todo(q) \ {w}
         /\ Todo(q)' # {} => requests'[q].user = requests[q].user
                             /\ requests'[q].role = requests[q].role
         /\ requests'[q].status \in Settable
         /\ \A p \in Requests \ {q} : requests'[p] = requests[p] /\ Todo(p)' = Todo(p)
<1>0. requests[q] \in Request /\ requests[q].status \in Settable /\ DOMAIN requests = Requests
  BY DEF TypeOK, Planned
<1>1. At(q, "write") /\ Todo(q) = requests[q].todo
  BY DEF Todo
<1>2. CASE requests[q].todo = {w}
  BY <1>0, <1>1, <1>2 DEF Wrote, Set, Idle, Todo, At, Settable
<1>3. CASE requests[q].todo # {w}
  <2>1. requests' = [requests EXCEPT ![q] = [requests[q] EXCEPT !.todo = requests[q].todo \ {w}]]
    BY <1>3 DEF Wrote, Set
  <2> QED BY <1>0, <1>1, <2>1 DEF Todo, At, Request
<1> QED BY <1>2, <1>3

\* An aborted request has nothing left to do.
LEMMA AbortShape ==
  ASSUME TypeOK, NEW q \in Requests, Abort(q)
  PROVE  /\ Todo(q)' = {} /\ requests'[q] = Idle
         /\ \A p \in Requests \ {q} : requests'[p] = requests[p] /\ Todo(p)' = Todo(p)
         /\ UNCHANGED <<users, roles, grants, permVersion, tokens, mints, bypassed>>
BY DEF Abort, Finish, Set, Idle, Todo, At, TypeOK, tables

\* Requests always keep to such plans.
THEOREM PlansKept == Spec => [](TypeOK /\ Planned)
<1>1. Init => Planned
  BY DEF Init, Planned, Plans, Todo, At, Idle, Settable
<1>2. ASSUME TypeOK, Planned, [Next]_vars PROVE Planned'
  <2>1. ASSUME NEW q \in Requests, Plans(Todo(q)'), requests'[q].status \in Settable,
               \A p \in Requests \ {q} : requests'[p] = requests[p]
        PROVE  Planned'
    BY <1>2, <2>1 DEF Planned, Todo, At
  <2>2. ASSUME NEW q \in Requests, Start(q) PROVE Planned'
    BY <1>2, <2>1, <2>2, StartFrame, StartStatus DEF Plans
  <2>3. ASSUME NEW q \in Requests, Read(q) PROVE Planned'
    BY <1>2, <2>1, <2>3, ReadFrame
  <2>4. ASSUME NEW q \in Requests, NEW w, w \in Todo(q), Wrote(q, w),
               w = "version" => Todo(q) = {"version"}, w = "perms" => Todo(q) = {"perms"}
        PROVE  Planned'
    <3>1. Plans(Todo(q)')
      BY <1>2, <2>4, WroteShape DEF Planned, Plans
    <3> QED BY <1>2, <2>1, <2>4, <3>1, WroteShape
  <2>5. ASSUME NEW q \in Requests, Write(q) PROVE Planned'
    <3>1. CASE Constraint(q) \/ Fail(q)
      <4>1. Abort(q)
        BY <3>1 DEF Constraint, Fail
      <4> QED BY <1>2, <2>1, <4>1, AbortShape DEF Plans, Idle, Settable
    <3>2. CASE ~(Constraint(q) \/ Fail(q))
      <4>1. \E w : /\ w \in Todo(q) /\ Wrote(q, w)
                   /\ w = "version" => Todo(q) = {"version"}
                   /\ w = "perms" => Todo(q) = {"perms"}
        BY <2>5, <3>2 DEF Write, SetRole, SetStatus, BumpTokenVersion, InsertUser, PutMember,
                          InsertRole, SetGrants, DeleteRole, BumpPermVersion
      <4> QED BY <2>4, <4>1
    <3> QED BY <3>1, <3>2
  <2>6. CASE (\E m \in Mints : MintStep(m)) \/ (\E t \in tokens : Expire(t)) \/ UNCHANGED vars
    <3>1. requests' = requests
      BY <2>6 DEF MintStep, ReadUser, ReadClaims, Sign, GiveUp, Expire, vars
    <3> QED BY <1>2, <3>1 DEF Planned, Todo, At
  <2> QED BY <1>2, <2>2, <2>3, <2>5, <2>6 DEF Next
<1> QED BY <1>1, <1>2, TypeCorrect, PTL DEF Spec

-----------------------------------------------------------------------------
(* token_version.                                                           *)

\* Why a user's role may differ from that of a claim with the same version.
UserExcused(u) ==
  \/ u \in torn \cup bypassed
  \/ \E q \in Requests : requests[q].user = u /\ UserUnbumped(q)

\* A claim, in a token or in the hands of a mint, is of an account that
\* exists, never ahead of it, and of the same role if of the same version.
ClaimFollows(c) ==
  /\ users[c.user].status # "absent"
  /\ c.version <= users[c.user].version
  /\ c.version = users[c.user].version /\ c.role # users[c.user].role => UserExcused(c.user)

UserClaims ==
  /\ \A t \in tokens : ClaimFollows(t)
  /\ \A m \in Mints : mints[m].stage # "idle" => ClaimFollows(mints[m])

\* An account that keeps its row, and its excuse, keeps its claims.
LEMMA ClaimsCarry ==
  ASSUME TypeOK, UserClaims, tokens' = tokens, mints' = mints,
         \A u \in Users : users[u].status # "absent" =>
           \/ /\ users'[u].status # "absent"
              /\ users'[u].version = users[u].version
              /\ users'[u].role = users[u].role \/ UserExcused(u)'
              /\ UserExcused(u) => UserExcused(u)'
           \/ /\ users'[u].status # "absent"
              /\ users'[u].version = users[u].version + 1
  PROVE  UserClaims'
<1>1. ASSUME NEW c, c.user \in Users, c.version \in Nat, ClaimFollows(c)
      PROVE  ClaimFollows(c)'
  <2>1. users[c.user].version \in Nat
    BY <1>1 DEF TypeOK, Row
  <2> QED BY <1>1, <2>1 DEF ClaimFollows
<1>2. \A t \in tokens : t.user \in Users /\ t.version \in Nat
  BY DEF TypeOK, Token
<1>3. \A m \in Mints : mints[m].user \in Users /\ mints[m].version \in Nat
  BY DEF TypeOK, Mint
<1>4. ASSUME NEW t \in tokens' PROVE ClaimFollows(t)'
  BY <1>1, <1>2 DEF UserClaims
<1>5. ASSUME NEW m \in Mints, mints'[m].stage # "idle" PROVE ClaimFollows(mints[m])'
  <2>1. ClaimFollows(mints[m])
    BY <1>5 DEF UserClaims
  <2> DEFINE c == mints[m]
  <2>2. c.user \in Users /\ c.version \in Nat /\ ClaimFollows(c)
    BY <1>3, <2>1
  <2>3. mints'[m] = c
    OBVIOUS
  <2>4. users[c.user].version \in Nat
    BY <2>2 DEF TypeOK, Row
  <2> QED BY <2>2, <2>3, <2>4 DEF ClaimFollows
<1> QED BY <1>4, <1>5 DEF UserClaims

\* A step of a request that leaves the accounts alone keeps their excuses.
LEMMA ExcuseCarries ==
  ASSUME NEW q \in Requests, ~UserUnbumped(q), UNCHANGED <<torn, bypassed>>,
         \A p \in Requests \ {q} : requests'[p] = requests[p], NEW u, UserExcused(u)
  PROVE  UserExcused(u)'
BY DEF UserExcused, UserUnbumped, Todo, At

\* So does striking a write other than the bump off a plan.
LEMMA ExcuseKept ==
  ASSUME TypeOK, Planned, NEW q \in Requests, NEW w, w \in Todo(q), Wrote(q, w), w # "version",
         torn' = torn, bypassed \subseteq bypassed', NEW u, UserExcused(u)
  PROVE  UserExcused(u)'
<1>1. CASE u \in torn \cup bypassed
  BY <1>1 DEF UserExcused
<1>2. ASSUME NEW p \in Requests, requests[p].user = u, UserUnbumped(p)
      PROVE  requests'[p].user = u /\ UserUnbumped(p)'
  BY <1>2, WroteShape DEF UserUnbumped
<1> QED BY <1>1, <1>2 DEF UserExcused

LEMMA MintClaims ==
  ASSUME TypeOK, UserClaims, (\E m \in Mints : MintStep(m)) \/ (\E t \in tokens : Expire(t))
  PROVE  UserClaims'
<1>0. UNCHANGED <<users, requests, torn, bypassed>>
  BY DEF MintStep, ReadUser, ReadClaims, Sign, GiveUp, Expire, tables, history
<1>1. \A c : ClaimFollows(c) => ClaimFollows(c)'
  BY <1>0 DEF ClaimFollows, UserExcused, UserUnbumped, Todo, At
<1>2. \A c, d : ClaimFollows(c) /\ d.user = c.user /\ d.role = c.role /\ d.version = c.version
        => ClaimFollows(d)
  BY DEF ClaimFollows
<1>3. DOMAIN mints = Mints /\ NoMint.stage = "idle"
  BY DEF TypeOK, NoMint
<1>4. ASSUME NEW m \in Mints, NEW u \in Users, ReadUser(m, u) PROVE UserClaims'
  <2> DEFINE d == [mints[m] EXCEPT !.stage = "user", !.user = u, !.role = users[u].role,
                                   !.version = users[u].version]
  <2>1. d.user = u /\ d.role = users[u].role /\ d.version = users[u].version
    BY DEF TypeOK, Mint
  <2>2. users[u].status = "active" /\ users[u].version \in Nat
    BY <1>4 DEF ReadUser, TypeOK, Row
  <2>3. ClaimFollows(d)
    BY <2>1, <2>2 DEF ClaimFollows
  <2>4. mints' = [mints EXCEPT ![m] = d] /\ tokens' = tokens
    BY <1>4 DEF ReadUser
  <2> HIDE DEF d
  <2>5. \A n \in Mints : mints'[n] = IF n = m THEN d ELSE mints[n]
    BY <1>3, <2>4
  <2>6. \A n \in Mints : mints'[n].stage # "idle" => ClaimFollows(mints'[n])
    BY <2>3, <2>5 DEF UserClaims
  <2>7. \A n \in Mints : mints'[n].stage # "idle" => ClaimFollows(mints[n])'
    BY <1>0, <2>6 DEF ClaimFollows, UserExcused, UserUnbumped, Todo, At
  <2> QED BY <1>1, <2>4, <2>7 DEF UserClaims
<1>5. ASSUME NEW m \in Mints, ReadClaims(m) PROVE UserClaims'
  <2> DEFINE d == [mints[m] EXCEPT !.stage = "perms", !.perms = grants[mints[m].role],
                                   !.readAt = permVersion]
  <2>1. d.user = mints[m].user /\ d.role = mints[m].role /\ d.version = mints[m].version
    BY DEF TypeOK, Mint
  <2>2. ClaimFollows(mints[m])
    BY <1>5 DEF ReadClaims, UserClaims
  <2>3. ClaimFollows(d)
    BY <2>1, <2>2 DEF ClaimFollows
  <2>4. mints' = [mints EXCEPT ![m] = d] /\ tokens' = tokens
    BY <1>5 DEF ReadClaims
  <2> HIDE DEF d
  <2>5. \A n \in Mints : mints'[n] = IF n = m THEN d ELSE mints[n]
    BY <1>3, <2>4
  <2>6. \A n \in Mints : mints'[n].stage # "idle" => ClaimFollows(mints'[n])
    BY <2>3, <2>5 DEF UserClaims
  <2>7. \A n \in Mints : mints'[n].stage # "idle" => ClaimFollows(mints[n])'
    BY <1>0, <2>6 DEF ClaimFollows, UserExcused, UserUnbumped, Todo, At
  <2> QED BY <1>1, <2>4, <2>7 DEF UserClaims
<1>6. ASSUME NEW m \in Mints, mints' = [mints EXCEPT ![m] = NoMint]
      PROVE  \A n \in Mints : mints'[n].stage # "idle" => ClaimFollows(mints[n])'
  <2>1. \A n \in Mints : mints'[n].stage # "idle" => mints'[n] = mints[n] /\ mints[n].stage # "idle"
    BY <1>3, <1>6
  <2>2. \A n \in Mints : mints'[n].stage # "idle" => ClaimFollows(mints'[n])
    BY <2>1 DEF UserClaims
  <2> QED BY <1>0, <2>2 DEF ClaimFollows, UserExcused, UserUnbumped, Todo, At
<1>7. ASSUME NEW m \in Mints, Sign(m) PROVE UserClaims'
  <2> DEFINE t == [user |-> mints[m].user, role |-> mints[m].role, perms |-> mints[m].perms,
                   version |-> mints[m].version, permVersion |-> permVersion,
                   readAt |-> mints[m].readAt]
  <2>1. ClaimFollows(t)
    BY <1>7 DEF Sign, UserClaims, ClaimFollows
  <2>2. tokens' = tokens \cup {t}
    BY <1>7 DEF Sign
  <2> HIDE DEF t
  <2>3. \A x \in tokens' : ClaimFollows(x)'
    BY <1>1, <2>1, <2>2 DEF UserClaims
  <2> QED BY <1>6, <1>7, <2>3 DEF Sign, UserClaims
<1>8. ASSUME NEW m \in Mints, GiveUp(m) PROVE UserClaims'
  BY <1>1, <1>6, <1>8 DEF GiveUp, UserClaims
<1>9. ASSUME NEW t \in tokens, Expire(t) PROVE UserClaims'
  <2>1. \A n \in Mints : mints'[n].stage # "idle" => ClaimFollows(mints[n])'
    <3>1. \A n \in Mints : mints[n].stage # "idle" => ClaimFollows(mints[n])
      BY DEF UserClaims
    <3> QED BY <1>0, <1>9, <3>1 DEF Expire, ClaimFollows, UserExcused, UserUnbumped, Todo, At
  <2> QED BY <1>1, <1>9, <2>1 DEF Expire, UserClaims
<1> QED BY <1>4, <1>5, <1>7, <1>8, <1>9 DEF MintStep

LEMMA WriteClaims ==
  ASSUME TypeOK, Planned, UserClaims, NEW q \in Requests, Write(q)
  PROVE  UserClaims'
<1>0. requests[q] \in Request /\ requests[q].user \in Users /\ requests[q].status \in Settable
  BY DEF TypeOK, Request, Planned
<1>1. DOMAIN users = Users /\ users[requests[q].user] \in Row
  BY <1>0 DEF TypeOK
<1>2. CASE SetRole(q)
  <2>1. "role" \in Todo(q) /\ Wrote(q, "role") /\ "version" \in Todo(q)
    BY <1>2 DEF SetRole, Planned, Plans
  <2>2. requests'[q].user = requests[q].user /\ UserUnbumped(q)'
    BY <2>1, WroteShape DEF UserUnbumped
  <2>3. \A u \in Users : u = requests[q].user => UserExcused(u)'
    BY <2>2 DEF UserExcused
  <2>4. \A u \in Users : /\ users'[u].status = users[u].status
                         /\ users'[u].version = users[u].version
                         /\ u # requests[q].user => users'[u].role = users[u].role
    BY <1>0, <1>1, <1>2 DEF SetRole, TypeOK, Row
  <2>5. \A u \in Users : UserExcused(u) => UserExcused(u)'
    BY <1>2, <2>1, ExcuseKept DEF SetRole, history
  <2>6. tokens' = tokens /\ mints' = mints
    BY <1>2 DEF SetRole
  <2>7. \A u \in Users : users'[u].role = users[u].role \/ UserExcused(u)'
    BY <2>3, <2>4
  <2> QED BY <2>4, <2>5, <2>6, <2>7, ClaimsCarry
<1>3. CASE SetStatus(q)
  <2>1. "status" \in Todo(q) /\ Wrote(q, "status")
    BY <1>3 DEF SetStatus
  <2>2. \A u \in Users : /\ users[u].status # "absent" => users'[u].status # "absent"
                         /\ users'[u].version = users[u].version
                         /\ users'[u].role = users[u].role
    BY <1>0, <1>1, <1>3 DEF SetStatus, TypeOK, Row, Settable
  <2>3. \A u \in Users : UserExcused(u) => UserExcused(u)'
    BY <1>3, <2>1, ExcuseKept DEF SetStatus, history
  <2> QED BY <1>3, <2>2, <2>3, ClaimsCarry DEF SetStatus
<1>4. CASE BumpTokenVersion(q)
  <2>1. "version" \in Todo(q) /\ Wrote(q, "version")
    BY <1>4 DEF BumpTokenVersion
  <2>2. \A u \in Users : /\ users'[u].status = users[u].status
                         /\ u = requests[q].user => users'[u].version = users[u].version + 1
                         /\ u # requests[q].user => users'[u] = users[u]
    BY <1>0, <1>1, <1>4 DEF BumpTokenVersion, TypeOK, Row
  <2>3. ASSUME NEW u \in Users, u # requests[q].user, UserExcused(u) PROVE UserExcused(u)'
    <3>1. CASE u \in torn \cup bypassed
      BY <1>4, <2>3, <3>1 DEF BumpTokenVersion, UserExcused
    <3>2. ASSUME NEW p \in Requests, requests[p].user = u, UserUnbumped(p)
          PROVE  requests'[p].user = u /\ UserUnbumped(p)'
      BY <2>1, <2>3, <3>2, WroteShape DEF UserUnbumped
    <3> QED BY <2>3, <3>1, <3>2 DEF UserExcused
  <2> QED BY <1>4, <2>2, <2>3, ClaimsCarry DEF BumpTokenVersion
<1>5. CASE InsertUser(q)
  <2>1. "row" \in Todo(q) /\ Wrote(q, "row")
    BY <1>5 DEF InsertUser
  <2>2. \A u \in Users : users[u].status # "absent" => users'[u] = users[u]
    BY <1>0, <1>1, <1>5 DEF InsertUser
  <2>3. \A u \in Users : UserExcused(u) => UserExcused(u)'
    BY <1>5, <2>1, ExcuseKept DEF InsertUser, history
  <2> QED BY <1>5, <2>2, <2>3, ClaimsCarry DEF InsertUser
<1>6. CASE PutMember(q)
  <2> DEFINE u0 == requests[q].user
             row == [users[u0] EXCEPT !.role = TeamRole(requests[q]), !.status = TeamStatus(requests[q])]
  <2>1. "member" \in Todo(q) /\ Wrote(q, "member") /\ bypassed \subseteq bypassed' /\ torn' = torn
    BY <1>6 DEF PutMember
  <2>2. \A u \in Users : UserExcused(u) => UserExcused(u)'
    BY <2>1, ExcuseKept
  <2>3. row.status # "absent" /\ row.version = users[u0].version
    BY <1>1 DEF TeamStatus, Row
  <2>4. users' = [users EXCEPT ![u0] = row] /\ (users[u0].status # "absent" /\ users[u0] # row => u0 \in bypassed')
    BY <1>6 DEF PutMember
  <2>5. tokens' = tokens /\ mints' = mints
    BY <1>6 DEF PutMember
  <2> HIDE DEF row
  <2>6. ASSUME NEW u \in Users, users[u].status # "absent"
        PROVE  /\ users'[u].status # "absent" /\ users'[u].version = users[u].version
               /\ users'[u].role = users[u].role \/ UserExcused(u)'
    BY <1>0, <1>1, <2>3, <2>4, <2>6 DEF UserExcused
  <2> QED BY <2>2, <2>5, <2>6, ClaimsCarry
<1>7. CASE InsertRole(q) \/ SetGrants(q) \/ DeleteRole(q)
  <2>1. \E w : w \in Todo(q) /\ Wrote(q, w) /\ w # "version"
    BY <1>7 DEF InsertRole, SetGrants, DeleteRole
  <2>2. UNCHANGED <<users, tokens, mints, torn, bypassed>>
    BY <1>7 DEF InsertRole, SetGrants, DeleteRole, history
  <2>3. \A u \in Users : UserExcused(u) => UserExcused(u)'
    BY <2>1, <2>2, ExcuseKept
  <2> QED BY <2>2, <2>3, ClaimsCarry
<1>8. CASE BumpPermVersion(q)
  <2>1. "perms" \in Todo(q) /\ Wrote(q, "perms")
    BY <1>8 DEF BumpPermVersion
  <2>2. UNCHANGED <<users, tokens, mints, torn, bypassed>>
    BY <1>8 DEF BumpPermVersion
  <2>3. \A u \in Users : UserExcused(u) => UserExcused(u)'
    BY <2>1, <2>2, ExcuseKept
  <2> QED BY <2>2, <2>3, ClaimsCarry
<1>9. CASE Constraint(q) \/ Fail(q)
  <2>1. Abort(q)
    BY <1>9 DEF Constraint, Fail
  <2>2. torn \subseteq torn' /\ (UserUnbumped(q) => requests[q].user \in torn')
    BY <2>1 DEF Abort
  <2>3. ASSUME NEW u \in Users, UserExcused(u) PROVE UserExcused(u)'
    BY <2>1, <2>2, <2>3, AbortShape DEF UserExcused, UserUnbumped
  <2> QED BY <2>1, <2>3, AbortShape, ClaimsCarry
<1> QED BY <1>2, <1>3, <1>4, <1>5, <1>6, <1>7, <1>8, <1>9 DEF Write

\* With any number of administrators and sign-ins at work at once, a token
\* whose version matches its user's was issued for the role the user has,
\* unless a change of that role waits for its bump or died before it.
THEOREM TokenVersionWorks == Spec => []TokensFollowUser
<1>1. Init => UserClaims
  BY DEF Init, UserClaims, NoMint
<1>2. ASSUME TypeOK, Planned, UserClaims, [Next]_vars PROVE UserClaims'
  <2>1. ASSUME NEW q \in Requests, Start(q) PROVE UserClaims'
    <3>1. ~UserUnbumped(q)
      BY <1>2, <2>1, StartFrame DEF UserUnbumped
    <3>2. \A u \in Users : UserExcused(u) => UserExcused(u)'
      BY <1>2, <2>1, <3>1, StartFrame, ExcuseCarries
    <3> QED BY <1>2, <2>1, <3>2, StartFrame, ClaimsCarry
  <2>2. ASSUME NEW q \in Requests, Read(q) PROVE UserClaims'
    <3>1. ~UserUnbumped(q)
      BY <1>2, <2>2, ReadFrame DEF UserUnbumped
    <3>2. \A u \in Users : UserExcused(u) => UserExcused(u)'
      BY <1>2, <2>2, <3>1, ReadFrame, ExcuseCarries
    <3> QED BY <1>2, <2>2, <3>2, ReadFrame, ClaimsCarry
  <2>3. CASE UNCHANGED vars
    <3>1. UNCHANGED <<users, requests, tokens, mints, torn, bypassed>>
      BY <2>3 DEF vars
    <3>2. \A u \in Users : UserExcused(u) => UserExcused(u)'
      BY <3>1 DEF UserExcused, UserUnbumped, Todo, At
    <3> QED BY <1>2, <3>1, <3>2, ClaimsCarry
  <2> QED BY <1>2, <2>1, <2>2, <2>3, MintClaims, WriteClaims DEF Next
<1>3. UserClaims => TokensFollowUser
  BY DEF UserClaims, ClaimFollows, UserExcused, TokensFollowUser
<1> QED BY <1>1, <1>2, <1>3, PlansKept, PTL DEF Spec

-----------------------------------------------------------------------------
(* perm_version.                                                            *)

\* Why a role's grants may differ from those of a claim read at this version.
GrantsExcused(role) ==
  \/ tornGrants
  \/ \E q \in Requests : requests[q].role = role /\ GrantsUnbumped(q)

\* A claim's grants were read no later than now, and are those of its role if
\* there was no bump since.
GrantsFollow(c) ==
  /\ c.readAt <= permVersion
  /\ c.readAt = permVersion /\ c.perms # grants[c.role] => GrantsExcused(c.role)

GrantClaims ==
  /\ \A t \in tokens : GrantsFollow(t)
  /\ \A m \in Mints : mints[m].stage = "perms" => GrantsFollow(mints[m])

\* What keeps the claims about a role, as long as perm_version stays.
LEMMA GrantsCarry ==
  ASSUME TypeOK, GrantClaims, tokens' = tokens, mints' = mints,
         \/ /\ permVersion' = permVersion
            /\ \A r \in Roles : /\ grants'[r] = grants[r] \/ GrantsExcused(r)'
                                /\ GrantsExcused(r) => GrantsExcused(r)'
         \/ permVersion' = permVersion + 1
  PROVE  GrantClaims'
<1>0. permVersion \in Nat
  BY DEF TypeOK
<1>1. \A t \in tokens : t.role \in Roles /\ t.readAt \in Nat
  BY DEF TypeOK, Token
<1>2. \A m \in Mints : mints[m].role \in Roles /\ mints[m].readAt \in Nat
  BY DEF TypeOK, Mint
<1>3. ASSUME NEW t \in tokens' PROVE GrantsFollow(t)'
  <2>1. GrantsFollow(t)
    BY DEF GrantClaims
  <2> QED BY <1>0, <1>1, <2>1 DEF GrantsFollow
<1>4. ASSUME NEW m \in Mints, mints'[m].stage = "perms" PROVE GrantsFollow(mints[m])'
  <2>1. GrantsFollow(mints[m])
    BY <1>4 DEF GrantClaims
  <2> DEFINE c == mints[m]
  <2>2. GrantsFollow(c) /\ c.role \in Roles /\ c.readAt \in Nat
    BY <1>2, <2>1
  <2>3. mints'[m] = c
    OBVIOUS
  <2> QED BY <1>0, <2>2, <2>3 DEF GrantsFollow
<1> QED BY <1>3, <1>4 DEF GrantClaims

\* A step that starts no pending bump and ends none keeps the excuses.
LEMMA GrantExcuseCarries ==
  ASSUME NEW q \in Requests, ~GrantsUnbumped(q), tornGrants' = tornGrants,
         \A p \in Requests \ {q} : requests'[p] = requests[p], NEW role, GrantsExcused(role)
  PROVE  GrantsExcused(role)'
<1>1. CASE tornGrants
  BY <1>1 DEF GrantsExcused
<1>2. CASE \E p \in Requests : requests[p].role = role /\ GrantsUnbumped(p)
  BY <1>2 DEF GrantsExcused, GrantsUnbumped, Todo, At
<1> QED BY <1>1, <1>2 DEF GrantsExcused

\* So does striking a write other than the bump off a plan.
LEMMA GrantExcuseKept ==
  ASSUME TypeOK, Planned, NEW q \in Requests, NEW w, w \in Todo(q), Wrote(q, w), w # "perms",
         tornGrants' = tornGrants, NEW role, GrantsExcused(role)
  PROVE  GrantsExcused(role)'
<1>1. CASE tornGrants
  BY <1>1 DEF GrantsExcused
<1>2. ASSUME NEW p \in Requests, requests[p].role = role, GrantsUnbumped(p)
      PROVE  requests'[p].role = role /\ GrantsUnbumped(p)'
  BY <1>2, WroteShape DEF GrantsUnbumped
<1> QED BY <1>1, <1>2 DEF GrantsExcused

\* A mint's grants are read with the version they are read at.
LEMMA MintGrants ==
  ASSUME TypeOK, GrantClaims, (\E m \in Mints : MintStep(m)) \/ (\E t \in tokens : Expire(t))
  PROVE  GrantClaims'
<1>0. UNCHANGED <<grants, permVersion, requests, tornGrants>>
  BY DEF MintStep, ReadUser, ReadClaims, Sign, GiveUp, Expire, tables, history
<1>1. \A c : GrantsFollow(c) => GrantsFollow(c)'
  <2>1. \A role : GrantsExcused(role) => GrantsExcused(role)'
    <3> TAKE role
    <3>1. CASE tornGrants
      BY <1>0, <3>1 DEF GrantsExcused
    <3>2. CASE \E p \in Requests : requests[p].role = role /\ GrantsUnbumped(p)
      BY <1>0, <3>2 DEF GrantsExcused, GrantsUnbumped, Todo, At
    <3> QED BY <3>1, <3>2 DEF GrantsExcused
  <2> QED BY <1>0, <2>1 DEF GrantsFollow
<1>2. DOMAIN mints = Mints /\ NoMint.stage = "idle" /\ permVersion \in Nat
  BY DEF TypeOK, NoMint
<1> DEFINE Held == \A n \in Mints : mints'[n].stage = "perms" => GrantsFollow(mints'[n])
<1>3. Held => \A n \in Mints : mints'[n].stage = "perms" => GrantsFollow(mints[n])'
  <2> SUFFICES ASSUME Held, NEW n \in Mints, mints'[n].stage = "perms" PROVE GrantsFollow(mints[n])'
    OBVIOUS
  <2> DEFINE d == mints'[n]
  <2>1. GrantsFollow(d)
    OBVIOUS
  <2>2. \A role : GrantsExcused(role) => GrantsExcused(role)'
    <3> TAKE role
    <3>1. CASE tornGrants
      BY <1>0, <3>1 DEF GrantsExcused
    <3>2. CASE \E p \in Requests : requests[p].role = role /\ GrantsUnbumped(p)
      BY <1>0, <3>2 DEF GrantsExcused, GrantsUnbumped, Todo, At
    <3> QED BY <3>1, <3>2 DEF GrantsExcused
  <2> QED BY <1>0, <2>1, <2>2 DEF GrantsFollow
<1>4. ASSUME NEW m \in Mints, NEW u \in Users, ReadUser(m, u) PROVE GrantClaims'
  <2> DEFINE d == [mints[m] EXCEPT !.stage = "user", !.user = u, !.role = users[u].role,
                                   !.version = users[u].version]
  <2>1. d.stage = "user" /\ mints' = [mints EXCEPT ![m] = d] /\ tokens' = tokens
    BY <1>4 DEF ReadUser, TypeOK, Mint
  <2> HIDE DEF d
  <2>2. Held
    BY <1>2, <2>1 DEF GrantClaims
  <2> QED BY <1>1, <1>3, <2>1, <2>2 DEF GrantClaims
<1>5. ASSUME NEW m \in Mints, ReadClaims(m) PROVE GrantClaims'
  <2> DEFINE d == [mints[m] EXCEPT !.stage = "perms", !.perms = grants[mints[m].role],
                                   !.readAt = permVersion]
  <2>1. d.role = mints[m].role /\ d.perms = grants[mints[m].role] /\ d.readAt = permVersion
    BY DEF TypeOK, Mint
  <2>2. GrantsFollow(d)
    BY <1>2, <2>1 DEF GrantsFollow
  <2>3. mints' = [mints EXCEPT ![m] = d] /\ tokens' = tokens
    BY <1>5 DEF ReadClaims
  <2> HIDE DEF d
  <2>4. Held
    BY <1>2, <2>2, <2>3 DEF GrantClaims
  <2> QED BY <1>1, <1>3, <2>3, <2>4 DEF GrantClaims
<1>6. ASSUME NEW m \in Mints, mints' = [mints EXCEPT ![m] = NoMint] PROVE Held
  BY <1>2, <1>6 DEF GrantClaims
<1>7. ASSUME NEW m \in Mints, Sign(m) PROVE GrantClaims'
  <2> DEFINE t == [user |-> mints[m].user, role |-> mints[m].role, perms |-> mints[m].perms,
                   version |-> mints[m].version, permVersion |-> permVersion,
                   readAt |-> mints[m].readAt]
  <2>1. GrantsFollow(t)
    BY <1>7 DEF Sign, GrantClaims, GrantsFollow
  <2>2. tokens' = tokens \cup {t} /\ mints' = [mints EXCEPT ![m] = NoMint]
    BY <1>7 DEF Sign
  <2> HIDE DEF t
  <2>3. \A x \in tokens' : GrantsFollow(x)'
    BY <1>1, <2>1, <2>2 DEF GrantClaims
  <2> QED BY <1>3, <1>6, <2>2, <2>3 DEF GrantClaims
<1>8. ASSUME NEW m \in Mints, GiveUp(m) PROVE GrantClaims'
  BY <1>1, <1>3, <1>6, <1>8 DEF GiveUp, GrantClaims
<1>9. ASSUME NEW t \in tokens, Expire(t) PROVE GrantClaims'
  <2>1. Held
    BY <1>9 DEF Expire, GrantClaims
  <2> QED BY <1>1, <1>3, <1>9, <2>1 DEF Expire, GrantClaims
<1> QED BY <1>4, <1>5, <1>7, <1>8, <1>9 DEF MintStep

LEMMA WriteGrants ==
  ASSUME TypeOK, Planned, GrantClaims, NEW q \in Requests, Write(q)
  PROVE  GrantClaims'
<1>1. CASE SetRole(q) \/ SetStatus(q) \/ BumpTokenVersion(q) \/ InsertUser(q) \/ PutMember(q)
           \/ InsertRole(q)
  <2>1. \E w : w \in Todo(q) /\ Wrote(q, w) /\ w # "perms"
    BY <1>1 DEF SetRole, SetStatus, BumpTokenVersion, InsertUser, PutMember, InsertRole
  <2>2. UNCHANGED <<grants, permVersion, tokens, mints, tornGrants>>
    BY <1>1 DEF SetRole, SetStatus, BumpTokenVersion, InsertUser, PutMember, InsertRole, history
  <2>3. \A r \in Roles : GrantsExcused(r) => GrantsExcused(r)'
    BY <2>1, <2>2, GrantExcuseKept
  <2> QED BY <2>2, <2>3, GrantsCarry
<1>2. CASE SetGrants(q) \/ DeleteRole(q)
  <2>1. PICK w \in {"grants", "delete"} : w \in Todo(q) /\ Wrote(q, w)
                                          /\ (w = "delete" => "grants" \notin Todo(q))
    BY <1>2 DEF SetGrants, DeleteRole
  <2>2. "perms" \in Todo(q)'
    BY <2>1, WroteShape DEF Planned, Plans
  <2>3. requests'[q].role = requests[q].role /\ (GrantsUnbumped(q)' \/ "grants" \in Todo(q)')
    BY <2>1, <2>2, WroteShape DEF GrantsUnbumped
  <2>4. "grants" \notin Todo(q)'
    BY <2>1, WroteShape
  <2>5. \A r \in Roles : r = requests[q].role => GrantsExcused(r)'
    BY <2>3, <2>4 DEF GrantsExcused
  <2>6. UNCHANGED <<permVersion, tokens, mints, tornGrants>>
    BY <1>2 DEF SetGrants, DeleteRole, history
  <2>7. \A r \in Roles : GrantsExcused(r) => GrantsExcused(r)'
    BY <2>1, <2>6, GrantExcuseKept
  <2>8. \A r \in Roles : r # requests[q].role => grants'[r] = grants[r]
    BY <1>2 DEF SetGrants, DeleteRole, TypeOK
  <2>9. \A r \in Roles : grants'[r] = grants[r] \/ GrantsExcused(r)'
    BY <2>5, <2>8
  <2> QED BY <2>6, <2>7, <2>9, GrantsCarry
<1>3. CASE BumpPermVersion(q)
  <2>1. permVersion' = permVersion + 1 /\ tokens' = tokens /\ mints' = mints
    BY <1>3 DEF BumpPermVersion
  <2> QED BY <2>1, GrantsCarry
<1>4. CASE Constraint(q) \/ Fail(q)
  <2>1. Abort(q)
    BY <1>4 DEF Constraint, Fail
  <2>2. (tornGrants => tornGrants') /\ (GrantsUnbumped(q) => tornGrants')
    BY <2>1, Zenon DEF Abort
  <2>3. ASSUME NEW r \in Roles, GrantsExcused(r) PROVE GrantsExcused(r)'
    <3>1. CASE tornGrants
      BY <2>2, <3>1 DEF GrantsExcused
    <3>2. ASSUME NEW p \in Requests, requests[p].role = r, GrantsUnbumped(p)
          PROVE  GrantsExcused(r)'
      <4>1. CASE p = q
        BY <2>2, <3>2, <4>1 DEF GrantsExcused
      <4>2. CASE p # q
        <5>1. requests'[p].role = r /\ GrantsUnbumped(p)'
          BY <2>1, <3>2, <4>2, AbortShape DEF GrantsUnbumped
        <5> QED BY <5>1 DEF GrantsExcused
      <4> QED BY <4>1, <4>2
    <3> QED BY <2>3, <3>1, <3>2 DEF GrantsExcused
  <2>4. UNCHANGED <<grants, permVersion, tokens, mints>>
    BY <2>1, AbortShape
  <2> QED BY <2>3, <2>4, GrantsCarry
<1> QED BY <1>1, <1>2, <1>3, <1>4 DEF Write

\* With any number of administrators and sign-ins at work at once, a token
\* trusted for its own permissions carries those of its role, unless an edit
\* of the role waits for its bump, died before it, or committed while the
\* token's claims were being read.
THEOREM PermVersionWorks == Spec => []TokensFollowGrants
<1>1. Init => GrantClaims
  BY DEF Init, GrantClaims, NoMint
<1>2. ASSUME TypeOK, Planned, GrantClaims, [Next]_vars PROVE GrantClaims'
  <2>1. ASSUME NEW q \in Requests, Start(q) \/ Read(q) PROVE GrantClaims'
    <3>1. ~GrantsUnbumped(q)
      BY <1>2, <2>1, StartFrame, ReadFrame DEF GrantsUnbumped
    <3>2. /\ \A p \in Requests \ {q} : requests'[p] = requests[p]
          /\ UNCHANGED <<grants, permVersion, tokens, mints, tornGrants>>
      BY <1>2, <2>1, StartFrame, ReadFrame
    <3>3. \A r \in Roles : GrantsExcused(r) => GrantsExcused(r)'
      BY <3>1, <3>2, GrantExcuseCarries
    <3> QED BY <1>2, <3>2, <3>3, GrantsCarry
  <2>2. CASE UNCHANGED vars
    <3>1. UNCHANGED <<grants, permVersion, requests, tokens, mints, tornGrants>>
      BY <2>2 DEF vars
    <3>2. ASSUME NEW r \in Roles, GrantsExcused(r) PROVE GrantsExcused(r)'
      <4>1. CASE tornGrants
        BY <3>1, <4>1 DEF GrantsExcused
      <4>2. CASE \E p \in Requests : requests[p].role = r /\ GrantsUnbumped(p)
        BY <3>1, <4>2 DEF GrantsExcused, GrantsUnbumped, Todo, At
      <4> QED BY <3>2, <4>1, <4>2 DEF GrantsExcused
    <3> QED BY <1>2, <3>1, <3>2, GrantsCarry
  <2> QED BY <1>2, <2>1, <2>2, MintGrants, WriteGrants DEF Next
<1>3. TypeOK /\ GrantClaims => TokensFollowGrants
  BY DEF GrantClaims, GrantsFollow, GrantsExcused, TokensFollowGrants
<1> QED BY <1>1, <1>2, <1>3, PlansKept, PTL DEF Spec

-----------------------------------------------------------------------------
(* The last administrator.                                                  *)

Survives == \A perm \in Critical : \E u \in Users : Holds(users, grants, u, perm)

\* What a request decides on is still so.
Fresh(r) ==
  /\ r.stage = "role" => r.op = "updateUser"
  /\ r.stage \in {"list", "gain", "decide"} => r.op \in {"updateUser", "updateRole"}
  /\ r.stage \in {"role", "list", "gain", "decide"} /\ r.op = "updateUser" =>
       r.seen = ViewOf(users[r.user])
  /\ r.stage \notin {"idle", "write"} =>
       /\ "users" \in r.listed => r.rows = [u \in Users |-> ViewOf(users[u])]
       /\ "grants" \in r.listed => r.held = grants
  /\ r.op = "updateRole" =>
       /\ r.stage \in {"gain", "decide"} => r.listed = {"users", "grants"}
       /\ r.stage = "decide" => r.gained = grants[r.role]
  /\ r.op = "updateUser" /\ (Demotes(r) \/ Disables(r)) =>
       /\ r.stage = "decide" => r.listed = {"users", "grants"}
       /\ r.stage \in {"list", "decide"} /\ ~Disables(r) => r.gained = grants[r.role]

\* What a patch still has to write leaves each critical permission somebody.
UserKept(r) ==
  \A perm \in Critical :
    \/ \E v \in Users \ {r.user} : Holds(users, grants, v, perm)
    \/ /\ Holds(users, grants, r.user, perm)
       /\ "role" \in r.todo => perm \in grants[r.role]
       /\ "status" \in r.todo => r.status = "active"

\* So do the grants a role edit still has to write.
GrantKept(r) ==
  \A perm \in Critical : \E v \in Users :
    Holds(users, grants, v, perm) /\ (users[v].role # r.role \/ perm \in r.perms)

\* A plan writes to one account or to one role.
Kind(todo) ==
  /\ "role" \in todo \/ "status" \in todo => todo \subseteq {"role", "status", "version"}
  /\ "grants" \in todo => todo \subseteq {"insert", "grants", "delete", "perms"}

Sound(r) ==
  r.stage = "write" =>
    /\ Kind(r.todo)
    /\ "role" \in r.todo \/ "status" \in r.todo => UserKept(r)
    /\ "grants" \in r.todo => GrantKept(r)

\* A request that nobody has outrun decides on what is so, and leaves it sound.
AdminInv ==
  /\ \A x \in Roles : roles[x] = "unborn" => grants[x] = {}
  /\ bypassed = {} /\ ~outrun =>
       /\ Survives
       /\ \A q \in Requests \ crossed : Fresh(requests[q]) /\ Sound(requests[q])

\* The listing of a row says of it what the row says.
LEMMA ListingHolds ==
  ASSUME TypeOK, NEW rows, NEW held, rows = [u \in Users |-> ViewOf(users[u])], held = grants
  PROVE  /\ \A v \in Users, perm \in Critical : Holds(rows, held, v, perm) = Holds(users, grants, v, perm)
         /\ \A v \in Users : rows[v].role = users[v].role
BY DEF Holds, ViewOf

\* A patch that no guard refuses leaves each critical permission somebody.
LEMMA PatchDecided ==
  ASSUME TypeOK, Planned, Survives, NEW q \in Requests, At(q, "decide"),
         requests[q].op = "updateUser", Fresh(requests[q]), ~Refused(requests[q]),
         NEW x \in Request, x.user = requests[q].user, x.role = requests[q].role,
         x.status = requests[q].status, x.todo = PatchWrites(requests[q])
  PROVE  UserKept(x)
<1> DEFINE r == requests[q]
<1>0. r \in Request /\ r.user \in Users /\ r.role \in Roles /\ r.status \in Settable
  BY DEF TypeOK, Planned, Request
<1>1. r.stage = "decide" /\ r.op # "updateRole"
  BY DEF At
<1>2. r.seen.role = users[r.user].role /\ r.seen.status = users[r.user].status
  BY <1>1 DEF Fresh, ViewOf
<1>3. /\ "role" \in x.todo => Demotes(r)
      /\ "status" \in x.todo => "status" \in r.given /\ r.status # r.seen.status
  BY DEF PatchWrites
<1>4. Demotes(r) \/ Disables(r) =>
        /\ \A v \in Users, perm \in Critical : Holds(r.rows, r.held, v, perm) = Holds(users, grants, v, perm)
        /\ ~Disables(r) => r.gained = grants[r.role]
  BY <1>1, ListingHolds DEF Fresh
<1>5. ASSUME NEW perm \in Critical, \A v \in Users \ {r.user} : ~Holds(users, grants, v, perm)
      PROVE  /\ Holds(users, grants, r.user, perm)
             /\ "role" \in x.todo => perm \in grants[r.role]
             /\ "status" \in x.todo => r.status = "active"
  <2>1. Holds(users, grants, r.user, perm)
    BY <1>0, <1>5 DEF Survives
  <2>2. ~Disables(r)
    <3>1. SUFFICES ASSUME Disables(r) PROVE FALSE
      OBVIOUS
    <3>2. ~RemovesLastHolder(r.rows, r.held, r.user, {})
      BY <1>1, <3>1 DEF Refused
    <3>3. Holds(r.rows, r.held, r.user, perm)
          /\ \A v \in Users \ {r.user} : ~Holds(r.rows, r.held, v, perm)
      BY <1>0, <1>4, <1>5, <2>1, <3>1
    <3> QED BY <3>2, <3>3 DEF RemovesLastHolder
  <2>3. "status" \in x.todo => r.status = "active"
    BY <1>0, <1>3, <2>2 DEF Disables, Settable
  <2>4. Demotes(r) => perm \in grants[r.role]
    <3>1. SUFFICES ASSUME Demotes(r), perm \notin grants[r.role] PROVE FALSE
      OBVIOUS
    <3>2. ~RemovesLastHolder(r.rows, r.held, r.user, r.gained) /\ r.gained = grants[r.role]
      BY <1>1, <1>4, <2>2, <3>1 DEF Refused
    <3>3. Holds(r.rows, r.held, r.user, perm)
          /\ \A v \in Users \ {r.user} : ~Holds(r.rows, r.held, v, perm)
      BY <1>0, <1>4, <1>5, <2>1, <3>1
    <3> QED BY <3>1, <3>2, <3>3 DEF RemovesLastHolder
  <2> QED BY <1>3, <2>1, <2>3, <2>4
<1> QED BY <1>5 DEF UserKept

\* So does an edit of a role's grants that no guard refuses.
LEMMA EditDecided ==
  ASSUME TypeOK, Survives, NEW q \in Requests, At(q, "decide"),
         requests[q].op = "updateRole", Fresh(requests[q]), ~Refused(requests[q]),
         NEW x, x.role = requests[q].role, x.perms = requests[q].perms
  PROVE  GrantKept(x)
<1> DEFINE r == requests[q]
<1>1. r.stage = "decide"
  BY DEF At
<1>2. /\ \A v \in Users, perm \in Critical : Holds(r.rows, r.held, v, perm) = Holds(users, grants, v, perm)
      /\ \A v \in Users : r.rows[v].role = users[v].role
      /\ r.gained = grants[r.role]
  BY <1>1, ListingHolds DEF Fresh
<1>3. ~RoleEditRemovesLastHolder(r.rows, r.held, r.role, r.gained \ r.perms)
  BY DEF Refused
<1>4. ASSUME NEW perm \in Critical
      PROVE  \E v \in Users :
               Holds(users, grants, v, perm) /\ (users[v].role # r.role \/ perm \in r.perms)
  <2>1. PICK v \in Users : Holds(users, grants, v, perm)
    BY DEF Survives
  <2>2. CASE users[v].role # r.role \/ perm \in r.perms
    BY <2>1, <2>2
  <2>3. CASE users[v].role = r.role /\ perm \notin r.perms
    <3>1. perm \in Critical \cap (r.gained \ r.perms)
      BY <1>2, <2>1, <2>3 DEF Holds
    <3>2. r.rows[v].role = r.role /\ Holds(r.rows, r.held, v, perm)
      BY <1>2, <2>1, <2>3
    <3>3. \E w \in Users : r.rows[w].role # r.role /\ Holds(r.rows, r.held, w, perm)
      BY <1>3, <3>1, <3>2 DEF RoleEditRemovesLastHolder
    <3> QED BY <1>2, <3>3
  <2> QED BY <2>2, <2>3
<1> QED BY <1>4 DEF GrantKept

\* A role without grants, or without users, holds nobody's permissions.
LEMMA EmptyRole ==
  ASSUME TypeOK, Survives, NEW x,
         \/ grants[x.role] = {}
         \/ \A u \in Users : users[u].status # "absent" => users[u].role # x.role
  PROVE  GrantKept(x)
BY DEF Survives, GrantKept, Holds

\* A reading step leaves its request deciding on what is so, with a sound plan.
LEMMA ReadSound ==
  ASSUME TypeOK, Planned, AdminInv, bypassed = {}, ~outrun, NEW q \in Requests \ crossed, Read(q)
  PROVE  \E x : Set(q, x) /\ Fresh(x) /\ Sound(x)
<1> DEFINE r == requests[q]
<1>0. r \in Request /\ Fresh(r) /\ Survives
  BY DEF TypeOK, AdminInv
<1>1. Fresh(Idle) /\ Sound(Idle)
  BY DEF Fresh, Sound, Idle
<1>2. ASSUME NEW todo \in SUBSET Writes, Commit(q, todo), Kind(todo),
             \A x \in Request :
               (/\ x.user = r.user /\ x.role = r.role /\ x.status = r.status
                /\ x.perms = r.perms /\ x.todo = todo) =>
               /\ "role" \in todo \/ "status" \in todo => UserKept(x)
               /\ "grants" \in todo => GrantKept(x)
      PROVE  \E x : Set(q, x) /\ Fresh(x) /\ Sound(x)
  <2> DEFINE x == [r EXCEPT !.stage = "write", !.todo = todo, !.listed = {},
                            !.rows = NoRows, !.held = NoGrants, !.gained = {}]
  <2>1. x \in Request /\ x.user = r.user /\ x.role = r.role /\ x.status = r.status
        /\ x.perms = r.perms /\ x.todo = todo /\ x.stage = "write"
    BY <1>0, ConstantTypes DEF Request, Stages
  <2>2. Set(q, IF todo = {} THEN Idle ELSE x)
    BY <1>2 DEF Commit
  <2> HIDE DEF x
  <2>3. Fresh(x)
    BY <2>1 DEF Fresh
  <2>4. Sound(x)
    BY <1>2, <2>1 DEF Sound
  <2> QED BY <1>1, <2>2, <2>3, <2>4
<1>3. CASE LoadUser(q)
  <2> DEFINE row == ViewOf(users[r.user])
             x == [r EXCEPT !.seen = row,
                            !.stage = IF r.op = "updateUser" THEN "role" ELSE "write",
                            !.todo = IF r.op \in TeamOps THEN {"member"}
                                     ELSE IF r.op = "ownPassword" THEN {"version"} ELSE {}]
  <2>1. Set(q, Idle) \/ Set(q, x)
    BY <1>3 DEF LoadUser, Finish
  <2>2. /\ x.stage = IF r.op = "updateUser" THEN "role" ELSE "write"
        /\ x.op = r.op /\ x.seen = row /\ x.user = r.user /\ x.rows = r.rows /\ x.held = r.held
        /\ x.listed = r.listed
        /\ x.stage = "write" => x.todo \in {{"member"}, {"version"}, {}}
    BY <1>0 DEF Request
  <2>3. r.stage = "load"
    BY <1>3 DEF LoadUser, At
  <2> HIDE DEF x
  <2>4. Fresh(x)
    BY <1>0, <2>2, <2>3 DEF Fresh
  <2>5. Sound(x)
    BY <2>2 DEF Sound, Kind
  <2> QED BY <1>1, <2>1, <2>4, <2>5
<1>4. CASE PickRole(q)
  <2> DEFINE stage == IF Disables(r) THEN "list" ELSE IF Demotes(r) THEN "gain" ELSE "decide"
             x == [r EXCEPT !.stage = stage]
  <2>1. Set(q, Idle) \/ Set(q, x)
    BY <1>4 DEF PickRole, Finish, Goto
  <2>2. /\ x.stage = stage /\ x.op = r.op /\ x.seen = r.seen /\ x.user = r.user
        /\ x.rows = r.rows /\ x.held = r.held /\ x.listed = r.listed /\ x.gained = r.gained
        /\ x.given = r.given /\ x.role = r.role /\ x.status = r.status
    BY <1>0 DEF Request
  <2>3. r.stage = "role" /\ r.op = "updateUser"
    BY <1>0, <1>4 DEF PickRole, At, Fresh
  <2>4. Demotes(x) = Demotes(r) /\ Disables(x) = Disables(r)
    BY <2>2 DEF Demotes, Disables
  <2> HIDE DEF x
  <2>5. Fresh(x)
    BY <1>0, <2>2, <2>3, <2>4 DEF Fresh
  <2>6. Sound(x)
    BY <2>2 DEF Sound
  <2> QED BY <1>1, <2>1, <2>5, <2>6
<1>5. CASE LoadRole(q)
  <2>1. ASSUME NEW stage \in {"email", "list", "count"}, Goto(q, stage),
               stage = "list" => r.op = "updateRole"
        PROVE  \E x : Set(q, x) /\ Fresh(x) /\ Sound(x)
    <3> DEFINE x == [r EXCEPT !.stage = stage]
    <3>1. /\ x.stage = stage /\ x.op = r.op /\ x.rows = r.rows /\ x.held = r.held
          /\ x.listed = r.listed
      BY <1>0 DEF Request
    <3>2. r.stage = "load"
      BY <1>5 DEF LoadRole, At
    <3>3. Set(q, x)
      BY <2>1 DEF Goto
    <3> HIDE DEF x
    <3>4. Fresh(x)
      BY <1>0, <2>1, <3>1, <3>2 DEF Fresh
    <3>5. Sound(x)
      BY <3>1 DEF Sound
    <3> QED BY <3>3, <3>4, <3>5
  <2>2. CASE r.op = "createRole" /\ roles[r.role] = "unborn"
    <3>1. grants[r.role] = {}
      BY <1>0, <2>2 DEF AdminInv, Request
    <3>2. \A x \in Request : x.role = r.role => GrantKept(x)
      BY <1>0, <3>1, EmptyRole
    <3>3. Commit(q, {"insert", "grants", "perms"})
      BY <1>5, <2>2 DEF LoadRole
    <3> QED BY <1>2, <3>2, <3>3 DEF Writes, Kind
  <2>3. CASE ~(r.op = "createRole" /\ roles[r.role] = "unborn")
    <3>1. \/ Set(q, Idle)
          \/ \E stage \in {"email", "list", "count"} :
               Goto(q, stage) /\ (stage = "list" => r.op = "updateRole")
      BY <1>5, <2>3 DEF LoadRole, Finish
    <3> QED BY <1>1, <2>1, <3>1
  <2> QED BY <2>2, <2>3
<1>6. CASE CountUsers(q)
  <2>1. CASE \E u \in Users : users[u].status # "absent" /\ users[u].role = r.role
    BY <1>1, <1>6, <2>1 DEF CountUsers, Finish
  <2>2. CASE \A u \in Users : users[u].status # "absent" => users[u].role # r.role
    <3>1. \A x \in Request : x.role = r.role => GrantKept(x)
      BY <1>0, <2>2, EmptyRole
    <3>2. Commit(q, {"grants", "delete", "perms"})
      BY <1>6, <2>2 DEF CountUsers
    <3> QED BY <1>2, <3>1, <3>2 DEF Writes, Kind
  <2> QED BY <2>1, <2>2
<1>7. CASE CheckEmail(q)
  <2>1. Set(q, Idle) \/ Commit(q, {"row"})
    BY <1>7 DEF CheckEmail, Finish
  <2> QED BY <1>1, <1>2, <2>1 DEF Writes, Kind
<1>8. CASE Weigh(q)
  <2> DEFINE x == [r EXCEPT !.gained = grants[r.role],
                            !.stage = IF r.op = "updateUser" THEN "list" ELSE "decide"]
  <2>1. Set(q, x)
    BY <1>8 DEF Weigh
  <2>2. /\ x.stage = IF r.op = "updateUser" THEN "list" ELSE "decide"
        /\ x.op = r.op /\ x.seen = r.seen /\ x.user = r.user
        /\ x.rows = r.rows /\ x.held = r.held /\ x.listed = r.listed
        /\ x.gained = grants[r.role] /\ x.role = r.role
    BY <1>0 DEF Request
  <2>3. r.stage = "gain"
    BY <1>8 DEF Weigh, At
  <2> HIDE DEF x
  <2>4. Fresh(x)
    BY <1>0, <2>2, <2>3 DEF Fresh
  <2>5. Sound(x)
    BY <2>2 DEF Sound
  <2> QED BY <2>1, <2>4, <2>5
<1>9. ASSUME NEW table \in {"users", "grants"}, Listed(q, table)
      PROVE  \E x : Set(q, x) /\ Fresh(x) /\ Sound(x)
  <2> DEFINE listed == r.listed \cup {table}
             stage == IF listed # {"users", "grants"} THEN "list"
                      ELSE IF r.op = "updateRole" THEN "gain" ELSE "decide"
             x == [r EXCEPT !.listed = listed,
                     !.rows = IF table = "users" THEN [u \in Users |-> ViewOf(users[u])] ELSE @,
                     !.held = IF table = "grants" THEN grants ELSE @,
                     !.stage = stage]
  <2>1. Set(q, x)
    BY <1>9 DEF Listed
  <2>2. /\ x.stage = stage /\ x.op = r.op /\ x.seen = r.seen /\ x.user = r.user
        /\ x.rows = (IF table = "users" THEN [u \in Users |-> ViewOf(users[u])] ELSE r.rows)
        /\ x.held = (IF table = "grants" THEN grants ELSE r.held)
        /\ x.listed = listed /\ x.gained = r.gained
        /\ x.given = r.given /\ x.role = r.role /\ x.status = r.status
    BY <1>0 DEF Request
  <2>3. r.stage = "list"
    BY <1>9 DEF Listed, At
  <2>4. Demotes(x) = Demotes(r) /\ Disables(x) = Disables(r)
    BY <2>2 DEF Demotes, Disables
  <2> HIDE DEF x
  <2>5. Fresh(x)
    <3>1. x.stage \in {"list", "gain", "decide"}
          /\ (x.stage \in {"gain", "decide"} => x.listed = {"users", "grants"})
      BY <2>2
    <3>2. /\ "users" \in x.listed => x.rows = [u \in Users |-> ViewOf(users[u])]
          /\ "grants" \in x.listed => x.held = grants
      BY <1>0, <1>9, <2>2, <2>3 DEF Fresh
    <3>3. x.op = "updateRole" => x.stage # "decide"
      BY <2>2
    <3>4. /\ x.op \in {"updateUser", "updateRole"}
          /\ x.op = "updateUser" => x.seen = ViewOf(users[x.user])
      BY <1>0, <2>2, <2>3 DEF Fresh
    <3>5. x.op = "updateUser" /\ (Demotes(x) \/ Disables(x)) /\ ~Disables(x) =>
            x.gained = grants[x.role]
      BY <1>0, <2>2, <2>3, <2>4 DEF Fresh
    <3> QED BY <3>1, <3>2, <3>3, <3>4, <3>5 DEF Fresh
  <2>6. Sound(x)
    BY <2>2 DEF Sound
  <2> QED BY <2>1, <2>5, <2>6
<1>10. CASE Decide(q)
  <2>1. At(q, "decide") /\ r.op \in {"updateUser", "updateRole"}
    BY <1>0, <1>10 DEF Decide, At, Fresh
  <2>2. CASE Refused(r)
    BY <1>1, <1>10, <2>2 DEF Decide, Finish
  <2>3. CASE ~Refused(r) /\ r.op = "updateRole"
    <3>1. Commit(q, {"grants", "perms"})
      BY <1>10, <2>3 DEF Decide
    <3>2. \A x \in Request : x.role = r.role /\ x.perms = r.perms => GrantKept(x)
      BY <1>0, <2>1, <2>3, EditDecided
    <3> QED BY <1>2, <3>1, <3>2 DEF Writes, Kind
  <2>4. CASE ~Refused(r) /\ r.op = "updateUser"
    <3>1. Commit(q, PatchWrites(r))
      BY <1>10, <2>4 DEF Decide
    <3>2. PatchWrites(r) \in SUBSET Writes /\ PatchWrites(r) \subseteq {"role", "status", "version"}
      BY DEF PatchWrites, Writes
    <3>3. \A x \in Request : x.user = r.user /\ x.role = r.role /\ x.status = r.status
                             /\ x.todo = PatchWrites(r) => UserKept(x)
      BY <1>0, <2>1, <2>4, PatchDecided
    <3>4. Kind(PatchWrites(r)) /\ "grants" \notin PatchWrites(r)
      BY <3>2 DEF Kind
    <3> QED BY <1>2, <3>1, <3>2, <3>3, <3>4
  <2> QED BY <2>1, <2>2, <2>3, <2>4
<1> QED BY <1>3, <1>4, <1>5, <1>6, <1>7, <1>8, <1>9, <1>10 DEF Read

\* What striking a write off a plan leaves of the request.
LEMMA WroteRecord ==
  ASSUME TypeOK, NEW q \in Requests, NEW w, w \in Todo(q), Wrote(q, w)
  PROVE  \/ requests'[q] = Idle
         \/ \E x \in Request :
              /\ requests'[q] = x /\ x.stage = "write" /\ x.todo = requests[q].todo \ {w}
              /\ x.user = requests[q].user /\ x.role = requests[q].role
              /\ x.status = requests[q].status /\ x.perms = requests[q].perms
<1>0. requests[q] \in Request /\ DOMAIN requests = Requests /\ requests[q].stage = "write"
  BY DEF TypeOK, Todo, At
<1>1. CASE requests[q].todo = {w}
  BY <1>0, <1>1 DEF Wrote, Set
<1>2. CASE requests[q].todo # {w}
  <2> DEFINE x == [requests[q] EXCEPT !.todo = requests[q].todo \ {w}]
  <2>1. requests'[q] = x
    BY <1>0, <1>2 DEF Wrote, Set
  <2>2. /\ x \in Request /\ x.stage = "write" /\ x.todo = requests[q].todo \ {w}
        /\ x.user = requests[q].user /\ x.role = requests[q].role
        /\ x.status = requests[q].status /\ x.perms = requests[q].perms
    BY <1>0 DEF Request
  <2> HIDE DEF x
  <2> QED BY <2>1, <2>2
<1> QED BY <1>1, <1>2

\* What changes nobody's role, status or grants leaves the holders alone.
LEMMA HoldersStay ==
  ASSUME ~Changed
  PROVE  /\ grants' = grants
         /\ \A v \in Users : users'[v].role = users[v].role /\ users'[v].status = users[v].status
BY DEF Changed, ViewOf

\* An insert, a bump and a failure take nothing from anybody, and a role that is
\* deleted has no users.
LEMMA PlainWrite ==
  ASSUME TypeOK, NEW q \in Requests, Write(q), Survives, bypassed' = {},
         ~(SetRole(q) \/ SetStatus(q) \/ SetGrants(q))
  PROVE  Survives'
<1> DEFINE r == requests[q]
<1>0. r.user \in Users /\ r.role \in Roles
  BY DEF TypeOK, Request
<1>1. ASSUME users' = users, grants' = grants PROVE Survives'
  BY <1>1 DEF Survives, Holds
<1>2. DOMAIN users = Users /\ DOMAIN grants = Roles
  BY DEF TypeOK
<1>3. CASE BumpTokenVersion(q)
  <2>1. /\ \A v \in Users : users'[v].role = users[v].role /\ users'[v].status = users[v].status
        /\ grants' = grants
    BY <1>0, <1>2, <1>3 DEF BumpTokenVersion, TypeOK, Row
  <2> QED BY <2>1 DEF Survives, Holds
<1>4. CASE InsertUser(q)
  <2>1. (\A v \in Users : users[v].status # "absent" => users'[v] = users[v]) /\ grants' = grants
    BY <1>0, <1>2, <1>4 DEF InsertUser
  <2> QED BY <2>1 DEF Survives, Holds
<1>5. CASE PutMember(q)
  <2> DEFINE row == [users[r.user] EXCEPT !.role = TeamRole(r), !.status = TeamStatus(r)]
  <2>1. users' = [users EXCEPT ![r.user] = row] /\ grants' = grants
        /\ (users[r.user].status = "absent" \/ users[r.user] = row)
    BY <1>5 DEF PutMember
  <2> HIDE DEF row
  <2>2. \A v \in Users : users[v].status # "absent" => users'[v] = users[v]
    BY <1>0, <1>2, <2>1
  <2> QED BY <2>1, <2>2 DEF Survives, Holds
<1>6. CASE DeleteRole(q)
  <2>1. /\ users' = users
        /\ \A v \in Users : users[v].status # "absent" => users[v].role # r.role
        /\ \A x \in Roles \ {r.role} : grants'[x] = grants[x]
    BY <1>0, <1>2, <1>6 DEF DeleteRole
  <2> SUFFICES ASSUME NEW perm \in Critical PROVE (\E u \in Users : Holds(users, grants, u, perm))'
    BY DEF Survives
  <2>2. PICK v \in Users : Holds(users, grants, v, perm)
    BY DEF Survives
  <2>3. users[v].role \in Roles /\ users[v].role # r.role
    BY <2>1, <2>2 DEF TypeOK, Row, Holds
  <2>4. Holds(users, grants, v, perm)'
    BY <2>1, <2>2, <2>3 DEF Holds
  <2> QED BY <2>4
<1>7. CASE InsertRole(q) \/ BumpPermVersion(q)
  BY <1>1, <1>7 DEF InsertRole, BumpPermVersion
<1>8. CASE Constraint(q) \/ Fail(q)
  <2>1. Abort(q)
    BY <1>8 DEF Constraint, Fail
  <2> QED BY <1>1, <2>1, AbortShape
<1> QED BY <1>3, <1>4, <1>5, <1>6, <1>7, <1>8 DEF Write

\* A write that was not decided on before others changed who holds what, or that
\* changes nothing, leaves every critical permission somebody.
LEMMA OutrunWrite ==
  ASSUME TypeOK, NEW q \in Requests, Write(q), Survives, bypassed' = {}, ~(Decided(q) /\ Changed)
  PROVE  Survives'
<1>1. CASE SetRole(q) \/ SetStatus(q) \/ SetGrants(q)
  <2>1. Decided(q)
    BY <1>1 DEF SetRole, SetStatus, SetGrants, Decided
  <2> QED BY <2>1, HoldersStay DEF Survives, Holds
<1> QED BY <1>1, PlainWrite

\* A write of a sound plan that nobody has outrun leaves every critical permission
\* somebody, and the rest of the plan sound.
LEMMA WriteSound ==
  ASSUME TypeOK, Planned, NEW q \in Requests, Write(q), bypassed' = {}, Survives, Sound(requests[q])
  PROVE  (Survives /\ Fresh(requests[q]) /\ Sound(requests[q]))'
<1> DEFINE r == requests[q]
           plain == ~(SetRole(q) \/ SetStatus(q) \/ SetGrants(q))
<1>0. r \in Request /\ r.user \in Users /\ r.role \in Roles /\ r.status \in Settable
  BY DEF TypeOK, Planned, Request
<1>1. Survives /\ Sound(r)
  OBVIOUS
<1>2. DOMAIN users = Users /\ users[r.user] \in Row /\ DOMAIN grants = Roles
  BY <1>0 DEF TypeOK
<1>3. ASSUME requests'[q] = Idle, Survives'
      PROVE  (Survives /\ Fresh(requests[q]) /\ Sound(requests[q]))'
  BY <1>3 DEF Fresh, Sound, Idle
<1>4. ASSUME NEW w, w \in Todo(q), Wrote(q, w), Survives',
             \A x \in Request :
               (/\ x.stage = "write" /\ x.todo = r.todo \ {w} /\ x.user = r.user
                /\ x.role = r.role /\ x.status = r.status /\ x.perms = r.perms) =>
               /\ "role" \in x.todo \/ "status" \in x.todo => UserKept(x)'
               /\ "grants" \in x.todo => GrantKept(x)'
      PROVE  (Survives /\ Fresh(requests[q]) /\ Sound(requests[q]))'
  <2>1. CASE requests'[q] = Idle
    BY <1>3, <1>4, <2>1
  <2>2. CASE requests'[q] # Idle
    <3>1. PICK x \in Request :
            /\ requests'[q] = x /\ x.stage = "write" /\ x.todo = r.todo \ {w}
            /\ x.user = r.user /\ x.role = r.role /\ x.status = r.status /\ x.perms = r.perms
      BY <1>4, <2>2, WroteRecord
    <3>2. Kind(x.todo)
      BY <1>1, <1>4, <3>1 DEF Sound, Kind, Todo, At
    <3>3. /\ "role" \in x.todo \/ "status" \in x.todo => UserKept(x)'
          /\ "grants" \in x.todo => GrantKept(x)'
      BY <1>4, <3>1
    <3>4. Sound(x)' /\ Fresh(x)'
      BY <3>1, <3>2, <3>3 DEF Sound, Fresh
    <3>5. (Fresh(requests[q]) /\ Sound(requests[q]))'
      BY <3>1, <3>4
    <3> QED BY <1>4, <3>5
  <2> QED BY <2>1, <2>2
<1>5. ASSUME Todo(q) # {} PROVE r.stage = "write" /\ Todo(q) = r.todo /\ Kind(r.todo)
  BY <1>1, <1>5 DEF Todo, At, Sound
<1>16. ASSUME InsertUser(q) \/ PutMember(q) \/ DeleteRole(q) \/ InsertRole(q) \/ BumpTokenVersion(q)
              \/ BumpPermVersion(q) \/ Constraint(q) \/ Fail(q), plain
       PROVE  Survives'
  BY PlainWrite, <1>16
<1>6. CASE SetRole(q)
  <2>1. "role" \in r.todo /\ UserKept(r) /\ r.stage = "write" /\ "role" \in Todo(q)
    BY <1>1, <1>5, <1>6 DEF SetRole, Sound
  <2>2. /\ \A v \in Users \ {r.user} : users'[v] = users[v]
        /\ users'[r.user].role = r.role /\ users'[r.user].status = users[r.user].status
        /\ grants' = grants
    BY <1>0, <1>2, <1>6 DEF SetRole, Row
  <2>3. \A perm \in Critical :
          \/ \E v \in Users \ {r.user} : Holds(users, grants, v, perm)'
          \/ /\ users'[r.user].status = "active" /\ perm \in grants[r.role]
             /\ "status" \in r.todo => r.status = "active"
    BY <2>1, <2>2 DEF UserKept, Holds
  <2>4. \A x \in Request : x.todo = r.todo \ {"role"} /\ x.user = r.user /\ x.role = r.role
                           /\ x.status = r.status => UserKept(x)'
    BY <2>2, <2>3 DEF UserKept, Holds
  <2>5. Survives'
    BY <1>0, <2>2, <2>3 DEF Survives, Holds
  <2>6. "grants" \notin r.todo
    BY <1>5, <2>1 DEF Kind
  <2> QED BY <1>4, <1>6, <2>1, <2>4, <2>5, <2>6 DEF SetRole
<1>7. CASE SetStatus(q)
  <2>1. "status" \in r.todo /\ "role" \notin r.todo /\ UserKept(r) /\ "status" \in Todo(q)
    BY <1>1, <1>5, <1>7 DEF SetStatus, Sound
  <2>2. /\ \A v \in Users \ {r.user} : users'[v] = users[v]
        /\ users'[r.user].role = users[r.user].role /\ users'[r.user].status = r.status
        /\ grants' = grants
    BY <1>0, <1>2, <1>7 DEF SetStatus, Row
  <2>3. \A perm \in Critical :
          \/ \E v \in Users \ {r.user} : Holds(users, grants, v, perm)'
          \/ users'[r.user].status = "active" /\ perm \in grants[users'[r.user].role]
    BY <2>1, <2>2 DEF UserKept, Holds
  <2>4. Survives'
    BY <1>0, <2>2, <2>3 DEF Survives, Holds
  <2>5. "grants" \notin r.todo
    BY <1>5, <2>1 DEF Kind
  <2> QED BY <1>4, <1>7, <2>1, <2>4, <2>5 DEF SetStatus
<1>8. CASE plain /\ BumpTokenVersion(q)
  <2>1. requests'[q] = Idle
    BY <1>8 DEF BumpTokenVersion, Wrote, Set, TypeOK, Todo, At
  <2> QED BY <1>3, <1>16, <1>8, <2>1
<1>9. CASE plain /\ (InsertUser(q) \/ PutMember(q) \/ DeleteRole(q))
  <2>1. PICK w \in {"row", "member", "delete"} : w \in Todo(q) /\ Wrote(q, w) /\ (w = "delete" => "grants" \notin Todo(q))
    BY <1>9 DEF InsertUser, PutMember, DeleteRole
  <2>2. w \in r.todo /\ Kind(r.todo) /\ (w = "delete" => "grants" \notin r.todo)
    BY <1>5, <2>1
  <2> QED BY <1>4, <1>9, <1>16, <2>1, <2>2 DEF Kind
<1>11. CASE plain /\ InsertRole(q)
  <2>1. "insert" \in Todo(q) /\ Wrote(q, "insert")
    BY <1>11 DEF InsertRole
  <2>2. users' = users /\ grants' = grants
    BY <1>11 DEF InsertRole
  <2>3. Survives'
    BY <1>11, <1>16
  <2>4. "role" \in r.todo \/ "status" \in r.todo => UserKept(r)
    BY <1>1, <1>5, <2>1 DEF Sound
  <2>5. "grants" \in r.todo => GrantKept(r)
    BY <1>1, <1>5, <2>1 DEF Sound
  <2>6. \A x \in Request : x.todo \subseteq r.todo /\ x.user = r.user /\ x.role = r.role
                           /\ x.status = r.status /\ x.perms = r.perms =>
          /\ "role" \in x.todo \/ "status" \in x.todo => UserKept(x)'
          /\ "grants" \in x.todo => GrantKept(x)'
    BY <2>2, <2>4, <2>5 DEF UserKept, GrantKept, Holds
  <2> QED BY <1>4, <2>1, <2>3, <2>6
<1>12. CASE SetGrants(q)
  <2>1. "grants" \in r.todo /\ GrantKept(r) /\ Kind(r.todo) /\ "grants" \in Todo(q)
    BY <1>1, <1>5, <1>12 DEF SetGrants, Sound
  <2>2. /\ grants'[r.role] = r.perms /\ users' = users
        /\ \A x \in Roles \ {r.role} : grants'[x] = grants[x]
    BY <1>0, <1>2, <1>12 DEF SetGrants
  <2>3. Survives'
    <3>1. SUFFICES ASSUME NEW perm \in Critical PROVE (\E u \in Users : Holds(users, grants, u, perm))'
      BY DEF Survives
    <3>2. PICK v \in Users : Holds(users, grants, v, perm) /\ (users[v].role # r.role \/ perm \in r.perms)
      BY <2>1 DEF GrantKept
    <3>3. users[v].role \in Roles
      BY DEF TypeOK, Row
    <3>4. Holds(users, grants, v, perm)'
      BY <2>2, <3>2, <3>3 DEF Holds
    <3> QED BY <3>4
  <2> QED BY <1>4, <1>12, <2>1, <2>3 DEF SetGrants, Kind
<1>15. CASE plain /\ BumpPermVersion(q)
  <2>1. requests'[q] = Idle
    BY <1>15 DEF BumpPermVersion, Wrote, Set, TypeOK, Todo, At
  <2> QED BY <1>3, <1>15, <1>16, <2>1
<1>14. CASE plain /\ (Constraint(q) \/ Fail(q))
  <2>1. Abort(q)
    BY <1>14 DEF Constraint, Fail
  <2>2. requests'[q] = Idle
    BY <2>1, AbortShape
  <2> QED BY <1>3, <1>14, <1>16, <2>2
<1> QED BY <1>6, <1>7, <1>8, <1>9, <1>11, <1>12, <1>14, <1>15 DEF Write

\* A role that has no row yet has no grants.
LEMMA UnbornKept ==
  ASSUME TypeOK, AdminInv, [Next]_vars
  PROVE  \A x \in Roles : roles'[x] = "unborn" => grants'[x] = {}
<1>1. \A x \in Roles : roles[x] = "unborn" => grants[x] = {}
  BY DEF AdminInv
<1>2. ASSUME NEW q \in Requests, InsertRole(q) \/ DeleteRole(q)
      PROVE  \A x \in Roles : roles'[x] = "unborn" => roles[x] = "unborn" /\ grants'[x] = grants[x]
  BY <1>2 DEF InsertRole, DeleteRole, TypeOK
<1>3. ASSUME NEW q \in Requests, SetGrants(q)
      PROVE  \A x \in Roles : roles'[x] = "unborn" => grants'[x] = {}
  BY <1>1, <1>3 DEF SetGrants, TypeOK
<1>4. ASSUME NEW q \in Requests, Write(q)
      PROVE  \A x \in Roles : roles'[x] = "unborn" => grants'[x] = {}
  <2>1. CASE InsertRole(q) \/ DeleteRole(q) \/ SetGrants(q)
    BY <1>1, <1>2, <1>3, <2>1
  <2>2. CASE ~(InsertRole(q) \/ DeleteRole(q) \/ SetGrants(q))
    BY <1>1, <1>4, <2>2 DEF Write, SetRole, SetStatus, BumpTokenVersion, InsertUser, PutMember,
                            BumpPermVersion, Constraint, Fail, Abort, tables
  <2> QED BY <2>1, <2>2
<1>5. ASSUME NEW q \in Requests, Start(q) \/ Read(q) PROVE roles' = roles /\ grants' = grants
  <2>1. CASE Start(q)
    BY <2>1, StartFrame
  <2>2. CASE Read(q)
    BY <2>2 DEF Read, LoadUser, PickRole, LoadRole, CountUsers, CheckEmail, Weigh, Listed, Decide,
                Reading, tables
  <2> QED BY <1>5, <2>1, <2>2
<1>6. CASE (\E m \in Mints : MintStep(m)) \/ (\E t \in tokens : Expire(t)) \/ UNCHANGED vars
  BY <1>1, <1>6 DEF MintStep, ReadUser, ReadClaims, Sign, GiveUp, Expire, tables, vars
<1> QED BY <1>1, <1>4, <1>5, <1>6 DEF Next

\* A start, a read and a write change one request; none takes back what the team
\* view overwrote.
LEMMA OneRequest ==
  ASSUME TypeOK, Planned, NEW q \in Requests, Start(q) \/ Read(q) \/ Write(q)
  PROVE  /\ \A p \in Requests \ {q} : requests'[p] = requests[p]
         /\ bypassed \subseteq bypassed'
<1>1. CASE Start(q) \/ Read(q)
  BY <1>1, StartFrame, ReadFrame
<1>2. CASE Constraint(q) \/ Fail(q)
  <2>1. Abort(q)
    BY <1>2 DEF Constraint, Fail
  <2> QED BY <2>1, AbortShape
<1>3. CASE Write(q) /\ ~(Constraint(q) \/ Fail(q))
  <2>1. \A p \in Requests \ {q} : requests'[p] = requests[p]
    BY <1>3 DEF Write, SetRole, SetStatus, BumpTokenVersion, InsertUser, PutMember, InsertRole,
                SetGrants, DeleteRole, BumpPermVersion, Wrote, Set, TypeOK
  <2>2. bypassed \subseteq bypassed'
    BY <1>3 DEF Write, SetRole, SetStatus, BumpTokenVersion, InsertUser, PutMember, InsertRole,
                SetGrants, DeleteRole, BumpPermVersion, history
  <2> QED BY <2>1, <2>2
<1> QED BY <1>1, <1>2, <1>3

\* A step of one request that changes nothing of who holds what leaves the plans of
\* the others as they were; one that does crosses all that are in flight.
LEMMA OthersSound ==
  ASSUME TypeOK, Planned, AdminInv, bypassed = {}, ~outrun, NEW q \in Requests,
         Start(q) \/ Read(q) \/ Write(q), Crossing(q),
         q \notin crossed => (Fresh(requests[q]) /\ Sound(requests[q]))'
  PROVE  (\A p \in Requests \ crossed : Fresh(requests[p]) /\ Sound(requests[p]))'
<1> SUFFICES ASSUME NEW p \in Requests, p \notin crossed'
             PROVE  (Fresh(requests[p]) /\ Sound(requests[p]))'
  OBVIOUS
<1>1. CASE requests'[p].stage = "idle"
  BY <1>1 DEF Fresh, Sound
<1>2. CASE requests'[p].stage # "idle"
  <2>1. p \notin crossed /\ (p = q \/ ~Changed)
    BY <1>2 DEF Crossing
  <2>2. CASE p # q
    <3>1. PICK x \in Request : x = requests[p]
      BY DEF TypeOK
    <3>2. requests'[p] = x /\ Fresh(x) /\ Sound(x)
      BY <2>1, <2>2, <3>1, OneRequest DEF AdminInv
    <3>3. x.user \in Users
      BY DEF Request
    <3>4. grants' = grants /\ \A u \in Users : ViewOf(users[u])' = ViewOf(users[u])
      BY <2>1, <2>2 DEF Changed
    <3>5. \A u \in Users, perm \in Critical : Holds(users, grants, u, perm)' = Holds(users, grants, u, perm)
      BY <2>1, <2>2, HoldersStay DEF Holds
    <3>6. \A u \in Users : users'[u].role = users[u].role
      BY <2>1, <2>2, HoldersStay
    <3>7. [u \in Users |-> ViewOf(users[u])]' = [u \in Users |-> ViewOf(users[u])]
      BY <3>4
    <3>8. Fresh(x)'
      BY <3>2, <3>3, <3>4, <3>7 DEF Fresh
    <3>9. Sound(x)'
      BY <3>2, <3>3, <3>4, <3>5, <3>6 DEF Sound, UserKept, GrantKept
    <3> QED BY <3>2, <3>8, <3>9
  <2> QED BY <2>1, <2>2
<1> QED BY <1>1, <1>2

\* However many administration requests overlap, whatever tokens are minted or used
\* meanwhile and whichever call fails, somebody who can manage roles and somebody who
\* can manage the team are left at every instant, until a request writes what it had
\* decided on before others changed a role, a status or grants, or the team view
\* overwrites an account.
THEOREM SomebodyCanAdminister == Spec => []AdministrationSurvives
<1>1. Init => AdminInv
  <2> SUFFICES ASSUME Init PROVE AdminInv
    OBVIOUS
  <2>1. \A x \in Roles : roles[x] = "unborn" => grants[x] = {}
    BY DEF Init, SystemRoles
  <2>2. Survives
    <3>1. \A perm \in Critical : Holds(users, grants, Admin, perm)
      BY AccountsAssumption DEF Init, Holds
    <3> QED BY <3>1, AccountsAssumption DEF Survives
  <2>3. \A q \in Requests : Fresh(requests[q]) /\ Sound(requests[q])
    BY DEF Init, Fresh, Sound, Idle
  <2> QED BY <2>1, <2>2, <2>3 DEF AdminInv
<1>2. ASSUME TypeOK, Planned, AdminInv, [Next]_vars PROVE AdminInv'
  <2> DEFINE Good == Survives /\ \A q \in Requests \ crossed : Fresh(requests[q]) /\ Sound(requests[q])
  <2>1. ASSUME bypassed' = {}, ~outrun' PROVE Good'
    <3>0. ASSUME NEW q \in Requests, Start(q) \/ Read(q) \/ Write(q), Crossing(q)
          PROVE  bypassed = {} /\ ~outrun /\ Survives /\ ~(q \in crossed /\ Decided(q) /\ Changed)
      BY <1>2, <2>1, <3>0, OneRequest DEF Crossing, AdminInv
    <3>1. ASSUME NEW q \in Requests, Start(q), Crossing(q) PROVE Good'
      <4>1. users' = users /\ grants' = grants
        BY <1>2, <3>1, StartFrame
      <4>2. Survives'
        BY <3>0, <3>1, <4>1 DEF Survives, Holds
      <4>3. Fresh(requests[q])' /\ Sound(requests[q])'
        BY <1>2, <3>1, StartFrame DEF Fresh, Sound
      <4> QED BY <1>2, <3>0, <3>1, <4>2, <4>3, OthersSound
    <3>2. ASSUME NEW q \in Requests, Read(q), Crossing(q) PROVE Good'
      <4>1. users' = users /\ grants' = grants
        BY <1>2, <3>2, ReadFrame
      <4>2. Survives'
        BY <3>0, <3>2, <4>1 DEF Survives, Holds
      <4>3. ASSUME q \notin crossed PROVE Fresh(requests[q])' /\ Sound(requests[q])'
        <5>1. PICK x : Set(q, x) /\ Fresh(x) /\ Sound(x)
          BY <1>2, <3>0, <3>2, <4>3, ReadSound
        <5>2. requests'[q] = x
          BY <1>2, <5>1 DEF Set, TypeOK
        <5>3. Fresh(x)' /\ Sound(x)'
          BY <4>1, <5>1 DEF Fresh, Sound, UserKept, GrantKept, Holds
        <5> QED BY <5>2, <5>3
      <4> QED BY <1>2, <3>0, <3>2, <4>2, <4>3, OthersSound
    <3>3. ASSUME NEW q \in Requests, Write(q), Crossing(q) PROVE Good'
      <4>1. CASE q \in crossed
        BY <1>2, <2>1, <3>0, <3>3, <4>1, OutrunWrite, OthersSound
      <4>2. CASE q \notin crossed
        <5>1. Sound(requests[q])
          BY <1>2, <3>0, <3>3, <4>2 DEF AdminInv
        <5>2. (Survives /\ Fresh(requests[q]) /\ Sound(requests[q]))'
          BY <1>2, <2>1, <3>0, <3>3, <5>1, WriteSound
        <5> QED BY <1>2, <3>0, <3>3, <4>2, <5>2, OthersSound
      <4> QED BY <4>1, <4>2
    <3>4. CASE \/ (\E m \in Mints : MintStep(m)) /\ UNCHANGED <<crossed, outrun>>
               \/ (\E t \in tokens : Expire(t)) /\ UNCHANGED <<crossed, outrun>>
               \/ UNCHANGED vars
      <4>1. UNCHANGED <<users, grants, requests, bypassed, crossed, outrun>>
        BY <3>4 DEF MintStep, ReadUser, ReadClaims, Sign, GiveUp, Expire, tables, history, vars
      <4>2. Survives'
        BY <1>2, <2>1, <4>1 DEF AdminInv, Survives, Holds
      <4>3. \A q \in Requests \ crossed : Fresh(requests[q]) /\ Sound(requests[q])
        BY <1>2, <2>1, <4>1 DEF AdminInv
      <4>4. \A x : (Fresh(x) => Fresh(x)') /\ (Sound(x) => Sound(x)')
        BY <4>1 DEF Fresh, Sound, UserKept, GrantKept, Holds
      <4>5. (\A q \in Requests \ crossed : Fresh(requests[q]) /\ Sound(requests[q]))'
        <5>1. SUFFICES ASSUME NEW q \in Requests, q \notin crossed'
                       PROVE  (Fresh(requests[q]) /\ Sound(requests[q]))'
          OBVIOUS
        <5>2. PICK x : x = requests[q]
          OBVIOUS
        <5>3. Fresh(x)' /\ Sound(x)' /\ requests'[q] = x
          BY <4>1, <4>3, <4>4, <5>1, <5>2
        <5> QED BY <5>3
      <4> QED BY <4>2, <4>5
    <3> QED BY <1>2, <3>1, <3>2, <3>3, <3>4 DEF Next
  <2> QED BY <1>2, <2>1, UnbornKept DEF AdminInv
<1>3. AdminInv => AdministrationSurvives
  BY DEF AdminInv, Survives, AdministrationSurvives
<1> QED BY <1>1, <1>2, <1>3, PlansKept, PTL DEF Spec
=============================================================================
