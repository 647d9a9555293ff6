------------------------------ MODULE Sessions ------------------------------
(***************************************************************************)
(* Refresh sessions: a sign-in opens a family of refresh tokens, each      *)
(* refresh rotates the presented token into a successor of the same        *)
(* family, and a logout, a disabled user or the replay of a spent token    *)
(* revokes the whole family.  Every await of the handlers is a step, so    *)
(* that two tabs, a logout and an administrator may meet between any two.  *)
(*                                                                         *)
(* A token stands for its row: the hash lookup is by equality.  The access *)
(* token minted along is Accounts' subject.  Rows are never deleted: no    *)
(* caller of deleteExpired exists.                                         *)
(***************************************************************************)
EXTENDS Integers, FiniteSets

CONSTANTS
  Users,
  Families,   \* ids of token lineages, one per sign-in
  Owner,      \* the user a family belongs to
  MaxTokens,  \* bounds the refresh tokens ever issued
  LastTick,   \* bounds time
  Grace,      \* REFRESH_REUSE_GRACE_SECONDS, in ticks
  Lifetime,   \* refreshSeconds, in ticks
  Requests    \* sign-in and refresh requests that may be in flight

ASSUME OwnerAssumption == Owner \in [Families -> Users]
ASSUME SessionBounds ==
  MaxTokens \in Nat /\ LastTick \in Nat /\ Grace \in Nat /\ Lifetime \in Nat

VARIABLES
  clock,
  active,    \* the users whose status is active
  rows,      \* the refresh_tokens table, by token
  issued,    \* tokens issued so far
  req,       \* what each request in flight has read
  owed,      \* the users disabled whose tokens are still to be revoked
  opened,    \* history: the families in use
  ended,     \* history: when each family was first revoked, Never before
  strays,    \* history: tokens minted for a request that overtook the end of its family
  since      \* history: the earliest request that rotated a token, by its clock

sessionVars == <<clock, active, rows, issued, req, owed, opened, ended, strays, since>>
history == <<opened, ended, strays, since>>

Never == -1
NoToken == 0
Tokens == 1..MaxTokens
Time == 0..LastTick

Row == [family: Families, expires: Nat, revoked: Time \cup {Never}, replaced: Tokens \cup {NoToken}]
NoRow == [expires |-> Never]
Verdicts == {"unknown", "concurrent", "reuse", "expired", "ok"}
Request == [stage: {"find", "user", "persist", "revoke"}, token: Tokens, now: Time,
            verdict: Verdicts, family: Families, stray: BOOLEAN]
           \cup [stage: {"issue"}, family: Families, now: Time]
Idle == [stage |-> "idle"]

SessionsInit ==
  /\ clock = 0
  /\ active = Users
  /\ rows = [t \in Tokens |-> NoRow]
  /\ issued = 0
  /\ req = [r \in Requests |-> Idle]
  /\ owed = {}
  /\ opened = {}
  /\ ended = [f \in Families |-> Never]
  /\ strays = {}
  /\ since = [t \in Tokens |-> Never]

Stored(t) == rows[t] # NoRow
Live(t) == Stored(t) /\ rows[t].revoked = Never
FamilyOf(t) == rows[t].family
Go(r, stage) == req' = [req EXCEPT ![r].stage = stage]
Done(r) == req' = [req EXCEPT ![r] = Idle]

-----------------------------------------------------------------------------
(* The rules and the statements.                                            *)

\* Mutant: a spent token is forgiven whenever it has a successor.
RotationForgiving(row, now) ==
  IF row = NoRow THEN "unknown"
  ELSE IF row.revoked # Never \/ row.replaced # NoToken
       THEN IF row.replaced # NoToken THEN "concurrent" ELSE "reuse"
       ELSE IF now >= row.expires THEN "expired" ELSE "ok"

\* Mutant: the last instant of the grace window is outside of it.
RotationStrict(row, now) ==
  IF row = NoRow THEN "unknown"
  ELSE IF row.revoked # Never \/ row.replaced # NoToken
       THEN IF row.replaced # NoToken /\ row.revoked # Never /\ now - row.revoked < Grace
            THEN "concurrent" ELSE "reuse"
       ELSE IF now >= row.expires THEN "expired" ELSE "ok"

\* validateRefreshRotation.
Rotation(row, now) ==
  IF row = NoRow THEN "unknown"
  ELSE IF row.revoked # Never \/ row.replaced # NoToken
       THEN IF row.replaced # NoToken /\ row.revoked # Never /\ now - row.revoked <= Grace
            THEN "concurrent" ELSE "reuse"
       ELSE IF now >= row.expires THEN "expired" ELSE "ok"

\* Mutant: replaced_by is left undefined.
NewRowBare(f, now) == [family |-> f, expires |-> now + Lifetime, revoked |-> Never, replaced |-> Never]

NewRow(f, now) == [family |-> f, expires |-> now + Lifetime, revoked |-> Never, replaced |-> NoToken]

\* The update of revokeFamily and revokeAllForUser: rows already revoked keep their stamp.
Revoked(fs, at) ==
  [t \in Tokens |-> IF Live(t) /\ FamilyOf(t) \in fs THEN [rows[t] EXCEPT !.revoked = at] ELSE rows[t]]

End(fs) == ended' = [f \in Families |-> IF f \in fs /\ ended[f] = Never THEN clock ELSE ended[f]]

-----------------------------------------------------------------------------
(* Signing in.                                                              *)

\* authenticate has found the user active and the password right.
SignIn(r, f) ==
  /\ req[r] = Idle
  /\ f \notin opened
  /\ Owner[f] \in active
  /\ opened' = opened \cup {f}
  /\ req' = [req EXCEPT ![r] = [stage |-> "issue", family |-> f, now |-> clock]]
  /\ UNCHANGED <<clock, active, rows, issued, owed, ended, strays, since>>

\* Insert the first row of a family.
IssueFirst(r) ==
  /\ req[r].stage = "issue"
  /\ issued < MaxTokens
  /\ issued' = issued + 1
  /\ rows' = [rows EXCEPT ![issued'] = NewRow(req[r].family, req[r].now)]
  /\ strays' = IF Owner[req[r].family] \in active THEN strays ELSE strays \cup {issued'}
  /\ Done(r)
  /\ UNCHANGED <<clock, active, owed, opened, ended, since>>

-----------------------------------------------------------------------------
(* Refreshing.                                                              *)

\* A client presents a token it was once given; the clock is read first.
Present(r, t) ==
  /\ req[r] = Idle
  /\ Stored(t)
  /\ req' = [req EXCEPT ![r] = [stage |-> "find", token |-> t, now |-> clock, verdict |-> "unknown",
                                family |-> FamilyOf(t), stray |-> FALSE]]
  /\ UNCHANGED <<clock, active, rows, issued, owed, history>>

\* Would a successor minted for this reading be one the family's end did not see?
Overtakes(r) ==
  LET t == req[r].token  f == req[r].family IN
  t \in strays \/ ended[f] = Never \/ req[r].now <= ended[f] + Grace

FindByHash(r) ==
  LET verdict == Rotation(rows[req[r].token], req[r].now) IN
  /\ req[r].stage = "find"
  /\ \/ /\ verdict \in {"unknown", "expired"}
        /\ Done(r)
     \/ /\ verdict = "reuse"
        /\ req' = [req EXCEPT ![r].stage = "revoke", ![r].verdict = verdict]
     \/ /\ verdict \in {"ok", "concurrent"}
        /\ req' = [req EXCEPT ![r].stage = "user", ![r].verdict = verdict, ![r].stray = Overtakes(r)]
  /\ UNCHANGED <<clock, active, rows, issued, owed, history>>

LoadUser(r) ==
  /\ req[r].stage = "user"
  /\ Go(r, IF Owner[req[r].family] \in active THEN "persist" ELSE "revoke")
  /\ UNCHANGED <<clock, active, rows, issued, owed, history>>

Successor(r) ==
  /\ issued < MaxTokens
  /\ issued' = issued + 1
  /\ strays' = IF req[r].stray /\ (ended[req[r].family] # Never \/ req[r].token \in strays)
               THEN strays \cup {issued'} ELSE strays
  /\ Done(r)

\* Mutant: the successor is copied from the row as it was just stamped.
RotateCopy(r) ==
  /\ req[r].stage = "persist" /\ req[r].verdict = "ok"
  /\ Successor(r)
  /\ rows' = [rows EXCEPT ![req[r].token].revoked = req[r].now, ![req[r].token].replaced = issued',
                          ![issued'] = [NewRow(req[r].family, req[r].now) EXCEPT !.revoked = req[r].now]]
  /\ since' = [since EXCEPT ![req[r].token] = IF @ = Never \/ req[r].now < @ THEN req[r].now ELSE @]
  /\ UNCHANGED <<clock, active, owed, opened, ended>>

\* One transaction: stamp the presented row, whatever has become of it, and insert its successor.
Rotate(r) ==
  /\ req[r].stage = "persist" /\ req[r].verdict = "ok"
  /\ Successor(r)
  /\ rows' = [rows EXCEPT ![req[r].token].revoked = req[r].now, ![req[r].token].replaced = issued',
                          ![issued'] = NewRow(req[r].family, req[r].now)]
  /\ since' = [since EXCEPT ![req[r].token] = IF @ = Never \/ req[r].now < @ THEN req[r].now ELSE @]
  /\ UNCHANGED <<clock, active, owed, opened, ended>>

IssueConcurrent(r) ==
  /\ req[r].stage = "persist" /\ req[r].verdict = "concurrent"
  /\ Successor(r)
  /\ rows' = [rows EXCEPT ![issued'] = NewRow(req[r].family, req[r].now)]
  /\ UNCHANGED <<clock, active, owed, opened, ended, since>>

\* The response to a replay, and to a user who is no longer active.
RevokeFamily(r) ==
  /\ req[r].stage = "revoke"
  /\ rows' = Revoked({req[r].family}, req[r].now)
  /\ End({req[r].family})
  /\ Done(r)
  /\ UNCHANGED <<clock, active, issued, owed, opened, strays, since>>

\* A call fails, or the process dies.
GiveUp(r) ==
  /\ req[r] # Idle
  /\ Done(r)
  /\ UNCHANGED <<clock, active, rows, issued, owed, history>>

-----------------------------------------------------------------------------
(* Ending sessions.                                                         *)

\* The family of a row never changes: finding it and revoking it are one step.
Logout(t) ==
  /\ Stored(t)
  /\ rows' = Revoked({FamilyOf(t)}, clock)
  /\ End({FamilyOf(t)})
  /\ UNCHANGED <<clock, active, issued, req, owed, opened, strays, since>>

SetDisabled(u) ==
  /\ u \in active
  /\ active' = active \ {u}
  /\ owed' = owed \cup {u}
  /\ UNCHANGED <<clock, rows, issued, req, history>>

\* The families of a user that have a row.
FamiliesOf(u) == {f \in Families : Owner[f] = u /\ \E t \in Tokens : Stored(t) /\ FamilyOf(t) = f}

\* Mutant: only the families not refreshed since are revoked.
RevokeIdleFamilies(u) ==
  /\ u \in owed
  /\ owed' = owed \ {u}
  /\ LET fs == {f \in FamiliesOf(u) : \A t \in Tokens : Stored(t) /\ FamilyOf(t) = f => rows[t].replaced = NoToken}
     IN rows' = Revoked(fs, clock) /\ End(fs)
  /\ UNCHANGED <<clock, active, issued, req, opened, strays, since>>

RevokeAllForUser(u) ==
  /\ u \in owed
  /\ owed' = owed \ {u}
  /\ rows' = Revoked(FamiliesOf(u), clock)
  /\ End(FamiliesOf(u))
  /\ UNCHANGED <<clock, active, issued, req, opened, strays, since>>

Enable(u) ==
  /\ u \notin active
  /\ active' = active \cup {u}
  /\ UNCHANGED <<clock, rows, issued, req, owed, history>>

Tick ==
  /\ clock < LastTick
  /\ clock' = clock + 1
  /\ UNCHANGED <<active, rows, issued, req, owed, history>>

RequestStep(r) ==
  \/ \E f \in Families : SignIn(r, f)
  \/ IssueFirst(r)
  \/ \E t \in Tokens : Present(r, t)
  \/ FindByHash(r) \/ LoadUser(r) \/ Rotate(r) \/ IssueConcurrent(r) \/ RevokeFamily(r) \/ GiveUp(r)

UserStep(u) == SetDisabled(u) \/ RevokeAllForUser(u) \/ Enable(u)

SessionsNext ==
  \/ \E r \in Requests : RequestStep(r)
  \/ \E t \in Tokens : Logout(t)
  \/ \E u \in Users : UserStep(u)
  \/ Tick

SessionsSpec == SessionsInit /\ [][SessionsNext]_sessionVars

-----------------------------------------------------------------------------
(* Properties.                                                              *)

\* Every table and request has its type.
SessionsTypeOK ==
  /\ clock \in Time
  /\ active \subseteq Users /\ owed \subseteq Users
  /\ issued \in 0..MaxTokens
  /\ rows \in [Tokens -> Row \cup {NoRow}]
  /\ \A t \in Tokens : Stored(t) <=> t <= issued
  /\ req \in [Requests -> Request \cup {Idle}]
  /\ opened \subseteq Families
  /\ ended \in [Families -> Time \cup {Never}]
  /\ strays \subseteq Tokens
  /\ since \in [Tokens -> Time \cup {Never}]

\* A family that was revoked stays signed out: the only tokens of it that still
\* refresh descend from a request that had read its row before, or that
\* presented a spent token within the grace window of the end, and overtook it
\* (RefreshUseCase persists without looking again).
LogoutSticks ==
  \A t \in Tokens : Live(t) /\ ended[FamilyOf(t)] # Never => t \in strays

\* Once updateUser has disabled a user and revoked his tokens, nothing of his
\* refreshes but what a request that overtook it inserted.
DisabledStaysOut ==
  \A t \in Tokens : Live(t) /\ Owner[FamilyOf(t)] \notin active \cup owed => t \in strays

\* As long as nobody ended it, a family that was ever issued has a token that is
\* not revoked: two tabs that refresh at once, or a rotation whose answer is
\* lost, do not sign the user out.
LineageLives ==
  \A t \in Tokens : Stored(t) /\ ended[FamilyOf(t)] = Never
                      => \E s \in Tokens : Live(s) /\ FamilyOf(s) = FamilyOf(t)

\* A family nobody ended is revoked for a replay only when the presented token
\* was rotated by a request that began more than Grace before: racing requests
\* are forgiven even when a slower one stamps the row again.
RacesForgiven ==
  [][\A r \in Requests :
       req[r].stage = "find" /\ req'[r].stage = "revoke" /\ ended[req[r].family] = Never
         => since[req[r].token] # Never /\ req[r].now > since[req[r].token] + Grace]_sessionVars

\* What was ended stays ended, by logout, replay or disabling, but for the
\* requests that overtook the end (refresh.ts:43-138).
EndedStaysEnded == SessionsTypeOK /\ LogoutSticks /\ DisabledStaysOut

\* What nobody ended goes on: a family that was issued keeps a token that
\* refreshes, and requests that race each other are not taken for a replay
\* (rules.ts:136-171).
TabsStayIn == []LineageLives /\ RacesForgiven
=============================================================================
