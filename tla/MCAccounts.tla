----------------------------- MODULE MCAccounts -----------------------------
(* A finite instance of Accounts.  Any request runs by itself; requests that *)
(* make or remove a role, or a user of it, run into each other, and so do    *)
(* two that each take a role or disable an account.  (The theorems are       *)
(* about overlaps of any kind.)                                              *)
EXTENDS Accounts, TLC

CONSTANTS u1, u2

TwoUsers == {u1, u2}
ThreeRoles == {"admin", "reviewer", "custom"}
Colliding == {"createRole", "deleteRole", "provision"}

InFlight == Permutations(Requests)

Busy == {q \in Requests : requests[q].stage # "idle"}
Guarded == {q \in Busy : requests[q].op = "updateUser" /\ requests[q].given \cap {"role", "status"} # {}}

\* Start(q) of the operations that may collide; nothing has failed or changed a role yet.
Join(q) ==
  /\ At(q, "idle") /\ faults = 0 /\ permVersion = 0 /\ ~outrun
  /\ \/ /\ \A p \in Busy : requests[p].op \in Colliding
        /\ \/ StartProvision(q, u2, "custom")
           \/ \E op \in Colliding \cap RoleOps, perms \in {{}, Perms} : StartRoleEdit(q, op, "custom", perms)
     \/ /\ Busy = Guarded /\ \A m \in Mints : mints[m] = NoMint
        /\ \E u \in Users : StartUpdateUser(q, u, {"role"}, "reviewer", "active")
                            \/ StartUpdateUser(q, u, {"status"}, "admin", "disabled")

\* While two guarded requests overlap nobody signs in.
MCNext ==
  \/ /\ Cardinality(Guarded) < 2 /\ ~outrun
     /\ (\E m \in Mints : MintStep(m)) \/ (\E t \in tokens : Expire(t))
     /\ UNCHANGED <<crossed, outrun>>
  \/ \E q \in Requests :
       /\ \/ Busy = {} /\ ~outrun /\ Start(q)
          \/ Busy # {} /\ Join(q)
          \/ Read(q) \/ Write(q)
       /\ Crossing(q)

MCSpec == Init /\ [][MCNext]_vars
=============================================================================
