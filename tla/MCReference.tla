------------------------------ MODULE MCReference ------------------------------
(* The reference modules side by side: a behaviour exercises one of them. *)
EXTENDS DealTables, LogTables, AccountTables

VARIABLE part   \* the module of this behaviour

referenceVars == <<part, dealTableVars, logTableVars, accountTableVars>>

Deal(i, service, domain, status, confidence, cost, verified, published, capture, edited) ==
  [id |-> i, service |-> service, domain |-> domain, url |-> domain, route_type |-> IF cost = 2 THEN "bundle" ELSE "promo",
   status |-> status, confidence |-> confidence, cost |-> cost, verified_at |-> verified, published_at |-> published,
   evidence |-> capture, edited |-> edited]

MCDealRows == {Deal(1, "tv", "a", "candidate", 1, 1, 0, 0, 1, FALSE), Deal(1, "tv", "a", "published", 1, 1, 1, 1, 1, TRUE),
               Deal(2, "tv", "a", "in_review", 2, 1, 0, 0, 2, TRUE), Deal(2, "radio", "b", "published", 2, 2, 2, 2, 2, FALSE),
               Deal(3, "tv", "b", "published", 0, 1, 1, 1, 1, TRUE)}

Source(i, domain, status, reliability, due) ==
  [id |-> i, url |-> domain, domain |-> domain, status |-> status, reliability |-> reliability, next_due |-> due]

MCSourceRows == {Source(1, "a", "active", 0, 0), Source(2, "b", "active", 2, 2), Source(1, "a", "paused", 2, 1)}
MCEvidenceRows == {[id |-> i, hash |-> "h", captured_at |-> i] : i \in 1..2}

MCCaptured == [o \in Owners |-> IF o = "s" THEN 1 ELSE NotCaptured]

User(i, email, name, role, status, hash) ==
  [id |-> i, email |-> email, name |-> name, role |-> role, status |-> status, hash |-> hash]
MCUserRows == {User(1, "a", "zoe", 1, "active", "old"), User(2, "b", "ann", 3, "invited", "none")}

Role(i, name, description, system) == [id |-> i, name |-> name, description |-> description, is_system |-> system]
MCSystemRoles == {Role(1, "admin", "", TRUE)}
MCRoleRows == MCSystemRoles \cup {Role(1, "boss", "", TRUE), Role(3, "own", "", FALSE)}
MCNames == <<"admin", "ann", "boss", "own", "reviewer", "zoe">>

MCInit == /\ part \in {"deals", "logs", "accounts"}
          /\ DealTablesInit /\ AccountTablesInit
          /\ IF part = "logs" THEN LogTablesInit ELSE LogTablesInit /\ table = "crawl_runs"

MCNext == /\ UNCHANGED part
          /\ \/ part = "deals" /\ DealTablesNext /\ UNCHANGED <<logTableVars, accountTableVars>>
             \/ part = "logs" /\ LogTablesNext /\ UNCHANGED <<dealTableVars, accountTableVars>>
             \/ part = "accounts" /\ AccountTablesNext /\ UNCHANGED <<dealTableVars, logTableVars>>

MCSpec == MCInit /\ [][MCNext]_referenceVars

(* The double answers every query as Postgres does, or as Postgres may where it *)
(* leaves the order open, on every screen, ledger, trail, worklist and account  *)
(* listing, after every sequence of writes (in-memory-db.ts, postgres-db.ts).   *)
DoubleAgrees ==
  /\ DealTablesTypeOK /\ LookupsAgree /\ ScreensAgree
  /\ LogTablesTypeOK /\ LedgerAgrees /\ TrailsAgree /\ WorklistsAgree
  /\ AccountTablesTypeOK /\ AccountsAgree
=============================================================================
