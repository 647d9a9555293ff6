----------------------------- MODULE ReferenceProofs -----------------------------
(***************************************************************************)
(* Proofs about the two adapters of the other tables (LogTables,           *)
(* AccountTables), for any rows, times and bounds, and from them and the   *)
(* deal tables the theorem about all of them: whatever was written before, *)
(* what the in-memory double answers is an answer of Postgres.             *)
(***************************************************************************)
EXTENDS MCReference, DealTablesProofs

-----------------------------------------------------------------------------
(* Writes in lockstep.                                                      *)

\* Both hold the same rows of X, one for each value of a field.
Lockstep(pg, mem, X, key) == mem \in Seq(X) /\ pg = ToSet(mem) /\ Keyed(mem, key)

\* Empty tables are in lockstep.
LEMMA LockEmpty ==
  ASSUME NEW X, NEW key
  PROVE  Lockstep({}, <<>>, X, key)
BY DEF Lockstep, ToSet, Keyed

\* A row is put under its key.
LEMMA LockPut ==
  ASSUME NEW X, NEW key, NEW pg, NEW mem, Lockstep(pg, mem, X, key), NEW r \in X
  PROVE  Lockstep({x \in pg : x[key] # r[key]} \cup {r}, Put(mem, key, r), X, key)
<1>1. mem \in Seq(X) /\ pg = ToSet(mem) /\ Keyed(mem, key)
  BY DEF Lockstep
<1> QED BY <1>1, PutFacts DEF Lockstep

\* A row with a new key is added at the end.
LEMMA LockInsert ==
  ASSUME NEW X, NEW key, NEW pg, NEW mem, Lockstep(pg, mem, X, key), NEW r \in X, \A x \in pg : x[key] # r[key]
  PROVE  Put(mem, key, r) = Append(mem, r) /\ Lockstep(pg \cup {r}, Append(mem, r), X, key)
<1>1. mem \in Seq(X) /\ pg = ToSet(mem)
  BY DEF Lockstep
<1>2. Put(mem, key, r) = Append(mem, r)
  BY <1>1 DEF Put, ToSet
<1>3. {x \in pg : x[key] # r[key]} = pg
  OBVIOUS
<1>4. Lockstep({x \in pg : x[key] # r[key]} \cup {r}, Put(mem, key, r), X, key)
  BY LockPut
<1> QED BY <1>2, <1>3, <1>4

\* Rows are rewritten, their keys left alone.
LEMMA LockRewrite ==
  ASSUME NEW X, NEW key, NEW pg, NEW mem, Lockstep(pg, mem, X, key),
         NEW G \in [X -> X], \A x \in X : G[x][key] = x[key]
  PROVE  Lockstep({G[x] : x \in pg}, [i \in DOMAIN mem |-> G[mem[i]]], X, key)
<1>1. /\ mem \in Seq(X) /\ pg = ToSet(mem) /\ Keyed(mem, key)
      /\ DOMAIN mem = 1..Len(mem) /\ Len(mem) \in Nat /\ \A i \in DOMAIN mem : mem[i] \in X
  BY DEF Lockstep
<1>2. PICK t : t = [i \in DOMAIN mem |-> G[mem[i]]]
  OBVIOUS
<1>3. t \in [1..Len(mem) -> X] /\ DOMAIN t = DOMAIN mem /\ \A i \in DOMAIN mem : t[i] = G[mem[i]] /\ t[i][key] = mem[i][key]
  BY <1>1, <1>2
<1>4. t \in Seq(X)
  <2>1. PICK n \in Nat : n = Len(mem)
    BY <1>1
  <2>2. t \in [1..n -> X]
    BY <1>3, <2>1
  <2>3. t \in Seq(X) /\ Len(t) = n /\ DOMAIN t = 1..n
    BY <2>2, OfPlaces
  <2> QED BY <2>3
<1>5. ToSet(t) = {G[x] : x \in pg}
  BY <1>1, <1>3 DEF ToSet
<1>6. Keyed(t, key)
  BY <1>1, <1>3 DEF Keyed
<1> QED BY <1>2, <1>4, <1>5, <1>6 DEF Lockstep

\* Rows are deleted.
LEMMA LockFilter ==
  ASSUME NEW X, NEW key, NEW pg, NEW mem, Lockstep(pg, mem, X, key), NEW T
  PROVE  Lockstep(pg \cap T, Found(mem, T), X, key)
<1>1. mem \in Seq(X) /\ pg = ToSet(mem) /\ Keyed(mem, key) /\ Distinct(mem)
  BY KeyedIsDistinct DEF Lockstep
<1>2. PICK e : e = Found(mem, T)
  OBVIOUS
<1>3. e \in Seq(X) /\ ToSet(e) = ToSet(mem) \cap T /\ \A k : Keyed(mem, k) => Keyed(e, k)
  BY <1>1, <1>2, FoundFacts
<1> QED BY <1>1, <1>2, <1>3 DEF Lockstep

\* The rows and entries of a lockstep.
LEMMA LockFacts ==
  ASSUME NEW X, NEW key, NEW pg, NEW mem, Lockstep(pg, mem, X, key)
  PROVE  /\ mem \in Seq(X) /\ Distinct(mem) /\ pg = ToSet(mem) /\ pg \in SUBSET X /\ IsFiniteSet(pg)
         /\ Cardinality(pg) = Len(mem) /\ DOMAIN mem = 1..Len(mem) /\ Len(mem) \in Nat
         /\ \A i \in DOMAIN mem : mem[i] \in X /\ mem[i] \in pg
         /\ \A x \in pg : \E i \in DOMAIN mem : mem[i] = x
         /\ \A x, y \in pg : x[key] = y[key] => x = y
<1>1. mem \in Seq(X) /\ pg = ToSet(mem) /\ Keyed(mem, key) /\ Distinct(mem)
  BY KeyedIsDistinct DEF Lockstep
<1>2. /\ pg \in SUBSET X /\ IsFiniteSet(pg) /\ DOMAIN mem = 1..Len(mem) /\ Len(mem) \in Nat
      /\ \A i \in DOMAIN mem : mem[i] \in X /\ mem[i] \in pg
      /\ \A x \in pg : \E i \in DOMAIN mem : mem[i] = x
      /\ Cardinality(pg) = Len(mem)
  BY <1>1, StoreFacts
<1>3. \A x, y \in pg : x[key] = y[key] => x = y
  BY <1>1, KeyedRows
<1> QED BY <1>1, <1>2, <1>3

-----------------------------------------------------------------------------
(* What both adapters hold of the other tables.                             *)

KeyedByKey == {"settings", "catalog", "proposals", "vocabulary"}
KeyOf(t) == IF t \in KeyedByKey THEN "key" ELSE "id"

\* The partial unique index: one open alert for a key.
OneOpen(rows) == \A r, s \in rows : r.dedupe_key = s.dedupe_key /\ r.status = "open" /\ s.status = "open" => r = s

LogsInv ==
  /\ table \in TableNames
  /\ Lockstep(pgRows, memRows, RowsOf(table), KeyOf(table))
  /\ table = "alerts" => OneOpen(pgRows)

\* The row type and the key of each table.
LEMMA LogTypes ==
  /\ RowsOf("crawl_runs") = Run /\ RowsOf("alerts") = AlertRow /\ RowsOf("captures") = CaptureRow
  /\ RowsOf("proposals") = ProposalRow /\ RowsOf("vocabulary") = VocabularyRow /\ RowsOf("tokens") = TokenRow
  /\ RowsOf("settings") = SettingRow /\ RowsOf("catalog") = SettingRow
  /\ \A t \in LogNames : RowsOf(t) = LogRow /\ KeyOf(t) = "id"
  /\ KeyOf("crawl_runs") = "id" /\ KeyOf("alerts") = "id" /\ KeyOf("captures") = "id" /\ KeyOf("tokens") = "id"
  /\ KeyOf("proposals") = "key" /\ KeyOf("vocabulary") = "key" /\ KeyOf("settings") = "key" /\ KeyOf("catalog") = "key"
BY DEF RowsOf, KeyOf, KeyedByKey, LogNames

\* At first there is nothing to differ in.
LEMMA LogsStart == LogTablesInit => LogsInv
BY LockEmpty DEF LogTablesInit, LogsInv, OneOpen

\* A row with a new id is inserted.
LEMMA InsertKeeps ==
  ASSUME LogsInv, NEW r \in RowsOf(table), KeyOf(table) = "id", table # "alerts", Fresh(r.id), PgInsert(r),
         MemPush(r) \/ MemSet(r), UNCHANGED table
  PROVE  LogsInv'
<1>1. \A x \in pgRows : x["id"] # r["id"]
  <2>1. \A x \in pgRows : x.id # r.id
    BY DEF Fresh
  <2> QED BY <2>1
<1>2. Lockstep(pgRows, memRows, RowsOf(table), "id")
  BY DEF LogsInv
<1>3. Put(memRows, "id", r) = Append(memRows, r) /\ Lockstep(pgRows \cup {r}, Append(memRows, r), RowsOf(table), "id")
  BY <1>1, <1>2, LockInsert
<1>4. pgRows' = pgRows \cup {r} /\ memRows' = Append(memRows, r)
  BY <1>3 DEF PgInsert, MemPush, MemSet
<1> QED BY <1>3, <1>4 DEF LogsInv

\* A row is stored under its key, known or not.
LEMMA StoreKeeps ==
  ASSUME LogsInv, NEW r \in RowsOf(table), table # "alerts", memRows' = Put(memRows, KeyOf(table), r),
         pgRows' = {x \in pgRows : x[KeyOf(table)] # r[KeyOf(table)]} \cup {r}, UNCHANGED table
  PROVE  LogsInv'
BY LockPut DEF LogsInv

\* Rows are rewritten in place.
RewriteBy(G, X) ==
  /\ G \in [X -> X] /\ \A x \in X : G[x][KeyOf(table)] = x[KeyOf(table)]
  /\ pgRows' = {G[x] : x \in pgRows}
  /\ memRows' = [i \in DOMAIN memRows |-> G[memRows[i]]]
  /\ UNCHANGED table

\* A rewrite of each row by one function keeps the lockstep, whatever the table,
LEMMA RewriteLocks ==
  ASSUME LogsInv, NEW G, RewriteBy(G, RowsOf(table))
  PROVE  Lockstep(pgRows', memRows', RowsOf(table), KeyOf(table))
BY LockRewrite DEF LogsInv, RewriteBy

\* and with it the invariant where no alert is open.
LEMMA RewriteKeeps ==
  ASSUME LogsInv, table # "alerts", NEW G, RewriteBy(G, RowsOf(table))
  PROVE  LogsInv'
BY RewriteLocks DEF LogsInv, RewriteBy

\* Rows are deleted.
LEMMA DeleteKeeps ==
  ASSUME LogsInv, table # "alerts", NEW T, pgRows' = pgRows \cap T, memRows' = Found(memRows, T), UNCHANGED table
  PROVE  LogsInv'
BY LockFilter DEF LogsInv

\* What the lockstep says of each row.
LEMMA LogRowsTyped ==
  ASSUME LogsInv
  PROVE  /\ pgRows \in SUBSET RowsOf(table) /\ \A i \in DOMAIN memRows : memRows[i] \in RowsOf(table)
         /\ pgRows = ToSet(memRows)
         /\ \A x, y \in pgRows : x[KeyOf(table)] = y[KeyOf(table)] => x = y
BY LockFacts DEF LogsInv

\* The writes, one lemma each: runs, logs, captures and tokens are inserted,
LEMMA InsertRunKeeps ==
  ASSUME LogsInv, NEW r \in Run, InsertRun(r)
  PROVE  LogsInv'
BY InsertKeeps, LogTypes DEF InsertRun

LEMMA InsertLogKeeps ==
  ASSUME LogsInv, NEW r \in LogRow, InsertLog(r)
  PROVE  LogsInv'
<1>1. RowsOf(table) = LogRow /\ KeyOf(table) = "id" /\ table # "alerts"
  BY LogTypes DEF InsertLog, LogNames
<1> QED BY <1>1, InsertKeeps DEF InsertLog

LEMMA InsertCaptureKeeps ==
  ASSUME LogsInv, NEW r \in CaptureRow, InsertCapture(r)
  PROVE  LogsInv'
BY InsertKeeps, LogTypes DEF InsertCapture

LEMMA IssueTokenKeeps ==
  ASSUME LogsInv, NEW t \in TokenRow, IssueToken(t)
  PROVE  LogsInv'
BY InsertKeeps, LogTypes DEF IssueToken

\* a run is rewritten under its id,
LEMMA UpdateRunKeeps ==
  ASSUME LogsInv, NEW r \in Run, UpdateRun(r)
  PROVE  LogsInv'
<1>1. table = "crawl_runs" /\ RowsOf(table) = Run /\ KeyOf(table) = "id"
  BY LogTypes DEF UpdateRun
<1>2. memRows' = Put(memRows, "id", r) /\ UNCHANGED table
  BY DEF UpdateRun, MemUpdateRun
<1>3. pgRows' = {IF s.id = r.id THEN r ELSE s : s \in pgRows} /\ \E s \in pgRows : s.id = r.id
  BY DEF UpdateRun, PgUpdateRun, Update
<1>4. pgRows' = {x \in pgRows : x.id # r.id} \cup {r}
  BY <1>3
<1>5. {x \in pgRows : x.id # r.id} = {x \in pgRows : x["id"] # r["id"]}
  OBVIOUS
<1> QED BY <1>1, <1>2, <1>4, <1>5, StoreKeeps

\* a keyed row replaces the one under its key, at the same place,
LEMMA UpsertKeyedKeeps ==
  ASSUME LogsInv, NEW r \in RowsOf(table), KeyOf(table) = "key", table # "alerts", PgUpsertKeyed(r), MemUpsertKeyed(r), UNCHANGED table
  PROVE  LogsInv'
<1>1. memRows' = Put(memRows, "key", r)
  BY DEF MemUpsertKeyed
<1>2. pgRows' = {x \in pgRows : x.key # r.key} \cup {r}
  <2>1. CASE \E s \in pgRows : s.key = r.key
    <3>1. pgRows' = {IF s.key = r.key THEN r ELSE s : s \in pgRows}
      BY <2>1 DEF PgUpsertKeyed, Update
    <3> QED BY <2>1, <3>1
  <2>2. CASE ~\E s \in pgRows : s.key = r.key
    <3>1. pgRows' = pgRows \cup {r}
      BY <2>2 DEF PgUpsertKeyed
    <3> QED BY <2>2, <3>1
  <2> QED BY <2>1, <2>2
<1>3. {x \in pgRows : x.key # r.key} = {x \in pgRows : x["key"] # r["key"]}
  OBVIOUS
<1> QED BY <1>1, <1>2, <1>3, StoreKeeps

LEMMA UpsertSettingKeeps ==
  ASSUME LogsInv, NEW r \in SettingRow, UpsertSetting(r)
  PROVE  LogsInv'
<1>1. RowsOf(table) = SettingRow /\ KeyOf(table) = "key" /\ table # "alerts"
  BY LogTypes DEF UpsertSetting
<1> QED BY <1>1, UpsertKeyedKeeps DEF UpsertSetting

LEMMA UpsertVocabularyKeeps ==
  ASSUME LogsInv, NEW r \in VocabularyRow, UpsertVocabulary(r)
  PROVE  LogsInv'
<1>1. RowsOf(table) = VocabularyRow /\ KeyOf(table) = "key" /\ table # "alerts"
  BY LogTypes DEF UpsertVocabulary
<1> QED BY <1>1, UpsertKeyedKeeps DEF UpsertVocabulary

\* rows are deleted,
LEMMA DeleteSettingKeeps ==
  ASSUME LogsInv, NEW key, DeleteSetting(key)
  PROVE  LogsInv'
<1>1. PICK T : T = {r \in RowsOf(table) : r.key # key}
  OBVIOUS
<1>2. pgRows' = {r \in pgRows : r.key # key}
      /\ memRows' = EntriesAt(memRows, {i \in DOMAIN memRows : memRows[i].key # key}) /\ UNCHANGED table /\ table = "settings"
  BY DEF DeleteSetting, Scan
<1>3. pgRows' = pgRows \cap T
  BY <1>1, <1>2, LogRowsTyped
<1>4. {i \in DOMAIN memRows : memRows[i].key # key} = {i \in DOMAIN memRows : memRows[i] \in T}
  BY <1>1, LogRowsTyped
<1>5. memRows' = Found(memRows, T)
  BY <1>2, <1>4 DEF Found
<1> QED BY <1>2, <1>3, <1>5, DeleteKeeps

LEMMA DeleteExpiredKeeps ==
  ASSUME LogsInv, NEW now \in Nat, DeleteExpired(now)
  PROVE  LogsInv'
<1>1. PICK T : T = {r \in TokenRow : r.expires_at > now}
  OBVIOUS
<1>2. pgRows' = {r \in pgRows : r.expires_at > now}
      /\ memRows' = EntriesAt(memRows, {i \in DOMAIN memRows : ~(memRows[i].expires_at <= now)}) /\ UNCHANGED table /\ table = "tokens"
  BY DEF DeleteExpired, Scan
<1>3. RowsOf(table) = TokenRow /\ \A r \in TokenRow : r.expires_at \in Nat
  BY <1>2, LogTypes, LogTablesAssumption DEF TokenRow
<1>4. pgRows' = pgRows \cap T
  BY <1>1, <1>2, <1>3, LogRowsTyped
<1>5. {i \in DOMAIN memRows : ~(memRows[i].expires_at <= now)} = {i \in DOMAIN memRows : memRows[i] \in T}
  <2>1. \A i \in DOMAIN memRows : memRows[i] \in TokenRow /\ memRows[i].expires_at \in Nat
    BY <1>3, LogRowsTyped
  <2> QED BY <1>1, <2>1
<1>6. memRows' = Found(memRows, T)
  BY <1>2, <1>5 DEF Found
<1> QED BY <1>2, <1>4, <1>6, DeleteKeeps

\* and columns of the rows with an id or a value are stamped.
LEMMA MarkDoneKeeps ==
  ASSUME LogsInv, NEW id, NEW note \in Actors, MarkDone(id, note)
  PROVE  LogsInv'
<1>1. table = "captures" /\ RowsOf(table) = CaptureRow /\ KeyOf(table) = "id"
  BY LogTypes DEF MarkDone
<1> DEFINE Done(r) == [r EXCEPT !.status = "done", !.note = note]
<1>2. PICK G : G = [r \in CaptureRow |-> IF r.id = id THEN Done(r) ELSE r]
  OBVIOUS
<1>3. \A r \in CaptureRow : Done(r) \in CaptureRow /\ Done(r)["id"] = r["id"]
  BY DEF CaptureRow
<1>4. /\ pgRows' = {IF r.id = id THEN Done(r) ELSE r : r \in pgRows}
      /\ memRows' = [i \in DOMAIN memRows |-> IF memRows[i].id = id THEN Done(memRows[i]) ELSE memRows[i]]
      /\ UNCHANGED table
  BY DEF MarkDone, Update, Rewrite
<1> HIDE DEF Done
<1>5. RewriteBy(G, CaptureRow)
  BY <1>1, <1>2, <1>3, <1>4, LogRowsTyped DEF RewriteBy
<1> QED BY <1>1, <1>5, RewriteKeeps

LEMMA MarkPromotedKeeps ==
  ASSUME LogsInv, NEW key, MarkPromoted(key)
  PROVE  LogsInv'
<1>1. table = "proposals" /\ RowsOf(table) = ProposalRow /\ KeyOf(table) = "key"
  BY LogTypes DEF MarkPromoted
<1> DEFINE Promoted(r) == [r EXCEPT !.status = "promoted"]
<1>2. PICK G : G = [r \in ProposalRow |-> IF r.key = key THEN Promoted(r) ELSE r]
  OBVIOUS
<1>3. \A r \in ProposalRow : Promoted(r) \in ProposalRow /\ Promoted(r)["key"] = r["key"]
  BY DEF ProposalRow
<1>4. /\ pgRows' = {IF r.key = key THEN Promoted(r) ELSE r : r \in pgRows}
      /\ memRows' = [i \in DOMAIN memRows |-> IF memRows[i].key = key THEN Promoted(memRows[i]) ELSE memRows[i]]
      /\ UNCHANGED table
  BY DEF MarkPromoted, Update, Rewrite
<1> HIDE DEF Promoted
<1>5. RewriteBy(G, ProposalRow)
  BY <1>1, <1>2, <1>3, <1>4, LogRowsTyped DEF RewriteBy
<1> QED BY <1>1, <1>5, RewriteKeeps

LEMMA RevokeByKeeps ==
  ASSUME LogsInv, NEW column, NEW value, NEW at \in Instants, RevokeBy(column, value, at)
  PROVE  LogsInv'
<1>1. table = "tokens" /\ RowsOf(table) = TokenRow /\ KeyOf(table) = "id"
  BY LogTypes DEF RevokeBy
<1> DEFINE Met(r) == r[column] = value /\ r.revoked_at = NotRevoked
           Stamped(r) == [r EXCEPT !.revoked_at = at]
<1>2. PICK G : G = [r \in TokenRow |-> IF Met(r) THEN Stamped(r) ELSE r]
  OBVIOUS
<1>3. \A r \in TokenRow : Stamped(r) \in TokenRow /\ Stamped(r)["id"] = r["id"]
  BY DEF TokenRow
<1>4. /\ pgRows' = {IF Met(r) THEN Stamped(r) ELSE r : r \in pgRows}
      /\ memRows' = [i \in DOMAIN memRows |-> IF Met(memRows[i]) THEN Stamped(memRows[i]) ELSE memRows[i]]
      /\ UNCHANGED table
  BY DEF RevokeBy, Update, Rewrite
<1> HIDE DEF Met, Stamped
<1>5. RewriteBy(G, TokenRow)
  BY <1>1, <1>2, <1>3, <1>4, LogRowsTyped DEF RewriteBy
<1> QED BY <1>1, <1>5, RewriteKeeps

\* A rotation stamps one row and inserts its successor.
LEMMA RotateTokenKeeps ==
  ASSUME LogsInv, NEW old, NEW t \in TokenRow, RotateToken(old, t)
  PROVE  LogsInv'
<1>1. table = "tokens" /\ RowsOf(table) = TokenRow /\ KeyOf(table) = "id" /\ Fresh(t.id) /\ UNCHANGED table
  BY LogTypes DEF RotateToken
<1> DEFINE Stamped(r) == [r EXCEPT !.revoked_at = t.expires_at, !.replaced_by = t.id]
<1>2. PICK G : G = [r \in TokenRow |-> IF r.id = old THEN Stamped(r) ELSE r]
  OBVIOUS
<1>3. \A r \in TokenRow : Stamped(r) \in TokenRow /\ Stamped(r)["id"] = r["id"]
  BY DEF TokenRow
<1>4. PICK mem : mem = [i \in DOMAIN memRows |-> IF memRows[i].id = old THEN Stamped(memRows[i]) ELSE memRows[i]]
  OBVIOUS
<1>5. PICK pg : pg = {IF r.id = old THEN Stamped(r) ELSE r : r \in pgRows}
  OBVIOUS
<1>6. pgRows' = pg \cup {t} /\ memRows' = Put(mem, "id", t)
  BY <1>4, <1>5 DEF RotateToken, Update, Rewrite
<1> HIDE DEF Stamped
<1>7. G \in [TokenRow -> TokenRow] /\ \A x \in TokenRow : G[x]["id"] = x["id"]
  BY <1>2, <1>3
<1>8. pg = {G[x] : x \in pgRows} /\ mem = [i \in DOMAIN memRows |-> G[memRows[i]]]
  BY <1>1, <1>2, <1>4, <1>5, LogRowsTyped
<1>9. Lockstep(pgRows, memRows, TokenRow, "id")
  BY <1>1 DEF LogsInv
<1>10. Lockstep(pg, mem, TokenRow, "id")
  BY <1>7, <1>8, <1>9, LockRewrite
<1>11. \A x \in pg : x["id"] # t["id"]
  <2>1. \A x \in pgRows : x["id"] # t["id"] /\ x \in TokenRow
    <3>1. \A x \in pgRows : x.id # t.id /\ x \in TokenRow
      BY <1>1, LogRowsTyped DEF Fresh
    <3> QED BY <3>1
  <2> QED BY <1>7, <1>8, <2>1
<1>12. Lockstep(pg \cup {t}, Put(mem, "id", t), TokenRow, "id")
  <2>1. Put(mem, "id", t) = Append(mem, t) /\ Lockstep(pg \cup {t}, Append(mem, t), TokenRow, "id")
    BY <1>10, <1>11, LockInsert
  <2> QED BY <2>1
<1> QED BY <1>1, <1>6, <1>12 DEF LogsInv

\* A proposal seen again is counted on its row.
LEMMA UpsertAndCountKeeps ==
  ASSUME LogsInv, NEW key \in Owners, NEW at \in Instants, UpsertAndCount(key, at)
  PROVE  LogsInv'
<1>1. table = "proposals" /\ RowsOf(table) = ProposalRow /\ KeyOf(table) = "key" /\ UNCHANGED table
      /\ \A r \in pgRows : r.count <= MaxRows
  BY LogTypes DEF UpsertAndCount
<1>2. /\ pgRows \in SUBSET ProposalRow /\ pgRows = ToSet(memRows) /\ memRows \in Seq(ProposalRow)
      /\ \A i \in DOMAIN memRows : memRows[i] \in ProposalRow
      /\ \A x, y \in pgRows : x["key"] = y["key"] => x = y
  BY <1>1, LockFacts DEF LogsInv
<1>3. PICK T : T = {r \in ProposalRow : r.key = key}
  OBVIOUS
<1>4. PICK known : known = FirstOf(Found(memRows, T))
  OBVIOUS
<1>5. IF pgRows \cap T = {} THEN known = NoRow ELSE known \in pgRows \cap T
  <2>1. PICK places : places = {i \in DOMAIN memRows : memRows[i] \in T}
    OBVIOUS
  <2> QED BY <1>2, <1>4, <2>1, FirstFacts DEF Found
<1> DEFINE first == [key |-> key, count |-> 1, status |-> "open", last_seen_at |-> at]
           More(r) == [r EXCEPT !.count = @ + 1, !.last_seen_at = at]
           new == IF known = NoRow THEN first ELSE More(known)
<1>6. memRows' = Put(memRows, "key", new)
  <2>1. {i \in DOMAIN memRows : memRows[i].key = key} = {i \in DOMAIN memRows : memRows[i] \in T}
    BY <1>2, <1>3
  <2>2. FirstOf(Scan(memRows, LAMBDA r : r.key = key)) = known
    BY <1>4, <2>1 DEF Scan, Found
  <2> QED BY <2>2 DEF UpsertAndCount, MemUpsertAndCount
<1>7. pgRows' = IF \E r \in pgRows : r.key = key THEN {IF r.key = key THEN More(r) ELSE r : r \in pgRows} ELSE pgRows \cup {first}
  BY DEF UpsertAndCount, PgUpsertAndCount, Update
<1>8. first \in ProposalRow /\ first.key = key
  BY LogTablesAssumption DEF ProposalRow
<1>9. \A r \in pgRows : More(r) \in ProposalRow /\ More(r).key = r.key
  <2> SUFFICES ASSUME NEW r \in pgRows PROVE More(r) \in ProposalRow /\ More(r).key = r.key
    OBVIOUS
  <2>1. r \in ProposalRow /\ r.count <= MaxRows /\ MaxRows \in Nat
    BY <1>1, <1>2, LogTablesAssumption
  <2>2. r.count + 1 \in 1..MaxRows + 1
    BY <2>1 DEF ProposalRow
  <2> QED BY <2>1, <2>2 DEF ProposalRow
<1>10. new \in ProposalRow /\ new.key = key /\ pgRows' = {x \in pgRows : x.key # key} \cup {new}
  <2> HIDE DEF first, More
  <2>1. CASE \E r \in pgRows : r.key = key
    <3>1. known \in pgRows /\ known.key = key
      BY <1>2, <1>3, <1>5, <2>1
    <3>2. known # NoRow
      BY <1>2, <3>1 DEF NoRow, ProposalRow
    <3>3. \A x \in pgRows : x.key = key => x = known
      <4>1. \A x \in pgRows : x["key"] = x.key
        OBVIOUS
      <4> QED BY <1>2, <3>1, <4>1
    <3>4. new = More(known)
      BY <3>2
    <3> QED BY <1>7, <1>9, <2>1, <3>1, <3>3, <3>4
  <2>2. CASE ~\E r \in pgRows : r.key = key
    <3>1. known = NoRow
      BY <1>3, <1>5, <2>2
    <3> QED BY <1>7, <1>8, <2>2, <3>1
  <2> QED BY <2>1, <2>2
<1> HIDE DEF new
<1>11. {x \in pgRows : x.key # key} = {x \in pgRows : x["key"] # new["key"]}
  BY <1>10
<1> QED BY <1>1, <1>6, <1>10, <1>11, StoreKeeps

\* An alert that is handled leaves the open ones,
LEMMA SetAlertStatusKeeps ==
  ASSUME LogsInv, NEW id, NEW status \in {"acknowledged", "resolved"}, NEW at \in Instants, SetAlertStatus(id, status, at)
  PROVE  LogsInv'
<1>1. table = "alerts" /\ RowsOf(table) = AlertRow /\ KeyOf(table) = "id" /\ OneOpen(pgRows) /\ UNCHANGED table
  BY LogTypes DEF SetAlertStatus, LogsInv
<1> DEFINE Handled(r) == [r EXCEPT !.status = status, !.updated_at = at]
<1>2. PICK G : G = [r \in AlertRow |-> IF r.id = id THEN Handled(r) ELSE r]
  OBVIOUS
<1>3. \A r \in AlertRow : Handled(r) \in AlertRow /\ Handled(r)["id"] = r["id"] /\ Handled(r).status # "open"
  BY DEF AlertRow
<1>4. /\ pgRows' = {IF r.id = id THEN Handled(r) ELSE r : r \in pgRows}
      /\ memRows' = [i \in DOMAIN memRows |-> IF memRows[i].id = id THEN Handled(memRows[i]) ELSE memRows[i]]
  BY DEF SetAlertStatus, PgSetAlertStatus, MemSetAlertStatus, Update, Rewrite
<1> HIDE DEF Handled
<1>5. RewriteBy(G, AlertRow)
  BY <1>1, <1>2, <1>3, <1>4, LogRowsTyped DEF RewriteBy
<1>6. Lockstep(pgRows', memRows', AlertRow, "id")
  BY <1>1, <1>5, RewriteLocks
<1>7. OneOpen(pgRows')
  <2>1. \A r \in pgRows' : r.status = "open" => r \in pgRows
    BY <1>1, <1>3, <1>4, LogRowsTyped
  <2> QED BY <1>1, <2>1 DEF OneOpen
<1> QED BY <1>1, <1>6, <1>7 DEF LogsInv

\* and a second one under an open key is counted on that.
LEMMA UpsertOpenKeeps ==
  ASSUME LogsInv, NEW a \in AlertRow, UpsertOpen(a)
  PROVE  LogsInv'
<1>1. table = "alerts" /\ RowsOf(table) = AlertRow /\ KeyOf(table) = "id" /\ OneOpen(pgRows) /\ UNCHANGED table
      /\ Fresh(a.id) /\ a.status = "open"
  BY LogTypes DEF UpsertOpen, LogsInv
<1>2. /\ pgRows \in SUBSET AlertRow /\ \A i \in DOMAIN memRows : memRows[i] \in AlertRow /\ memRows[i] \in pgRows
      /\ \A x \in pgRows : \E i \in DOMAIN memRows : memRows[i] = x
      /\ Distinct(memRows) /\ DOMAIN memRows = 1..Len(memRows) /\ Len(memRows) \in Nat
  BY <1>1, LockFacts DEF LogsInv
<1> DEFINE Open(r) == r.dedupe_key = a.dedupe_key /\ r.status = "open"
           Again(r) == [r EXCEPT !.updated_at = a.updated_at]
<1>3. \A r \in AlertRow : Again(r) \in AlertRow /\ Again(r)["id"] = r["id"] /\ Again(r).status = r.status /\ Again(r).dedupe_key = r.dedupe_key
  BY DEF AlertRow
<1>4. CASE \E r \in pgRows : Open(r)
  <2>1. PICK k \in DOMAIN memRows : Open(memRows[k])
    BY <1>2, <1>4
  <2>2. \A i \in DOMAIN memRows : Open(memRows[i]) => i = k
    BY <1>1, <1>2, <2>1 DEF OneOpen, Distinct
  <2>3. {i \in DOMAIN memRows : Open(memRows[i])} = {k}
    BY <2>1, <2>2
  <2>4. Min({k}) = k
    BY <1>2 DEF Min
  <2>5. memRows' = [memRows EXCEPT ![k] = Again(memRows[k])]
    <3>1. \E i \in DOMAIN memRows : OpenFor(memRows[i], a.dedupe_key)
      BY <2>1 DEF OpenFor
    <3>2. {i \in DOMAIN memRows : OpenFor(memRows[i], a.dedupe_key)} = {k}
      BY <2>3 DEF OpenFor
    <3>3. memRows' = [memRows EXCEPT ![k].updated_at = a.updated_at]
      BY <2>4, <3>1, <3>2 DEF UpsertOpen, MemUpsertOpen
    <3> QED BY <3>3
  <2>6. pgRows' = {IF Open(r) THEN Again(r) ELSE r : r \in pgRows}
    BY <1>4 DEF UpsertOpen, PgUpsertOpen, OpenFor, Update
  <2>7. PICK G : G = [r \in AlertRow |-> IF Open(r) THEN Again(r) ELSE r]
    OBVIOUS
  <2> HIDE DEF Open, Again
  <2>8. memRows' = [i \in DOMAIN memRows |-> G[memRows[i]]]
    <3>1. memRows = [i \in DOMAIN memRows |-> memRows[i]]
      BY <1>1, LockFacts DEF LogsInv
    <3> QED BY <1>2, <2>1, <2>2, <2>5, <2>7, <3>1
  <2>9. RewriteBy(G, AlertRow)
    BY <1>1, <1>2, <1>3, <2>6, <2>7, <2>8 DEF RewriteBy
  <2>10. Lockstep(pgRows', memRows', AlertRow, "id")
    BY <1>1, <2>9, RewriteLocks
  <2>11. OneOpen(pgRows')
    <3> SUFFICES ASSUME NEW x \in pgRows', NEW y \in pgRows', x.dedupe_key = y.dedupe_key, x.status = "open", y.status = "open"
                 PROVE  x = y
      BY DEF OneOpen
    <3>1. PICK r \in pgRows, s \in pgRows : x = (IF Open(r) THEN Again(r) ELSE r) /\ y = (IF Open(s) THEN Again(s) ELSE s)
      BY <2>6
    <3>2. r.dedupe_key = s.dedupe_key /\ r.status = "open" /\ s.status = "open"
      BY <1>2, <1>3, <3>1
    <3>3. r = s
      BY <1>1, <3>2 DEF OneOpen
    <3> QED BY <3>1, <3>3
  <2> QED BY <1>1, <2>10, <2>11 DEF LogsInv
<1>5. CASE ~\E r \in pgRows : Open(r)
  <2>1. memRows' = Append(memRows, a) /\ pgRows' = pgRows \cup {a}
    BY <1>2, <1>5 DEF UpsertOpen, PgUpsertOpen, MemUpsertOpen, OpenFor
  <2>2. \A x \in pgRows : x["id"] # a["id"]
    <3>1. \A x \in pgRows : x.id # a.id
      BY <1>1 DEF Fresh
    <3> QED BY <3>1
  <2>3. Lockstep(pgRows', memRows', AlertRow, "id")
    BY <1>1, <2>1, <2>2, LockInsert DEF LogsInv
  <2>4. OneOpen(pgRows')
    BY <1>1, <1>5, <2>1 DEF OneOpen
  <2> QED BY <1>1, <2>3, <2>4 DEF LogsInv
<1> QED BY <1>4, <1>5

LEMMA LogsStep == LogsInv /\ [LogTablesNext]_logTableVars => LogsInv'
<1> SUFFICES ASSUME LogsInv, [LogTablesNext]_logTableVars PROVE LogsInv'
  OBVIOUS
<1>1. CASE UNCHANGED logTableVars
  BY <1>1 DEF LogsInv, logTableVars
<1>2. CASE \E r \in Run : InsertRun(r) \/ UpdateRun(r)
  BY <1>2, InsertRunKeeps, UpdateRunKeeps
<1>3. CASE \E r \in LogRow : InsertLog(r)
  BY <1>3, InsertLogKeeps
<1>4. CASE \E a \in AlertRow : UpsertOpen(a)
  BY <1>4, UpsertOpenKeeps
<1>5. CASE \E id \in Ids, status \in {"acknowledged", "resolved"}, at \in Instants : SetAlertStatus(id, status, at)
  BY <1>5, SetAlertStatusKeeps
<1>6. CASE \E r \in SettingRow : UpsertSetting(r)
  BY <1>6, UpsertSettingKeeps
<1>7. CASE \E key \in Owners : DeleteSetting(key) \/ MarkPromoted(key)
  BY <1>7, DeleteSettingKeeps, MarkPromotedKeeps
<1>8. CASE \E r \in VocabularyRow : UpsertVocabulary(r)
  BY <1>8, UpsertVocabularyKeeps
<1>9. CASE \E id \in Ids, note \in Actors : InsertCapture([id |-> id, status |-> "open", note |-> note]) \/ MarkDone(id, note)
  <2>1. \A id \in Ids, note \in Actors : [id |-> id, status |-> "open", note |-> note] \in CaptureRow
    BY DEF CaptureRow
  <2>2. PICK id \in Ids, note \in Actors : InsertCapture([id |-> id, status |-> "open", note |-> note]) \/ MarkDone(id, note)
    BY <1>9
  <2>3. PICK r \in CaptureRow : r = [id |-> id, status |-> "open", note |-> note]
    BY <2>1
  <2>4. CASE InsertCapture(r)
    BY <2>4, InsertCaptureKeeps
  <2>5. CASE MarkDone(id, note)
    BY <2>5, MarkDoneKeeps
  <2> QED BY <2>2, <2>3, <2>4, <2>5
<1>10. CASE \E key \in Owners, at \in Instants : UpsertAndCount(key, at)
  BY <1>10, UpsertAndCountKeeps
<1>11. CASE \E t \in TokenRow : IssueToken(t) \/ \E old \in Ids : RotateToken(old, t)
  BY <1>11, IssueTokenKeeps, RotateTokenKeeps
<1>12. CASE \E at \in Instants : \/ \E family \in Actors : RevokeBy("family_id", family, at)
                                 \/ \E user \in Owners : RevokeBy("user_id", user, at)
                                 \/ DeleteExpired(at)
  BY <1>12, RevokeByKeeps, DeleteExpiredKeeps, LogTablesAssumption
<1> QED BY <1>1, <1>2, <1>3, <1>4, <1>5, <1>6, <1>7, <1>8, <1>9, <1>10, <1>11, <1>12 DEF LogTablesNext

\* Whatever is written, both adapters hold the same rows.
THEOREM LogsInvariant == LogTablesSpec => []LogsInv
<1>1. LogTablesInit => LogsInv
  BY LogsStart
<1>2. LogsInv /\ [LogTablesNext]_logTableVars => LogsInv'
  BY LogsStep
<1> QED BY <1>1, <1>2, PTL DEF LogTablesSpec

\* The tables and the Maps keep their types.
LEMMA LogsTypeFollows == LogsInv => LogTablesTypeOK
<1> SUFFICES ASSUME LogsInv PROVE LogTablesTypeOK
  OBVIOUS
<1>1. /\ pgRows \in SUBSET RowsOf(table) /\ pgRows = ToSet(memRows) /\ Distinct(memRows)
      /\ \A i \in DOMAIN memRows : memRows[i] \in pgRows
      /\ \A x, y \in pgRows : x[KeyOf(table)] = y[KeyOf(table)] => x = y
  BY LockFacts DEF LogsInv
<1>2. \A r \in pgRows : Identity(r) = r[KeyOf(table)]
  <2>1. CASE table = "crawl_runs"
    <3>1. RowsOf(table) = Run /\ KeyOf(table) = "id"
      BY <2>1, LogTypes
    <3>2. \A r \in Run : Identity(r) = r.id /\ r.id = r["id"]
      BY DEF Run, Identity
    <3> QED BY <1>1, <3>1, <3>2
  <2>2. CASE table \in LogNames
    <3>1. RowsOf(table) = LogRow /\ KeyOf(table) = "id"
      BY <2>2, LogTypes
    <3>2. \A r \in LogRow : Identity(r) = r.id /\ r.id = r["id"]
      BY DEF LogRow, Identity
    <3> QED BY <1>1, <3>1, <3>2
  <2>3. CASE table = "alerts"
    <3>1. RowsOf(table) = AlertRow /\ KeyOf(table) = "id"
      BY <2>3, LogTypes
    <3>2. \A r \in AlertRow : Identity(r) = r.id /\ r.id = r["id"]
      BY DEF AlertRow, Identity
    <3> QED BY <1>1, <3>1, <3>2
  <2>4. CASE table = "captures"
    <3>1. RowsOf(table) = CaptureRow /\ KeyOf(table) = "id"
      BY <2>4, LogTypes
    <3>2. \A r \in CaptureRow : Identity(r) = r.id /\ r.id = r["id"]
      BY DEF CaptureRow, Identity
    <3> QED BY <1>1, <3>1, <3>2
  <2>5. CASE table = "tokens"
    <3>1. RowsOf(table) = TokenRow /\ KeyOf(table) = "id"
      BY <2>5, LogTypes
    <3>2. \A r \in TokenRow : Identity(r) = r.id /\ r.id = r["id"]
      BY DEF TokenRow, Identity
    <3> QED BY <1>1, <3>1, <3>2
  <2>6. CASE table = "proposals"
    <3>1. RowsOf(table) = ProposalRow /\ KeyOf(table) = "key"
      BY <2>6, LogTypes
    <3>2. \A r \in ProposalRow : Identity(r) = r.key /\ r.key = r["key"]
      BY DEF ProposalRow, Identity
    <3> QED BY <1>1, <3>1, <3>2
  <2>7. CASE table = "vocabulary"
    <3>1. RowsOf(table) = VocabularyRow /\ KeyOf(table) = "key"
      BY <2>7, LogTypes
    <3>2. \A r \in VocabularyRow : Identity(r) = r.key /\ r.key = r["key"]
      BY DEF VocabularyRow, Identity
    <3> QED BY <1>1, <3>1, <3>2
  <2>8. CASE table \in {"settings", "catalog"}
    <3>1. RowsOf(table) = SettingRow /\ KeyOf(table) = "key"
      BY <2>8, LogTypes
    <3>2. \A r \in SettingRow : Identity(r) = r.key /\ r.key = r["key"]
      BY DEF SettingRow, Identity
    <3> QED BY <1>1, <3>1, <3>2
  <2> QED BY <2>1, <2>2, <2>3, <2>4, <2>5, <2>6, <2>7, <2>8 DEF LogsInv, TableNames
<1>3. \A r, s \in pgRows : Identity(r) = Identity(s) => r = s
  BY <1>1, <1>2
<1>4. \A i, j \in DOMAIN memRows : Identity(memRows[i]) = Identity(memRows[j]) => i = j
  BY <1>1, <1>3 DEF Distinct
<1> QED BY <1>1, <1>3, <1>4 DEF LogTablesTypeOK, LogsInv

-----------------------------------------------------------------------------
(* The run ledger.                                                          *)

\* Both hold the same rows of X.
Alike(X) == /\ memRows \in Seq(X) /\ Distinct(memRows) /\ pgRows = ToSet(memRows)
            /\ pgRows \in SUBSET X /\ IsFiniteSet(pgRows) /\ \A i \in DOMAIN memRows : memRows[i] \in X

\* In the form the queries are compared in.
LEMMA LogsAreAlike ==
  ASSUME LogsInv
  PROVE  Alike(RowsOf(table))
BY LockFacts DEF LogsInv, Alike

\* What is found is a store of its own.
LEMMA FoundRows ==
  ASSUME NEW X, Alike(X), NEW T
  PROVE  LET e == Found(memRows, T)
             S == pgRows \cap T
         IN  /\ e \in Seq(X) /\ Distinct(e) /\ ToSet(e) = S /\ S \in SUBSET X
             /\ IsFiniteSet(S) /\ Len(e) = Cardinality(S) /\ DOMAIN e = 1..Len(e) /\ Len(e) \in Nat
             /\ \A i \in DOMAIN e : e[i] \in S
             /\ \A x \in S : \E i \in DOMAIN e : e[i] = x
<1>1. PICK e, S : e = Found(memRows, T) /\ S = pgRows \cap T
  OBVIOUS
<1>2. memRows \in Seq(X) /\ Distinct(memRows) /\ pgRows = ToSet(memRows) /\ pgRows \in SUBSET X
  BY DEF Alike
<1>3. e \in Seq(X) /\ Distinct(e) /\ ToSet(e) = S /\ IsFiniteSet(S) /\ Len(e) = Cardinality(S)
  BY <1>1, <1>2, FoundFacts
<1>4. /\ DOMAIN e = 1..Len(e) /\ Len(e) \in Nat
      /\ \A i \in 1..Len(e) : e[i] \in S
      /\ \A x \in S : \E i \in 1..Len(e) : e[i] = x
  BY <1>3, StoreFacts
<1> QED BY <1>1, <1>2, <1>3, <1>4

\* The runs of a window.
In(w) == {r \in Run : InWindow(r, w)}
From(since) == {r \in Run : r.started_at >= since}

\* Both adapters select the runs of a window.
LEMMA WindowFound ==
  ASSUME Alike(Run), NEW w
  PROVE  /\ {r \in pgRows : InWindow(r, w)} = pgRows \cap In(w)
         /\ EntriesAt(memRows, {i \in DOMAIN memRows : InWindow(memRows[i], w)}) = Found(memRows, In(w))
<1>1. pgRows \in SUBSET Run /\ \A i \in DOMAIN memRows : memRows[i] \in Run
  BY DEF Alike
<1>2. {i \in DOMAIN memRows : InWindow(memRows[i], w)} = {i \in DOMAIN memRows : memRows[i] \in In(w)}
  BY <1>1 DEF In
<1> QED BY <1>1, <1>2 DEF In, Found

ByStart(S) == {p \in S \X S : NewestRunFirst(p[1], p[2])}

\* By start and then by id leaves no two runs tied.
LEMMA ByStartOrders ==
  ASSUME NEW S \in SUBSET Run, \A a, b \in S : a.id = b.id => a = b
  PROVE  Orders(ByStart(S), S)
<1>1. \A a \in S : a.id \in Nat /\ a.started_at \in Nat
  BY LogTablesAssumption DEF Run
<1>2. \A a, b \in S : <<a, b>> \in ByStart(S) <=> NewestRunFirst(a, b)
  BY DEF ByStart
<1>3. \A a \in S : ~NewestRunFirst(a, a)
  BY <1>1 DEF NewestRunFirst
<1>4. \A a, b \in S : a # b => NewestRunFirst(a, b) \/ NewestRunFirst(b, a)
  BY <1>1 DEF NewestRunFirst
<1>5. \A a, b, c \in S : NewestRunFirst(a, b) /\ NewestRunFirst(b, c) => NewestRunFirst(a, c)
  BY <1>1 DEF NewestRunFirst
<1> QED BY <1>2, <1>3, <1>4, <1>5 DEF Orders

\* The page of recent runs is the same.
LEMMA RecentRunsAgree ==
  ASSUME Alike(Run), \A a, b \in pgRows : a.id = b.id => a = b, NEW w, NEW limit
  PROVE  PgRecentRuns(w, limit) = MemRecentRuns(w, limit)
<1>1. PICK e, S : e = Found(memRows, In(w)) /\ S = pgRows \cap In(w)
  OBVIOUS
<1>2. e \in Seq(Run) /\ Distinct(e) /\ S = ToSet(e) /\ S \in SUBSET Run /\ \A i \in DOMAIN e : e[i] \in S
  BY <1>1, FoundRows
<1>3. Orders(ByStart(S), S)
  BY <1>1, <1>2, ByStartOrders
<1>4. Sorted(e, ByStart(S)) = Arranged(S, ByStart(S))
  BY <1>2, <1>3, SortedFacts
<1>5. StableSort(e, NewestRunFirst) = Sorted(e, ByStart(S))
  <2>1. \A i, j \in DOMAIN e : <<e[i], e[j]>> \in ByStart(S) <=> NewestRunFirst(e[i], e[j])
    BY <1>2 DEF ByStart
  <2>2. {p \in (DOMAIN e) \X (DOMAIN e) : NewestRunFirst(e[p[1]], e[p[2]]) \/ (~NewestRunFirst(e[p[2]], e[p[1]]) /\ p[1] < p[2])}
          = Places(e, ByStart(S))
    BY <2>1 DEF Places
  <2> QED BY <2>2 DEF StableSort, Sorted
<1>6. InOrder(S, NewestRunFirst) = Arranged(S, ByStart(S))
  BY DEF InOrder, ByStart
<1>7. {r \in pgRows : InWindow(r, w)} = S /\ EntriesAt(memRows, {i \in DOMAIN memRows : InWindow(memRows[i], w)}) = e
  BY <1>1, WindowFound
<1> QED BY <1>4, <1>5, <1>6, <1>7 DEF Select, Scan, PgRecentRuns, MemRecentRuns, Ordered, Slice

-----------------------------------------------------------------------------
\* What runs cost.
CostOf == [r \in Run |-> r.cost]
CostTable(c, S) == c = [t \in SUBSET S |-> IF t = {} THEN 0 ELSE Taken(t).cost + c[t \ {Taken(t)}]]

\* A sum of costs is the choice of its table of partial sums,
LEMMA CostForm ==
  ASSUME NEW S
  PROVE  SumOf(S) = LET c == CHOOSE c : CostTable(c, S) IN c[S]
BY DEF SumOf, MapThenSumSet, MapThenFoldSet, CostTable, Taken

\* which exists and adds up,
LEMMA CostSum ==
  ASSUME NEW S \in SUBSET Run, IsFiniteSet(S)
  PROVE  IsSum(CostOf, S, SumOf(S)) /\ SumOf(S) \in Nat
<1> DEFINE w == [r \in S |-> r.cost]
           c == CHOOSE c : CostTable(c, S)
<1>1. w \in [S -> Nat] /\ (\A r \in S : w[r] = r.cost /\ CostOf[r] = r.cost) /\ CostOf \in [Run -> Nat]
  BY LogTablesAssumption DEF Run, CostOf
<1> HIDE DEF w
<1>2. \A t \in SUBSET S : t # {} => Taken(t) \in S /\ t \ {Taken(t)} \in SUBSET S
  BY TakenFacts
<1>3. PICK h : TotalsOf(h, w, S)
  <2>1. Weights(w, S)
    BY <1>1 DEF Weights
  <2> QED BY <2>1, SumExists
<1>4. CostTable(h, S)
  BY <1>1, <1>2, <1>3 DEF CostTable, TotalsOf
<1>5. CostTable(c, S)
  BY <1>4
<1>6. SumOf(S) = c[S]
  BY CostForm
<1> HIDE DEF c
<1>7. \A t \in SUBSET S : c[t] = IF t = {} THEN 0 ELSE Taken(t).cost + c[t \ {Taken(t)}]
  BY <1>5 DEF CostTable
<1>8. SumTable(c, w, S) /\ SumTable(c, CostOf, S)
  BY <1>1, <1>2, <1>7 DEF SumTable
<1>9. \A t \in SUBSET S : c[t] \in Nat
  BY <1>1, <1>8, SumTyped DEF Sums
<1> QED BY <1>6, <1>8, <1>9 DEF IsSum

\* run by run.
LEMMA CostGrows ==
  /\ SumOf({}) = 0
  /\ \A S \in SUBSET Run, x \in Run : IsFiniteSet(S) /\ x \notin S => SumOf(S \cup {x}) = SumOf(S) + x.cost
<1>1. SumOf({}) = 0
  <2>1. IsFiniteSet({}) /\ {} \in SUBSET Run
    BY FS_EmptySet
  <2> QED BY <2>1, CostSum, SumOfNone
<1>2. ASSUME NEW S \in SUBSET Run, NEW x \in Run, IsFiniteSet(S), x \notin S
      PROVE  SumOf(S \cup {x}) = SumOf(S) + x.cost
  <2>1. PICK U : U = S \cup {x}
    OBVIOUS
  <2>2. U \in SUBSET Run /\ IsFiniteSet(U) /\ x \in U /\ U \ {x} = S
    BY <1>2, <2>1, FS_AddElement
  <2>3. CostOf \in [Run -> Nat] /\ CostOf[x] = x.cost /\ x.cost \in Nat
    BY LogTablesAssumption DEF Run, CostOf
  <2>4. IsSum(CostOf, U, SumOf(U)) /\ SumOf(U) \in Nat /\ IsSum(CostOf, S, SumOf(S)) /\ SumOf(S) \in Nat
    BY <1>2, <2>2, CostSum
  <2>5. IsSum(CostOf, S, SumOf(U) - x.cost)
    BY <2>2, <2>3, <2>4, SumLess
  <2>6. PICK k, l : k = SumOf(S) /\ l = SumOf(U) - x.cost
    OBVIOUS
  <2>7. k = l
    BY <1>2, <2>3, <2>4, <2>5, <2>6, SumOnce
  <2> QED BY <2>1, <2>3, <2>4, <2>6, <2>7
<1> QED BY <1>1, <1>2

\* The costs of the runs since then, row by row.
SpentFromStep(since, v, r) == IF r.started_at < since THEN v ELSE v + r.cost
SpentFrom(s, since) == FoldLeft(LAMBDA v, r : IF r.started_at < since THEN v ELSE v + r.cost, 0, s)
SpentFromTable(c, s, since) ==
  c = [t \in SUBSET (DOMAIN s) |-> IF t = {} THEN 0 ELSE SpentFromStep(since, c[t \ {Max(t)}], s[Max(t)])]

\* The loop of the budget guard is a fold, the choice of its table,
LEMMA SpentFromForm ==
  ASSUME NEW s, NEW since
  PROVE  SpentFrom(s, since) = LET c == CHOOSE c : SpentFromTable(c, s, since) IN c[DOMAIN s]
BY DEF SpentFrom, SpentFromTable, SpentFromStep, FoldLeft, MapThenFoldSet

\* and can be followed row by row.
LEMMA SpentFromRuns ==
  ASSUME NEW s \in Seq(Run), NEW since
  PROVE  \E run \in [0..Len(s) -> Nat] :
           /\ run[0] = 0 /\ run[Len(s)] = SpentFrom(s, since)
           /\ \A m \in 0..(Len(s) - 1) : run[m + 1] = SpentFromStep(since, run[m], s[m + 1])
<1> DEFINE D == DOMAIN s
           g == [p \in (Nat) \X Run |-> SpentFromStep(since, p[1], p[2])]
           c == CHOOSE c : SpentFromTable(c, s, since)
<1>1. Folding(Run, s, Nat, 0, g) /\ \A v \in Nat, r \in Run : g[<<v, r>>] = SpentFromStep(since, v, r)
  <2>1. 0 \in Nat /\ \A v \in Nat, r \in Run : SpentFromStep(since, v, r) \in Nat
    <3>1. \A r \in Run : r.cost \in Nat
      BY LogTablesAssumption DEF Run
    <3> QED BY <3>1 DEF SpentFromStep
  <2>2. g \in [(Nat) \X Run -> Nat] /\ \A v \in Nat, r \in Run : g[<<v, r>>] = SpentFromStep(since, v, r)
    BY <2>1
  <2> HIDE DEF g
  <2> QED BY <2>1, <2>2 DEF Folding
<1> HIDE DEF g
<1>2. PICK h : FoldOf(h, Nat, 0, g, s)
  BY <1>1, FoldExists
<1>3. \A t \in SUBSET D : t # {} => s[Max(t)] \in Run /\ t \ {Max(t)} \in SUBSET D
  BY <1>1, FoldExists
<1>4. SpentFromTable(h, s, since)
  <2>1. h \in [SUBSET D -> Nat] /\ \A t \in SUBSET D : h[t] = IF t = {} THEN 0 ELSE g[<<h[t \ {Max(t)}], s[Max(t)]>>]
    BY <1>2 DEF FoldOf
  <2> HIDE DEF D
  <2>2. \A t \in SUBSET D : h[t] = IF t = {} THEN 0 ELSE SpentFromStep(since, h[t \ {Max(t)}], s[Max(t)])
    BY <1>1, <1>3, <2>1
  <2> QED BY <2>1, <2>2 DEF SpentFromTable, D
<1>5. SpentFromTable(c, s, since)
  BY <1>4
<1>6. SpentFrom(s, since) = c[D]
  BY SpentFromForm
<1> HIDE DEF c
<1>7. FoldsTo(c, Nat, 0, g, s)
  <2>1. \A t \in SUBSET D : c[t] = IF t = {} THEN 0 ELSE SpentFromStep(since, c[t \ {Max(t)}], s[Max(t)])
    BY <1>5 DEF SpentFromTable
  <2> HIDE DEF D
  <2> QED BY <1>1, <1>3, <2>1 DEF FoldsTo, D
<1>8. PICK run : RunOf(run, Nat, 0, g, s) /\ run[Len(s)] = c[D]
  BY <1>1, <1>7, FoldRuns
<1>9. \A m \in 0..(Len(s) - 1) : run[m] \in Nat /\ s[m + 1] \in Run
  <2>1. Len(s) \in Nat /\ \A m \in 0..(Len(s) - 1) : s[m + 1] \in Run
    OBVIOUS
  <2>2. \A m \in 0..(Len(s) - 1) : m \in 0..Len(s)
    BY <2>1
  <2> QED BY <1>8, <2>1, <2>2 DEF RunOf
<1> HIDE DEF D
<1> QED BY <1>1, <1>6, <1>8, <1>9 DEF RunOf

\* The costs of all runs, row by row.
TotalCostStep(v, r) == v + r.cost
TotalCost(s) == FoldLeft(LAMBDA v, r : v + r.cost, 0, s)
TotalCostTable(c, s) ==
  c = [t \in SUBSET (DOMAIN s) |-> IF t = {} THEN 0 ELSE TotalCostStep(c[t \ {Max(t)}], s[Max(t)])]

\* So is the loop of the summary's total.
LEMMA TotalCostForm ==
  ASSUME NEW s
  PROVE  TotalCost(s) = LET c == CHOOSE c : TotalCostTable(c, s) IN c[DOMAIN s]
BY DEF TotalCost, TotalCostTable, TotalCostStep, FoldLeft, MapThenFoldSet

\* It can be followed row by row.
LEMMA TotalCostRuns ==
  ASSUME NEW s \in Seq(Run)
  PROVE  \E run \in [0..Len(s) -> Nat] :
           /\ run[0] = 0 /\ run[Len(s)] = TotalCost(s)
           /\ \A m \in 0..(Len(s) - 1) : run[m + 1] = TotalCostStep(run[m], s[m + 1])
<1> DEFINE D == DOMAIN s
           g == [p \in (Nat) \X Run |-> TotalCostStep(p[1], p[2])]
           c == CHOOSE c : TotalCostTable(c, s)
<1>1. Folding(Run, s, Nat, 0, g) /\ \A v \in Nat, r \in Run : g[<<v, r>>] = TotalCostStep(v, r)
  <2>1. 0 \in Nat /\ \A v \in Nat, r \in Run : TotalCostStep(v, r) \in Nat
    <3>1. \A r \in Run : r.cost \in Nat
      BY LogTablesAssumption DEF Run
    <3> QED BY <3>1 DEF TotalCostStep
  <2>2. g \in [(Nat) \X Run -> Nat] /\ \A v \in Nat, r \in Run : g[<<v, r>>] = TotalCostStep(v, r)
    BY <2>1
  <2> HIDE DEF g
  <2> QED BY <2>1, <2>2 DEF Folding
<1> HIDE DEF g
<1>2. PICK h : FoldOf(h, Nat, 0, g, s)
  BY <1>1, FoldExists
<1>3. \A t \in SUBSET D : t # {} => s[Max(t)] \in Run /\ t \ {Max(t)} \in SUBSET D
  BY <1>1, FoldExists
<1>4. TotalCostTable(h, s)
  <2>1. h \in [SUBSET D -> Nat] /\ \A t \in SUBSET D : h[t] = IF t = {} THEN 0 ELSE g[<<h[t \ {Max(t)}], s[Max(t)]>>]
    BY <1>2 DEF FoldOf
  <2> HIDE DEF D
  <2>2. \A t \in SUBSET D : h[t] = IF t = {} THEN 0 ELSE TotalCostStep(h[t \ {Max(t)}], s[Max(t)])
    BY <1>1, <1>3, <2>1
  <2> QED BY <2>1, <2>2 DEF TotalCostTable, D
<1>5. TotalCostTable(c, s)
  BY <1>4
<1>6. TotalCost(s) = c[D]
  BY TotalCostForm
<1> HIDE DEF c
<1>7. FoldsTo(c, Nat, 0, g, s)
  <2>1. \A t \in SUBSET D : c[t] = IF t = {} THEN 0 ELSE TotalCostStep(c[t \ {Max(t)}], s[Max(t)])
    BY <1>5 DEF TotalCostTable
  <2> HIDE DEF D
  <2> QED BY <1>1, <1>3, <2>1 DEF FoldsTo, D
<1>8. PICK run : RunOf(run, Nat, 0, g, s) /\ run[Len(s)] = c[D]
  BY <1>1, <1>7, FoldRuns
<1>9. \A m \in 0..(Len(s) - 1) : run[m] \in Nat /\ s[m + 1] \in Run
  <2>1. Len(s) \in Nat /\ \A m \in 0..(Len(s) - 1) : s[m + 1] \in Run
    OBVIOUS
  <2>2. \A m \in 0..(Len(s) - 1) : m \in 0..Len(s)
    BY <2>1
  <2> QED BY <1>8, <2>1, <2>2 DEF RunOf
<1> HIDE DEF D
<1> QED BY <1>1, <1>6, <1>8, <1>9 DEF RunOf

\* The budget guard adds up the runs since then.
LEMMA SpentIs ==
  ASSUME NEW s \in Seq(Run), Distinct(s), NEW since \in Nat
  PROVE  SpentFrom(s, since) = SumOf(ToSet(s) \cap From(since))
<1>1. PICK n \in Nat : n = Len(s) /\ \A i \in 1..n : s[i] \in Run
  OBVIOUS
<1>2. PICK run \in [0..n -> Nat] :
        run[0] = 0 /\ run[n] = SpentFrom(s, since) /\ \A m \in 0..(n - 1) : run[m + 1] = SpentFromStep(since, run[m], s[m + 1])
  <2>1. PICK run \in [0..Len(s) -> Nat] :
           /\ run[0] = 0 /\ run[Len(s)] = SpentFrom(s, since)
           /\ \A m \in 0..(Len(s) - 1) : run[m + 1] = SpentFromStep(since, run[m], s[m + 1])
    BY SpentFromRuns
  <2> QED BY <1>1, <2>1
<1> DEFINE S == {m \in 0..n : run[m] = SumOf(Upto(s, m) \cap From(since))}
<1>3. 0 \in S
  <2>1. Upto(s, 0) \cap From(since) = {}
    BY UptoFacts
  <2>2. SumOf(Upto(s, 0) \cap From(since)) = 0
    BY <2>1, CostGrows
  <2> QED BY <1>2, <2>2
<1>4. ASSUME NEW m \in 0..(n - 1), m \in S PROVE m + 1 \in S
  <2>0. PICK r \in Run : r = s[m + 1]
    BY <1>1
  <2>1. PICK A, B : A = Upto(s, m) /\ B = Upto(s, m + 1) /\ r = s[m + 1]
    BY <2>0
  <2>2. B = A \cup {r} /\ r \notin A /\ IsFiniteSet(A) /\ A \in SUBSET Run
    <3>1. m \in 0..Len(s) /\ m \in 0..(Len(s) - 1)
      BY <1>1
    <3>2. ToSet(s) \in SUBSET Run
      BY StoreFacts
    <3> QED BY <2>1, <3>1, <3>2, UptoFacts
  <2>3. run[m] = SumOf(A \cap From(since)) /\ run[m + 1] = SpentFromStep(since, run[m], r) /\ run[m] \in Nat
    BY <1>2, <1>4, <2>1
  <2>4. r.started_at \in Nat /\ r.cost \in Nat
    BY LogTablesAssumption DEF Run
  <2>5. run[m + 1] = SumOf(B \cap From(since))
    <3>1. CASE r.started_at < since
      <4>1. B \cap From(since) = A \cap From(since)
        BY <2>2, <2>4, <3>1 DEF From
      <4> QED BY <2>3, <3>1, <4>1 DEF SpentFromStep
    <3>2. CASE ~(r.started_at < since)
      <4>1. PICK C : C = A \cap From(since)
        OBVIOUS
      <4>2. B \cap From(since) = C \cup {r} /\ r \notin C /\ C \in SUBSET Run
        BY <2>2, <2>4, <3>2, <4>1 DEF From
      <4>3. IsFiniteSet(C)
        BY <2>2, <4>1, FS_Subset
      <4>4. SumOf(C \cup {r}) = SumOf(C) + r.cost
        BY <4>2, <4>3, CostGrows
      <4> QED BY <2>3, <3>2, <4>1, <4>2, <4>4 DEF SpentFromStep
    <3> QED BY <3>1, <3>2
  <2>6. m + 1 \in 0..n
    OBVIOUS
  <2> QED BY <2>1, <2>5, <2>6
<1>5. n \in S
  <2>1. S \in SUBSET (0..n)
    OBVIOUS
  <2> HIDE DEF S
  <2> QED BY <1>3, <1>4, <2>1, Steps
<1>6. Upto(s, n) = ToSet(s)
  BY <1>1, UptoFacts
<1> QED BY <1>2, <1>5, <1>6

\* The total of the summary is the sum over the rows.
LEMMA TotalIs ==
  ASSUME NEW s \in Seq(Run), Distinct(s)
  PROVE  TotalCost(s) = SumOf(ToSet(s))
<1>1. PICK n \in Nat : n = Len(s) /\ \A i \in 1..n : s[i] \in Run
  OBVIOUS
<1>2. PICK run \in [0..n -> Nat] :
        run[0] = 0 /\ run[n] = TotalCost(s) /\ \A m \in 0..(n - 1) : run[m + 1] = TotalCostStep(run[m], s[m + 1])
  <2>1. PICK run \in [0..Len(s) -> Nat] :
           /\ run[0] = 0 /\ run[Len(s)] = TotalCost(s)
           /\ \A m \in 0..(Len(s) - 1) : run[m + 1] = TotalCostStep(run[m], s[m + 1])
    BY TotalCostRuns
  <2> QED BY <1>1, <2>1
<1> DEFINE S == {m \in 0..n : run[m] = SumOf(Upto(s, m))}
<1>3. 0 \in S
  <2>1. Upto(s, 0) = {}
    BY UptoFacts
  <2>2. SumOf(Upto(s, 0)) = 0
    BY <2>1, CostGrows
  <2> QED BY <1>2, <2>2
<1>4. ASSUME NEW m \in 0..(n - 1), m \in S PROVE m + 1 \in S
  <2>0. PICK r \in Run : r = s[m + 1]
    BY <1>1
  <2>1. PICK A, B : A = Upto(s, m) /\ B = Upto(s, m + 1) /\ r = s[m + 1]
    BY <2>0
  <2>2. B = A \cup {r} /\ r \notin A /\ IsFiniteSet(A) /\ A \in SUBSET Run
    <3>1. m \in 0..Len(s) /\ m \in 0..(Len(s) - 1)
      BY <1>1
    <3>2. ToSet(s) \in SUBSET Run
      BY StoreFacts
    <3> QED BY <2>1, <3>1, <3>2, UptoFacts
  <2>3. run[m] = SumOf(A) /\ run[m + 1] = run[m] + r.cost
    BY <1>2, <1>4, <2>1 DEF TotalCostStep
  <2>4. SumOf(B) = SumOf(A) + r.cost
    BY <2>2, CostGrows
  <2>5. m + 1 \in 0..n
    OBVIOUS
  <2> QED BY <2>1, <2>3, <2>4, <2>5
<1>5. n \in S
  <2>1. S \in SUBSET (0..n)
    OBVIOUS
  <2> HIDE DEF S
  <2> QED BY <1>3, <1>4, <2>1, Steps
<1>6. Upto(s, n) = ToSet(s)
  BY <1>1, UptoFacts
<1> QED BY <1>2, <1>5, <1>6

\* The guard's sum is the same from both adapters, and the same as the summary's total.
LEMMA SpendingAgrees ==
  ASSUME Alike(Run), NEW since \in Instants
  PROVE  /\ PgSpentSince(since) = MemSpentSince(since)
         /\ PgSpentSince(since) = MemCostSummary([since |-> since, until |-> NotCaptured]).total.cost
<1>1. since \in Nat /\ memRows \in Seq(Run) /\ Distinct(memRows) /\ pgRows = ToSet(memRows) /\ pgRows \in SUBSET Run
  BY LogTablesAssumption DEF Alike
<1>2. PgSpentSince(since) = EurFromMicros(SumOf(pgRows \cap From(since)))
  <2>1. {r \in pgRows : r.started_at >= since} = pgRows \cap From(since)
    BY <1>1 DEF From
  <2> QED BY <2>1 DEF PgSpentSince, Select
<1>3. MemSpentSince(since) = EurFromMicros(SpentFrom(memRows, since))
  BY DEF MemSpentSince, SpentFrom
<1>4. PICK w : w = [since |-> since, until |-> NotCaptured]
  OBVIOUS
<1>5. In(w) = From(since)
  <2>1. since # NotCaptured /\ w.since = since /\ w.until = NotCaptured
    BY <1>1, <1>4 DEF NotCaptured
  <2> QED BY <2>1 DEF In, From, InWindow
<1>6. PICK e : e = Found(memRows, In(w))
  OBVIOUS
<1>7. MemCostSummary(w).total.cost = EurFromMicros(TotalCost(e))
  <2>1. EntriesAt(memRows, {i \in DOMAIN memRows : InWindow(memRows[i], w)}) = e
    BY <1>6, WindowFound
  <2> QED BY <2>1 DEF MemCostSummary, Scan, TotalCost
<1>8. TotalCost(e) = SumOf(pgRows \cap In(w))
  <2>1. e \in Seq(Run) /\ Distinct(e) /\ ToSet(e) = pgRows \cap In(w)
    BY <1>6, FoundRows
  <2> QED BY <2>1, TotalIs
<1> QED BY <1>1, <1>2, <1>3, <1>4, <1>5, <1>7, <1>8, SpentIs

-----------------------------------------------------------------------------
(* Buckets.                                                                 *)

BucketOf(N) == [name: N, micros: Nat, count: Nat]
SourceKeys == Owners \cup {NoSource}

\* What names the bucket of a run.
LEMMA NamesTyped ==
  \A r \in Run : Day(r.started_at) \in Int /\ r.source_id \in SourceKeys /\ r.cost \in Nat /\ r.started_at \in Nat
<1>1. \A r \in Run : r.started_at \in Nat /\ r.cost \in Nat /\ r.source_id \in SourceKeys
  BY LogTablesAssumption DEF Run, SourceKeys
<1>2. DayLength \in Nat \ {0}
  BY LogTablesAssumption
<1>3. \A k \in Nat : k \div DayLength \in Int
  BY <1>2
<1> QED BY <1>1, <1>3 DEF Day

\* A run that is tallied leaves a list of buckets.
LEMMA TallyTyped ==
  ASSUME NEW N, NEW b \in Seq(BucketOf(N)), NEW n \in N, NEW k \in Nat
  PROVE  Tally(b, n, k) \in Seq(BucketOf(N))
<1>1. DOMAIN b = 1..Len(b) /\ Len(b) \in Nat /\ \A i \in DOMAIN b : b[i] \in BucketOf(N)
  OBVIOUS
<1>2. CASE \E i \in DOMAIN b : b[i].name = n
  <2>1. Tally(b, n, k) = [i \in DOMAIN b |-> IF b[i].name = n
                                             THEN [name |-> n, micros |-> b[i].micros + k, count |-> b[i].count + 1] ELSE b[i]]
    BY <1>2 DEF Tally
  <2>2. \A i \in DOMAIN b : [name |-> n, micros |-> b[i].micros + k, count |-> b[i].count + 1] \in BucketOf(N)
    <3> SUFFICES ASSUME NEW i \in DOMAIN b PROVE [name |-> n, micros |-> b[i].micros + k, count |-> b[i].count + 1] \in BucketOf(N)
      OBVIOUS
    <3>1. b[i].micros + k \in Nat /\ b[i].count + 1 \in Nat
      BY <1>1 DEF BucketOf
    <3> QED BY <3>1 DEF BucketOf
  <2>3. Tally(b, n, k) \in [1..Len(b) -> BucketOf(N)]
    BY <1>1, <2>1, <2>2
  <2> QED BY <1>1, <2>3
<1>3. CASE ~\E i \in DOMAIN b : b[i].name = n
  <2>1. Tally(b, n, k) = Append(b, [name |-> n, micros |-> k, count |-> 1])
    BY <1>3 DEF Tally
  <2>2. [name |-> n, micros |-> k, count |-> 1] \in BucketOf(N)
    BY DEF BucketOf
  <2> QED BY <2>1, <2>2
<1> QED BY <1>2, <1>3

\* The runs of a name.
Named(A, f, n) == {r \in A : f[r] = n}

\* One bucket for each name, with the sums of its runs.
Tallied(b, A, f) ==
  /\ \A i, j \in DOMAIN b : b[i].name = b[j].name => i = j
  /\ \A i \in DOMAIN b : b[i].micros = SumOf(Named(A, f, b[i].name)) /\ b[i].count = Cardinality(Named(A, f, b[i].name))
  /\ \A i \in DOMAIN b : \E r \in A : f[r] = b[i].name
  /\ \A r \in A : \E i \in DOMAIN b : b[i].name = f[r]

\* Tallying one more run keeps the buckets those of the runs so far.
LEMMA TallyCounts ==
  ASSUME NEW N, NEW b \in Seq(BucketOf(N)), NEW A \in SUBSET Run, IsFiniteSet(A), NEW f \in [Run -> N], Tallied(b, A, f),
         NEW x \in Run, x \notin A
  PROVE  Tallied(Tally(b, f[x], x.cost), A \cup {x}, f)
<1>1. DOMAIN b = 1..Len(b) /\ Len(b) \in Nat
  OBVIOUS
<1>2. PICK n, B : n = f[x] /\ B = A \cup {x}
  OBVIOUS
<1>3. \A m : m # n => Named(B, f, m) = Named(A, f, m)
  BY <1>2 DEF Named
<1>4. /\ SumOf(Named(B, f, n)) = SumOf(Named(A, f, n)) + x.cost
      /\ Cardinality(Named(B, f, n)) = Cardinality(Named(A, f, n)) + 1
  <2>1. PICK C : C = Named(A, f, n)
    OBVIOUS
  <2>2. Named(B, f, n) = C \cup {x} /\ x \notin C /\ C \in SUBSET Run /\ C \in SUBSET A
    BY <1>2, <2>1 DEF Named
  <2>3. IsFiniteSet(C)
    BY <2>2, FS_Subset
  <2>4. SumOf(C \cup {x}) = SumOf(C) + x.cost
    BY <2>2, <2>3, CostGrows
  <2>5. Cardinality(C \cup {x}) = Cardinality(C) + 1
    BY <2>2, <2>3, FS_AddElement
  <2> QED BY <2>1, <2>2, <2>4, <2>5
<1>5. PICK t : t = Tally(b, n, x.cost)
  OBVIOUS
<1>6. CASE \E i \in DOMAIN b : b[i].name = n
  <2>1. t = [i \in DOMAIN b |-> IF b[i].name = n
                                THEN [name |-> n, micros |-> b[i].micros + x.cost, count |-> b[i].count + 1] ELSE b[i]]
    BY <1>5, <1>6 DEF Tally
  <2>2. DOMAIN t = DOMAIN b /\ \A i \in DOMAIN b : t[i].name = b[i].name
    BY <2>1
  <2>3. \A i \in DOMAIN b : t[i].micros = SumOf(Named(B, f, t[i].name)) /\ t[i].count = Cardinality(Named(B, f, t[i].name))
    <3> SUFFICES ASSUME NEW i \in DOMAIN b
                 PROVE  t[i].micros = SumOf(Named(B, f, t[i].name)) /\ t[i].count = Cardinality(Named(B, f, t[i].name))
      OBVIOUS
    <3>1. b[i].micros = SumOf(Named(A, f, b[i].name)) /\ b[i].count = Cardinality(Named(A, f, b[i].name))
      BY DEF Tallied
    <3>2. CASE b[i].name = n
      <4>1. t[i] = [name |-> n, micros |-> b[i].micros + x.cost, count |-> b[i].count + 1]
        BY <2>1, <3>2
      <4>2. t[i].micros = b[i].micros + x.cost /\ t[i].count = b[i].count + 1 /\ t[i].name = n
        BY <4>1
      <4> QED BY <1>4, <3>1, <3>2, <4>2
    <3>3. CASE b[i].name # n
      <4>1. t[i] = b[i]
        BY <2>1, <3>3
      <4> QED BY <1>3, <3>1, <3>3, <4>1
    <3> QED BY <3>2, <3>3
  <2>4. \A i \in DOMAIN t : \E r \in B : f[r] = t[i].name
    BY <1>2, <2>2 DEF Tallied
  <2>5. \A r \in B : \E i \in DOMAIN t : t[i].name = f[r]
    BY <1>2, <1>6, <2>2 DEF Tallied
  <2>6. \A i, j \in DOMAIN t : t[i].name = t[j].name => i = j
    BY <2>2 DEF Tallied
  <2>7. \A i \in DOMAIN t : t[i].micros = SumOf(Named(B, f, t[i].name)) /\ t[i].count = Cardinality(Named(B, f, t[i].name))
    BY <2>2, <2>3
  <2>8. Tallied(t, B, f)
    BY <2>4, <2>5, <2>6, <2>7 DEF Tallied
  <2> QED BY <1>2, <1>5, <2>8
<1>7. CASE ~\E i \in DOMAIN b : b[i].name = n
  <2>1. PICK new : new = [name |-> n, micros |-> x.cost, count |-> 1]
    OBVIOUS
  <2>2. t = Append(b, new)
    BY <1>5, <1>7, <2>1 DEF Tally
  <2>3. PICK k \in Nat : k = Len(b) /\ DOMAIN b = 1..k
    BY <1>1
  <2>4. DOMAIN t = 1..(k + 1) /\ t[k + 1] = new /\ \A i \in 1..k : t[i] = b[i]
    BY <2>2, <2>3
  <2>5. Named(A, f, n) = {}
    BY <1>7 DEF Named, Tallied
  <2>6. SumOf(Named(B, f, n)) = x.cost /\ Cardinality(Named(B, f, n)) = 1
    <3>1. SumOf({}) = 0 /\ Cardinality({}) = 0
      BY CostGrows, FS_EmptySet
    <3>2. x.cost \in Nat
      BY NamesTyped
    <3>3. SumOf(Named(B, f, n)) = 0 + x.cost /\ Cardinality(Named(B, f, n)) = 0 + 1
      BY <1>4, <2>5, <3>1
    <3> QED BY <3>2, <3>3
  <2>7. \A i \in DOMAIN t : i = k + 1 \/ i \in 1..k
    BY <2>4
  <2>8. new.name = n /\ new.micros = x.cost /\ new.count = 1
    BY <2>1
  <2>9. \A i \in DOMAIN t : t[i].micros = SumOf(Named(B, f, t[i].name)) /\ t[i].count = Cardinality(Named(B, f, t[i].name))
    <3> SUFFICES ASSUME NEW i \in DOMAIN t
                 PROVE  t[i].micros = SumOf(Named(B, f, t[i].name)) /\ t[i].count = Cardinality(Named(B, f, t[i].name))
      OBVIOUS
    <3>1. CASE i = k + 1
      BY <2>4, <2>6, <2>8, <3>1
    <3>2. CASE i \in 1..k
      <4>1. t[i] = b[i] /\ b[i].name # n /\ i \in DOMAIN b
        BY <1>7, <2>3, <2>4, <3>2
      <4>2. b[i].micros = SumOf(Named(A, f, b[i].name)) /\ b[i].count = Cardinality(Named(A, f, b[i].name))
        BY <4>1 DEF Tallied
      <4> QED BY <1>3, <4>1, <4>2
    <3> QED BY <2>7, <3>1, <3>2
  <2>10. \A i, j \in DOMAIN t : t[i].name = t[j].name => i = j
    <3> SUFFICES ASSUME NEW i \in DOMAIN t, NEW j \in DOMAIN t, t[i].name = t[j].name PROVE i = j
      OBVIOUS
    <3>1. CASE i \in 1..k /\ j \in 1..k
      BY <2>3, <2>4, <3>1 DEF Tallied
    <3>2. CASE i = k + 1 /\ j \in 1..k
      BY <1>7, <2>3, <2>4, <2>8, <3>2
    <3>3. CASE j = k + 1 /\ i \in 1..k
      BY <1>7, <2>3, <2>4, <2>8, <3>3
    <3> QED BY <2>7, <3>1, <3>2, <3>3
  <2>11. \A i \in DOMAIN t : \E r \in B : f[r] = t[i].name
    <3> SUFFICES ASSUME NEW i \in DOMAIN t PROVE \E r \in B : f[r] = t[i].name
      OBVIOUS
    <3>1. CASE i = k + 1
      BY <1>2, <2>4, <2>8, <3>1
    <3>2. CASE i \in 1..k
      <4>1. PICK r \in A : f[r] = b[i].name
        BY <2>3, <3>2 DEF Tallied
      <4> QED BY <1>2, <2>4, <3>2, <4>1
    <3> QED BY <2>7, <3>1, <3>2
  <2>12. \A r \in B : \E i \in DOMAIN t : t[i].name = f[r]
    <3> SUFFICES ASSUME NEW r \in B PROVE \E i \in DOMAIN t : t[i].name = f[r]
      OBVIOUS
    <3>1. CASE r = x
      <4>1. k + 1 \in DOMAIN t
        BY <2>4
      <4> QED BY <1>2, <2>4, <2>8, <3>1, <4>1
    <3>2. CASE r \in A
      <4>1. PICK i \in 1..k : b[i].name = f[r]
        BY <2>3, <3>2 DEF Tallied
      <4>2. i \in DOMAIN t
        BY <2>4
      <4> QED BY <2>4, <4>1, <4>2
    <3> QED BY <1>2, <3>1, <3>2
  <2>13. Tallied(t, B, f)
    BY <2>9, <2>10, <2>11, <2>12 DEF Tallied
  <2> QED BY <1>2, <1>5, <2>13
<1> QED BY <1>6, <1>7

\* One pass over the days.
DayTalliesStep(v, r) == Tally(v, Day(r.started_at), r.cost)
DayTallies(s) == FoldLeft(LAMBDA v, r : Tally(v, Day(r.started_at), r.cost), <<>>, s)
DayTalliesTable(c, s) ==
  c = [t \in SUBSET (DOMAIN s) |-> IF t = {} THEN <<>> ELSE DayTalliesStep(c[t \ {Max(t)}], s[Max(t)])]

\* The loop over the days is a fold, the choice of its table,
LEMMA DayTalliesForm ==
  ASSUME NEW s
  PROVE  DayTallies(s) = LET c == CHOOSE c : DayTalliesTable(c, s) IN c[DOMAIN s]
BY DEF DayTallies, DayTalliesTable, DayTalliesStep, FoldLeft, MapThenFoldSet

\* and can be followed row by row.
LEMMA DayTalliesRuns ==
  ASSUME NEW s \in Seq(Run)
  PROVE  \E run \in [0..Len(s) -> Seq(BucketOf(Int))] :
           /\ run[0] = <<>> /\ run[Len(s)] = DayTallies(s)
           /\ \A m \in 0..(Len(s) - 1) : run[m + 1] = DayTalliesStep(run[m], s[m + 1])
<1> DEFINE D == DOMAIN s
           g == [p \in (Seq(BucketOf(Int))) \X Run |-> DayTalliesStep(p[1], p[2])]
           c == CHOOSE c : DayTalliesTable(c, s)
<1>1. Folding(Run, s, Seq(BucketOf(Int)), <<>>, g) /\ \A v \in Seq(BucketOf(Int)), r \in Run : g[<<v, r>>] = DayTalliesStep(v, r)
  <2>1. <<>> \in Seq(BucketOf(Int)) /\ \A v \in Seq(BucketOf(Int)), r \in Run : DayTalliesStep(v, r) \in Seq(BucketOf(Int))
    <3>1. ASSUME NEW v \in Seq(BucketOf(Int)), NEW r \in Run PROVE DayTalliesStep(v, r) \in Seq(BucketOf(Int))
      <4>1. Day(r.started_at) \in Int /\ r.cost \in Nat
        BY NamesTyped
      <4> QED BY <4>1, TallyTyped DEF DayTalliesStep
    <3> QED BY <3>1
  <2>2. g \in [(Seq(BucketOf(Int))) \X Run -> Seq(BucketOf(Int))] /\ \A v \in Seq(BucketOf(Int)), r \in Run : g[<<v, r>>] = DayTalliesStep(v, r)
    BY <2>1
  <2> HIDE DEF g
  <2> QED BY <2>1, <2>2 DEF Folding
<1> HIDE DEF g
<1>2. PICK h : FoldOf(h, Seq(BucketOf(Int)), <<>>, g, s)
  BY <1>1, FoldExists
<1>3. \A t \in SUBSET D : t # {} => s[Max(t)] \in Run /\ t \ {Max(t)} \in SUBSET D
  BY <1>1, FoldExists
<1>4. DayTalliesTable(h, s)
  <2>1. h \in [SUBSET D -> Seq(BucketOf(Int))] /\ \A t \in SUBSET D : h[t] = IF t = {} THEN <<>> ELSE g[<<h[t \ {Max(t)}], s[Max(t)]>>]
    BY <1>2 DEF FoldOf
  <2> HIDE DEF D
  <2>2. \A t \in SUBSET D : h[t] = IF t = {} THEN <<>> ELSE DayTalliesStep(h[t \ {Max(t)}], s[Max(t)])
    BY <1>1, <1>3, <2>1
  <2> QED BY <2>1, <2>2 DEF DayTalliesTable, D
<1>5. DayTalliesTable(c, s)
  BY <1>4
<1>6. DayTallies(s) = c[D]
  BY DayTalliesForm
<1> HIDE DEF c
<1>7. FoldsTo(c, Seq(BucketOf(Int)), <<>>, g, s)
  <2>1. \A t \in SUBSET D : c[t] = IF t = {} THEN <<>> ELSE DayTalliesStep(c[t \ {Max(t)}], s[Max(t)])
    BY <1>5 DEF DayTalliesTable
  <2> HIDE DEF D
  <2> QED BY <1>1, <1>3, <2>1 DEF FoldsTo, D
<1>8. PICK run : RunOf(run, Seq(BucketOf(Int)), <<>>, g, s) /\ run[Len(s)] = c[D]
  BY <1>1, <1>7, FoldRuns
<1>9. \A m \in 0..(Len(s) - 1) : run[m] \in Seq(BucketOf(Int)) /\ s[m + 1] \in Run
  <2>1. Len(s) \in Nat /\ \A m \in 0..(Len(s) - 1) : s[m + 1] \in Run
    OBVIOUS
  <2>2. \A m \in 0..(Len(s) - 1) : m \in 0..Len(s)
    BY <2>1
  <2> QED BY <1>8, <2>1, <2>2 DEF RunOf
<1> HIDE DEF D
<1> QED BY <1>1, <1>6, <1>8, <1>9 DEF RunOf

\* One pass over the sources.
SourceTalliesStep(v, r) == Tally(v, r.source_id, r.cost)
SourceTallies(s) == FoldLeft(LAMBDA v, r : Tally(v, r.source_id, r.cost), <<>>, s)
SourceTalliesTable(c, s) ==
  c = [t \in SUBSET (DOMAIN s) |-> IF t = {} THEN <<>> ELSE SourceTalliesStep(c[t \ {Max(t)}], s[Max(t)])]

\* So is the loop over the sources.
LEMMA SourceTalliesForm ==
  ASSUME NEW s
  PROVE  SourceTallies(s) = LET c == CHOOSE c : SourceTalliesTable(c, s) IN c[DOMAIN s]
BY DEF SourceTallies, SourceTalliesTable, SourceTalliesStep, FoldLeft, MapThenFoldSet

\* It can be followed row by row.
LEMMA SourceTalliesRuns ==
  ASSUME NEW s \in Seq(Run)
  PROVE  \E run \in [0..Len(s) -> Seq(BucketOf(SourceKeys))] :
           /\ run[0] = <<>> /\ run[Len(s)] = SourceTallies(s)
           /\ \A m \in 0..(Len(s) - 1) : run[m + 1] = SourceTalliesStep(run[m], s[m + 1])
<1> DEFINE D == DOMAIN s
           g == [p \in (Seq(BucketOf(SourceKeys))) \X Run |-> SourceTalliesStep(p[1], p[2])]
           c == CHOOSE c : SourceTalliesTable(c, s)
<1>1. Folding(Run, s, Seq(BucketOf(SourceKeys)), <<>>, g) /\ \A v \in Seq(BucketOf(SourceKeys)), r \in Run : g[<<v, r>>] = SourceTalliesStep(v, r)
  <2>1. <<>> \in Seq(BucketOf(SourceKeys)) /\ \A v \in Seq(BucketOf(SourceKeys)), r \in Run : SourceTalliesStep(v, r) \in Seq(BucketOf(SourceKeys))
    <3>1. ASSUME NEW v \in Seq(BucketOf(SourceKeys)), NEW r \in Run
          PROVE  SourceTalliesStep(v, r) \in Seq(BucketOf(SourceKeys))
      <4>1. r.source_id \in SourceKeys /\ r.cost \in Nat
        BY NamesTyped
      <4> QED BY <4>1, TallyTyped DEF SourceTalliesStep
    <3> QED BY <3>1
  <2>2. g \in [(Seq(BucketOf(SourceKeys))) \X Run -> Seq(BucketOf(SourceKeys))] /\ \A v \in Seq(BucketOf(SourceKeys)), r \in Run : g[<<v, r>>] = SourceTalliesStep(v, r)
    BY <2>1
  <2> HIDE DEF g
  <2> QED BY <2>1, <2>2 DEF Folding
<1> HIDE DEF g
<1>2. PICK h : FoldOf(h, Seq(BucketOf(SourceKeys)), <<>>, g, s)
  BY <1>1, FoldExists
<1>3. \A t \in SUBSET D : t # {} => s[Max(t)] \in Run /\ t \ {Max(t)} \in SUBSET D
  BY <1>1, FoldExists
<1>4. SourceTalliesTable(h, s)
  <2>1. h \in [SUBSET D -> Seq(BucketOf(SourceKeys))] /\ \A t \in SUBSET D : h[t] = IF t = {} THEN <<>> ELSE g[<<h[t \ {Max(t)}], s[Max(t)]>>]
    BY <1>2 DEF FoldOf
  <2> HIDE DEF D
  <2>2. \A t \in SUBSET D : h[t] = IF t = {} THEN <<>> ELSE SourceTalliesStep(h[t \ {Max(t)}], s[Max(t)])
    BY <1>1, <1>3, <2>1
  <2> QED BY <2>1, <2>2 DEF SourceTalliesTable, D
<1>5. SourceTalliesTable(c, s)
  BY <1>4
<1>6. SourceTallies(s) = c[D]
  BY SourceTalliesForm
<1> HIDE DEF c
<1>7. FoldsTo(c, Seq(BucketOf(SourceKeys)), <<>>, g, s)
  <2>1. \A t \in SUBSET D : c[t] = IF t = {} THEN <<>> ELSE SourceTalliesStep(c[t \ {Max(t)}], s[Max(t)])
    BY <1>5 DEF SourceTalliesTable
  <2> HIDE DEF D
  <2> QED BY <1>1, <1>3, <2>1 DEF FoldsTo, D
<1>8. PICK run : RunOf(run, Seq(BucketOf(SourceKeys)), <<>>, g, s) /\ run[Len(s)] = c[D]
  BY <1>1, <1>7, FoldRuns
<1>9. \A m \in 0..(Len(s) - 1) : run[m] \in Seq(BucketOf(SourceKeys)) /\ s[m + 1] \in Run
  <2>1. Len(s) \in Nat /\ \A m \in 0..(Len(s) - 1) : s[m + 1] \in Run
    OBVIOUS
  <2>2. \A m \in 0..(Len(s) - 1) : m \in 0..Len(s)
    BY <2>1
  <2> QED BY <1>8, <2>1, <2>2 DEF RunOf
<1> HIDE DEF D
<1> QED BY <1>1, <1>6, <1>8, <1>9 DEF RunOf

\* Every place of a store has its turn in the order of its rows.
LEMMA PlacesOrder ==
  ASSUME NEW X, NEW s \in Seq(X), Distinct(s), NEW R, Orders(R, ToSet(s))
  PROVE  /\ Arranged(DOMAIN s, Places(s, R)) \in [1..Len(s) -> DOMAIN s]
         /\ \A i \in DOMAIN s : \E n \in 1..Len(s) : Arranged(DOMAIN s, Places(s, R))[n] = i
<1>1. \A i \in DOMAIN s : i \in Int /\ s[i] \in ToSet(s)
  BY DEF ToSet
<1>2. PICK Q : Q = Places(s, R)
  OBVIOUS
<1>3. \A i, j \in DOMAIN s : <<i, j>> \in Q <=> <<s[i], s[j]>> \in R
  <2> SUFFICES ASSUME NEW i \in DOMAIN s, NEW j \in DOMAIN s PROVE <<i, j>> \in Q <=> <<s[i], s[j]>> \in R
    OBVIOUS
  <2>1. <<i, j>> \in Q <=> (<<s[i], s[j]>> \in R \/ (<<s[j], s[i]>> \notin R /\ i < j))
    BY <1>2 DEF Places
  <2>2. i # j => s[i] # s[j]
    BY DEF Distinct
  <2> QED BY <1>1, <2>1, <2>2 DEF Orders
<1>4. PICK D : D = DOMAIN s
  OBVIOUS
<1>5. Orders(Q, D)
  <2>1. \A i \in D : <<i, i>> \notin Q
    BY <1>1, <1>3, <1>4 DEF Orders
  <2>2. \A i, j \in D : i # j => <<i, j>> \in Q \/ <<j, i>> \in Q
    <3>1. \A i, j \in D : i # j => s[i] # s[j]
      BY <1>4 DEF Distinct
    <3> QED BY <1>1, <1>3, <1>4, <3>1 DEF Orders
  <2>3. \A i, j, k \in D : <<i, j>> \in Q /\ <<j, k>> \in Q => <<i, k>> \in Q
    BY <1>1, <1>3, <1>4 DEF Orders
  <2> QED BY <2>1, <2>2, <2>3 DEF Orders
<1>6. IsFiniteSet(D) /\ Cardinality(D) = Len(s)
  <2>1. D = 1..Len(s) /\ Len(s) \in Nat
    BY <1>4
  <2> QED BY <2>1, UpTo
<1>7. PICK f : f = Arranged(D, Q)
  OBVIOUS
<1>8. InPlace(f, D, Q)
  BY <1>5, <1>6, <1>7, ArrangedInPlace
<1>9. f \in [1..Len(s) -> D]
  BY <1>6, <1>8 DEF InPlace
<1>10. \A i \in D : \E n \in 1..Cardinality(D) : f[n] = i
  BY <1>5, <1>6, <1>8, InPlaceFacts
<1> QED BY <1>2, <1>4, <1>6, <1>7, <1>9, <1>10

-----------------------------------------------------------------------------
\* A pass over the runs tallies them.
TallyPass(N, f, s, run) ==
  /\ f \in [Run -> N] /\ s \in Seq(Run) /\ Distinct(s)
  /\ run \in [0..Len(s) -> Seq(BucketOf(N))] /\ run[0] = <<>>
  /\ \A m \in 0..(Len(s) - 1) : run[m + 1] = Tally(run[m], f[s[m + 1]], s[m + 1].cost)

\* A pass over all rows leaves the buckets of all of them:
LEMMA TallyPassed ==
  ASSUME NEW N, NEW f, NEW s, NEW run, TallyPass(N, f, s, run)
  PROVE  Tallied(run[Len(s)], ToSet(s), f)
<1>1. PICK n \in Nat : n = Len(s) /\ \A i \in 1..n : s[i] \in Run
  BY DEF TallyPass
<1>2. s \in Seq(Run) /\ Distinct(s) /\ f \in [Run -> N]
  BY DEF TallyPass
<1> DEFINE S == {m \in 0..n : Tallied(run[m], Upto(s, m), f)}
<1>3. 0 \in S
  <2>1. PICK A, b : A = Upto(s, 0) /\ b = run[0]
    OBVIOUS
  <2>2. A = {} /\ b = <<>>
    BY <1>2, <2>1, UptoFacts DEF TallyPass
  <2>3. Tallied(b, A, f)
    BY <2>2 DEF Tallied
  <2> QED BY <2>1, <2>3
<1>4. ASSUME NEW m \in 0..(n - 1), m \in S PROVE m + 1 \in S
  <2>0. PICK r \in Run : r = s[m + 1]
    BY <1>1
  <2>1. PICK A, B : A = Upto(s, m) /\ B = Upto(s, m + 1) /\ r = s[m + 1]
    BY <2>0
  <2>2. B = A \cup {r} /\ r \notin A /\ IsFiniteSet(A) /\ A \in SUBSET Run
    <3>1. m \in 0..Len(s) /\ m \in 0..(Len(s) - 1)
      BY <1>1
    <3>2. ToSet(s) \in SUBSET Run
      BY <1>2, StoreFacts
    <3> QED BY <1>2, <2>1, <3>1, <3>2, UptoFacts
  <2>3. PICK b : b = run[m]
    OBVIOUS
  <2>4. b \in Seq(BucketOf(N)) /\ run[m + 1] = Tally(b, f[r], r.cost) /\ Tallied(b, A, f)
    BY <1>1, <1>4, <2>1, <2>3 DEF TallyPass
  <2>5. Tallied(Tally(b, f[r], r.cost), A \cup {r}, f)
    BY <1>2, <2>2, <2>4, TallyCounts
  <2>6. m + 1 \in 0..n
    OBVIOUS
  <2> QED BY <2>1, <2>2, <2>4, <2>5, <2>6
<1>5. n \in S
  <2>1. S \in SUBSET (0..n)
    OBVIOUS
  <2> HIDE DEF S
  <2> QED BY <1>3, <1>4, <2>1, Steps
<1>6. Upto(s, n) = ToSet(s)
  BY <1>1, <1>2, UptoFacts
<1> QED BY <1>1, <1>5, <1>6

DayOf == [r \in Run |-> Day(r.started_at)]
SourceOf == [r \in Run |-> r.source_id]

\* by day
LEMMA DaysTallied ==
  ASSUME NEW s \in Seq(Run), Distinct(s)
  PROVE  DayTallies(s) \in Seq(BucketOf(Int)) /\ Tallied(DayTallies(s), ToSet(s), DayOf)
<1>1. PICK run \in [0..Len(s) -> Seq(BucketOf(Int))] :
        /\ run[0] = <<>> /\ run[Len(s)] = DayTallies(s)
        /\ \A m \in 0..(Len(s) - 1) : run[m + 1] = DayTalliesStep(run[m], s[m + 1])
  BY DayTalliesRuns
<1>2. DayOf \in [Run -> Int] /\ \A r \in Run : DayOf[r] = Day(r.started_at)
  BY NamesTyped DEF DayOf
<1>3. Len(s) \in Nat /\ \A m \in 0..(Len(s) - 1) : s[m + 1] \in Run
  OBVIOUS
<1>4. TallyPass(Int, DayOf, s, run)
  BY <1>1, <1>2, <1>3 DEF TallyPass, DayTalliesStep
<1> QED BY <1>1, <1>3, <1>4, TallyPassed

\* and by source.
LEMMA SourcesTallied ==
  ASSUME NEW s \in Seq(Run), Distinct(s)
  PROVE  SourceTallies(s) \in Seq(BucketOf(SourceKeys)) /\ Tallied(SourceTallies(s), ToSet(s), SourceOf)
<1>1. PICK run \in [0..Len(s) -> Seq(BucketOf(SourceKeys))] :
        /\ run[0] = <<>> /\ run[Len(s)] = SourceTallies(s)
        /\ \A m \in 0..(Len(s) - 1) : run[m + 1] = SourceTalliesStep(run[m], s[m + 1])
  BY SourceTalliesRuns
<1>2. SourceOf \in [Run -> SourceKeys] /\ \A r \in Run : SourceOf[r] = r.source_id
  BY NamesTyped DEF SourceOf
<1>3. Len(s) \in Nat /\ \A m \in 0..(Len(s) - 1) : s[m + 1] \in Run
  OBVIOUS
<1>4. TallyPass(SourceKeys, SourceOf, s, run)
  BY <1>1, <1>2, <1>3 DEF TallyPass, SourceTalliesStep
<1> QED BY <1>1, <1>3, <1>4, TallyPassed

-----------------------------------------------------------------------------
DaysSorted(b) == StableSort(b, LAMBDA x, y : x.name < y.name)
DaysInOrder(days) == InOrder(days, <)

\* The days in order, each with its cents and its runs.
AgreeOnDays(b, A, days) ==
  /\ DOMAIN b = 1..Cardinality(days)
  /\ \A i \in DOMAIN b :
       LET d == DaysSorted(b)[i]
           n == DaysInOrder(days)[i]
       IN  /\ d.name = n
           /\ d.micros = SumOf({r \in A : Day(r.started_at) = n})
           /\ d.count = Cardinality({r \in A : Day(r.started_at) = n})

\* The buckets of the loop are those of GROUP BY day.
LEMMA DaysAgree ==
  ASSUME NEW A \in SUBSET Run, IsFiniteSet(A), NEW b \in Seq(BucketOf(Int)), Tallied(b, A, DayOf)
  PROVE  AgreeOnDays(b, A, {Day(r.started_at) : r \in A})
<1>0. PICK days : days = {Day(r.started_at) : r \in A}
  OBVIOUS
<1>1. DOMAIN b = 1..Len(b) /\ Len(b) \in Nat /\ \A i \in DOMAIN b : b[i].name \in Int
  <2>1. DOMAIN b = 1..Len(b) /\ Len(b) \in Nat /\ \A i \in DOMAIN b : b[i] \in BucketOf(Int)
    OBVIOUS
  <2> QED BY <2>1 DEF BucketOf
<1>2. \A r \in A : DayOf[r] = Day(r.started_at) /\ Day(r.started_at) \in Int
  BY NamesTyped DEF DayOf
<1>3. PICK names : names = [i \in DOMAIN b |-> b[i].name]
  OBVIOUS
<1>4. names \in Seq(Int) /\ DOMAIN names = DOMAIN b /\ Len(names) = Len(b) /\ \A i \in DOMAIN b : names[i] = b[i].name
  <2>1. names \in [1..Len(b) -> Int]
    BY <1>1, <1>3
  <2> QED BY <1>1, <1>3, <2>1
<1>5. Distinct(names)
  BY <1>4 DEF Distinct, Tallied
<1>6. ToSet(names) = days
  <2>1. \A i \in DOMAIN b : names[i] \in days
    BY <1>0, <1>2, <1>4 DEF Tallied
  <2>2. \A n \in days : \E i \in DOMAIN b : names[i] = n
    <3> SUFFICES ASSUME NEW r \in A PROVE \E i \in DOMAIN b : names[i] = Day(r.started_at)
      BY <1>0
    <3>1. PICK i \in DOMAIN b : b[i].name = DayOf[r]
      BY DEF Tallied
    <3> QED BY <1>2, <1>4, <3>1
  <2>3. ToSet(names) = {names[i] : i \in DOMAIN b}
    BY <1>4 DEF ToSet
  <2> QED BY <2>1, <2>2, <2>3
<1>7. PICK R : R = {p \in days \X days : p[1] < p[2]}
  OBVIOUS
<1>8. days \in SUBSET Int /\ \A x, y \in days : <<x, y>> \in R <=> x < y
  BY <1>0, <1>2, <1>7
<1>9. Orders(R, days)
  <2>1. \A x \in days : x \in Int
    BY <1>8
  <2>2. \A x \in days : <<x, x>> \notin R
    BY <1>8, <2>1
  <2>3. \A x, y \in days : x # y => <<x, y>> \in R \/ <<y, x>> \in R
    BY <1>8, <2>1
  <2>4. \A x, y, z \in days : <<x, y>> \in R /\ <<y, z>> \in R => <<x, z>> \in R
    BY <1>8, <2>1
  <2> QED BY <2>2, <2>3, <2>4 DEF Orders
<1>10. Sorted(names, R) = Arranged(days, R)
  BY <1>4, <1>5, <1>6, <1>9, SortedFacts
<1>11. PICK place : place = Arranged(DOMAIN names, Places(names, R))
  OBVIOUS
<1>12. place \in [1..Len(b) -> DOMAIN b]
  BY <1>4, <1>5, <1>6, <1>9, <1>11, PlacesOrder
<1>13. DaysSorted(b) = [i \in DOMAIN b |-> b[place[i]]]
  <2>1. \A i, j \in DOMAIN b : <<names[i], names[j]>> \in R <=> b[i].name < b[j].name
    <3>1. \A i \in DOMAIN b : names[i] \in days
      BY <1>4, <1>6 DEF ToSet
    <3> QED BY <1>4, <1>8, <3>1
  <2>2. Places(names, R) = {p \in (DOMAIN b) \X (DOMAIN b) : <<names[p[1]], names[p[2]]>> \in R \/ (<<names[p[2]], names[p[1]]>> \notin R /\ p[1] < p[2])}
    BY <1>4 DEF Places
  <2>3. Places(names, R) = {p \in (DOMAIN b) \X (DOMAIN b) : b[p[1]].name < b[p[2]].name \/ (~(b[p[2]].name < b[p[1]].name) /\ p[1] < p[2])}
    BY <2>1, <2>2
  <2>4. place = Arranged(DOMAIN b, Places(names, R))
    BY <1>4, <1>11
  <2> QED BY <2>3, <2>4 DEF StableSort, DaysSorted
<1>14. \A i \in DOMAIN b : b[place[i]].name = Arranged(days, R)[i]
  <2>1. \A i \in DOMAIN b : names[place[i]] = Arranged(days, R)[i]
    BY <1>4, <1>10, <1>11 DEF Sorted
  <2>2. \A i \in DOMAIN b : place[i] \in DOMAIN b
    BY <1>1, <1>12
  <2> QED BY <1>4, <2>1, <2>2
<1>15. Cardinality(days) = Len(b)
  BY <1>4, <1>5, <1>6, StoreFacts
<1>16. ASSUME NEW i \in DOMAIN b
       PROVE  LET d == DaysSorted(b)[i]
                  n == DaysInOrder(days)[i]
              IN  /\ d.name = n
                  /\ d.micros = SumOf({r \in A : Day(r.started_at) = n})
                  /\ d.count = Cardinality({r \in A : Day(r.started_at) = n})
  <2>1. PICK k \in DOMAIN b : k = place[i]
    BY <1>1, <1>12
  <2>2. DaysSorted(b)[i] = b[k]
    BY <1>13, <2>1
  <2>3. DaysInOrder(days)[i] = b[k].name
    <3>1. Arranged(days, R)[i] = b[k].name
      BY <1>14, <2>1
    <3> QED BY <1>7, <3>1 DEF InOrder, DaysInOrder
  <2>4. Named(A, DayOf, b[k].name) = {r \in A : Day(r.started_at) = b[k].name}
    BY <1>2 DEF Named
  <2>5. b[k].micros = SumOf(Named(A, DayOf, b[k].name)) /\ b[k].count = Cardinality(Named(A, DayOf, b[k].name))
    BY DEF Tallied
  <2> QED BY <2>2, <2>3, <2>4, <2>5
<1>17. AgreeOnDays(b, A, days)
  BY <1>1, <1>15, <1>16 DEF AgreeOnDays
<1> QED BY <1>0, <1>17

\* The members of a finite set in a row.
LEMMA RowOfAll ==
  ASSUME NEW S, IsFiniteSet(S)
  PROVE  LET f == SetToSeq(S)
         IN  /\ f \in Seq(S) /\ DOMAIN f = 1..Len(f) /\ Len(f) = Cardinality(S) /\ Len(f) \in Nat
             /\ Distinct(f) /\ \A x \in S : \E i \in DOMAIN f : f[i] = x
<1>1. PICK n \in Nat : n = Cardinality(S)
  BY FS_CardinalityType
<1>2. PICK f : f = SetToSeq(S)
  OBVIOUS
<1>3. f \in [1..n -> S] /\ IsInjective(f)
  <2>1. PICK g : g \in Bijection(1..n, S)
    <3>1. ExistsBijection(1..Cardinality(S), S)
      BY FS_CardinalityType
    <3> QED BY <1>1, <3>1 DEF ExistsBijection
  <2>2. g \in [1..n -> S] /\ IsInjective(g)
    BY <2>1 DEF Bijection, Injection
  <2> QED BY <1>1, <1>2, <2>2 DEF SetToSeq
<1>4. f \in Seq(S) /\ Len(f) = n /\ DOMAIN f = 1..n
  BY <1>3, OfPlaces
<1>5. f \in Surjection(1..n, S)
  <2>1. f \in Injection(1..n, S)
    BY <1>3 DEF Injection
  <2>2. Cardinality(1..n) = Cardinality(S)
    BY <1>1, UpTo
  <2> QED BY <2>1, <2>2, FS_Injection
<1>6. \A x \in S : \E i \in DOMAIN f : f[i] = x
  BY <1>4, <1>5 DEF Surjection
<1>7. Distinct(f)
  BY <1>3 DEF Distinct, IsInjective
<1> QED BY <1>1, <1>2, <1>4, <1>6, <1>7

\* Sources are told apart by their rank.
LEMMA RanksTellApart ==
  \A a, b \in SourceKeys : RankOf(a) \in Nat /\ (RankOf(a) = RankOf(b) => a = b)
<1>1. PICK f : f = SetToSeq(Owners)
  OBVIOUS
<1>2. f \in Seq(Owners) /\ DOMAIN f = 1..Len(f) /\ Len(f) \in Nat /\ \A x \in Owners : \E i \in DOMAIN f : f[i] = x
  BY <1>1, LogTablesAssumption, RowOfAll
<1>3. PICK s : s = <<NoSource>> \o f
  OBVIOUS
<1>4. DOMAIN s \in SUBSET Nat /\ \A a \in SourceKeys : \E i \in DOMAIN s : s[i] = a
  <2>1. PICK k \in Nat : k = Len(f) /\ DOMAIN f = 1..k
    BY <1>2
  <2>2. f \in Seq(SourceKeys) /\ <<NoSource>> \in Seq(SourceKeys)
    BY <1>2 DEF SourceKeys
  <2>3. s \in Seq(SourceKeys) /\ Len(s) = 1 + k /\ s[1] = NoSource /\ \A i \in 1..k : s[1 + i] = f[i]
    BY <1>3, <2>1, <2>2
  <2>4. DOMAIN s = 1..(1 + k)
    BY <2>3
  <2>5. ASSUME NEW a \in SourceKeys PROVE \E i \in DOMAIN s : s[i] = a
    <3>1. CASE a = NoSource
      <4>1. 1 \in DOMAIN s
        BY <2>4
      <4> QED BY <2>3, <3>1, <4>1
    <3>2. CASE a \in Owners
      <4>1. PICK i \in 1..k : f[i] = a
        BY <1>2, <2>1, <3>2
      <4>2. 1 + i \in DOMAIN s
        BY <2>4
      <4> QED BY <2>3, <4>1, <4>2
    <3> QED BY <3>1, <3>2 DEF SourceKeys
  <2> QED BY <2>4, <2>5
<1>5. \A a : RankOf(a) = CHOOSE i \in DOMAIN s : s[i] = a
  BY <1>1, <1>3 DEF RankOf, SourceNames
<1>6. \A a \in SourceKeys : RankOf(a) \in DOMAIN s /\ s[RankOf(a)] = a
  BY <1>4, <1>5
<1> QED BY <1>4, <1>6

\* Rounded to cents an amount is a number.
LEMMA CentsTyped ==
  \A k \in Nat : EurFromMicros(k) \in Int
<1>1. Cent \in Nat \ {0}
  BY LogTablesAssumption
<1>2. PICK c \in Nat \ {0} : c = 2 * Cent
  BY <1>1
<1>3. \A k \in Nat : 2 * k + Cent \in Nat
  BY <1>1
<1>4. \A j \in Nat : j \div c \in Int
  OBVIOUS
<1> QED BY <1>2, <1>3, <1>4 DEF EurFromMicros

\* What the summary says of a source.
PerSource(n, count, cost) == [rank |-> RankOf(n), count |-> count, cost |-> cost]
Lines == [rank: Nat, count: Nat, cost: Int]
Dearest(S) == {p \in S \X S : DearestFirst(p[1], p[2])}

\* By cost and then by rank leaves no two lines tied.
LEMMA DearestOrders ==
  ASSUME NEW S \in SUBSET Lines, \A a, b \in S : a.rank = b.rank => a = b
  PROVE  Orders(Dearest(S), S)
<1>1. \A a \in S : a.rank \in Nat /\ a.cost \in Int
  BY DEF Lines
<1>2. \A a, b \in S : <<a, b>> \in Dearest(S) <=> DearestFirst(a, b)
  BY DEF Dearest
<1>3. \A a \in S : ~DearestFirst(a, a)
  BY <1>1 DEF DearestFirst
<1>4. \A a, b \in S : a # b => DearestFirst(a, b) \/ DearestFirst(b, a)
  BY <1>1 DEF DearestFirst
<1>5. \A a, b, c \in S : DearestFirst(a, b) /\ DearestFirst(b, c) => DearestFirst(a, c)
  BY <1>1 DEF DearestFirst
<1> QED BY <1>2, <1>3, <1>4, <1>5 DEF Orders

\* The sources, the dearest first.
LEMMA SourcesAgree ==
  ASSUME NEW A \in SUBSET Run, IsFiniteSet(A), NEW b \in Seq(BucketOf(SourceKeys)), Tallied(b, A, SourceOf)
  PROVE  StableSort([i \in DOMAIN b |-> PerSource(b[i].name, b[i].count, EurFromMicros(b[i].micros))], DearestFirst)
           = InOrder({PerSource(n, Cardinality({r \in A : r.source_id = n}), EurFromMicros(SumOf({r \in A : r.source_id = n})))
                        : n \in {r.source_id : r \in A}}, DearestFirst)
<1>1. PICK k \in Nat : k = Len(b) /\ DOMAIN b = 1..k
  OBVIOUS
<1>2. \A i \in DOMAIN b : b[i].name \in SourceKeys /\ b[i].micros \in Nat /\ b[i].count \in Nat
  <2>1. \A i \in DOMAIN b : b[i] \in BucketOf(SourceKeys)
    OBVIOUS
  <2> QED BY <2>1 DEF BucketOf
<1>3. PICK q : q = [i \in DOMAIN b |-> PerSource(b[i].name, b[i].count, EurFromMicros(b[i].micros))]
  OBVIOUS
<1>4. DOMAIN q = DOMAIN b /\ \A i \in DOMAIN b : /\ q[i] = PerSource(b[i].name, b[i].count, EurFromMicros(b[i].micros))
                                                 /\ q[i].rank = RankOf(b[i].name) /\ q[i] \in Lines
  <2> SUFFICES ASSUME NEW i \in DOMAIN b
               PROVE  /\ q[i] = PerSource(b[i].name, b[i].count, EurFromMicros(b[i].micros))
                      /\ q[i].rank = RankOf(b[i].name) /\ q[i] \in Lines
    BY <1>3
  <2>1. q[i] = PerSource(b[i].name, b[i].count, EurFromMicros(b[i].micros))
    BY <1>3
  <2>2. RankOf(b[i].name) \in Nat /\ b[i].count \in Nat /\ EurFromMicros(b[i].micros) \in Int
    BY <1>2, RanksTellApart, CentsTyped
  <2> QED BY <2>1, <2>2 DEF PerSource, Lines
<1>5. q \in Seq(Lines)
  <2>1. q \in [1..k -> Lines]
    BY <1>1, <1>3, <1>4
  <2> QED BY <2>1, OfPlaces
<1>6. \A i, j \in DOMAIN b : q[i].rank = q[j].rank => i = j
  <2> SUFFICES ASSUME NEW i \in DOMAIN b, NEW j \in DOMAIN b, q[i].rank = q[j].rank PROVE i = j
    OBVIOUS
  <2>1. b[i].name = b[j].name
    BY <1>2, <1>4, RanksTellApart
  <2> QED BY <2>1 DEF Tallied
<1>7. PICK S : S = ToSet(q)
  OBVIOUS
<1>8. S \in SUBSET Lines /\ (\A i \in DOMAIN b : q[i] \in S) /\ \A x \in S : \E i \in DOMAIN b : q[i] = x
  BY <1>4, <1>7 DEF ToSet
<1>9. Distinct(q) /\ \A x, y \in S : x.rank = y.rank => x = y
  BY <1>4, <1>6, <1>8 DEF Distinct
<1>10. Orders(Dearest(S), S)
  BY <1>8, <1>9, DearestOrders
<1>11. Sorted(q, Dearest(S)) = Arranged(S, Dearest(S))
  BY <1>5, <1>7, <1>9, <1>10, SortedFacts
<1>12. StableSort(q, DearestFirst) = Sorted(q, Dearest(S))
  <2>1. \A i, j \in DOMAIN q : <<q[i], q[j]>> \in Dearest(S) <=> DearestFirst(q[i], q[j])
    BY <1>4, <1>8 DEF Dearest
  <2>2. {p \in (DOMAIN q) \X (DOMAIN q) : DearestFirst(q[p[1]], q[p[2]]) \/ (~DearestFirst(q[p[2]], q[p[1]]) /\ p[1] < p[2])}
          = Places(q, Dearest(S))
    BY <2>1 DEF Places
  <2> QED BY <2>2 DEF StableSort, Sorted
<1>13. InOrder(S, DearestFirst) = Arranged(S, Dearest(S))
  BY DEF InOrder, Dearest
<1>14. S = {PerSource(n, Cardinality({r \in A : r.source_id = n}), EurFromMicros(SumOf({r \in A : r.source_id = n})))
              : n \in {r.source_id : r \in A}}
  <2> DEFINE T == {PerSource(n, Cardinality({r \in A : r.source_id = n}), EurFromMicros(SumOf({r \in A : r.source_id = n})))
                     : n \in {r.source_id : r \in A}}
  <2>1. \A r \in A : SourceOf[r] = r.source_id
    BY DEF SourceOf
  <2>2. \A n : Named(A, SourceOf, n) = {r \in A : r.source_id = n}
    BY <2>1 DEF Named
  <2>3. \A i \in DOMAIN b : q[i] = PerSource(b[i].name, Cardinality({r \in A : r.source_id = b[i].name}),
                                             EurFromMicros(SumOf({r \in A : r.source_id = b[i].name})))
    <3> SUFFICES ASSUME NEW i \in DOMAIN b
                 PROVE  q[i] = PerSource(b[i].name, Cardinality({r \in A : r.source_id = b[i].name}),
                                         EurFromMicros(SumOf({r \in A : r.source_id = b[i].name})))
      OBVIOUS
    <3>1. b[i].micros = SumOf(Named(A, SourceOf, b[i].name)) /\ b[i].count = Cardinality(Named(A, SourceOf, b[i].name))
      BY DEF Tallied
    <3>2. Named(A, SourceOf, b[i].name) = {r \in A : r.source_id = b[i].name}
      BY <2>2
    <3>3. q[i] = PerSource(b[i].name, b[i].count, EurFromMicros(b[i].micros))
      BY <1>4
    <3> QED BY <3>1, <3>2, <3>3
  <2>4. \A i \in DOMAIN b : b[i].name \in {r.source_id : r \in A}
    BY <2>1 DEF Tallied
  <2>5. S \in SUBSET T
    <3> SUFFICES ASSUME NEW x \in S PROVE x \in T
      OBVIOUS
    <3>1. PICK i \in DOMAIN b : q[i] = x
      BY <1>8
    <3> QED BY <2>3, <2>4, <3>1
  <2>6. ASSUME NEW n \in {r.source_id : r \in A}
        PROVE  PerSource(n, Cardinality({r \in A : r.source_id = n}), EurFromMicros(SumOf({r \in A : r.source_id = n}))) \in S
    <3>1. PICK i \in DOMAIN b : b[i].name = n
      BY <2>1 DEF Tallied
    <3> QED BY <1>8, <2>3, <3>1
  <2> QED BY <2>5, <2>6
<1> QED BY <1>3, <1>11, <1>12, <1>13, <1>14

\* The cost summary is the same.
LEMMA SummariesAgree ==
  ASSUME Alike(Run), NEW w
  PROVE  PgCostSummary(w) = MemCostSummary(w)
<1>1. PICK e, A : e = Found(memRows, In(w)) /\ A = pgRows \cap In(w)
  OBVIOUS
<1>2. e \in Seq(Run) /\ Distinct(e) /\ ToSet(e) = A /\ A \in SUBSET Run /\ IsFiniteSet(A) /\ Len(e) = Cardinality(A)
  BY <1>1, FoundRows
<1>3. {r \in pgRows : InWindow(r, w)} = A /\ EntriesAt(memRows, {i \in DOMAIN memRows : InWindow(memRows[i], w)}) = e
  BY <1>1, WindowFound
<1>4. PICK d, s : d = DayTallies(e) /\ s = SourceTallies(e)
  OBVIOUS
<1>5. /\ d \in Seq(BucketOf(Int)) /\ Tallied(d, A, DayOf)
      /\ s \in Seq(BucketOf(SourceKeys)) /\ Tallied(s, A, SourceOf)
  BY <1>2, <1>4, DaysTallied, SourcesTallied
<1>6. TotalCost(e) = SumOf(A)
  BY <1>2, TotalIs
<1> DEFINE days == {Day(r.started_at) : r \in A}
           mine == DaysSorted(d)
           theirs == DaysInOrder(days)
           OfDay(n) == {r \in A : Day(r.started_at) = n}
           OfSource(n) == {r \in A : r.source_id = n}
           Line(n) == [rank |-> RankOf(n), count |-> Cardinality(OfSource(n)), cost |-> EurFromMicros(SumOf(OfSource(n)))]
           lines == [i \in DOMAIN s |-> [rank |-> RankOf(s[i].name), count |-> s[i].count, cost |-> EurFromMicros(s[i].micros)]]
<1>7. DOMAIN d = 1..Cardinality(days) /\ \A i \in DOMAIN d : /\ mine[i].name = theirs[i]
                                                             /\ mine[i].micros = SumOf(OfDay(theirs[i]))
                                                             /\ mine[i].count = Cardinality(OfDay(theirs[i]))
  <2>1. AgreeOnDays(d, A, days)
    BY <1>2, <1>5, DaysAgree
  <2> QED BY <2>1 DEF AgreeOnDays
<1>8. PgCostSummary(w) = [total |-> [cost |-> EurFromMicros(SumOf(A)), count |-> Cardinality(A)],
                          per_day |-> [i \in 1..Cardinality(days) |->
                                         <<theirs[i], [cost |-> EurFromMicros(SumOf(OfDay(theirs[i]))), count |-> Cardinality(OfDay(theirs[i]))]>>],
                          per_source |-> InOrder({Line(n) : n \in {r.source_id : r \in A}}, DearestFirst)]
  BY <1>3 DEF PgCostSummary, Select, DaysInOrder
<1>9. MemCostSummary(w) = [total |-> [cost |-> EurFromMicros(TotalCost(e)), count |-> Len(e)],
                           per_day |-> [i \in DOMAIN d |->
                                          <<mine[i].name, [cost |-> EurFromMicros(mine[i].micros), count |-> mine[i].count]>>],
                           per_source |-> StableSort(lines, DearestFirst)]
  BY <1>3, <1>4 DEF MemCostSummary, Scan, TotalCost, DayTallies, SourceTallies, DaysSorted
<1>10. StableSort(lines, DearestFirst) = InOrder({Line(n) : n \in {r.source_id : r \in A}}, DearestFirst)
  BY <1>2, <1>5, SourcesAgree DEF PerSource
<1> HIDE DEF days, mine, theirs, OfDay, Line, lines
<1>11. [i \in DOMAIN d |-> <<mine[i].name, [cost |-> EurFromMicros(mine[i].micros), count |-> mine[i].count]>>]
         = [i \in 1..Cardinality(days) |->
              <<theirs[i], [cost |-> EurFromMicros(SumOf(OfDay(theirs[i]))), count |-> Cardinality(OfDay(theirs[i]))]>>]
  BY <1>7
<1> QED BY <1>2, <1>6, <1>8, <1>9, <1>10, <1>11

\* In lockstep the ledger reads alike.
LEMMA LedgerFollows == LogsInv => LedgerAgrees
<1> SUFFICES ASSUME LogsInv, table = "crawl_runs" PROVE LedgerAgrees
  BY DEF LedgerAgrees
<1>1. Alike(Run)
  BY LogsAreAlike, LogTypes
<1>2. \A a, b \in pgRows : a.id = b.id => a = b
  BY LockFacts, LogTypes DEF LogsInv
<1>3. \A w : PgCostSummary(w) = MemCostSummary(w) /\ \A limit : PgRecentRuns(w, limit) = MemRecentRuns(w, limit)
  BY <1>1, <1>2, SummariesAgree, RecentRunsAgree
<1>4. \A since \in Instants : /\ PgSpentSince(since) = MemSpentSince(since)
                              /\ PgSpentSince(since) = MemCostSummary([since |-> since, until |-> NotCaptured]).total.cost
  BY <1>1, SpendingAgrees
<1> QED BY <1>3, <1>4 DEF LedgerAgrees

\* The run ledger reads alike from both adapters: pages, sums and totals.
THEOREM LedgersHold == LogTablesSpec => []LedgerAgrees
<1>1. LogTablesSpec => []LogsInv
  BY LogsInvariant
<1> QED BY <1>1, LedgerFollows, PTL

-----------------------------------------------------------------------------
(* The logs.                                                                *)

\* An order that puts the later of two before the earlier.
NewestFirst(R, S) == Orders(R, S) /\ \A a, b \in S : a.at > b.at => <<a, b>> \in R

\* At each place of two such orders, the same time.
LEMMA SameTimes ==
  ASSUME NEW S \in SUBSET LogRow, IsFiniteSet(S), NEW Q, NewestFirst(Q, S), NEW R, NewestFirst(R, S),
         NEW n \in 1..Cardinality(S)
  PROVE  /\ Arranged(S, Q)[n] \in S /\ Arranged(S, R)[n] \in S
         /\ ~(Arranged(S, Q)[n].at > Arranged(S, R)[n].at)
<1>1. PICK f, g : f = Arranged(S, Q) /\ g = Arranged(S, R)
  OBVIOUS
<1>2. InPlace(f, S, Q) /\ InPlace(g, S, R)
  BY <1>1, ArrangedInPlace DEF NewestFirst
<1>3. f[n] \in S /\ g[n] \in S /\ Cardinality(Before(S, Q, f[n])) = n - 1 /\ Cardinality(Before(S, R, g[n])) = n - 1
  BY <1>2 DEF InPlace
<1>4. PICK x \in S, y \in S : x = f[n] /\ y = g[n]
  BY <1>3
<1>5. \A a \in S : a.at \in Nat
  BY LogTablesAssumption DEF LogRow
<1>6. ASSUME x.at > y.at PROVE FALSE
  <2>1. PICK A, B : A = Before(S, Q, x) /\ B = Before(S, R, y)
    OBVIOUS
  <2>2. A \in SUBSET S /\ B \in SUBSET S /\ x \notin A
    BY <2>1 DEF Before, NewestFirst, Orders
  <2>3. \A a \in A : ~(x.at > a.at)
    <3>1. ASSUME NEW a \in A, x.at > a.at PROVE FALSE
      <4>1. <<a, x>> \in Q /\ a \in S
        BY <2>1 DEF Before
      <4>2. <<x, a>> \in Q /\ <<x, x>> \notin Q
        BY <3>1, <4>1 DEF NewestFirst, Orders
      <4> QED BY <4>1, <4>2 DEF NewestFirst, Orders
    <3> QED BY <3>1
  <2>4. \A a \in A \cup {x} : a \in S /\ a.at > y.at
    BY <1>5, <1>6, <2>2, <2>3
  <2>5. A \cup {x} \in SUBSET B
    BY <2>1, <2>4 DEF Before, NewestFirst
  <2>6. IsFiniteSet(A) /\ IsFiniteSet(B)
    BY <2>2, FS_Subset
  <2>7. Cardinality(A \cup {x}) = Cardinality(A) + 1 /\ Cardinality(A) \in Nat /\ Cardinality(B) \in Nat
    BY <2>2, <2>6, FS_AddElement, FS_CardinalityType
  <2>8. Cardinality(A \cup {x}) <= Cardinality(B)
    BY <2>5, <2>6, FS_Subset
  <2>9. Cardinality(A) = Cardinality(B)
    BY <1>3, <1>4, <2>1
  <2> QED BY <2>7, <2>8, <2>9
<1> QED BY <1>1, <1>3, <1>4, <1>6

\* The order of the query, and the one the sort gives equal times.
ById(S) == {p \in S \X S : NewerById(p[1], p[2])}
Placed(z, a, b) == \E i, j \in DOMAIN z : z[i] = a /\ z[j] = b /\ i < j
ByPlace(S, z) == {p \in S \X S : p[1].at > p[2].at \/ (p[1].at = p[2].at /\ Placed(z, p[1], p[2]))}

\* The two ways to order a log both put the newest first.
LEMMA LogOrders ==
  ASSUME NEW S \in SUBSET LogRow, \A a, b \in S : a.id = b.id => a = b
  PROVE  /\ NewestFirst(ById(S), S)
         /\ \A z \in Seq(LogRow) : Distinct(z) /\ ToSet(z) = S => NewestFirst(ByPlace(S, z), S)
<1>1. \A a \in S : a.id \in Nat /\ a.at \in Nat
  BY LogTablesAssumption DEF LogRow
<1>2. NewestFirst(ById(S), S)
  <2>1. \A a, b \in S : <<a, b>> \in ById(S) <=> NewerById(a, b)
    BY DEF ById
  <2>2. \A a \in S : ~NewerById(a, a)
    BY <1>1 DEF NewerById
  <2>3. \A a, b \in S : a # b => NewerById(a, b) \/ NewerById(b, a)
    BY <1>1 DEF NewerById
  <2>4. \A a, b, c \in S : NewerById(a, b) /\ NewerById(b, c) => NewerById(a, c)
    BY <1>1 DEF NewerById
  <2>5. \A a, b \in S : a.at > b.at => NewerById(a, b)
    BY DEF NewerById
  <2> QED BY <2>1, <2>2, <2>3, <2>4, <2>5 DEF NewestFirst, Orders
<1>3. ASSUME NEW z \in Seq(LogRow), Distinct(z), ToSet(z) = S PROVE NewestFirst(ByPlace(S, z), S)
  <2>1. PICK n \in Nat : DOMAIN z = 1..n
    OBVIOUS
  <2>2. PICK at \in [S -> 1..n] : \A a \in S : z[at[a]] = a
    <3>1. \A a \in S : \E i \in 1..n : z[i] = a
      BY <1>3, <2>1 DEF ToSet
    <3>2. PICK at : at = [a \in S |-> CHOOSE i \in 1..n : z[i] = a]
      OBVIOUS
    <3>3. \A a \in S : at[a] \in 1..n /\ z[at[a]] = a
      BY <3>1, <3>2
    <3> QED BY <3>2, <3>3
  <2>3. \A a, b \in S : at[a] = at[b] => a = b
    BY <2>2
  <2>4. \A a, b \in S : <<a, b>> \in ByPlace(S, z) <=> a.at > b.at \/ (a.at = b.at /\ at[a] < at[b])
    <3> SUFFICES ASSUME NEW a \in S, NEW b \in S
                 PROVE  <<a, b>> \in ByPlace(S, z) <=> a.at > b.at \/ (a.at = b.at /\ at[a] < at[b])
      OBVIOUS
    <3>0. <<a, b>> \in ByPlace(S, z) <=> a.at > b.at \/ (a.at = b.at /\ Placed(z, a, b))
      BY DEF ByPlace
    <3>1. \A i \in DOMAIN z : (z[i] = a => i = at[a]) /\ (z[i] = b => i = at[b])
      BY <1>3, <2>1, <2>2 DEF Distinct
    <3>2. at[a] \in DOMAIN z /\ at[b] \in DOMAIN z /\ z[at[a]] = a /\ z[at[b]] = b
      BY <2>1, <2>2
    <3>3. Placed(z, a, b) <=> at[a] < at[b]
      BY <3>1, <3>2 DEF Placed
    <3> QED BY <3>0, <3>3
  <2>5. \A a \in S : at[a] \in Nat
    BY <2>2
  <2>6. \A a \in S : <<a, a>> \notin ByPlace(S, z)
    BY <1>1, <2>4, <2>5
  <2>7. \A a, b \in S : a # b => <<a, b>> \in ByPlace(S, z) \/ <<b, a>> \in ByPlace(S, z)
    BY <1>1, <2>3, <2>4, <2>5
  <2>8. ASSUME NEW a \in S, NEW b \in S, NEW c \in S, <<a, b>> \in ByPlace(S, z), <<b, c>> \in ByPlace(S, z)
        PROVE  <<a, c>> \in ByPlace(S, z)
    <3>1. a.at > b.at \/ (a.at = b.at /\ at[a] < at[b])
      BY <2>4, <2>8
    <3>2. b.at > c.at \/ (b.at = c.at /\ at[b] < at[c])
      BY <2>4, <2>8
    <3>3. a.at \in Nat /\ b.at \in Nat /\ c.at \in Nat /\ at[a] \in Nat /\ at[b] \in Nat /\ at[c] \in Nat
      BY <1>1, <2>5
    <3>4. a.at > c.at \/ (a.at = c.at /\ at[a] < at[c])
      BY <3>1, <3>2, <3>3
    <3> QED BY <2>4, <3>4
  <2> QED BY <2>4, <2>6, <2>7, <2>8 DEF NewestFirst, Orders
<1> QED BY <1>2, <1>3

\* The newest first, as the array keeps them: the latest pushed of a time first.
Upended(s) == [i \in 1..Len(s) |-> s[(Len(s) - i) + 1]]

\* Turned round, an array keeps its rows.
LEMMA UpendedFacts ==
  ASSUME NEW X, NEW s \in Seq(X), Distinct(s)
  PROVE  /\ Upended(s) \in Seq(X) /\ Distinct(Upended(s)) /\ ToSet(Upended(s)) = ToSet(s)
         /\ Upended(s) = Reverse(s)
<1>1. PICK n \in Nat : n = Len(s) /\ DOMAIN s = 1..n /\ \A i \in 1..n : s[i] \in X
  OBVIOUS
<1>2. PICK z : z = Upended(s)
  OBVIOUS
<1>3. z = [i \in 1..n |-> s[(n - i) + 1]]
  BY <1>1, <1>2 DEF Upended
<1>4. \A i \in 1..n : (n - i) + 1 \in 1..n /\ (n - ((n - i) + 1)) + 1 = i
  OBVIOUS
<1>5. z \in [1..n -> X]
  BY <1>1, <1>3, <1>4
<1>6. z \in Seq(X) /\ DOMAIN z = 1..n
  BY <1>5, OfPlaces
<1>7. \A i \in 1..n : z[i] = s[(n - i) + 1]
  BY <1>3
<1>8. ASSUME NEW i \in 1..n, NEW j \in 1..n, z[i] = z[j] PROVE i = j
  <2>1. PICK k \in 1..n, l \in 1..n : k = (n - i) + 1 /\ l = (n - j) + 1
    BY <1>4
  <2>2. s[k] = s[l]
    BY <1>7, <1>8, <2>1
  <2>3. k = l
    BY <1>1, <2>2 DEF Distinct
  <2> QED BY <2>1, <2>3
<1>9. Distinct(z)
  BY <1>6, <1>8 DEF Distinct
<1>10. ASSUME NEW x \in ToSet(s) PROVE x \in ToSet(z)
  <2>1. PICK k \in 1..n : s[k] = x
    BY <1>1 DEF ToSet
  <2>2. PICK i \in 1..n : i = (n - k) + 1
    BY <1>4
  <2>3. (n - i) + 1 = k
    BY <2>2
  <2>4. z[i] = x
    BY <1>7, <2>1, <2>3
  <2> QED BY <1>6, <2>4 DEF ToSet
<1>11. ASSUME NEW x \in ToSet(z) PROVE x \in ToSet(s)
  <2>1. PICK i \in 1..n : z[i] = x
    BY <1>6 DEF ToSet
  <2>2. PICK k \in 1..n : k = (n - i) + 1
    BY <1>4
  <2>3. s[k] = x
    BY <1>7, <2>1, <2>2
  <2> QED BY <1>1, <2>3 DEF ToSet
<1>12. z = Reverse(s)
  BY <1>2 DEF Upended, Reverse
<1> QED BY <1>2, <1>6, <1>9, <1>10, <1>11, <1>12

\* The sort is the arrangement by place.
LEMMA NewestIs ==
  ASSUME NEW e \in Seq(LogRow), Distinct(e), NEW S, S = ToSet(e), \A a, b \in S : a.id = b.id => a = b
  PROVE  MemNewest(e) = Arranged(S, ByPlace(S, Upended(e))) /\ NewestFirst(ByPlace(S, Upended(e)), S)
<1>1. PICK z : z = Upended(e)
  OBVIOUS
<1>2. z \in Seq(LogRow) /\ Distinct(z) /\ ToSet(z) = S /\ z = Reverse(e)
  BY <1>1, UpendedFacts
<1>3. S \in SUBSET LogRow
  BY StoreFacts
<1>4. PICK R : R = ByPlace(S, z)
  OBVIOUS
<1>5. NewestFirst(R, S) /\ Orders(R, S)
  BY <1>2, <1>3, <1>4, LogOrders DEF NewestFirst
<1>6. Sorted(z, R) = Arranged(S, R)
  BY <1>2, <1>5, SortedFacts
<1>7. StableSort(z, LAMBDA a, b : a.at > b.at) = Sorted(z, R)
  <2>1. DOMAIN z \in SUBSET Int /\ \A i \in DOMAIN z : z[i] \in S /\ z[i].at \in Nat
    <3>1. \A i \in DOMAIN z : z[i] \in S
      BY <1>2 DEF ToSet
    <3>2. DOMAIN z = 1..Len(z) /\ Len(z) \in Nat
      BY <1>2
    <3>3. \A a \in S : a.at \in Nat
      BY <1>3, LogTablesAssumption DEF LogRow
    <3>4. DOMAIN z \in SUBSET Int
      BY <3>2
    <3> QED BY <3>1, <3>3, <3>4
  <2>2. \A i, j \in DOMAIN z : <<z[i], z[j]>> \in R <=> z[i].at > z[j].at \/ (z[i].at = z[j].at /\ i < j)
    <3> SUFFICES ASSUME NEW i \in DOMAIN z, NEW j \in DOMAIN z
                 PROVE  <<z[i], z[j]>> \in R <=> z[i].at > z[j].at \/ (z[i].at = z[j].at /\ i < j)
      OBVIOUS
    <3>1. <<z[i], z[j]>> \in R <=> z[i].at > z[j].at \/ (z[i].at = z[j].at /\ Placed(z, z[i], z[j]))
      BY <1>4, <2>1 DEF ByPlace
    <3>2. \A k \in DOMAIN z : (z[k] = z[i] => k = i) /\ (z[k] = z[j] => k = j)
      BY <1>2 DEF Distinct
    <3>3. Placed(z, z[i], z[j]) <=> i < j
      BY <3>2 DEF Placed
    <3> QED BY <3>1, <3>3
  <2>3. \A i, j \in DOMAIN z : (<<z[i], z[j]>> \in R \/ (<<z[j], z[i]>> \notin R /\ i < j))
                                <=> (z[i].at > z[j].at \/ (~(z[j].at > z[i].at) /\ i < j))
    <3> SUFFICES ASSUME NEW i \in DOMAIN z, NEW j \in DOMAIN z
                 PROVE  (<<z[i], z[j]>> \in R \/ (<<z[j], z[i]>> \notin R /\ i < j))
                          <=> (z[i].at > z[j].at \/ (~(z[j].at > z[i].at) /\ i < j))
      OBVIOUS
    <3>1. /\ <<z[i], z[j]>> \in R <=> z[i].at > z[j].at \/ (z[i].at = z[j].at /\ i < j)
          /\ <<z[j], z[i]>> \in R <=> z[j].at > z[i].at \/ (z[j].at = z[i].at /\ j < i)
      BY <2>2
    <3> QED BY <2>1, <3>1
  <2>4. Places(z, R) = {p \in (DOMAIN z) \X (DOMAIN z) : z[p[1]].at > z[p[2]].at \/ (~(z[p[2]].at > z[p[1]].at) /\ p[1] < p[2])}
    BY <2>3 DEF Places
  <2> QED BY <2>4 DEF StableSort, Sorted
<1> QED BY <1>1, <1>2, <1>4, <1>5, <1>6, <1>7 DEF MemNewest

\* Pages of a log from both.
LEMMA PagesOfLog ==
  ASSUME NEW e \in Seq(LogRow), Distinct(e), NEW S, S = ToSet(e), \A a, b \in S : a.id = b.id => a = b,
         NEW limit \in Nat, NEW rows, S \in SUBSET rows
  PROVE  SameLog(Ordered(S, NewerById, 0, limit), Slice(MemNewest(e), 0, limit), rows)
<1>1. S \in SUBSET LogRow /\ IsFiniteSet(S)
  BY StoreFacts
<1>2. PICK Q, R : Q = ById(S) /\ R = ByPlace(S, Upended(e))
  OBVIOUS
<1>3. NewestFirst(Q, S) /\ NewestFirst(R, S) /\ Orders(Q, S) /\ Orders(R, S)
  BY <1>1, <1>2, LogOrders, NewestIs DEF NewestFirst
<1>4. PICK f, g : f = Arranged(S, Q) /\ g = Arranged(S, R)
  OBVIOUS
<1>5. InOrder(S, NewerById) = f /\ MemNewest(e) = g
  BY <1>2, <1>4, NewestIs DEF InOrder, ById
<1>6. PICK n \in Nat : n = Cardinality(S)
  BY <1>1, FS_CardinalityType
<1>7. f \in Seq(S) /\ Len(f) = n /\ g \in Seq(S) /\ Len(g) = n
  <2>1. InPlace(f, S, Q) /\ InPlace(g, S, R)
    BY <1>1, <1>3, <1>4, ArrangedInPlace
  <2>2. f \in [1..n -> S] /\ g \in [1..n -> S]
    BY <1>6, <2>1 DEF InPlace
  <2> QED BY <2>2, OfPlaces
<1>8. ASSUME NEW i \in 1..n PROVE f[i] \in S /\ g[i] \in S /\ f[i].at = g[i].at
  <2>1. /\ f[i] \in S /\ g[i] \in S
        /\ ~(f[i].at > g[i].at) /\ ~(g[i].at > f[i].at)
    BY <1>1, <1>3, <1>4, <1>6, SameTimes
  <2>2. f[i].at \in Nat /\ g[i].at \in Nat
    BY <1>1, <2>1, LogTablesAssumption DEF LogRow
  <2> QED BY <2>1, <2>2
<1>9. PICK m \in 0..n : m = AtMost(limit, n)
  BY DEF AtMost
<1>10. PICK p, q : p = SubSeq(f, 1, m) /\ q = SubSeq(g, 1, m)
  OBVIOUS
<1>11. /\ p \in Seq(S) /\ DOMAIN p = 1..m /\ \A i \in 1..m : p[i] = f[i]
       /\ q \in Seq(S) /\ DOMAIN q = 1..m /\ \A i \in 1..m : q[i] = g[i]
       /\ Len(p) = m /\ Len(q) = m
  BY <1>7, <1>10, HeadFacts
<1>12. Ordered(S, NewerById, 0, limit) = p /\ Slice(MemNewest(e), 0, limit) = q
  <2>1. 0 + 1 = 1 /\ 0 + limit = limit
    OBVIOUS
  <2> QED BY <1>5, <1>7, <1>9, <1>10, <2>1 DEF Ordered, Slice
<1>13. \A i \in 1..m : i \in 1..n /\ p[i] \in S /\ q[i] \in S /\ p[i].at = q[i].at
  BY <1>8, <1>11
<1>14. TimesOf(p) = TimesOf(q)
  BY <1>11, <1>13 DEF TimesOf
<1>15. ASSUME ~TiesAmong(rows) PROVE p = q
  <2>1. \A i \in 1..m : p[i] = q[i]
    BY <1>13, <1>15 DEF TiesAmong
  <2>2. p = [i \in 1..m |-> p[i]] /\ q = [i \in 1..m |-> q[i]]
    BY <1>11
  <2> QED BY <2>1, <2>2
<1> QED BY <1>12, <1>14, <1>15 DEF SameLog

\* Counters by approver.
ApproverTallies == UNION {[D -> Nat] : D \in SUBSET Actors}

\* Before the first review nobody has one,
LEMMA NoApprovers ==
  [a \in {} |-> 0] \in ApproverTallies
<1>1. [a \in {} |-> 0] \in [{} -> Nat] /\ {} \in SUBSET Actors
  OBVIOUS
<1> QED BY <1>1 DEF ApproverTallies

\* and one more review leaves counters.
LEMMA ApproverTyped ==
  ASSUME NEW n \in ApproverTallies, NEW r \in LogRow
  PROVE  [a \in DOMAIN n \cup {r.approver} |-> IF a # r.approver THEN n[a] ELSE IF a \in DOMAIN n THEN n[a] + 1 ELSE 1] \in ApproverTallies
<1>1. PICK D \in SUBSET Actors : n \in [D -> Nat]
  BY DEF ApproverTallies
<1>2. PICK E \in SUBSET Actors : E = D \cup {r.approver} /\ r.approver \in E
  BY DEF LogRow
<1>3. DOMAIN n = D /\ \A a \in D : n[a] \in Nat /\ n[a] + 1 \in Nat
  BY <1>1
<1>4. [a \in DOMAIN n \cup {r.approver} |-> IF a # r.approver THEN n[a] ELSE IF a \in DOMAIN n THEN n[a] + 1 ELSE 1] \in [E -> Nat]
  BY <1>2, <1>3
<1> QED BY <1>4 DEF ApproverTallies

\* One pass over the reviews.
ApproverCountsStep(v, r) == [a \in DOMAIN v \cup {r.approver} |-> IF a # r.approver THEN v[a] ELSE IF a \in DOMAIN v THEN v[a] + 1 ELSE 1]
ApproverCounts(s) == FoldLeft(LAMBDA v, r : [a \in DOMAIN v \cup {r.approver} |-> IF a # r.approver THEN v[a] ELSE IF a \in DOMAIN v THEN v[a] + 1 ELSE 1], [a \in {} |-> 0], s)
ApproverCountsTable(c, s) ==
  c = [t \in SUBSET (DOMAIN s) |-> IF t = {} THEN [a \in {} |-> 0] ELSE ApproverCountsStep(c[t \ {Max(t)}], s[Max(t)])]

\* The loop over the reviews is a fold, the choice of its table,
LEMMA ApproverCountsForm ==
  ASSUME NEW s
  PROVE  ApproverCounts(s) = LET c == CHOOSE c : ApproverCountsTable(c, s) IN c[DOMAIN s]
BY DEF ApproverCounts, ApproverCountsTable, ApproverCountsStep, FoldLeft, MapThenFoldSet

\* and can be followed row by row.
LEMMA ApproverCountsRuns ==
  ASSUME NEW s \in Seq(LogRow)
  PROVE  \E run \in [0..Len(s) -> ApproverTallies] :
           /\ run[0] = [a \in {} |-> 0] /\ run[Len(s)] = ApproverCounts(s)
           /\ \A m \in 0..(Len(s) - 1) : run[m + 1] = ApproverCountsStep(run[m], s[m + 1])
<1> DEFINE D == DOMAIN s
           g == [p \in (ApproverTallies) \X LogRow |-> ApproverCountsStep(p[1], p[2])]
           c == CHOOSE c : ApproverCountsTable(c, s)
<1>1. Folding(LogRow, s, ApproverTallies, [a \in {} |-> 0], g) /\ \A v \in ApproverTallies, r \in LogRow : g[<<v, r>>] = ApproverCountsStep(v, r)
  <2>1. [a \in {} |-> 0] \in ApproverTallies /\ \A v \in ApproverTallies, r \in LogRow : ApproverCountsStep(v, r) \in ApproverTallies
    BY NoApprovers, ApproverTyped DEF ApproverCountsStep
  <2>2. g \in [(ApproverTallies) \X LogRow -> ApproverTallies] /\ \A v \in ApproverTallies, r \in LogRow : g[<<v, r>>] = ApproverCountsStep(v, r)
    BY <2>1
  <2> HIDE DEF g
  <2> QED BY <2>1, <2>2 DEF Folding
<1> HIDE DEF g
<1>2. PICK h : FoldOf(h, ApproverTallies, [a \in {} |-> 0], g, s)
  BY <1>1, FoldExists
<1>3. \A t \in SUBSET D : t # {} => s[Max(t)] \in LogRow /\ t \ {Max(t)} \in SUBSET D
  BY <1>1, FoldExists
<1>4. ApproverCountsTable(h, s)
  <2>1. h \in [SUBSET D -> ApproverTallies] /\ \A t \in SUBSET D : h[t] = IF t = {} THEN [a \in {} |-> 0] ELSE g[<<h[t \ {Max(t)}], s[Max(t)]>>]
    BY <1>2 DEF FoldOf
  <2> HIDE DEF D
  <2>2. \A t \in SUBSET D : h[t] = IF t = {} THEN [a \in {} |-> 0] ELSE ApproverCountsStep(h[t \ {Max(t)}], s[Max(t)])
    BY <1>1, <1>3, <2>1
  <2> QED BY <2>1, <2>2 DEF ApproverCountsTable, D
<1>5. ApproverCountsTable(c, s)
  BY <1>4
<1>6. ApproverCounts(s) = c[D]
  BY ApproverCountsForm
<1> HIDE DEF c
<1>7. FoldsTo(c, ApproverTallies, [a \in {} |-> 0], g, s)
  <2>1. \A t \in SUBSET D : c[t] = IF t = {} THEN [a \in {} |-> 0] ELSE ApproverCountsStep(c[t \ {Max(t)}], s[Max(t)])
    BY <1>5 DEF ApproverCountsTable
  <2> HIDE DEF D
  <2> QED BY <1>1, <1>3, <2>1 DEF FoldsTo, D
<1>8. PICK run : RunOf(run, ApproverTallies, [a \in {} |-> 0], g, s) /\ run[Len(s)] = c[D]
  BY <1>1, <1>7, FoldRuns
<1>9. \A m \in 0..(Len(s) - 1) : run[m] \in ApproverTallies /\ s[m + 1] \in LogRow
  <2>1. Len(s) \in Nat /\ \A m \in 0..(Len(s) - 1) : s[m + 1] \in LogRow
    OBVIOUS
  <2>2. \A m \in 0..(Len(s) - 1) : m \in 0..Len(s)
    BY <2>1
  <2> QED BY <1>8, <2>1, <2>2 DEF RunOf
<1> HIDE DEF D
<1> QED BY <1>1, <1>6, <1>8, <1>9 DEF RunOf

\* One pass over the tokens.
LiveCountStep(column, value, v, r) == IF r[column] = value /\ r.revoked_at = NotRevoked THEN v + 1 ELSE v
LiveCount(s, column, value) == FoldLeft(LAMBDA v, r : IF r[column] = value /\ r.revoked_at = NotRevoked THEN v + 1 ELSE v, 0, s)
LiveCountTable(c, s, column, value) ==
  c = [t \in SUBSET (DOMAIN s) |-> IF t = {} THEN 0 ELSE LiveCountStep(column, value, c[t \ {Max(t)}], s[Max(t)])]

\* The loop over the tokens is a fold, the choice of its table,
LEMMA LiveCountForm ==
  ASSUME NEW s, NEW column, NEW value
  PROVE  LiveCount(s, column, value) = LET c == CHOOSE c : LiveCountTable(c, s, column, value) IN c[DOMAIN s]
BY DEF LiveCount, LiveCountTable, LiveCountStep, FoldLeft, MapThenFoldSet

\* What it has counted after each row.
Counting(run, s, column, value) ==
  /\ run \in [0..Len(s) -> Nat] /\ run[0] = 0 /\ run[Len(s)] = LiveCount(s, column, value)
  /\ \A m \in 0..(Len(s) - 1) : run[m + 1] = LiveCountStep(column, value, run[m], s[m + 1])

\* It can be followed row by row.
LEMMA LiveCountRuns ==
  ASSUME NEW s \in Seq(TokenRow), NEW column, NEW value
  PROVE  \E run : Counting(run, s, column, value)
<1> DEFINE D == DOMAIN s
           g == [p \in (Nat) \X TokenRow |-> LiveCountStep(column, value, p[1], p[2])]
           c == CHOOSE c : LiveCountTable(c, s, column, value)
<1>1. Folding(TokenRow, s, Nat, 0, g) /\ \A v \in Nat, r \in TokenRow : g[<<v, r>>] = LiveCountStep(column, value, v, r)
  <2>1. 0 \in Nat /\ \A v \in Nat, r \in TokenRow : LiveCountStep(column, value, v, r) \in Nat
    BY DEF LiveCountStep
  <2>2. g \in [(Nat) \X TokenRow -> Nat] /\ \A v \in Nat, r \in TokenRow : g[<<v, r>>] = LiveCountStep(column, value, v, r)
    BY <2>1
  <2> HIDE DEF g
  <2> QED BY <2>1, <2>2 DEF Folding
<1> HIDE DEF g
<1>2. PICK h : FoldOf(h, Nat, 0, g, s)
  BY <1>1, FoldExists
<1>3. \A t \in SUBSET D : t # {} => s[Max(t)] \in TokenRow /\ t \ {Max(t)} \in SUBSET D
  BY <1>1, FoldExists
<1>4. LiveCountTable(h, s, column, value)
  <2>1. h \in [SUBSET D -> Nat] /\ \A t \in SUBSET D : h[t] = IF t = {} THEN 0 ELSE g[<<h[t \ {Max(t)}], s[Max(t)]>>]
    BY <1>2 DEF FoldOf
  <2> HIDE DEF D
  <2>2. \A t \in SUBSET D : h[t] = IF t = {} THEN 0 ELSE LiveCountStep(column, value, h[t \ {Max(t)}], s[Max(t)])
    BY <1>1, <1>3, <2>1
  <2> QED BY <2>1, <2>2 DEF LiveCountTable, D
<1>5. LiveCountTable(c, s, column, value)
  BY <1>4
<1>6. LiveCount(s, column, value) = c[D]
  BY LiveCountForm
<1> HIDE DEF c
<1>7. FoldsTo(c, Nat, 0, g, s)
  <2>1. \A t \in SUBSET D : c[t] = IF t = {} THEN 0 ELSE LiveCountStep(column, value, c[t \ {Max(t)}], s[Max(t)])
    BY <1>5 DEF LiveCountTable
  <2> HIDE DEF D
  <2> QED BY <1>1, <1>3, <2>1 DEF FoldsTo, D
<1>8. PICK run : RunOf(run, Nat, 0, g, s) /\ run[Len(s)] = c[D]
  BY <1>1, <1>7, FoldRuns
<1>9. \A m \in 0..(Len(s) - 1) : run[m] \in Nat /\ s[m + 1] \in TokenRow
  <2>1. Len(s) \in Nat /\ \A m \in 0..(Len(s) - 1) : s[m + 1] \in TokenRow
    OBVIOUS
  <2>2. \A m \in 0..(Len(s) - 1) : m \in 0..Len(s)
    BY <2>1
  <2> QED BY <1>8, <2>1, <2>2 DEF RunOf
<1> HIDE DEF D
<1>10. \A m \in 0..(Len(s) - 1) : run[m + 1] = LiveCountStep(column, value, run[m], s[m + 1])
  <2>1. \A m \in 0..(Len(s) - 1) : run[m + 1] = g[<<run[m], s[m + 1]>>]
    BY <1>8 DEF RunOf
  <2> QED BY <1>1, <1>9, <2>1
<1>11. run \in [0..Len(s) -> Nat] /\ run[0] = 0 /\ run[Len(s)] = LiveCount(s, column, value)
  BY <1>6, <1>8 DEF RunOf
<1>12. Counting(run, s, column, value)
  BY <1>10, <1>11 DEF Counting
<1> QED BY <1>12

\* The reviews of each approver.
ByApprover(U) == [a \in {r.approver : r \in U} |-> Cardinality({r \in U : r.approver = a})]

\* One more review counts for its approver.
LEMMA ApproverGrows ==
  ASSUME NEW U \in SUBSET LogRow, IsFiniteSet(U), NEW x \in LogRow, x \notin U
  PROVE  ByApprover(U \cup {x}) = ApproverCountsStep(ByApprover(U), x)
<1>1. PICK W : W = U \cup {x}
  OBVIOUS
<1>2. PICK n : n = ByApprover(U)
  OBVIOUS
<1>3. DOMAIN n = {r.approver : r \in U} /\ \A a \in DOMAIN n : n[a] = Cardinality({r \in U : r.approver = a})
  BY <1>2 DEF ByApprover
<1>4. {r.approver : r \in W} = DOMAIN n \cup {x.approver}
  BY <1>1, <1>3
<1>5. ASSUME NEW a \in DOMAIN n \cup {x.approver}
      PROVE  Cardinality({r \in W : r.approver = a})
               = IF a # x.approver THEN n[a] ELSE IF a \in DOMAIN n THEN n[a] + 1 ELSE 1
  <2>1. PICK C : C = {r \in U : r.approver = a}
    OBVIOUS
  <2>2. IsFiniteSet(C) /\ x \notin C
    BY <2>1, FS_Subset
  <2>3. CASE a # x.approver
    <3>1. {r \in W : r.approver = a} = C /\ a \in DOMAIN n
      BY <1>1, <2>1, <2>3
    <3> QED BY <1>3, <2>1, <2>3, <3>1
  <2>4. CASE a = x.approver
    <3>1. {r \in W : r.approver = a} = C \cup {x}
      BY <1>1, <2>1, <2>4
    <3>2. Cardinality(C \cup {x}) = Cardinality(C) + 1 /\ Cardinality(C) \in Nat
      BY <2>2, FS_AddElement, FS_CardinalityType
    <3>3. CASE a \in DOMAIN n
      <4>1. n[a] = Cardinality(C)
        BY <1>3, <2>1, <3>3
      <4>2. Cardinality({r \in W : r.approver = a}) = n[a] + 1
        BY <3>1, <3>2, <4>1
      <4> QED BY <2>4, <3>3, <4>2
    <3>4. CASE a \notin DOMAIN n
      <4>1. C = {}
        BY <1>3, <2>1, <3>4
      <4>2. Cardinality(C) = 0
        BY <4>1, FS_EmptySet
      <4>3. Cardinality(C \cup {x}) = 0 + 1
        BY <3>2, <4>2
      <4>4. Cardinality({r \in W : r.approver = a}) = 1
        BY <3>1, <4>3
      <4> QED BY <2>4, <3>4, <4>4
    <3> QED BY <3>3, <3>4
  <2> QED BY <2>3, <2>4
<1>6. ByApprover(W) = [a \in DOMAIN n \cup {x.approver} |-> Cardinality({r \in W : r.approver = a})]
  BY <1>4 DEF ByApprover
<1>7. ApproverCountsStep(n, x) = [a \in DOMAIN n \cup {x.approver} |-> IF a # x.approver THEN n[a] ELSE IF a \in DOMAIN n THEN n[a] + 1 ELSE 1]
  BY DEF ApproverCountsStep
<1>8. ByApprover(W) = ApproverCountsStep(n, x)
  BY <1>5, <1>6, <1>7
<1> QED BY <1>1, <1>2, <1>8

\* After the pass the counters are those of all reviews.
LEMMA ApproversCounted ==
  ASSUME NEW s \in Seq(LogRow), Distinct(s)
  PROVE  ApproverCounts(s) = ByApprover(ToSet(s))
<1>1. PICK n \in Nat : n = Len(s) /\ \A i \in 1..n : s[i] \in LogRow
  OBVIOUS
<1>2. PICK run :
        /\ run[0] = [a \in {} |-> 0] /\ run[n] = ApproverCounts(s)
        /\ \A m \in 0..(n - 1) : run[m + 1] = ApproverCountsStep(run[m], s[m + 1])
  <2>1. PICK run \in [0..Len(s) -> ApproverTallies] :
           /\ run[0] = [a \in {} |-> 0] /\ run[Len(s)] = ApproverCounts(s)
           /\ \A m \in 0..(Len(s) - 1) : run[m + 1] = ApproverCountsStep(run[m], s[m + 1])
    BY ApproverCountsRuns
  <2> QED BY <1>1, <2>1
<1> DEFINE S == {m \in 0..n : run[m] = ByApprover(Upto(s, m))}
<1>3. 0 \in S
  <2>1. Upto(s, 0) = {}
    BY UptoFacts
  <2>2. ByApprover({}) = [a \in {} |-> 0]
    BY DEF ByApprover
  <2>3. ByApprover(Upto(s, 0)) = ByApprover({})
    BY <2>1
  <2> QED BY <1>2, <2>2, <2>3
<1>4. ASSUME NEW m \in 0..(n - 1), m \in S PROVE m + 1 \in S
  <2>0. PICK r \in LogRow : r = s[m + 1]
    BY <1>1
  <2>1. PICK A, B : A = Upto(s, m) /\ B = Upto(s, m + 1)
    OBVIOUS
  <2>2. B = A \cup {r} /\ r \notin A /\ IsFiniteSet(A) /\ A \in SUBSET LogRow
    <3>1. m \in 0..Len(s) /\ m \in 0..(Len(s) - 1)
      BY <1>1
    <3>2. ToSet(s) \in SUBSET LogRow
      BY StoreFacts
    <3> QED BY <2>0, <2>1, <3>1, <3>2, UptoFacts
  <2>3. run[m] = ByApprover(A) /\ run[m + 1] = ApproverCountsStep(run[m], r)
    BY <1>2, <1>4, <2>0, <2>1
  <2>4. ByApprover(A \cup {r}) = ApproverCountsStep(ByApprover(A), r)
    BY <2>2, ApproverGrows
  <2>5. m + 1 \in 0..n
    OBVIOUS
  <2> QED BY <2>1, <2>2, <2>3, <2>4, <2>5
<1>5. n \in S
  <2>1. S \in SUBSET (0..n)
    OBVIOUS
  <2> HIDE DEF S
  <2> QED BY <1>3, <1>4, <2>1, Steps
<1>6. Upto(s, n) = ToSet(s)
  BY <1>1, UptoFacts
<1> QED BY <1>2, <1>5, <1>6

\* They are those of GROUP BY approver.
LEMMA ApproversAgree ==
  ASSUME Alike(LogRow)
  PROVE  PgCountByApprover = MemCountByApprover
<1>1. memRows \in Seq(LogRow) /\ Distinct(memRows) /\ pgRows = ToSet(memRows)
  BY DEF Alike
<1>2. MemCountByApprover = ApproverCounts(memRows)
  BY DEF MemCountByApprover, ApproverCounts
<1>3. PgCountByApprover = ByApprover(pgRows)
  BY DEF PgCountByApprover, ByApprover, Select
<1> QED BY <1>1, <1>2, <1>3, ApproversCounted

-----------------------------------------------------------------------------

OfOwner(o) == {r \in LogRow : r.owner = o}
WantedBy(f) == {r \in LogRow : Wanted(r, f)}
ActedSince(a, since) == {r \in LogRow : r.action = a /\ r.at >= since}
MadeSince(since) == {r \in LogRow : r.at >= since}

\* Both adapters select the same rows, by owner, filter, action and time.
LEMMA LogsFound ==
  ASSUME Alike(LogRow)
  PROVE  /\ \A o : /\ {r \in pgRows : r.owner = o} = pgRows \cap OfOwner(o)
                   /\ EntriesAt(memRows, {i \in DOMAIN memRows : memRows[i].owner = o}) = Found(memRows, OfOwner(o))
         /\ \A f : /\ {r \in pgRows : Wanted(r, f)} = pgRows \cap WantedBy(f)
                   /\ EntriesAt(memRows, {i \in DOMAIN memRows : Wanted(memRows[i], f)}) = Found(memRows, WantedBy(f))
         /\ \A a, since : /\ {r \in pgRows : r.action = a /\ r.at >= since} = pgRows \cap ActedSince(a, since)
                          /\ EntriesAt(memRows, {i \in DOMAIN memRows : memRows[i].action = a /\ memRows[i].at >= since})
                               = Found(memRows, ActedSince(a, since))
         /\ \A since : /\ {r \in pgRows : r.at >= since} = pgRows \cap MadeSince(since)
                       /\ EntriesAt(memRows, {i \in DOMAIN memRows : memRows[i].at >= since}) = Found(memRows, MadeSince(since))
<1>1. pgRows \in SUBSET LogRow /\ \A i \in DOMAIN memRows : memRows[i] \in LogRow
  BY DEF Alike
<1>2. /\ \A o : {i \in DOMAIN memRows : memRows[i].owner = o} = {i \in DOMAIN memRows : memRows[i] \in OfOwner(o)}
      /\ \A f : {i \in DOMAIN memRows : Wanted(memRows[i], f)} = {i \in DOMAIN memRows : memRows[i] \in WantedBy(f)}
      /\ \A a, since : {i \in DOMAIN memRows : memRows[i].action = a /\ memRows[i].at >= since}
                         = {i \in DOMAIN memRows : memRows[i] \in ActedSince(a, since)}
      /\ \A since : {i \in DOMAIN memRows : memRows[i].at >= since} = {i \in DOMAIN memRows : memRows[i] \in MadeSince(since)}
  BY <1>1 DEF OfOwner, WantedBy, ActedSince, MadeSince
<1>3. /\ \A o : {r \in pgRows : r.owner = o} = pgRows \cap OfOwner(o)
      /\ \A f : {r \in pgRows : Wanted(r, f)} = pgRows \cap WantedBy(f)
      /\ \A a, since : {r \in pgRows : r.action = a /\ r.at >= since} = pgRows \cap ActedSince(a, since)
      /\ \A since : {r \in pgRows : r.at >= since} = pgRows \cap MadeSince(since)
  BY <1>1 DEF OfOwner, WantedBy, ActedSince, MadeSince
<1>4. /\ \A o : EntriesAt(memRows, {i \in DOMAIN memRows : memRows[i].owner = o}) = Found(memRows, OfOwner(o))
      /\ \A f : EntriesAt(memRows, {i \in DOMAIN memRows : Wanted(memRows[i], f)}) = Found(memRows, WantedBy(f))
  BY <1>2 DEF Found
<1>5. /\ \A a, since : EntriesAt(memRows, {i \in DOMAIN memRows : memRows[i].action = a /\ memRows[i].at >= since})
                          = Found(memRows, ActedSince(a, since))
  <2> SUFFICES ASSUME NEW a, NEW since
               PROVE  EntriesAt(memRows, {i \in DOMAIN memRows : memRows[i].action = a /\ memRows[i].at >= since})
                        = Found(memRows, ActedSince(a, since))
    OBVIOUS
  <2>1. {i \in DOMAIN memRows : memRows[i].action = a /\ memRows[i].at >= since}
          = {i \in DOMAIN memRows : memRows[i] \in ActedSince(a, since)}
    BY <1>2
  <2> QED BY <2>1 DEF Found
<1>6. \A since : EntriesAt(memRows, {i \in DOMAIN memRows : memRows[i].at >= since}) = Found(memRows, MadeSince(since))
  BY <1>2 DEF Found
<1> QED BY <1>3, <1>4, <1>5, <1>6

\* A history is the same up to the order of equal times.
LEMMA HistoriesAgree ==
  ASSUME Alike(LogRow), \A a, b \in pgRows : a.id = b.id => a = b, NEW limit \in Nat
  PROVE  /\ \A o : SameLog(PgRecent(o, limit), MemRecent(o, limit), {r \in pgRows : r.owner = o})
         /\ \A f : SameLog(PgListRecent(f, limit), MemListRecent(f, limit), pgRows)
<1>1. ASSUME NEW T
      PROVE  LET e == Found(memRows, T)
                 S == pgRows \cap T
             IN  e \in Seq(LogRow) /\ Distinct(e) /\ S = ToSet(e) /\ \A a, b \in S : a.id = b.id => a = b
  BY FoundRows
<1>2. ASSUME NEW o PROVE SameLog(PgRecent(o, limit), MemRecent(o, limit), {r \in pgRows : r.owner = o})
  <2>1. PICK e, S : e = Found(memRows, OfOwner(o)) /\ S = pgRows \cap OfOwner(o)
    OBVIOUS
  <2>2. e \in Seq(LogRow) /\ Distinct(e) /\ S = ToSet(e) /\ \A a, b \in S : a.id = b.id => a = b
    BY <1>1, <2>1
  <2>3. {r \in pgRows : r.owner = o} = S /\ EntriesAt(memRows, {i \in DOMAIN memRows : memRows[i].owner = o}) = e
    BY <2>1, LogsFound
  <2>4. SameLog(Ordered(S, NewerById, 0, limit), Slice(MemNewest(e), 0, limit), S)
    BY <2>2, PagesOfLog
  <2> QED BY <2>3, <2>4 DEF PgRecent, MemRecent, Select, Scan
<1>3. ASSUME NEW f PROVE SameLog(PgListRecent(f, limit), MemListRecent(f, limit), pgRows)
  <2>1. PICK e, S : e = Found(memRows, WantedBy(f)) /\ S = pgRows \cap WantedBy(f)
    OBVIOUS
  <2>2. e \in Seq(LogRow) /\ Distinct(e) /\ S = ToSet(e) /\ \A a, b \in S : a.id = b.id => a = b
    BY <1>1, <2>1
  <2>3. {r \in pgRows : Wanted(r, f)} = S /\ EntriesAt(memRows, {i \in DOMAIN memRows : Wanted(memRows[i], f)}) = e
    BY <2>1, LogsFound
  <2>4. SameLog(Ordered(S, NewerById, 0, limit), Slice(MemNewest(e), 0, limit), pgRows)
    BY <2>1, <2>2, PagesOfLog
  <2> QED BY <2>3, <2>4 DEF PgListRecent, MemListRecent, Select, Scan
<1> QED BY <1>2, <1>3

\* An action is counted alike.
LEMMA ActionsAgree ==
  ASSUME Alike(LogRow), NEW a, NEW since
  PROVE  PgCountByAction(a, since) = MemCountByAction(a, since)
<1>1. PICK e, S : e = Found(memRows, ActedSince(a, since)) /\ S = pgRows \cap ActedSince(a, since)
  OBVIOUS
<1>2. Len(e) = Cardinality(S)
  BY <1>1, FoundRows
<1>3. /\ {r \in pgRows : r.action = a /\ r.at >= since} = S
      /\ EntriesAt(memRows, {i \in DOMAIN memRows : memRows[i].action = a /\ memRows[i].at >= since}) = e
  BY <1>1, LogsFound
<1> QED BY <1>2, <1>3 DEF PgCountByAction, MemCountByAction, Select, Scan

Decision(r) == <<r.id, r.action, Latency(r)>>

\* Both list the same latencies, each as often.
LEMMA LatenciesAgree ==
  ASSUME Alike(LogRow), \A a, b \in pgRows : a.id = b.id => a = b, NEW since
  PROVE  /\ Len(MemLatencies(since)) = Cardinality(PgLatencies(since))
         /\ \A x \in ToSet(MemLatencies(since)) :
              Occurrences(MemLatencies(since), x) = Cardinality({p \in PgLatencies(since) : <<p[2], p[3]>> = x})
<1>1. PICK e, S : e = Found(memRows, MadeSince(since)) /\ S = pgRows \cap MadeSince(since)
  OBVIOUS
<1>2. /\ e \in Seq(LogRow) /\ Distinct(e) /\ DOMAIN e = 1..Len(e) /\ Len(e) \in Nat
      /\ (\A i \in DOMAIN e : e[i] \in S) /\ \A x \in S : \E i \in DOMAIN e : e[i] = x
  BY <1>1, FoundRows
<1>3. \A i, j \in DOMAIN e : e[i].id = e[j].id => i = j
  BY <1>1, <1>2 DEF Distinct
<1>4. PICK mem : mem = [i \in DOMAIN e |-> <<e[i].action, Latency(e[i])>>]
  OBVIOUS
<1>5. MemLatencies(since) = mem
  <2>1. EntriesAt(memRows, {i \in DOMAIN memRows : memRows[i].at >= since}) = e
    BY <1>1, LogsFound
  <2> QED BY <1>4, <2>1 DEF MemLatencies, Scan
<1>6. PICK pg : pg = {Decision(r) : r \in S}
  OBVIOUS
<1>7. PgLatencies(since) = pg
  <2>1. {r \in pgRows : r.at >= since} = S
    BY <1>1, LogsFound
  <2> QED BY <1>6, <2>1 DEF PgLatencies, Select, Decision
<1>8. IsFiniteSet(DOMAIN e) /\ Cardinality(DOMAIN e) = Len(e)
  BY <1>2, UpTo
<1>9. \A r : Decision(r)[1] = r.id /\ Decision(r)[2] = r.action /\ Decision(r)[3] = Latency(r)
  BY DEF Decision
<1>10. Cardinality(pg) = Len(e)
  <2> DEFINE f == [i \in DOMAIN e |-> Decision(e[i])]
  <2>1. f \in [DOMAIN e -> pg]
    BY <1>2, <1>6
  <2>2. \A i, j \in DOMAIN e : f[i] = f[j] => i = j
    BY <1>3, <1>9
  <2>3. \A s \in pg : \E i \in DOMAIN e : f[i] = s
    BY <1>2, <1>6
  <2> HIDE DEF f
  <2> QED BY <1>8, <2>1, <2>2, <2>3, SameSize
<1>11. DOMAIN mem = DOMAIN e /\ \A i \in DOMAIN e : mem[i] = <<e[i].action, Latency(e[i])>>
  BY <1>4
<1>12. Len(mem) = Len(e)
  BY <1>2, <1>11
<1>13. ASSUME NEW x \in ToSet(mem)
       PROVE  Occurrences(mem, x) = Cardinality({p \in pg : <<p[2], p[3]>> = x})
  <2>2. PICK A, B : A = {i \in DOMAIN mem : mem[i] = x} /\ B = {p \in pg : <<p[2], p[3]>> = x}
    OBVIOUS
  <2>3. \A i \in DOMAIN e : i \in A <=> <<e[i].action, Latency(e[i])>> = x
    BY <1>11, <2>2
  <2>4. A \in SUBSET DOMAIN e
    BY <1>11, <2>2
  <2>5. IsFiniteSet(A)
    BY <1>8, <2>4, FS_Subset
  <2> DEFINE f == [i \in A |-> Decision(e[i])]
  <2>6. f \in [A -> B]
    <3>1. \A i \in A : Decision(e[i]) \in B
      BY <1>2, <1>6, <1>9, <2>2, <2>3, <2>4
    <3> QED BY <3>1
  <2>7. \A i, j \in A : f[i] = f[j] => i = j
    BY <1>3, <1>9, <2>4
  <2>8. \A s \in B : \E i \in A : f[i] = s
    <3> SUFFICES ASSUME NEW s \in B PROVE \E i \in A : f[i] = s
      OBVIOUS
    <3>1. PICK r \in S : s = Decision(r) /\ <<s[2], s[3]>> = x
      BY <1>6, <2>2
    <3>2. PICK i \in DOMAIN e : e[i] = r
      BY <1>2
    <3>3. i \in A
      BY <1>9, <2>3, <3>1, <3>2
    <3> QED BY <3>1, <3>2, <3>3
  <2> HIDE DEF f
  <2>9. Cardinality(B) = Cardinality(A)
    BY <2>5, <2>6, <2>7, <2>8, SameSize
  <2> QED BY <2>2, <2>9 DEF Occurrences
<1> QED BY <1>5, <1>7, <1>10, <1>12, <1>13

\* In lockstep the logs read alike.
LEMMA TrailsFollow == LogsInv => TrailsAgree
<1> SUFFICES ASSUME LogsInv, table \in LogNames PROVE TrailsAgree
  BY DEF TrailsAgree
<1>1. Alike(LogRow)
  BY LogsAreAlike, LogTypes
<1>2. \A a, b \in pgRows : a.id = b.id => a = b
  BY LockFacts, LogTypes DEF LogsInv
<1>3. \A o, limit : limit \in LogLimits => SameLog(PgRecent(o, limit), MemRecent(o, limit), {r \in pgRows : r.owner = o})
  BY <1>1, <1>2, HistoriesAgree, LogTablesAssumption DEF LogLimits
<1>4. \A f, limit : limit \in LogLimits => SameLog(PgListRecent(f, limit), MemListRecent(f, limit), pgRows)
  BY <1>1, <1>2, HistoriesAgree, LogTablesAssumption DEF LogLimits
<1>5. \A o \in Owners, limit \in LogLimits :
         /\ SameLog(PgRecentForSource(o, limit), MemRecentForSource(o, limit), {r \in pgRows : r.owner = o})
         /\ SameLog(PgListForDeal(o, limit), MemListForDeal(o, limit), {r \in pgRows : r.owner = o})
         /\ SameLog(PgListForSource(o, limit), MemListForSource(o, limit), {r \in pgRows : r.owner = o})
  BY <1>3 DEF PgRecentForSource, MemRecentForSource, PgListForDeal, MemListForDeal, PgListForSource, MemListForSource
<1>6. \A a, since : PgCountByAction(a, since) = MemCountByAction(a, since)
  BY <1>1, ActionsAgree
<1>7. PgCountByApprover = MemCountByApprover
  BY <1>1, ApproversAgree
<1>8. \A since : /\ Len(MemLatencies(since)) = Cardinality(PgLatencies(since))
                 /\ \A x \in ToSet(MemLatencies(since)) :
                      Occurrences(MemLatencies(since), x) = Cardinality({p \in PgLatencies(since) : <<p[2], p[3]>> = x})
  BY <1>1, <1>2, LatenciesAgree
<1> QED BY <1>4, <1>5, <1>6, <1>7, <1>8 DEF TrailsAgree

\* The logs read alike from both adapters, equal times aside.
THEOREM TrailsHold == LogTablesSpec => []TrailsAgree
<1>1. LogTablesSpec => []LogsInv
  BY LogsInvariant
<1> QED BY <1>1, TrailsFollow, PTL

ByAlert(S) == {p \in S \X S : NewestAlertFirst(p[1], p[2])}

\* By time and then by id leaves no two alerts tied.
LEMMA ByAlertOrders ==
  ASSUME NEW S \in SUBSET AlertRow, \A a, b \in S : a.id = b.id => a = b
  PROVE  Orders(ByAlert(S), S)
<1>1. \A a \in S : a.id \in Nat /\ a.created_at \in Nat
  BY LogTablesAssumption DEF AlertRow
<1>2. \A a, b \in S : <<a, b>> \in ByAlert(S) <=> NewestAlertFirst(a, b)
  BY DEF ByAlert
<1>3. \A a \in S : ~NewestAlertFirst(a, a)
  BY <1>1 DEF NewestAlertFirst
<1>4. \A a, b \in S : a # b => NewestAlertFirst(a, b) \/ NewestAlertFirst(b, a)
  BY <1>1 DEF NewestAlertFirst
<1>5. \A a, b, c \in S : NewestAlertFirst(a, b) /\ NewestAlertFirst(b, c) => NewestAlertFirst(a, c)
  BY <1>1 DEF NewestAlertFirst
<1> QED BY <1>2, <1>3, <1>4, <1>5 DEF Orders

\* The page of alerts is the same.
LEMMA AlertsAgree ==
  ASSUME Alike(AlertRow), \A a, b \in pgRows : a.id = b.id => a = b, NEW limit
  PROVE  PgListAlerts(limit) = MemListAlerts(limit)
<1>1. PICK e, S : e = memRows /\ S = pgRows
  OBVIOUS
<1>2. e \in Seq(AlertRow) /\ Distinct(e) /\ S = ToSet(e) /\ S \in SUBSET AlertRow /\ \A i \in DOMAIN e : e[i] \in S
  BY <1>1 DEF Alike, ToSet
<1>3. Orders(ByAlert(S), S)
  BY <1>1, <1>2, ByAlertOrders
<1>4. Sorted(e, ByAlert(S)) = Arranged(S, ByAlert(S))
  BY <1>2, <1>3, SortedFacts
<1>5. StableSort(e, NewestAlertFirst) = Sorted(e, ByAlert(S))
  <2>1. \A i, j \in DOMAIN e : <<e[i], e[j]>> \in ByAlert(S) <=> NewestAlertFirst(e[i], e[j])
    BY <1>2 DEF ByAlert
  <2>2. {p \in (DOMAIN e) \X (DOMAIN e) : NewestAlertFirst(e[p[1]], e[p[2]]) \/ (~NewestAlertFirst(e[p[2]], e[p[1]]) /\ p[1] < p[2])}
          = Places(e, ByAlert(S))
    BY <2>1 DEF Places
  <2> QED BY <2>2 DEF StableSort, Sorted
<1>6. InOrder(S, NewestAlertFirst) = Arranged(S, ByAlert(S))
  BY DEF InOrder, ByAlert
<1> QED BY <1>1, <1>4, <1>5, <1>6 DEF PgListAlerts, MemListAlerts, Ordered, Slice

-----------------------------------------------------------------------------
\* What is open.
OpenOf(X) == {r \in X : r.status = "open"}

\* Both adapters select the open rows,
LEMMA OpenFound ==
  ASSUME NEW X, Alike(X)
  PROVE  /\ {r \in pgRows : r.status = "open"} = pgRows \cap OpenOf(X)
         /\ EntriesAt(memRows, {i \in DOMAIN memRows : memRows[i].status = "open"}) = Found(memRows, OpenOf(X))
<1>1. pgRows \in SUBSET X /\ \A i \in DOMAIN memRows : memRows[i] \in X
  BY DEF Alike
<1>2. {i \in DOMAIN memRows : memRows[i].status = "open"} = {i \in DOMAIN memRows : memRows[i] \in OpenOf(X)}
  BY <1>1 DEF OpenOf
<1> QED BY <1>1, <1>2 DEF OpenOf, Found

\* and the double's head of them is one that a LIMIT may cut.
LEMMA OpenHeads ==
  ASSUME NEW X, Alike(X), NEW limit \in Nat
  PROVE  LET open == {r \in pgRows : r.status = "open"}
             mine == Slice(EntriesAt(memRows, {i \in DOMAIN memRows : memRows[i].status = "open"}), 0, limit)
         IN  ToSet(mine) \in Unordered(open, limit)
<1>1. PICK e, S : e = Found(memRows, OpenOf(X)) /\ S = pgRows \cap OpenOf(X)
  OBVIOUS
<1>2. e \in Seq(X) /\ Distinct(e) /\ ToSet(e) = S
  BY <1>1, FoundRows
<1>3. ToSet(Slice(e, 0, limit)) \in Unordered(ToSet(e), limit)
  BY <1>2, HeadMayBe
<1>4. {r \in pgRows : r.status = "open"} = S /\ EntriesAt(memRows, {i \in DOMAIN memRows : memRows[i].status = "open"}) = e
  BY <1>1, OpenFound
<1> QED BY <1>2, <1>3, <1>4

\* Open captures are answers Postgres may give,
LEMMA CapturesAgree ==
  ASSUME Alike(CaptureRow), NEW limit \in Nat
  PROVE  ToSet(MemListOpenCaptures(limit)) \in PgListOpenCaptures(limit)
BY OpenHeads DEF MemListOpenCaptures, PgListOpenCaptures, Select, Scan

\* A list that takes in every row leaves nothing out.
LEMMA AllOfThem ==
  ASSUME NEW S, IsFiniteSet(S), NEW limit \in Nat, Cardinality(S) <= limit
  PROVE  Unordered(S, limit) = {S}
<1>1. Cardinality(S) \in Nat
  BY FS_CardinalityType
<1>2. AtMost(limit, Cardinality(S)) = Cardinality(S)
  BY <1>1 DEF AtMost
<1>3. \A T \in SUBSET S : Cardinality(T) = Cardinality(S) => T = S
  BY FS_Subset
<1>4. Unordered(S, limit) = {T \in SUBSET S : Cardinality(T) = Cardinality(S)}
  BY <1>2 DEF Unordered, kSubset
<1> QED BY <1>3, <1>4

\* and so are open proposals.
LEMMA ProposalsAgree ==
  ASSUME Alike(ProposalRow)
  PROVE  LET all == Cardinality(pgRows) IN ToSet(MemListOpenProposals(all)) \in PgListOpenProposals(all)
<1>1. PICK all, open : all = Cardinality(pgRows) /\ open = {r \in pgRows : r.status = "open"}
  OBVIOUS
<1>2. IsFiniteSet(open) /\ all \in Nat /\ Cardinality(open) <= all
  <2>1. IsFiniteSet(pgRows)
    BY DEF Alike
  <2> QED BY <1>1, <2>1, FS_Subset, FS_CardinalityType
<1>3. Unordered(open, all) = {open}
  BY <1>2, AllOfThem
<1>4. ToSet(MemListOpenProposals(all)) \in Unordered(open, all)
  BY <1>1, <1>2, OpenHeads DEF MemListOpenProposals, Scan
<1>5. PgListOpenProposals(all) = {S \in Unordered(open, all) : \A r \in S, s \in open \ S : s.count <= r.count}
  BY <1>1 DEF PgListOpenProposals, Select
<1>6. open \in PgListOpenProposals(all)
  BY <1>3, <1>5
<1>7. ToSet(MemListOpenProposals(all)) = open
  BY <1>3, <1>4
<1> QED BY <1>1, <1>6, <1>7

-----------------------------------------------------------------------------
LEMMA KeyedAgree ==
  ASSUME NEW X, Alike(X), \A a, b \in pgRows : a.key = b.key => a = b, NEW key
  PROVE  PgGet(key) = MemGet(key)
<1>1. PICK T : T = {r \in X : r.key = key}
  OBVIOUS
<1>2. memRows \in Seq(X) /\ pgRows = ToSet(memRows) /\ pgRows \in SUBSET X /\ \A i \in DOMAIN memRows : memRows[i] \in X
  BY DEF Alike
<1>3. \A x, y \in ToSet(memRows) \cap T : x = y
  BY <1>1, <1>2
<1>4. One(ToSet(memRows) \cap T) = FirstOf(Found(memRows, T))
  BY <1>2, <1>3, FoundOne
<1>5. {r \in pgRows : r.key = key} = ToSet(memRows) \cap T
  BY <1>1, <1>2
<1>6. {i \in DOMAIN memRows : memRows[i].key = key} = {i \in DOMAIN memRows : memRows[i] \in T}
  BY <1>1, <1>2
<1> QED BY <1>4, <1>5, <1>6 DEF PgGet, MemGet, Select, Scan, Found

-----------------------------------------------------------------------------
\* Live tokens.
LiveBy(column, value) == {t \in TokenRow : t[column] = value /\ t.revoked_at = NotRevoked}

\* The loop counts the live tokens.
LEMMA LiveIs ==
  ASSUME NEW s \in Seq(TokenRow), Distinct(s), NEW column, NEW value
  PROVE  LiveCount(s, column, value) = Cardinality(ToSet(s) \cap LiveBy(column, value))
<1>1. PICK n \in Nat : n = Len(s) /\ \A i \in 1..n : s[i] \in TokenRow
  OBVIOUS
<1>2. PICK run \in [0..n -> Nat] :
        /\ run[0] = 0 /\ run[n] = LiveCount(s, column, value)
        /\ \A m \in 0..(n - 1) : run[m + 1] = LiveCountStep(column, value, run[m], s[m + 1])
  <2>1. PICK run : Counting(run, s, column, value)
    BY LiveCountRuns
  <2> QED BY <1>1, <2>1 DEF Counting
<1> DEFINE T == LiveBy(column, value)
           S == {m \in 0..n : run[m] = Cardinality(Upto(s, m) \cap T)}
<1>3. 0 \in S
  <2>1. Upto(s, 0) \cap T = {}
    BY UptoFacts
  <2>2. Cardinality(Upto(s, 0) \cap T) = 0
    BY <2>1, FS_EmptySet
  <2> QED BY <1>2, <2>2
<1>4. ASSUME NEW m \in 0..(n - 1), m \in S PROVE m + 1 \in S
  <2>1. PICK r \in TokenRow : r = s[m + 1]
    BY <1>1
  <2>2. run[m] = Cardinality(Upto(s, m) \cap T) /\ run[m + 1] = LiveCountStep(column, value, run[m], r) /\ run[m] \in Nat
    BY <1>2, <1>4, <2>1
  <2>3. Cardinality(Upto(s, m + 1) \cap T) = Cardinality(Upto(s, m) \cap T) + (IF r \in T THEN 1 ELSE 0)
    <3>1. m \in 0..(Len(s) - 1)
      BY <1>1
    <3> QED BY <2>1, <3>1, CountGrows
  <2>4. r \in T <=> r[column] = value /\ r.revoked_at = NotRevoked
    BY DEF LiveBy
  <2>5. run[m + 1] = run[m] + (IF r \in T THEN 1 ELSE 0)
    BY <2>2, <2>4 DEF LiveCountStep
  <2>6. m + 1 \in 0..n
    OBVIOUS
  <2> QED BY <2>2, <2>3, <2>5, <2>6
<1>5. n \in S
  <2>1. S \in SUBSET (0..n)
    OBVIOUS
  <2> HIDE DEF S
  <2> QED BY <1>3, <1>4, <2>1, Steps
<1>6. Upto(s, n) = ToSet(s)
  BY <1>1, UptoFacts
<1> QED BY <1>2, <1>5, <1>6

\* They are as many in Postgres.
LEMMA TokensAgree ==
  ASSUME Alike(TokenRow), NEW column, NEW value
  PROVE  PgLive(column, value) = MemLive(column, value)
<1>1. memRows \in Seq(TokenRow) /\ Distinct(memRows) /\ pgRows = ToSet(memRows) /\ pgRows \in SUBSET TokenRow
  BY DEF Alike
<1>2. MemLive(column, value) = LiveCount(memRows, column, value)
  BY DEF MemLive, LiveCount
<1>3. {r \in pgRows : r[column] = value /\ r.revoked_at = NotRevoked} = ToSet(memRows) \cap LiveBy(column, value)
  BY <1>1 DEF LiveBy
<1> QED BY <1>1, <1>2, <1>3, LiveIs DEF PgLive, Select

-----------------------------------------------------------------------------
LEMMA WorklistsFollow == LogsInv => WorklistsAgree
<1> SUFFICES ASSUME LogsInv PROVE WorklistsAgree
  OBVIOUS
<1>1. Alike(RowsOf(table)) /\ \A x, y \in pgRows : x[KeyOf(table)] = y[KeyOf(table)] => x = y
  BY LogsAreAlike, LogRowsTyped
<1>2. \A limit \in LogLimits : limit \in Nat
  BY LogTablesAssumption DEF LogLimits
<1>3. CASE table = "alerts"
  <2>1. Alike(AlertRow) /\ \A x, y \in pgRows : x.id = y.id => x = y
    BY <1>1, <1>3, LogTypes
  <2>2. \A limit : PgListAlerts(limit) = MemListAlerts(limit)
    BY <2>1, AlertsAgree
  <2>3. OneOpen(pgRows)
    BY <1>3 DEF LogsInv
  <2> QED BY <1>3, <2>2, <2>3 DEF WorklistsAgree, OneOpen
<1>4. CASE table = "captures"
  <2>1. Alike(CaptureRow)
    BY <1>1, <1>4, LogTypes
  <2> QED BY <1>2, <1>4, <2>1, CapturesAgree DEF WorklistsAgree
<1>5. ASSUME table \in {"settings", "catalog", "vocabulary", "proposals"} PROVE \A key : PgGet(key) = MemGet(key)
  <2>1. \A x, y \in pgRows : x.key = y.key => x = y
    BY <1>1, <1>5 DEF KeyOf, KeyedByKey
  <2> QED BY <1>1, <2>1, KeyedAgree
<1>6. ASSUME table = "proposals"
      PROVE  LET all == Cardinality(pgRows) IN ToSet(MemListOpenProposals(all)) \in PgListOpenProposals(all)
  <2>1. Alike(ProposalRow)
    BY <1>1, <1>6, LogTypes
  <2> QED BY <2>1, ProposalsAgree
<1>7. ASSUME table = "tokens" PROVE \A column, value : PgLive(column, value) = MemLive(column, value)
  <2>1. Alike(TokenRow)
    BY <1>1, <1>7, LogTypes
  <2> QED BY <2>1, TokensAgree
<1>8. CASE table \notin {"alerts", "captures"}
  BY <1>5, <1>6, <1>7, <1>8 DEF WorklistsAgree
<1> QED BY <1>3, <1>4, <1>8

\* The worklists, keyed tables and token counts read alike from both adapters.
THEOREM WorklistsHold == LogTablesSpec => []WorklistsAgree
<1>1. LogTablesSpec => []LogsInv
  BY LogsInvariant
<1> QED BY <1>1, WorklistsFollow, PTL

-----------------------------------------------------------------------------
(* What both adapters hold of the accounts.                                 *)

Users == {u \in UserRow : u.name \in ToSet(Names)}
Roles == {r \in RoleRow : r.name \in ToSet(Names)}

\* The constraints of Postgres: unique ids and names.
PgAccounts ==
  /\ pgUsers \in SUBSET Users /\ \A u, v \in pgUsers : u.id = v.id => u = v
  /\ pgRoles \in SUBSET Roles /\ \A r, s \in pgRoles : r.name = s.name => r = s
  /\ pgGrants \in SUBSET (RoleIds \X Grants)
  /\ permVersions \in (0..MaxCount) \X (0..MaxCount) /\ permVersions[1] = permVersions[2]

GrantsSame ==
  /\ DOMAIN memGrants \in SUBSET RoleIds /\ \A i \in DOMAIN memGrants : memGrants[i] \in SUBSET Grants
  /\ pgGrants = {p \in RoleIds \X Grants : p[1] \in DOMAIN memGrants /\ p[2] \in memGrants[p[1]]}

SameAccounts ==
  /\ Lockstep(pgUsers, memUsers, Users, "email")
  /\ Lockstep(pgRoles, memRoles, Roles, "id")
  /\ GrantsSame

SameAnswer == accountAnswer[1] = accountAnswer[2]

AccountsInv == PgAccounts /\ (~accountRefused => SameAccounts /\ SameAnswer)

\* Rows that are written are typed and bear a name of the alphabet.
LEMMA RowsKnown ==
  /\ \A r \in RoleRows : r \in Roles
  /\ \A u \in UserRows : u.id \in UserIds /\ u.id \in Nat /\ u.email \in STRING /\ u.name \in STRING /\ u.name \in ToSet(Names)
                         /\ u.status \in UserStatuses /\ u.hash \in {"none", "old", "new"}
  /\ UserIds \in SUBSET Nat /\ RoleIds \in SUBSET Nat
<1>1. \A x \in UserRows \cup RoleRows : x.name \in ToSet(Names)
  BY AccountTablesAssumption DEF ToSet
<1>2. \A r \in RoleRows : r \in RoleRow
  <2> SUFFICES ASSUME NEW r \in RoleRows PROVE r \in RoleRow
    OBVIOUS
  <2>1. r.id \in RoleIds
    BY DEF RoleIds
  <2>2. r \in [id: Nat, name: STRING, description: STRING, is_system: BOOLEAN]
    BY AccountTablesAssumption
  <2> QED BY <2>1, <2>2 DEF RoleRow
<1>3. \A u \in UserRows : u.id \in UserIds
  BY DEF UserIds
<1>4. \A u \in UserRows : u \in [id: Nat, email: STRING, name: STRING, role: Nat, status: UserStatuses, hash: {"none", "old"}]
  BY AccountTablesAssumption
<1>5. UserIds \in SUBSET Nat
  BY <1>4 DEF UserIds
<1>6. RoleIds \in SUBSET Nat
  BY AccountTablesAssumption DEF RoleIds
<1> QED BY <1>1, <1>2, <1>3, <1>4, <1>5, <1>6 DEF Roles

\* The seeds of the constructor are those of the migrations.
LEMMA AccountsStart == AccountTablesInit => AccountsInv
<1> SUFFICES ASSUME AccountTablesInit PROVE AccountsInv
  OBVIOUS
<1>1. pgUsers = {} /\ memUsers = <<>> /\ pgRoles = SystemRoles /\ memRoles = SetToSeq(SystemRoles)
  BY DEF AccountTablesInit
<1>2. SystemRoles \in SUBSET Roles /\ IsFiniteSet(SystemRoles)
  BY RowsKnown, AccountTablesAssumption
<1>3. Lockstep(pgUsers, memUsers, Users, "email")
  BY <1>1, LockEmpty
<1>4. Lockstep(pgRoles, memRoles, Roles, "id")
  <2>1. PICK f : f = SetToSeq(SystemRoles)
    OBVIOUS
  <2>2. /\ f \in Seq(SystemRoles) /\ DOMAIN f = 1..Len(f) /\ Len(f) \in Nat /\ Distinct(f)
        /\ \A x \in SystemRoles : \E i \in DOMAIN f : f[i] = x
    BY <1>2, <2>1, RowOfAll
  <2>3. \A i \in DOMAIN f : f[i] \in SystemRoles
    BY <2>2
  <2>4. ToSet(f) = SystemRoles
    BY <2>2, <2>3 DEF ToSet
  <2>5. f \in Seq(Roles)
    <3>1. PICK n \in Nat : n = Len(f)
      BY <2>2
    <3>2. f \in [1..n -> SystemRoles]
      BY <2>2, <3>1
    <3>3. f \in [1..n -> Roles]
      BY <1>2, <3>2
    <3> QED BY <3>3, OfPlaces
  <2>6. Keyed(f, "id")
    <3>1. \A i, j \in DOMAIN f : f[i]["id"] = f[j]["id"] => f[i] = f[j]
      <4>1. \A r, s \in SystemRoles : r["id"] = s["id"] => r = s
        <5>1. \A r, s \in SystemRoles : r.id = s.id => r = s
          BY AccountTablesAssumption
        <5> QED BY <5>1
      <4> QED BY <2>3, <4>1
    <3> QED BY <2>2, <3>1 DEF Keyed, Distinct
  <2> QED BY <1>1, <2>1, <2>4, <2>5, <2>6 DEF Lockstep
<1>5. PICK seeded : seeded = {r.id : r \in SystemRoles}
  OBVIOUS
<1>6. seeded \in SUBSET RoleIds
  BY <1>5, AccountTablesAssumption DEF RoleIds
<1>7. pgGrants = seeded \X Grants /\ memGrants = [i \in seeded |-> Grants]
  BY <1>5 DEF AccountTablesInit
<1>8. GrantsSame /\ pgGrants \in SUBSET (RoleIds \X Grants)
  BY <1>6, <1>7 DEF GrantsSame
<1>9. permVersions = <<0, 0>> /\ accountAnswer = <<0, 0>>
  BY DEF AccountTablesInit
<1>10. permVersions \in (0..MaxCount) \X (0..MaxCount) /\ permVersions[1] = permVersions[2] /\ SameAnswer
  BY <1>9, AccountTablesAssumption DEF SameAnswer
<1>11. \A r, s \in pgRoles : r.name = s.name => r = s
  BY <1>1, AccountTablesAssumption
<1> QED BY <1>1, <1>2, <1>3, <1>4, <1>8, <1>10, <1>11 DEF AccountsInv, PgAccounts, SameAccounts

-----------------------------------------------------------------------------
(* Writes of users.                                                         *)

\* A write of the row with an id, refused or not.
Assigns(f, id, refused) ==
  /\ pgUsers' = IF refused THEN pgUsers ELSE {IF u.id = id THEN f[u] ELSE u : u \in pgUsers}
  /\ memUsers' = [i \in DOMAIN memUsers |-> IF memUsers[i].id = id THEN f[memUsers[i]] ELSE memUsers[i]]
  /\ accountRefused' = refused
  /\ UNCHANGED <<pgRoles, pgGrants, memRoles, memGrants, permVersions>>

Keeps(f) == f \in [pgUsers -> Users] /\ \A u \in pgUsers : f[u].id = u.id /\ f[u].email = u.email

\* What the lockstep says of users and roles.
LEMMA UsersFacts ==
  ASSUME AccountsInv, ~accountRefused
  PROVE  /\ Lockstep(pgUsers, memUsers, Users, "email") /\ Lockstep(pgRoles, memRoles, Roles, "id") /\ GrantsSame
         /\ pgUsers \in SUBSET Users /\ IsFiniteSet(pgUsers) /\ pgUsers = ToSet(memUsers) /\ memUsers \in Seq(Users) /\ Distinct(memUsers)
         /\ pgRoles \in SUBSET Roles /\ IsFiniteSet(pgRoles) /\ pgRoles = ToSet(memRoles) /\ memRoles \in Seq(Roles) /\ Distinct(memRoles)
         /\ \A i \in DOMAIN memUsers : memUsers[i] \in pgUsers
         /\ \A i \in DOMAIN memRoles : memRoles[i] \in pgRoles
         /\ \A u, v \in pgUsers : u.email = v.email \/ u.id = v.id => u = v
         /\ \A r, s \in pgRoles : r.id = s.id \/ r.name = s.name => r = s
<1>1. Lockstep(pgUsers, memUsers, Users, "email") /\ Lockstep(pgRoles, memRoles, Roles, "id") /\ GrantsSame
  BY DEF AccountsInv, SameAccounts
<1>2. /\ pgUsers \in SUBSET Users /\ IsFiniteSet(pgUsers) /\ pgUsers = ToSet(memUsers) /\ memUsers \in Seq(Users) /\ Distinct(memUsers)
      /\ \A i \in DOMAIN memUsers : memUsers[i] \in pgUsers
      /\ \A u, v \in pgUsers : u["email"] = v["email"] => u = v
  BY <1>1, LockFacts
<1>3. /\ pgRoles \in SUBSET Roles /\ IsFiniteSet(pgRoles) /\ pgRoles = ToSet(memRoles) /\ memRoles \in Seq(Roles) /\ Distinct(memRoles)
      /\ \A i \in DOMAIN memRoles : memRoles[i] \in pgRoles
      /\ \A u, v \in pgRoles : u["id"] = v["id"] => u = v
  BY <1>1, LockFacts
<1>4. (\A u, v \in pgUsers : u.id = v.id => u = v) /\ (\A r, s \in pgRoles : r.name = s.name => r = s)
  BY DEF AccountsInv, PgAccounts
<1>5. \A u, v \in pgUsers : u.email = v.email \/ u.id = v.id => u = v
  BY <1>2, <1>4
<1>6. \A r, s \in pgRoles : r.id = s.id \/ r.name = s.name => r = s
  BY <1>3, <1>4
<1> QED BY <1>1, <1>2, <1>3, <1>5, <1>6

\* A column of one user is rewritten on both sides.
LEMMA AssignKeeps ==
  ASSUME AccountsInv, ~accountRefused, NEW id, NEW refused \in BOOLEAN, NEW f, Keeps(f), Assigns(f, id, refused)
  PROVE  PgAccounts' /\ (~accountRefused' => SameAccounts')
<1>1. PgAccounts /\ SameAccounts
  BY DEF AccountsInv
<1>2. UNCHANGED <<pgRoles, pgGrants, memRoles, memGrants, permVersions>> /\ accountRefused' = refused
  BY DEF Assigns
<1>3. CASE refused
  <2>1. pgUsers' = pgUsers
    BY <1>3 DEF Assigns
  <2> QED BY <1>1, <1>2, <1>3, <2>1 DEF PgAccounts
<1>4. CASE ~refused
  <2> DEFINE g == [u \in Users |-> IF u \in pgUsers /\ u.id = id THEN f[u] ELSE u]
  <2>1. /\ pgUsers \in SUBSET Users /\ \A i \in DOMAIN memUsers : memUsers[i] \in pgUsers
        /\ \A u, v \in pgUsers : u.id = v.id => u = v
    BY UsersFacts
  <2>2. PICK G : G = g
    OBVIOUS
  <2>3. G \in [Users -> Users] /\ \A u \in Users : G[u].email = u.email /\ G[u].id = u.id
    BY <2>2 DEF Keeps
  <2>4. \A u \in pgUsers : G[u] = IF u.id = id THEN f[u] ELSE u
    BY <2>1, <2>2
  <2>5. pgUsers' = {G[u] : u \in pgUsers} /\ memUsers' = [i \in DOMAIN memUsers |-> G[memUsers[i]]]
    BY <1>4, <2>1, <2>4 DEF Assigns
  <2> HIDE DEF g
  <2>6. Lockstep({G[x] : x \in pgUsers}, [i \in DOMAIN memUsers |-> G[memUsers[i]]], Users, "email")
    <3>1. \A u \in Users : G[u]["email"] = u["email"]
      BY <2>3
    <3>2. Lockstep(pgUsers, memUsers, Users, "email")
      BY <1>1 DEF SameAccounts
    <3> QED BY <2>3, <3>1, <3>2, LockRewrite
  <2>7. Lockstep(pgUsers, memUsers, Users, "email")'
    BY <2>5, <2>6
  <2>8. pgUsers' \in SUBSET Users /\ \A u, v \in pgUsers' : u.id = v.id => u = v
    <3>1. \A u \in pgUsers : G[u] \in Users /\ G[u].id = u.id
      BY <2>1, <2>3
    <3> QED BY <2>1, <2>5, <3>1
  <2>9. PgAccounts'
    BY <1>1, <1>2, <2>8 DEF PgAccounts
  <2>10. SameAccounts'
    BY <1>1, <1>2, <2>7 DEF SameAccounts, GrantsSame
  <2> QED BY <2>9, <2>10
<1> QED BY <1>3, <1>4

\* One user for an id is found alike.
LEMMA FindsAlike ==
  ASSUME NEW pg, NEW mem, Lockstep(pg, mem, Users, "email"), \A u, v \in pg : u.id = v.id => u = v, NEW id
  PROVE  One({v \in pg : v.id = id}) = FirstOf(EntriesAt(mem, {i \in DOMAIN mem : mem[i].id = id}))
<1>1. PICK T : T = {u \in Users : u.id = id}
  OBVIOUS
<1>2. mem \in Seq(Users) /\ pg = ToSet(mem) /\ pg \in SUBSET Users /\ \A i \in DOMAIN mem : mem[i] \in Users
  BY LockFacts
<1>3. \A x, y \in ToSet(mem) \cap T : x = y
  BY <1>1, <1>2
<1>4. One(ToSet(mem) \cap T) = FirstOf(Found(mem, T))
  BY <1>2, <1>3, FoundOne
<1>5. {v \in pg : v.id = id} = ToSet(mem) \cap T
  BY <1>1, <1>2
<1>6. {i \in DOMAIN mem : mem[i].id = id} = {i \in DOMAIN mem : mem[i] \in T}
  BY <1>1, <1>2
<1> QED BY <1>4, <1>5, <1>6 DEF Found

-----------------------------------------------------------------------------
(* The bound on the counters.                                               *)

Used(v) == v.version + v.failed + v.locked + (IF v.hash = "new" THEN 1 ELSE 0)
UsedTable(c, S) == c = [t \in SUBSET S |-> IF t = {} THEN 0 ELSE Used(Taken(t)) + c[t \ {Taken(t)}]]

\* What the counters hold together is the choice of a table of partial sums;
LEMMA SpentForm ==
  Spent = permVersions[1] + (LET c == CHOOSE c : UsedTable(c, pgUsers) IN c[pgUsers])
BY DEF Spent, MapThenSumSet, MapThenFoldSet, UsedTable, Taken, Used

\* below the bound, none of them has reached it.
LEMMA SpentFacts ==
  ASSUME AccountsInv, ~accountRefused, Spent < MaxCount
  PROVE  permVersions[1] < MaxCount /\ \A u \in pgUsers : u.version < MaxCount /\ u.failed < MaxCount
<1> DEFINE w == [u \in pgUsers |-> Used(u)]
           c == CHOOSE c : UsedTable(c, pgUsers)
<1>1. pgUsers \in SUBSET UserRow /\ IsFiniteSet(pgUsers)
  BY UsersFacts DEF Users
<1>2. \A u \in pgUsers : u.version \in Nat /\ u.failed \in Nat /\ u.locked \in Nat /\ Used(u) \in Nat
                        /\ u.version <= Used(u) /\ u.failed <= Used(u)
  BY <1>1, AccountTablesAssumption DEF UserRow, Used
<1>3. w \in [pgUsers -> Nat] /\ \A u \in pgUsers : w[u] = Used(u)
  BY <1>2
<1> HIDE DEF w
<1>4. \A t \in SUBSET pgUsers : t # {} => Taken(t) \in pgUsers /\ t \ {Taken(t)} \in SUBSET pgUsers
  BY <1>1, TakenFacts
<1>5. PICK h : TotalsOf(h, w, pgUsers)
  <2>1. Weights(w, pgUsers)
    BY <1>1, <1>3 DEF Weights
  <2> QED BY <2>1, SumExists
<1>6. UsedTable(h, pgUsers)
  BY <1>3, <1>4, <1>5 DEF UsedTable, TotalsOf
<1>7. UsedTable(c, pgUsers)
  BY <1>6
<1>8. Spent = permVersions[1] + c[pgUsers]
  BY SpentForm
<1> HIDE DEF c
<1>9. \A t \in SUBSET pgUsers : c[t] = IF t = {} THEN 0 ELSE Used(Taken(t)) + c[t \ {Taken(t)}]
  BY <1>7 DEF UsedTable
<1>10. SumTable(c, w, pgUsers)
  BY <1>3, <1>4, <1>9 DEF SumTable
<1>11. \A t \in SUBSET pgUsers : c[t] \in Nat
  BY <1>1, <1>3, <1>10, SumTyped DEF Sums
<1>12. PICK k : k = c[pgUsers]
  OBVIOUS
<1>13. IsSum(w, pgUsers, k) /\ k \in Nat
  BY <1>10, <1>11, <1>12 DEF IsSum
<1>14. \A u \in pgUsers : w[u] <= k
  BY <1>1, <1>3, <1>13, SumLess
<1>15. permVersions[1] \in Nat /\ MaxCount \in Nat
  <2>1. permVersions \in (0..MaxCount) \X (0..MaxCount)
    BY DEF AccountsInv, PgAccounts
  <2> QED BY <2>1, AccountTablesAssumption
<1>16. permVersions[1] + k < MaxCount
  BY <1>8, <1>12
<1>17. ASSUME NEW u \in pgUsers PROVE u.version < MaxCount /\ u.failed < MaxCount
  <2>1. Used(u) <= k /\ Used(u) \in Nat /\ u.version <= Used(u) /\ u.failed <= Used(u) /\ u.version \in Nat /\ u.failed \in Nat
    BY <1>2, <1>3, <1>14
  <2> QED BY <1>13, <1>15, <1>16, <2>1
<1> QED BY <1>13, <1>15, <1>16, <1>17

-----------------------------------------------------------------------------
(* Writes of one column.                                                    *)

\* The writes of one column, one lemma each.
LEMMA SetUserRoleKeeps ==
  ASSUME AccountsInv, ~accountRefused, NEW id, NEW role \in RoleIds, SetUserRole(id, role)
  PROVE  AccountsInv'
<1>1. PICK f : f = [u \in pgUsers |-> [u EXCEPT !.role = role]]
  OBVIOUS
<1>2. Keeps(f)
  <2>1. pgUsers \in SUBSET Users
    BY UsersFacts
  <2>2. \A u \in pgUsers : u \in UserRow /\ u.name \in ToSet(Names)
    BY <2>1 DEF Users
  <2>3. \A u \in pgUsers : [u EXCEPT !.role = role] \in UserRow
    BY <2>2, AccountTablesAssumption DEF UserRow, NotLocked
  <2>4. \A u \in pgUsers : f[u] \in UserRow /\ f[u].name = u.name /\ f[u].id = u.id /\ f[u].email = u.email
    <3> SUFFICES ASSUME NEW u \in pgUsers
                 PROVE  f[u] \in UserRow /\ f[u].name = u.name /\ f[u].id = u.id /\ f[u].email = u.email
      OBVIOUS
    <3>1. f[u] = [u EXCEPT !.role = role] /\ u \in UserRow
      BY <1>1, <2>2
    <3> QED BY <2>3, <3>1 DEF UserRow
  <2>5. f = [u \in pgUsers |-> f[u]]
    BY <1>1
  <2> QED BY <2>2, <2>4, <2>5 DEF Keeps, Users
<1>3. Assigns(f, id, role \notin {r.id : r \in pgRoles})
  <2>1. \A i \in DOMAIN memUsers : memUsers[i] \in pgUsers
    BY UsersFacts
  <2>2. \A u \in pgUsers : f[u] = [u EXCEPT !.role = role]
    BY <1>1
  <2>3. /\ pgUsers' = IF role \notin {r.id : r \in pgRoles} THEN pgUsers ELSE {IF u.id = id THEN [u EXCEPT !.role = role] ELSE u : u \in pgUsers}
        /\ memUsers' = [i \in DOMAIN memUsers |-> IF memUsers[i].id = id THEN [memUsers[i] EXCEPT !.role = role] ELSE memUsers[i]]
        /\ accountRefused' = (role \notin {r.id : r \in pgRoles}) /\ UNCHANGED <<pgRoles, pgGrants, memRoles, memGrants, permVersions>>
    BY DEF SetUserRole, Assign, WriteUsers, Update, Rewrite
  <2>4. {IF u.id = id THEN [u EXCEPT !.role = role] ELSE u : u \in pgUsers} = {IF u.id = id THEN f[u] ELSE u : u \in pgUsers}
    BY <2>2
  <2>5. [i \in DOMAIN memUsers |-> IF memUsers[i].id = id THEN [memUsers[i] EXCEPT !.role = role] ELSE memUsers[i]]
          = [i \in DOMAIN memUsers |-> IF memUsers[i].id = id THEN f[memUsers[i]] ELSE memUsers[i]]
    BY <2>1, <2>2
  <2> QED BY <2>3, <2>4, <2>5 DEF Assigns
<1>4. PgAccounts' /\ (~accountRefused' => SameAccounts')
  BY <1>2, <1>3, AssignKeeps
<1>5. ~accountRefused' => SameAnswer'
  BY DEF SetUserRole, Silent, SameAnswer
<1> QED BY <1>4, <1>5 DEF AccountsInv

LEMMA SetUserStatusKeeps ==
  ASSUME AccountsInv, ~accountRefused, NEW id, NEW status \in UserStatuses, SetUserStatus(id, status)
  PROVE  AccountsInv'
<1>1. PICK f : f = [u \in pgUsers |-> [u EXCEPT !.status = status]]
  OBVIOUS
<1>2. Keeps(f)
  <2>1. pgUsers \in SUBSET Users
    BY UsersFacts
  <2>2. \A u \in pgUsers : u \in UserRow /\ u.name \in ToSet(Names)
    BY <2>1 DEF Users
  <2>3. \A u \in pgUsers : [u EXCEPT !.status = status] \in UserRow
    BY <2>2, AccountTablesAssumption DEF UserRow, NotLocked
  <2>4. \A u \in pgUsers : f[u] \in UserRow /\ f[u].name = u.name /\ f[u].id = u.id /\ f[u].email = u.email
    <3> SUFFICES ASSUME NEW u \in pgUsers
                 PROVE  f[u] \in UserRow /\ f[u].name = u.name /\ f[u].id = u.id /\ f[u].email = u.email
      OBVIOUS
    <3>1. f[u] = [u EXCEPT !.status = status] /\ u \in UserRow
      BY <1>1, <2>2
    <3> QED BY <2>3, <3>1 DEF UserRow
  <2>5. f = [u \in pgUsers |-> f[u]]
    BY <1>1
  <2> QED BY <2>2, <2>4, <2>5 DEF Keeps, Users
<1>3. Assigns(f, id, FALSE)
  <2>1. \A i \in DOMAIN memUsers : memUsers[i] \in pgUsers
    BY UsersFacts
  <2>2. \A u \in pgUsers : f[u] = [u EXCEPT !.status = status]
    BY <1>1
  <2>3. /\ pgUsers' = IF FALSE THEN pgUsers ELSE {IF u.id = id THEN [u EXCEPT !.status = status] ELSE u : u \in pgUsers}
        /\ memUsers' = [i \in DOMAIN memUsers |-> IF memUsers[i].id = id THEN [memUsers[i] EXCEPT !.status = status] ELSE memUsers[i]]
        /\ accountRefused' = (FALSE) /\ UNCHANGED <<pgRoles, pgGrants, memRoles, memGrants, permVersions>>
    BY DEF SetUserStatus, Assign, WriteUsers, Update, Rewrite
  <2>4. {IF u.id = id THEN [u EXCEPT !.status = status] ELSE u : u \in pgUsers} = {IF u.id = id THEN f[u] ELSE u : u \in pgUsers}
    BY <2>2
  <2>5. [i \in DOMAIN memUsers |-> IF memUsers[i].id = id THEN [memUsers[i] EXCEPT !.status = status] ELSE memUsers[i]]
          = [i \in DOMAIN memUsers |-> IF memUsers[i].id = id THEN f[memUsers[i]] ELSE memUsers[i]]
    BY <2>1, <2>2
  <2> QED BY <2>3, <2>4, <2>5 DEF Assigns
<1>4. PgAccounts' /\ (~accountRefused' => SameAccounts')
  BY <1>2, <1>3, AssignKeeps
<1>5. ~accountRefused' => SameAnswer'
  BY DEF SetUserStatus, Silent, SameAnswer
<1> QED BY <1>4, <1>5 DEF AccountsInv

LEMMA UpdatePasswordHashKeeps ==
  ASSUME AccountsInv, ~accountRefused, NEW id, UpdatePasswordHash(id)
  PROVE  AccountsInv'
<1>1. PICK f : f = [u \in pgUsers |-> [u EXCEPT !.hash = "new"]]
  OBVIOUS
<1>2. Keeps(f)
  <2>1. pgUsers \in SUBSET Users
    BY UsersFacts
  <2>2. \A u \in pgUsers : u \in UserRow /\ u.name \in ToSet(Names)
    BY <2>1 DEF Users
  <2>3. \A u \in pgUsers : [u EXCEPT !.hash = "new"] \in UserRow
    BY <2>2, AccountTablesAssumption DEF UserRow, NotLocked
  <2>4. \A u \in pgUsers : f[u] \in UserRow /\ f[u].name = u.name /\ f[u].id = u.id /\ f[u].email = u.email
    <3> SUFFICES ASSUME NEW u \in pgUsers
                 PROVE  f[u] \in UserRow /\ f[u].name = u.name /\ f[u].id = u.id /\ f[u].email = u.email
      OBVIOUS
    <3>1. f[u] = [u EXCEPT !.hash = "new"] /\ u \in UserRow
      BY <1>1, <2>2
    <3> QED BY <2>3, <3>1 DEF UserRow
  <2>5. f = [u \in pgUsers |-> f[u]]
    BY <1>1
  <2> QED BY <2>2, <2>4, <2>5 DEF Keeps, Users
<1>3. Assigns(f, id, FALSE)
  <2>1. \A i \in DOMAIN memUsers : memUsers[i] \in pgUsers
    BY UsersFacts
  <2>2. \A u \in pgUsers : f[u] = [u EXCEPT !.hash = "new"]
    BY <1>1
  <2>3. /\ pgUsers' = IF FALSE THEN pgUsers ELSE {IF u.id = id THEN [u EXCEPT !.hash = "new"] ELSE u : u \in pgUsers}
        /\ memUsers' = [i \in DOMAIN memUsers |-> IF memUsers[i].id = id THEN [memUsers[i] EXCEPT !.hash = "new"] ELSE memUsers[i]]
        /\ accountRefused' = (FALSE) /\ UNCHANGED <<pgRoles, pgGrants, memRoles, memGrants, permVersions>>
    BY DEF UpdatePasswordHash, Assign, WriteUsers, Update, Rewrite
  <2>4. {IF u.id = id THEN [u EXCEPT !.hash = "new"] ELSE u : u \in pgUsers} = {IF u.id = id THEN f[u] ELSE u : u \in pgUsers}
    BY <2>2
  <2>5. [i \in DOMAIN memUsers |-> IF memUsers[i].id = id THEN [memUsers[i] EXCEPT !.hash = "new"] ELSE memUsers[i]]
          = [i \in DOMAIN memUsers |-> IF memUsers[i].id = id THEN f[memUsers[i]] ELSE memUsers[i]]
    BY <2>1, <2>2
  <2> QED BY <2>3, <2>4, <2>5 DEF Assigns
<1>4. PgAccounts' /\ (~accountRefused' => SameAccounts')
  BY <1>2, <1>3, AssignKeeps
<1>5. ~accountRefused' => SameAnswer'
  BY DEF UpdatePasswordHash, Silent, SameAnswer
<1> QED BY <1>4, <1>5 DEF AccountsInv

LEMMA SetLockKeeps ==
  ASSUME AccountsInv, ~accountRefused, NEW id, NEW until \in 0..1, SetLock(id, until)
  PROVE  AccountsInv'
<1>1. PICK f : f = [u \in pgUsers |-> [u EXCEPT !.locked = until]]
  OBVIOUS
<1>2. Keeps(f)
  <2>1. pgUsers \in SUBSET Users
    BY UsersFacts
  <2>2. \A u \in pgUsers : u \in UserRow /\ u.name \in ToSet(Names)
    BY <2>1 DEF Users
  <2>3. \A u \in pgUsers : [u EXCEPT !.locked = until] \in UserRow
    BY <2>2, AccountTablesAssumption DEF UserRow, NotLocked
  <2>4. \A u \in pgUsers : f[u] \in UserRow /\ f[u].name = u.name /\ f[u].id = u.id /\ f[u].email = u.email
    <3> SUFFICES ASSUME NEW u \in pgUsers
                 PROVE  f[u] \in UserRow /\ f[u].name = u.name /\ f[u].id = u.id /\ f[u].email = u.email
      OBVIOUS
    <3>1. f[u] = [u EXCEPT !.locked = until] /\ u \in UserRow
      BY <1>1, <2>2
    <3> QED BY <2>3, <3>1 DEF UserRow
  <2>5. f = [u \in pgUsers |-> f[u]]
    BY <1>1
  <2> QED BY <2>2, <2>4, <2>5 DEF Keeps, Users
<1>3. Assigns(f, id, FALSE)
  <2>1. \A i \in DOMAIN memUsers : memUsers[i] \in pgUsers
    BY UsersFacts
  <2>2. \A u \in pgUsers : f[u] = [u EXCEPT !.locked = until]
    BY <1>1
  <2>3. /\ pgUsers' = IF FALSE THEN pgUsers ELSE {IF u.id = id THEN [u EXCEPT !.locked = until] ELSE u : u \in pgUsers}
        /\ memUsers' = [i \in DOMAIN memUsers |-> IF memUsers[i].id = id THEN [memUsers[i] EXCEPT !.locked = until] ELSE memUsers[i]]
        /\ accountRefused' = (FALSE) /\ UNCHANGED <<pgRoles, pgGrants, memRoles, memGrants, permVersions>>
    BY DEF SetLock, Assign, WriteUsers, Update, Rewrite
  <2>4. {IF u.id = id THEN [u EXCEPT !.locked = until] ELSE u : u \in pgUsers} = {IF u.id = id THEN f[u] ELSE u : u \in pgUsers}
    BY <2>2
  <2>5. [i \in DOMAIN memUsers |-> IF memUsers[i].id = id THEN [memUsers[i] EXCEPT !.locked = until] ELSE memUsers[i]]
          = [i \in DOMAIN memUsers |-> IF memUsers[i].id = id THEN f[memUsers[i]] ELSE memUsers[i]]
    BY <2>1, <2>2
  <2> QED BY <2>3, <2>4, <2>5 DEF Assigns
<1>4. PgAccounts' /\ (~accountRefused' => SameAccounts')
  BY <1>2, <1>3, AssignKeeps
<1>5. ~accountRefused' => SameAnswer'
  BY DEF SetLock, Silent, SameAnswer
<1> QED BY <1>4, <1>5 DEF AccountsInv

LEMMA RecordLoginKeeps ==
  ASSUME AccountsInv, ~accountRefused, NEW id, RecordLogin(id)
  PROVE  AccountsInv'
<1>1. PICK f : f = [u \in pgUsers |-> [u EXCEPT !.failed = 0, !.locked = NotLocked]]
  OBVIOUS
<1>2. Keeps(f)
  <2>1. pgUsers \in SUBSET Users
    BY UsersFacts
  <2>2. \A u \in pgUsers : u \in UserRow /\ u.name \in ToSet(Names)
    BY <2>1 DEF Users
  <2>3. \A u \in pgUsers : [u EXCEPT !.failed = 0, !.locked = NotLocked] \in UserRow
    <3> SUFFICES ASSUME NEW u \in pgUsers PROVE [u EXCEPT !.failed = 0, !.locked = NotLocked] \in UserRow
      OBVIOUS
    <3>1. u \in UserRow /\ 0 \in 0..MaxCount /\ 0 \in 0..1 /\ NotLocked = 0
      BY <2>2, AccountTablesAssumption DEF NotLocked
    <3> QED BY <3>1 DEF UserRow
  <2>4. \A u \in pgUsers : f[u] \in UserRow /\ f[u].name = u.name /\ f[u].id = u.id /\ f[u].email = u.email
    <3> SUFFICES ASSUME NEW u \in pgUsers
                 PROVE  f[u] \in UserRow /\ f[u].name = u.name /\ f[u].id = u.id /\ f[u].email = u.email
      OBVIOUS
    <3>1. f[u] = [u EXCEPT !.failed = 0, !.locked = NotLocked] /\ u \in UserRow
      BY <1>1, <2>2
    <3> QED BY <2>3, <3>1 DEF UserRow
  <2>5. f = [u \in pgUsers |-> f[u]]
    BY <1>1
  <2> QED BY <2>2, <2>4, <2>5 DEF Keeps, Users
<1>3. Assigns(f, id, FALSE)
  <2>1. \A i \in DOMAIN memUsers : memUsers[i] \in pgUsers
    BY UsersFacts
  <2>2. \A u \in pgUsers : f[u] = [u EXCEPT !.failed = 0, !.locked = NotLocked]
    BY <1>1
  <2>3. /\ pgUsers' = IF FALSE THEN pgUsers ELSE {IF u.id = id THEN [u EXCEPT !.failed = 0, !.locked = NotLocked] ELSE u : u \in pgUsers}
        /\ memUsers' = [i \in DOMAIN memUsers |-> IF memUsers[i].id = id THEN [memUsers[i] EXCEPT !.failed = 0, !.locked = NotLocked] ELSE memUsers[i]]
        /\ accountRefused' = (FALSE) /\ UNCHANGED <<pgRoles, pgGrants, memRoles, memGrants, permVersions>>
    BY DEF RecordLogin, Assign, WriteUsers, Update, Rewrite
  <2>4. {IF u.id = id THEN [u EXCEPT !.failed = 0, !.locked = NotLocked] ELSE u : u \in pgUsers} = {IF u.id = id THEN f[u] ELSE u : u \in pgUsers}
    BY <2>2
  <2>5. [i \in DOMAIN memUsers |-> IF memUsers[i].id = id THEN [memUsers[i] EXCEPT !.failed = 0, !.locked = NotLocked] ELSE memUsers[i]]
          = [i \in DOMAIN memUsers |-> IF memUsers[i].id = id THEN f[memUsers[i]] ELSE memUsers[i]]
    BY <2>1, <2>2
  <2> QED BY <2>3, <2>4, <2>5 DEF Assigns
<1>4. PgAccounts' /\ (~accountRefused' => SameAccounts')
  BY <1>2, <1>3, AssignKeeps
<1>5. ~accountRefused' => SameAnswer'
  BY DEF RecordLogin, Silent, SameAnswer
<1> QED BY <1>4, <1>5 DEF AccountsInv

LEMMA BumpTokenVersionKeeps ==
  ASSUME AccountsInv, ~accountRefused, NEW id, BumpTokenVersion(id)
  PROVE  AccountsInv'
<1>1. PICK f : f = [u \in pgUsers |-> [u EXCEPT !.version = @ + 1]]
  OBVIOUS
<1>2. Keeps(f)
  <2>1. pgUsers \in SUBSET Users
    BY UsersFacts
  <2>2. \A u \in pgUsers : u \in UserRow /\ u.name \in ToSet(Names)
    BY <2>1 DEF Users
  <2>3. \A u \in pgUsers : [u EXCEPT !.version = @ + 1] \in UserRow
    <3> SUFFICES ASSUME NEW u \in pgUsers PROVE [u EXCEPT !.version = @ + 1] \in UserRow
      OBVIOUS
    <3>1. u \in UserRow /\ u.version < MaxCount /\ u.version \in Nat /\ MaxCount \in Nat
      <4>1. u \in UserRow /\ u.version < MaxCount
        BY <2>2, SpentFacts DEF BumpTokenVersion
      <4> QED BY <4>1, AccountTablesAssumption DEF UserRow
    <3>2. u.version + 1 \in 0..MaxCount
      BY <3>1
    <3> QED BY <3>1, <3>2 DEF UserRow
  <2>4. \A u \in pgUsers : f[u] \in UserRow /\ f[u].name = u.name /\ f[u].id = u.id /\ f[u].email = u.email
    <3> SUFFICES ASSUME NEW u \in pgUsers
                 PROVE  f[u] \in UserRow /\ f[u].name = u.name /\ f[u].id = u.id /\ f[u].email = u.email
      OBVIOUS
    <3>1. f[u] = [u EXCEPT !.version = @ + 1] /\ u \in UserRow
      BY <1>1, <2>2
    <3> QED BY <2>3, <3>1 DEF UserRow
  <2>5. f = [u \in pgUsers |-> f[u]]
    BY <1>1
  <2> QED BY <2>2, <2>4, <2>5 DEF Keeps, Users
<1>3. Assigns(f, id, FALSE)
  <2>1. \A i \in DOMAIN memUsers : memUsers[i] \in pgUsers
    BY UsersFacts
  <2>2. \A u \in pgUsers : f[u] = [u EXCEPT !.version = @ + 1]
    BY <1>1
  <2>3. /\ pgUsers' = IF FALSE THEN pgUsers ELSE {IF u.id = id THEN [u EXCEPT !.version = @ + 1] ELSE u : u \in pgUsers}
        /\ memUsers' = [i \in DOMAIN memUsers |-> IF memUsers[i].id = id THEN [memUsers[i] EXCEPT !.version = @ + 1] ELSE memUsers[i]]
        /\ accountRefused' = (FALSE) /\ UNCHANGED <<pgRoles, pgGrants, memRoles, memGrants, permVersions>>
    BY DEF BumpTokenVersion, Assign, WriteUsers, Update, Rewrite
  <2>4. {IF u.id = id THEN [u EXCEPT !.version = @ + 1] ELSE u : u \in pgUsers} = {IF u.id = id THEN f[u] ELSE u : u \in pgUsers}
    BY <2>2
  <2>5. [i \in DOMAIN memUsers |-> IF memUsers[i].id = id THEN [memUsers[i] EXCEPT !.version = @ + 1] ELSE memUsers[i]]
          = [i \in DOMAIN memUsers |-> IF memUsers[i].id = id THEN f[memUsers[i]] ELSE memUsers[i]]
    BY <2>1, <2>2
  <2> QED BY <2>3, <2>4, <2>5 DEF Assigns
<1>4. PgAccounts' /\ (~accountRefused' => SameAccounts')
  BY <1>2, <1>3, AssignKeeps
<1>5. ~accountRefused' => SameAnswer'
  <2> SUFFICES ASSUME ~accountRefused' PROVE SameAnswer'
    OBVIOUS
  <2>1. accountAnswer' = <<OrZero(PgFind(id)', "version"), OrZero(MemFind(id)', "version")>>
    BY DEF BumpTokenVersion
  <2>2. Lockstep(pgUsers', memUsers', Users, "email") /\ \A u, v \in pgUsers' : u.id = v.id => u = v
    BY <1>4 DEF SameAccounts, PgAccounts
  <2>3. One({v \in pgUsers' : v.id = id}) = FirstOf(EntriesAt(memUsers', {i \in DOMAIN memUsers' : memUsers'[i].id = id}))
    BY <2>2, FindsAlike
  <2>4. PgFind(id)' = MemFind(id)'
    BY <2>3 DEF PgFind, MemFind, Select, Scan
  <2> QED BY <2>1, <2>4 DEF SameAnswer
<1> QED BY <1>4, <1>5 DEF AccountsInv

LEMMA CountFailedLoginKeeps ==
  ASSUME AccountsInv, ~accountRefused, NEW id, CountFailedLogin(id)
  PROVE  AccountsInv'
<1>1. PICK f : f = [u \in pgUsers |-> [u EXCEPT !.failed = @ + 1]]
  OBVIOUS
<1>2. Keeps(f)
  <2>1. pgUsers \in SUBSET Users
    BY UsersFacts
  <2>2. \A u \in pgUsers : u \in UserRow /\ u.name \in ToSet(Names)
    BY <2>1 DEF Users
  <2>3. \A u \in pgUsers : [u EXCEPT !.failed = @ + 1] \in UserRow
    <3> SUFFICES ASSUME NEW u \in pgUsers PROVE [u EXCEPT !.failed = @ + 1] \in UserRow
      OBVIOUS
    <3>1. u \in UserRow /\ u.failed < MaxCount /\ u.failed \in Nat /\ MaxCount \in Nat
      <4>1. u \in UserRow /\ u.failed < MaxCount
        BY <2>2, SpentFacts DEF CountFailedLogin
      <4> QED BY <4>1, AccountTablesAssumption DEF UserRow
    <3>2. u.failed + 1 \in 0..MaxCount
      BY <3>1
    <3> QED BY <3>1, <3>2 DEF UserRow
  <2>4. \A u \in pgUsers : f[u] \in UserRow /\ f[u].name = u.name /\ f[u].id = u.id /\ f[u].email = u.email
    <3> SUFFICES ASSUME NEW u \in pgUsers
                 PROVE  f[u] \in UserRow /\ f[u].name = u.name /\ f[u].id = u.id /\ f[u].email = u.email
      OBVIOUS
    <3>1. f[u] = [u EXCEPT !.failed = @ + 1] /\ u \in UserRow
      BY <1>1, <2>2
    <3> QED BY <2>3, <3>1 DEF UserRow
  <2>5. f = [u \in pgUsers |-> f[u]]
    BY <1>1
  <2> QED BY <2>2, <2>4, <2>5 DEF Keeps, Users
<1>3. Assigns(f, id, FALSE)
  <2>1. \A i \in DOMAIN memUsers : memUsers[i] \in pgUsers
    BY UsersFacts
  <2>2. \A u \in pgUsers : f[u] = [u EXCEPT !.failed = @ + 1]
    BY <1>1
  <2>3. /\ pgUsers' = IF FALSE THEN pgUsers ELSE {IF u.id = id THEN [u EXCEPT !.failed = @ + 1] ELSE u : u \in pgUsers}
        /\ memUsers' = [i \in DOMAIN memUsers |-> IF memUsers[i].id = id THEN [memUsers[i] EXCEPT !.failed = @ + 1] ELSE memUsers[i]]
        /\ accountRefused' = (FALSE) /\ UNCHANGED <<pgRoles, pgGrants, memRoles, memGrants, permVersions>>
    BY DEF CountFailedLogin, Assign, WriteUsers, Update, Rewrite
  <2>4. {IF u.id = id THEN [u EXCEPT !.failed = @ + 1] ELSE u : u \in pgUsers} = {IF u.id = id THEN f[u] ELSE u : u \in pgUsers}
    BY <2>2
  <2>5. [i \in DOMAIN memUsers |-> IF memUsers[i].id = id THEN [memUsers[i] EXCEPT !.failed = @ + 1] ELSE memUsers[i]]
          = [i \in DOMAIN memUsers |-> IF memUsers[i].id = id THEN f[memUsers[i]] ELSE memUsers[i]]
    BY <2>1, <2>2
  <2> QED BY <2>3, <2>4, <2>5 DEF Assigns
<1>4. PgAccounts' /\ (~accountRefused' => SameAccounts')
  BY <1>2, <1>3, AssignKeeps
<1>5. ~accountRefused' => SameAnswer'
  <2> SUFFICES ASSUME ~accountRefused' PROVE SameAnswer'
    OBVIOUS
  <2>1. accountAnswer' = <<OrZero(PgFind(id)', "failed"), OrZero(MemFind(id)', "failed")>>
    BY DEF CountFailedLogin
  <2>2. Lockstep(pgUsers', memUsers', Users, "email") /\ \A u, v \in pgUsers' : u.id = v.id => u = v
    BY <1>4 DEF SameAccounts, PgAccounts
  <2>3. One({v \in pgUsers' : v.id = id}) = FirstOf(EntriesAt(memUsers', {i \in DOMAIN memUsers' : memUsers'[i].id = id}))
    BY <2>2, FindsAlike
  <2>4. PgFind(id)' = MemFind(id)'
    BY <2>3 DEF PgFind, MemFind, Select, Scan
  <2> QED BY <2>1, <2>4 DEF SameAnswer
<1> QED BY <1>4, <1>5 DEF AccountsInv

-----------------------------------------------------------------------------
(* Rows of users that come and go.                                          *)

\* A user with a new id and a new address is stored.
LEMMA StoreUser ==
  ASSUME AccountsInv, ~accountRefused, NEW u \in Users, \A v \in pgUsers : v.email # u.email /\ v.id # u.id
  PROVE  /\ Lockstep(pgUsers \cup {u}, Put(memUsers, "email", u), Users, "email")
         /\ pgUsers \cup {u} \in SUBSET Users /\ \A v, w \in pgUsers \cup {u} : v.id = w.id => v = w
<1>1. Lockstep(pgUsers, memUsers, Users, "email") /\ pgUsers \in SUBSET Users /\ \A v, w \in pgUsers : v.id = w.id => v = w
  BY UsersFacts
<1>2. \A v \in pgUsers : v["email"] # u["email"]
  OBVIOUS
<1>3. Put(memUsers, "email", u) = Append(memUsers, u) /\ Lockstep(pgUsers \cup {u}, Append(memUsers, u), Users, "email")
  BY <1>1, <1>2, LockInsert
<1> QED BY <1>1, <1>3

\* What is left alone when users are written.
LEMMA UsersWritten ==
  ASSUME AccountsInv, ~accountRefused, NEW pg, NEW mem, NEW refused \in BOOLEAN,
         WriteUsers(pg, mem, refused), Silent,
         ~refused => Lockstep(pg, mem, Users, "email") /\ pg \in SUBSET Users /\ \A v, w \in pg : v.id = w.id => v = w
  PROVE  AccountsInv'
<1>1. /\ pgUsers' = (IF refused THEN pgUsers ELSE pg) /\ memUsers' = mem /\ accountRefused' = refused
      /\ UNCHANGED <<pgRoles, pgGrants, memRoles, memGrants, permVersions>>
  BY DEF WriteUsers
<1>2. PgAccounts /\ SameAccounts
  BY DEF AccountsInv
<1>3. PgAccounts'
  BY <1>1, <1>2 DEF PgAccounts
<1>4. ~refused => SameAccounts'
  BY <1>1, <1>2 DEF SameAccounts, GrantsSame
<1>5. SameAnswer'
  BY DEF Silent, SameAnswer
<1> QED BY <1>1, <1>3, <1>4, <1>5 DEF AccountsInv

\* A new user is a row of the table.
LEMMA SignupTyped ==
  ASSUME NEW u \in UserRows, NEW role \in RoleIds
  PROVE  /\ u.role = role => Signup(u) \in Users
         /\ [Signup(u) EXCEPT !.role = role, !.hash = "none"] \in Users
         /\ Signup(u).id = u.id /\ Signup(u).email = u.email /\ Signup(u).role = u.role
         /\ [Signup(u) EXCEPT !.role = role, !.hash = "none"].id = u.id
         /\ [Signup(u) EXCEPT !.role = role, !.hash = "none"].email = u.email
<1>1. /\ u.id \in UserIds /\ u.email \in STRING /\ u.name \in STRING /\ u.name \in ToSet(Names)
      /\ u.status \in UserStatuses /\ u.hash \in {"none", "old", "new"}
  BY RowsKnown
<1>2. 0 \in 0..MaxCount /\ 0 \in 0..1 /\ NotLocked = 0
  BY AccountTablesAssumption DEF NotLocked
<1>3. PICK new : new = Signup(u)
  OBVIOUS
<1>4. new = [id |-> u.id, email |-> u.email, name |-> u.name, role |-> u.role, status |-> u.status, hash |-> u.hash,
             version |-> 0, failed |-> 0, locked |-> 0]
  BY <1>2, <1>3 DEF Signup
<1>5. /\ new \in [id: UserIds, email: STRING, name: STRING, role: {u.role}, status: UserStatuses, hash: {"none", "old", "new"},
                 version: 0..MaxCount, failed: 0..MaxCount, locked: 0..1]
      /\ new.id = u.id /\ new.email = u.email /\ new.role = u.role /\ new.name = u.name
  BY <1>1, <1>2, <1>4
<1>6. u.role = role => new \in UserRow
  BY <1>5 DEF UserRow
<1>7. [new EXCEPT !.role = role, !.hash = "none"] \in UserRow
  BY <1>5 DEF UserRow
<1>8. /\ [new EXCEPT !.role = role, !.hash = "none"].id = u.id /\ [new EXCEPT !.role = role, !.hash = "none"].email = u.email
      /\ [new EXCEPT !.role = role, !.hash = "none"].name = u.name
  BY <1>5
<1> QED BY <1>1, <1>3, <1>5, <1>6, <1>7, <1>8 DEF Users

\* A user is inserted,
LEMMA InsertUserKeeps ==
  ASSUME AccountsInv, ~accountRefused, NEW u \in UserRows, InsertUser(u)
  PROVE  AccountsInv'
<1>1. PICK refused \in BOOLEAN : refused = (u.email \in {v.email : v \in pgUsers} \/ u.role \notin {r.id : r \in pgRoles})
  OBVIOUS
<1>2. PICK new : new = Signup(u)
  OBVIOUS
<1>3. WriteUsers(pgUsers \cup {new}, Put(memUsers, "email", new), refused) /\ Silent /\ u.id \notin {v.id : v \in pgUsers}
  BY <1>1, <1>2 DEF InsertUser
<1>4. ASSUME ~refused
      PROVE  /\ Lockstep(pgUsers \cup {new}, Put(memUsers, "email", new), Users, "email")
             /\ pgUsers \cup {new} \in SUBSET Users /\ \A v, w \in pgUsers \cup {new} : v.id = w.id => v = w
  <2>1. u.role \in RoleIds
    <3>1. \A r \in pgRoles : r.id \in RoleIds
      BY UsersFacts DEF Roles, RoleRow
    <3> QED BY <1>1, <1>4, <3>1
  <2>2. new \in Users /\ new.id = u.id /\ new.email = u.email
    BY <1>2, <2>1, SignupTyped
  <2>3. \A v \in pgUsers : v.email # new.email /\ v.id # new.id
    BY <1>1, <1>3, <1>4, <2>2
  <2> QED BY <2>2, <2>3, StoreUser
<1> QED BY <1>3, <1>4, UsersWritten

\* One role for a name is found alike.
LEMMA NamedAlike ==
  ASSUME AccountsInv, ~accountRefused, NEW name
  PROVE  RoleNamed(name) = MemRoleNamed(name) /\ (RoleNamed(name) # NoRow => RoleNamed(name) \in pgRoles)
<1>1. PICK T : T = {r \in Roles : r.name = name}
  OBVIOUS
<1>2. /\ memRoles \in Seq(Roles) /\ pgRoles = ToSet(memRoles) /\ pgRoles \in SUBSET Roles /\ \A i \in DOMAIN memRoles : memRoles[i] \in pgRoles
      /\ \A r, s \in pgRoles : r.name = s.name => r = s
  BY UsersFacts
<1>3. \A x, y \in ToSet(memRoles) \cap T : x = y
  BY <1>1, <1>2
<1>4. /\ One(ToSet(memRoles) \cap T) = FirstOf(Found(memRoles, T))
      /\ IF ToSet(memRoles) \cap T = {} THEN One(ToSet(memRoles) \cap T) = NoRow ELSE One(ToSet(memRoles) \cap T) \in ToSet(memRoles) \cap T
  BY <1>2, <1>3, FoundOne
<1>5. {r \in pgRoles : r.name = name} = ToSet(memRoles) \cap T
  BY <1>1, <1>2
<1>6. {i \in DOMAIN memRoles : memRoles[i].name = name} = {i \in DOMAIN memRoles : memRoles[i] \in T}
  BY <1>1, <1>2
<1> QED BY <1>2, <1>4, <1>5, <1>6 DEF RoleNamed, MemRoleNamed, Select, Scan, Found

\* or written through the team view.
LEMMA TeamUpsertKeeps ==
  ASSUME AccountsInv, ~accountRefused, NEW m \in UserRows, NEW name, TeamUpsert(m, name)
  PROVE  AccountsInv'
<1>1. PICK role : role = RoleNamed(name).id
  OBVIOUS
<1>2. role \in RoleIds /\ MemRoleNamed(name).id = role
  <2>1. RoleNamed(name) = MemRoleNamed(name) /\ RoleNamed(name) \in pgRoles
    BY NamedAlike DEF TeamUpsert
  <2> QED BY <1>1, <2>1, UsersFacts DEF Roles, RoleRow
<1>3. PICK first : first = [Signup(m) EXCEPT !.role = role, !.hash = "none"]
  OBVIOUS
<1>4. first \in Users /\ first.id = m.id /\ first.email = m.email
  BY <1>2, <1>3, SignupTyped
<1> DEFINE Again(v) == [v EXCEPT !.name = m.name, !.role = role, !.status = m.status]
<1>5. \A v \in pgUsers : Again(v) \in Users /\ Again(v).id = v.id /\ Again(v).email = v.email
  <2>1. pgUsers \in SUBSET Users /\ m.name \in STRING /\ m.name \in ToSet(Names) /\ m.status \in UserStatuses
    BY UsersFacts, RowsKnown
  <2> SUFFICES ASSUME NEW v \in pgUsers PROVE Again(v) \in Users /\ Again(v).id = v.id /\ Again(v).email = v.email
    OBVIOUS
  <2>2. v \in UserRow
    BY <2>1 DEF Users
  <2>3. Again(v) \in UserRow /\ Again(v).id = v.id /\ Again(v).email = v.email /\ Again(v).name = m.name
    BY <1>2, <2>1, <2>2 DEF UserRow
  <2> QED BY <2>1, <2>3 DEF Users
<1>6. PICK T : T = {v \in Users : v.email = m.email}
  OBVIOUS
<1>7. PICK known : known = FirstOf(Found(memUsers, T))
  OBVIOUS
<1>8. /\ memUsers \in Seq(Users) /\ pgUsers = ToSet(memUsers) /\ pgUsers \in SUBSET Users /\ (\A i \in DOMAIN memUsers : memUsers[i] \in pgUsers)
      /\ (\A u, v \in pgUsers : u.email = v.email \/ u.id = v.id => u = v) /\ Lockstep(pgUsers, memUsers, Users, "email")
  BY UsersFacts
<1>9. IF pgUsers \cap T = {} THEN known = NoRow ELSE known \in pgUsers \cap T
  <2>1. PICK places : places = {i \in DOMAIN memUsers : memUsers[i] \in T}
    OBVIOUS
  <2> QED BY <1>7, <1>8, <2>1, FirstFacts DEF Found
<1>10. FirstOf(Scan(memUsers, LAMBDA v : v.email = m.email)) = known
  <2>1. {i \in DOMAIN memUsers : memUsers[i].email = m.email} = {i \in DOMAIN memUsers : memUsers[i] \in T}
    BY <1>6, <1>8
  <2> QED BY <1>7, <2>1 DEF Scan, Found
<1>11. PICK new : new = IF known = NoRow THEN first ELSE Again(known)
  OBVIOUS
<1>12. PICK pg : pg = IF \E v \in pgUsers : v.email = m.email
                      THEN {IF v.email = m.email THEN Again(v) ELSE v : v \in pgUsers} ELSE pgUsers \cup {first}
  OBVIOUS
<1>13. WriteUsers(pg, Put(memUsers, "email", new), FALSE) /\ Silent
       /\ (m.id \notin {v.id : v \in pgUsers} \/ \E v \in pgUsers : v.id = m.id /\ v.email = m.email)
  <2>1. PgTeamUpsert(m, role) = pg
    BY <1>3, <1>12 DEF PgTeamUpsert, Update
  <2>2. MemUpsertProjection(m, role) = Put(memUsers, "email", new)
    BY <1>3, <1>10, <1>11 DEF MemUpsertProjection
  <2> QED BY <1>1, <1>2, <2>1, <2>2 DEF TeamUpsert
<1> HIDE DEF Again
<1>14. /\ Lockstep(pg, Put(memUsers, "email", new), Users, "email")
       /\ pg \in SUBSET Users /\ \A v, w \in pg : v.id = w.id => v = w
  <2>1. CASE \E v \in pgUsers : v.email = m.email
    <3>1. known \in pgUsers /\ known.email = m.email
      BY <1>6, <1>8, <1>9, <2>1
    <3>2. known # NoRow
      BY <1>8, <3>1 DEF NoRow, Users, UserRow
    <3>3. new = Again(known) /\ new \in Users /\ new.email = m.email /\ new.id = known.id
      BY <1>5, <1>11, <3>1, <3>2
    <3>4. pg = {x \in pgUsers : x.email # new.email} \cup {new}
      BY <1>8, <1>12, <2>1, <3>1, <3>3
    <3>5. {x \in pgUsers : x["email"] # new["email"]} = {x \in pgUsers : x.email # new.email}
      OBVIOUS
    <3>6. Lockstep({x \in pgUsers : x["email"] # new["email"]} \cup {new}, Put(memUsers, "email", new), Users, "email")
      BY <1>8, <3>3, LockPut
    <3>7. \A v, w \in pg : v.id = w.id => v = w
      BY <1>8, <3>1, <3>3, <3>4
    <3> QED BY <1>8, <3>3, <3>4, <3>5, <3>6, <3>7
  <2>2. CASE ~\E v \in pgUsers : v.email = m.email
    <3>1. known = NoRow
      BY <1>6, <1>9, <2>2
    <3>2. new = first /\ pg = pgUsers \cup {first}
      BY <1>11, <1>12, <2>2, <3>1
    <3>3. \A v \in pgUsers : v.email # first.email /\ v.id # first.id
      BY <1>4, <1>13, <2>2
    <3> QED BY <1>4, <3>2, <3>3, StoreUser
  <2> QED BY <2>1, <2>2
<1> QED BY <1>13, <1>14, UsersWritten

-----------------------------------------------------------------------------
(* Roles and their permissions.                                             *)

\* What is left alone when roles are written.
LEMMA RolesWritten ==
  ASSUME AccountsInv, ~accountRefused, NEW pg, NEW mem, NEW refused \in BOOLEAN,
         WriteRoles(pg, mem, refused), UNCHANGED <<pgGrants, memGrants>>,
         ~refused => Lockstep(pg, mem, Roles, "id") /\ pg \in SUBSET Roles /\ \A r, s \in pg : r.name = s.name => r = s
  PROVE  AccountsInv'
<1>1. /\ pgRoles' = (IF refused THEN pgRoles ELSE pg) /\ memRoles' = mem /\ accountRefused' = refused
      /\ accountAnswer' = <<0, 0>> /\ UNCHANGED <<pgUsers, memUsers, permVersions, pgGrants, memGrants>>
  BY DEF WriteRoles
<1>2. PgAccounts /\ SameAccounts
  BY DEF AccountsInv
<1>3. PgAccounts'
  BY <1>1, <1>2 DEF PgAccounts
<1>4. ~refused => SameAccounts'
  BY <1>1, <1>2 DEF SameAccounts, GrantsSame
<1>5. SameAnswer'
  BY <1>1 DEF SameAnswer
<1> QED BY <1>1, <1>3, <1>4, <1>5 DEF AccountsInv

\* The writes of roles and grants, one lemma each.
LEMMA InsertRoleKeeps ==
  ASSUME AccountsInv, ~accountRefused, NEW r \in RoleRows, InsertRole(r)
  PROVE  AccountsInv'
<1>0. PICK taken : taken = {s.name : s \in pgRoles}
  OBVIOUS
<1>1. PICK refused \in BOOLEAN : refused = (r.name \in taken)
  <2>1. PICK met : met = (r.name \in taken)
    OBVIOUS
  <2>2. met \in BOOLEAN
    BY <2>1
  <2> QED BY <2>1, <2>2
<1>2. /\ WriteRoles(pgRoles \cup {r}, Put(memRoles, "id", r), refused) /\ UNCHANGED <<pgGrants, memGrants>>
      /\ r.id \notin {s.id : s \in pgRoles}
  BY <1>0, <1>1 DEF InsertRole
<1>3. ASSUME ~refused
      PROVE  /\ Lockstep(pgRoles \cup {r}, Put(memRoles, "id", r), Roles, "id")
             /\ pgRoles \cup {r} \in SUBSET Roles /\ \A s, t \in pgRoles \cup {r} : s.name = t.name => s = t
  <2>1. /\ r \in Roles /\ Lockstep(pgRoles, memRoles, Roles, "id") /\ pgRoles \in SUBSET Roles
        /\ \A s, t \in pgRoles : s.name = t.name => s = t
    BY RowsKnown, UsersFacts
  <2>2. \A s \in pgRoles : s["id"] # r["id"] /\ s.name # r.name
    <3>1. \A s \in pgRoles : s.id # r.id /\ s.name # r.name
      BY <1>0, <1>1, <1>2, <1>3
    <3> QED BY <3>1
  <2>3. Put(memRoles, "id", r) = Append(memRoles, r) /\ Lockstep(pgRoles \cup {r}, Append(memRoles, r), Roles, "id")
    BY <2>1, <2>2, LockInsert
  <2> QED BY <2>1, <2>2, <2>3
<1> QED BY <1>2, <1>3, RolesWritten

LEMMA UpdateRoleKeeps ==
  ASSUME AccountsInv, ~accountRefused, NEW r \in RoleRows, UpdateRole(r)
  PROVE  AccountsInv'
<1>1. PICK refused \in BOOLEAN : refused = (\E s, t \in pgRoles : s.id = r.id /\ t.id # r.id /\ t.name = PgRenamed(s, r).name)
  OBVIOUS
<1>2. PICK pg, mem : /\ pg = {IF s.id = r.id THEN PgRenamed(s, r) ELSE s : s \in pgRoles}
                     /\ mem = [i \in DOMAIN memRoles |-> IF memRoles[i].id = r.id THEN MemRenamed(memRoles[i], r) ELSE memRoles[i]]
  OBVIOUS
<1>3. WriteRoles(pg, mem, refused) /\ UNCHANGED <<pgGrants, memGrants>>
  BY <1>1, <1>2 DEF UpdateRole, Update, Rewrite
<1>4. PICK old \in pgRoles : old.id = r.id /\ old.is_system = r.is_system
  BY DEF UpdateRole
<1>5. /\ Lockstep(pgRoles, memRoles, Roles, "id") /\ pgRoles \in SUBSET Roles /\ (\A i \in DOMAIN memRoles : memRoles[i] \in pgRoles)
      /\ \A s, t \in pgRoles : s.id = t.id \/ s.name = t.name => s = t
  BY UsersFacts
<1>6. r \in RoleRow /\ r.name \in ToSet(Names)
  BY RowsKnown DEF Roles
<1>7. PICK G : G = [s \in Roles |-> IF s.id = r.id THEN PgRenamed(s, r) ELSE s]
  OBVIOUS
<1>8. \A s \in Roles : PgRenamed(s, r) \in Roles /\ PgRenamed(s, r).id = s.id
  <2> SUFFICES ASSUME NEW s \in Roles PROVE PgRenamed(s, r) \in Roles /\ PgRenamed(s, r).id = s.id
    OBVIOUS
  <2>1. s \in RoleRow /\ s.name \in ToSet(Names)
    BY DEF Roles
  <2>2. PICK n : n = IF s.is_system THEN s.name ELSE r.name
    OBVIOUS
  <2>3. n \in STRING /\ n \in ToSet(Names)
    BY <1>6, <2>1, <2>2 DEF RoleRow
  <2>4. PgRenamed(s, r) = [s EXCEPT !.name = n, !.description = r.description]
    BY <2>2 DEF PgRenamed
  <2>5. PgRenamed(s, r) \in RoleRow /\ PgRenamed(s, r).id = s.id /\ PgRenamed(s, r).name = n
    BY <1>6, <2>1, <2>3, <2>4 DEF RoleRow
  <2> QED BY <2>3, <2>5 DEF Roles
<1>9. \A s \in pgRoles : s.id = r.id => MemRenamed(s, r) = PgRenamed(s, r)
  <2> SUFFICES ASSUME NEW s \in pgRoles, s.id = r.id PROVE MemRenamed(s, r) = PgRenamed(s, r)
    OBVIOUS
  <2>1. s = old /\ s \in RoleRow
    BY <1>4, <1>5 DEF Roles
  <2>2. PICK n : n = IF s.is_system THEN s.name ELSE r.name
    OBVIOUS
  <2>3. PICK a, b : a = PgRenamed(s, r) /\ b = MemRenamed(s, r)
    OBVIOUS
  <2>4. a = [s EXCEPT !.name = n, !.description = r.description] /\ b = [r EXCEPT !.name = n]
    BY <2>2, <2>3 DEF PgRenamed, MemRenamed
  <2>5. n \in STRING
    BY <1>6, <2>1, <2>2 DEF RoleRow
  <2>6. a \in RoleRow /\ a.id = s.id /\ a.name = n /\ a.description = r.description /\ a.is_system = s.is_system
    BY <1>6, <2>1, <2>4, <2>5 DEF RoleRow
  <2>7. b \in RoleRow /\ b.id = r.id /\ b.name = n /\ b.description = r.description /\ b.is_system = r.is_system
    BY <1>6, <2>4, <2>5 DEF RoleRow
  <2>8. a = b
    BY <1>4, <2>1, <2>6, <2>7 DEF RoleRow
  <2> QED BY <2>3, <2>8
<1>10. G \in [Roles -> Roles] /\ \A s \in Roles : G[s]["id"] = s["id"] /\ G[s] = IF s.id = r.id THEN PgRenamed(s, r) ELSE s
  BY <1>7, <1>8
<1>11. pg = {G[s] : s \in pgRoles} /\ mem = [i \in DOMAIN memRoles |-> G[memRoles[i]]]
  BY <1>2, <1>5, <1>9, <1>10
<1>12. Lockstep(pg, mem, Roles, "id") /\ pg \in SUBSET Roles
  <2>1. Lockstep({G[x] : x \in pgRoles}, [i \in DOMAIN memRoles |-> G[memRoles[i]]], Roles, "id")
    BY <1>5, <1>10, LockRewrite
  <2> QED BY <1>5, <1>10, <1>11, <2>1
<1>13. ASSUME ~refused PROVE \A s, t \in pg : s.name = t.name => s = t
  <2> SUFFICES ASSUME NEW a \in pgRoles, NEW b \in pgRoles, G[a].name = G[b].name PROVE G[a] = G[b]
    BY <1>11
  <2>1. G[a] = (IF a.id = r.id THEN PgRenamed(a, r) ELSE a) /\ G[b] = (IF b.id = r.id THEN PgRenamed(b, r) ELSE b)
    BY <1>5, <1>10
  <2>2. CASE a.id = r.id /\ b.id = r.id
    BY <1>5, <2>2
  <2>3. CASE a.id = r.id /\ b.id # r.id
    BY <1>1, <1>13, <2>1, <2>3
  <2>4. CASE a.id # r.id /\ b.id = r.id
    BY <1>1, <1>13, <2>1, <2>4
  <2>5. CASE a.id # r.id /\ b.id # r.id
    BY <1>5, <2>1, <2>5
  <2> QED BY <2>2, <2>3, <2>4, <2>5
<1> QED BY <1>3, <1>12, <1>13, RolesWritten

LEMMA DeleteRoleKeeps ==
  ASSUME AccountsInv, ~accountRefused, NEW id, DeleteRole(id)
  PROVE  AccountsInv'
<1>0. PICK held : held = {v.role : v \in pgUsers}
  OBVIOUS
<1>1. PICK refused \in BOOLEAN : refused = (id \in held)
  <2>1. PICK met : met = (id \in held)
    OBVIOUS
  <2>2. met \in BOOLEAN
    BY <2>1
  <2> QED BY <2>1, <2>2
<1>2. PICK pg, mem : pg = {r \in pgRoles : r.id # id} /\ mem = EntriesAt(memRoles, {i \in DOMAIN memRoles : memRoles[i].id # id})
  OBVIOUS
<1>3. WriteRoles(pg, mem, refused) /\ UNCHANGED memGrants
  BY <1>0, <1>1, <1>2 DEF DeleteRole, Scan
<1>4. pgGrants' = pgGrants
  <2>1. pgGrants \in SUBSET (RoleIds \X Grants) /\ ~\E g \in Grants : <<id, g>> \in pgGrants
    BY DEF AccountsInv, PgAccounts, DeleteRole
  <2>2. {p \in pgGrants : p[1] # id} = pgGrants
    BY <2>1
  <2> QED BY <2>2 DEF DeleteRole
<1>5. /\ Lockstep(pgRoles, memRoles, Roles, "id") /\ pgRoles \in SUBSET Roles /\ (\A i \in DOMAIN memRoles : memRoles[i] \in pgRoles)
      /\ \A s, t \in pgRoles : s.name = t.name => s = t
  BY UsersFacts
<1>6. PICK T : T = {r \in Roles : r.id # id}
  OBVIOUS
<1>7. pg = pgRoles \cap T /\ mem = Found(memRoles, T)
  <2>1. {i \in DOMAIN memRoles : memRoles[i].id # id} = {i \in DOMAIN memRoles : memRoles[i] \in T}
    BY <1>5, <1>6
  <2> QED BY <1>2, <1>5, <1>6, <2>1 DEF Found
<1>8. Lockstep(pg, mem, Roles, "id")
  BY <1>5, <1>7, LockFilter
<1>9. pg \in SUBSET Roles /\ \A s, t \in pg : s.name = t.name => s = t
  BY <1>5, <1>7
<1>10. UNCHANGED <<pgGrants, memGrants>>
  BY <1>3, <1>4
<1> QED BY <1>3, <1>8, <1>9, <1>10, RolesWritten

LEMMA SetForRoleKeeps ==
  ASSUME AccountsInv, ~accountRefused, NEW id \in RoleIds, NEW keys \in SUBSET Grants, SetForRole(id, keys)
  PROVE  AccountsInv'
<1>1. PICK refused \in BOOLEAN : refused = (keys # {} /\ id \notin {r.id : r \in pgRoles})
  OBVIOUS
<1>2. /\ pgGrants' = (IF refused THEN pgGrants ELSE {p \in pgGrants : p[1] # id} \cup ({id} \X keys))
      /\ memGrants' = [i \in DOMAIN memGrants \cup {id} |-> IF i = id THEN keys ELSE memGrants[i]]
      /\ accountRefused' = refused /\ accountAnswer' = <<0, 0>>
      /\ UNCHANGED <<pgUsers, pgRoles, memUsers, memRoles, permVersions>>
  BY <1>1 DEF SetForRole, Silent
<1>3. PgAccounts /\ SameAccounts /\ GrantsSame
  BY DEF AccountsInv, SameAccounts
<1>4. pgGrants' \in SUBSET (RoleIds \X Grants)
  BY <1>2, <1>3 DEF PgAccounts
<1>5. PgAccounts'
  BY <1>2, <1>3, <1>4 DEF PgAccounts
<1>6. ASSUME ~refused PROVE GrantsSame'
  <2>1. PICK D : D = DOMAIN memGrants
    OBVIOUS
  <2>2. D \in SUBSET RoleIds /\ (\A i \in D : memGrants[i] \in SUBSET Grants)
        /\ pgGrants = {p \in RoleIds \X Grants : p[1] \in D /\ p[2] \in memGrants[p[1]]}
    BY <1>3, <2>1 DEF GrantsSame
  <2>3. DOMAIN memGrants' = D \cup {id} /\ memGrants'[id] = keys /\ \A i \in D : i # id => memGrants'[i] = memGrants[i]
    BY <1>2, <2>1
  <2>4. pgGrants' = {p \in pgGrants : p[1] # id} \cup ({id} \X keys)
    BY <1>2, <1>6
  <2>5. \A p \in RoleIds \X Grants : p \in pgGrants' <=> p[1] \in DOMAIN memGrants' /\ p[2] \in memGrants'[p[1]]
    <3> SUFFICES ASSUME NEW p \in RoleIds \X Grants
                 PROVE  p \in pgGrants' <=> p[1] \in DOMAIN memGrants' /\ p[2] \in memGrants'[p[1]]
      OBVIOUS
    <3>1. CASE p[1] = id
      BY <2>3, <2>4, <3>1
    <3>2. CASE p[1] # id
      BY <2>2, <2>3, <2>4, <3>2
    <3> QED BY <3>1, <3>2
  <2>6. DOMAIN memGrants' \in SUBSET RoleIds /\ \A i \in DOMAIN memGrants' : memGrants'[i] \in SUBSET Grants
    BY <2>2, <2>3
  <2>7. pgGrants' = {p \in RoleIds \X Grants : p[1] \in DOMAIN memGrants' /\ p[2] \in memGrants'[p[1]]}
    BY <1>4, <2>5
  <2> QED BY <2>6, <2>7 DEF GrantsSame
<1>7. ~refused => SameAccounts'
  BY <1>2, <1>3, <1>6 DEF SameAccounts
<1>8. SameAnswer'
  BY <1>2 DEF SameAnswer
<1> QED BY <1>2, <1>5, <1>7, <1>8 DEF AccountsInv

LEMMA BumpPermVersionKeeps ==
  ASSUME AccountsInv, ~accountRefused, BumpPermVersion
  PROVE  AccountsInv'
<1>1. permVersions \in (0..MaxCount) \X (0..MaxCount) /\ permVersions[1] = permVersions[2] /\ permVersions[1] < MaxCount
  BY SpentFacts DEF AccountsInv, PgAccounts, BumpPermVersion
<1>2. PICK k \in 0..MaxCount : k = permVersions[1] + 1
  BY <1>1, AccountTablesAssumption
<1>3. permVersions' = <<k, k>> /\ accountAnswer' = <<k, k>>
  BY <1>1, <1>2 DEF BumpPermVersion
<1>4. UNCHANGED <<pgUsers, pgRoles, pgGrants, memUsers, memRoles, memGrants, accountRefused>>
  BY DEF BumpPermVersion
<1> QED BY <1>3, <1>4 DEF AccountsInv, PgAccounts, SameAccounts, GrantsSame, SameAnswer

-----------------------------------------------------------------------------
LEMMA AccountsStep == AccountsInv /\ [AccountTablesNext]_accountTableVars => AccountsInv'
<1> SUFFICES ASSUME AccountsInv, [AccountTablesNext]_accountTableVars PROVE AccountsInv'
  OBVIOUS
<1>1. CASE UNCHANGED accountTableVars
  BY <1>1 DEF AccountsInv, PgAccounts, SameAccounts, GrantsSame, SameAnswer, accountTableVars
<1>2. CASE AccountTablesNext
  <2>0. ~accountRefused
    BY <1>2 DEF AccountTablesNext
  <2>1. CASE \E u \in UserRows : InsertUser(u) \/ \E name \in TeamRoles : TeamUpsert(u, name)
    BY <2>0, <2>1, InsertUserKeeps, TeamUpsertKeeps
  <2>2. CASE \E id \in UserIds : \/ \E role \in RoleIds : SetUserRole(id, role)
                                 \/ SetUserStatus(id, "disabled") \/ UpdatePasswordHash(id) \/ SetLock(id, 1)
                                 \/ RecordLogin(id) \/ BumpTokenVersion(id) \/ CountFailedLogin(id)
    <3>1. PICK id \in UserIds : \/ \E role \in RoleIds : SetUserRole(id, role)
                                \/ SetUserStatus(id, "disabled") \/ UpdatePasswordHash(id) \/ SetLock(id, 1)
                                \/ RecordLogin(id) \/ BumpTokenVersion(id) \/ CountFailedLogin(id)
      BY <2>2
    <3>2. "disabled" \in UserStatuses
      BY DEF UserStatuses
    <3>3. 1 \in 0..1
      OBVIOUS
    <3> QED BY <2>0, <3>1, <3>2, <3>3, SetUserRoleKeeps, SetUserStatusKeeps, UpdatePasswordHashKeeps, SetLockKeeps, RecordLoginKeeps,
               BumpTokenVersionKeeps, CountFailedLoginKeeps
  <2>3. CASE \E r \in RoleRows : InsertRole(r) \/ UpdateRole(r)
    BY <2>0, <2>3, InsertRoleKeeps, UpdateRoleKeeps
  <2>4. CASE \E id \in RoleIds : DeleteRole(id) \/ \E keys \in SUBSET Grants : SetForRole(id, keys)
    BY <2>0, <2>4, DeleteRoleKeeps, SetForRoleKeeps
  <2>5. CASE BumpPermVersion
    BY <2>0, <2>5, BumpPermVersionKeeps
  <2> QED BY <1>2, <2>1, <2>2, <2>3, <2>4, <2>5 DEF AccountTablesNext
<1> QED BY <1>1, <1>2

\* After any writes the constraints accept, both adapters hold the same accounts.
THEOREM AccountsInvariant == AccountTablesSpec => []AccountsInv
<1>1. AccountTablesInit => AccountsInv
  BY AccountsStart
<1>2. AccountsInv /\ [AccountTablesNext]_accountTableVars => AccountsInv'
  BY AccountsStep
<1> QED BY <1>1, <1>2, PTL DEF AccountTablesSpec

\* The tables and the Maps keep their types.
LEMMA AccountsTypeFollows == AccountsInv => AccountTablesTypeOK
<1> SUFFICES ASSUME AccountsInv PROVE AccountTablesTypeOK
  OBVIOUS
<1>1. pgUsers \in SUBSET Users /\ pgRoles \in SUBSET Roles /\ pgGrants \subseteq RoleIds \X Grants /\ permVersions \in (0..MaxCount) \X (0..MaxCount)
  BY DEF AccountsInv, PgAccounts
<1>2. ASSUME ~accountRefused PROVE Len(memUsers) = Cardinality(pgUsers) /\ Len(memRoles) = Cardinality(pgRoles)
  <2>1. Lockstep(pgUsers, memUsers, Users, "email") /\ Lockstep(pgRoles, memRoles, Roles, "id")
    BY <1>2, UsersFacts
  <2>2. Len(memUsers) = Cardinality(pgUsers)
    BY <2>1, LockFacts
  <2>3. Len(memRoles) = Cardinality(pgRoles)
    BY <2>1, LockFacts
  <2> QED BY <2>2, <2>3
<1> QED BY <1>1, <1>2 DEF AccountTablesTypeOK, Users, Roles

ByNames(S) == {p \in S \X S : ByName(p[1], p[2])}

\* By name and then by id leaves no two rows tied,
LEMMA ByNamesOrders ==
  ASSUME NEW S, \A a \in S : a.name \in ToSet(Names) /\ a.id \in Nat, \A a, b \in S : a.id = b.id => a = b
  PROVE  Orders(ByNames(S), S)
<1>1. \A a \in S : Place(a.name) \in Nat /\ Names[Place(a.name)] = a.name
  <2> SUFFICES ASSUME NEW a \in S PROVE Place(a.name) \in Nat /\ Names[Place(a.name)] = a.name
    OBVIOUS
  <2>1. \E i \in DOMAIN Names : Names[i] = a.name
    BY DEF ToSet
  <2>2. Place(a.name) \in DOMAIN Names /\ Names[Place(a.name)] = a.name
    BY <2>1 DEF Place
  <2>3. \A i \in DOMAIN Names : i \in Nat
    BY AccountTablesAssumption
  <2> QED BY <2>2, <2>3
<1>2. \A a, b \in S : <<a, b>> \in ByNames(S) <=> ByName(a, b)
  BY DEF ByNames
<1>3. \A a \in S : ~ByName(a, a)
  BY <1>1 DEF ByName
<1>4. \A a, b \in S : a # b => ByName(a, b) \/ ByName(b, a)
  <2> SUFFICES ASSUME NEW a \in S, NEW b \in S, a # b PROVE ByName(a, b) \/ ByName(b, a)
    OBVIOUS
  <2>1. Place(a.name) \in Nat /\ Place(b.name) \in Nat /\ (Place(a.name) = Place(b.name) => a.name = b.name)
    BY <1>1
  <2>2. a.id \in Nat /\ b.id \in Nat /\ a.id # b.id
    OBVIOUS
  <2> QED BY <2>1, <2>2 DEF ByName
<1>5. \A a, b, c \in S : ByName(a, b) /\ ByName(b, c) => ByName(a, c)
  <2> SUFFICES ASSUME NEW a \in S, NEW b \in S, NEW c \in S, ByName(a, b), ByName(b, c) PROVE ByName(a, c)
    OBVIOUS
  <2>1. /\ Place(a.name) \in Nat /\ Place(b.name) \in Nat /\ Place(c.name) \in Nat
        /\ a.id \in Nat /\ b.id \in Nat /\ c.id \in Nat
    BY <1>1
  <2> QED BY <2>1 DEF ByName
<1> QED BY <1>2, <1>3, <1>4, <1>5 DEF Orders

\* so both adapters sort alike,
LEMMA NamesSorted ==
  ASSUME NEW X, NEW s \in Seq(X), Distinct(s), NEW S, S = ToSet(s), S \in SUBSET X,
         \A a \in S : a.name \in ToSet(Names) /\ a.id \in Nat, \A a, b \in S : a.id = b.id => a = b
  PROVE  InOrder(S, ByName) = StableSort(s, ByName)
<1>1. Orders(ByNames(S), S)
  BY ByNamesOrders
<1>2. Sorted(s, ByNames(S)) = Arranged(S, ByNames(S))
  BY <1>1, SortedFacts
<1>3. StableSort(s, ByName) = Sorted(s, ByNames(S))
  <2>1. \A i, j \in DOMAIN s : <<s[i], s[j]>> \in ByNames(S) <=> ByName(s[i], s[j])
    BY DEF ByNames, ToSet
  <2>2. {p \in (DOMAIN s) \X (DOMAIN s) : ByName(s[p[1]], s[p[2]]) \/ (~ByName(s[p[2]], s[p[1]]) /\ p[1] < p[2])}
          = Places(s, ByNames(S))
    BY <2>1 DEF Places
  <2> QED BY <2>2 DEF StableSort, Sorted
<1>4. InOrder(S, ByName) = Arranged(S, ByNames(S))
  BY DEF InOrder, ByNames
<1> QED BY <1>2, <1>3, <1>4

\* users as well as roles.
LEMMA ListsAgree ==
  ASSUME AccountsInv, ~accountRefused
  PROVE  PgListUsers = MemListUsers /\ PgListRoles = MemListRoles
<1>1. /\ pgUsers \in SUBSET Users /\ pgUsers = ToSet(memUsers) /\ memUsers \in Seq(Users) /\ Distinct(memUsers)
      /\ \A u, v \in pgUsers : u.id = v.id => u = v
  BY UsersFacts
<1>2. /\ pgRoles \in SUBSET Roles /\ pgRoles = ToSet(memRoles) /\ memRoles \in Seq(Roles) /\ Distinct(memRoles)
      /\ \A r, s \in pgRoles : r.id = s.id => r = s
  BY UsersFacts
<1>3. \A u \in pgUsers : u.name \in ToSet(Names) /\ u.id \in Nat
  BY <1>1, RowsKnown DEF Users, UserRow
<1>4. \A r \in pgRoles : r.name \in ToSet(Names) /\ r.id \in Nat
  BY <1>2, RowsKnown DEF Roles, RoleRow
<1>5. PgListUsers = MemListUsers
  BY <1>1, <1>3, NamesSorted DEF PgListUsers, MemListUsers
<1>6. PgListRoles = MemListRoles
  BY <1>2, <1>4, NamesSorted DEF PgListRoles, MemListRoles
<1> QED BY <1>5, <1>6

-----------------------------------------------------------------------------
\* One pass over the users.
HolderCountStep(role, v, r) == IF r.role = role THEN v + 1 ELSE v
HolderCount(s, role) == FoldLeft(LAMBDA v, r : IF r.role = role THEN v + 1 ELSE v, 0, s)
HolderCountTable(c, s, role) ==
  c = [t \in SUBSET (DOMAIN s) |-> IF t = {} THEN 0 ELSE HolderCountStep(role, c[t \ {Max(t)}], s[Max(t)])]

\* The loop over the users is a fold, the choice of its table,
LEMMA HolderCountForm ==
  ASSUME NEW s, NEW role
  PROVE  HolderCount(s, role) = LET c == CHOOSE c : HolderCountTable(c, s, role) IN c[DOMAIN s]
BY DEF HolderCount, HolderCountTable, HolderCountStep, FoldLeft, MapThenFoldSet

\* and can be followed row by row.
LEMMA HolderCountRuns ==
  ASSUME NEW s \in Seq(Users), NEW role
  PROVE  \E run \in [0..Len(s) -> Nat] :
           /\ run[0] = 0 /\ run[Len(s)] = HolderCount(s, role)
           /\ \A m \in 0..(Len(s) - 1) : run[m + 1] = HolderCountStep(role, run[m], s[m + 1])
<1> DEFINE D == DOMAIN s
           g == [p \in (Nat) \X Users |-> HolderCountStep(role, p[1], p[2])]
           c == CHOOSE c : HolderCountTable(c, s, role)
<1>1. Folding(Users, s, Nat, 0, g) /\ \A v \in Nat, r \in Users : g[<<v, r>>] = HolderCountStep(role, v, r)
  <2>1. 0 \in Nat /\ \A v \in Nat, r \in Users : HolderCountStep(role, v, r) \in Nat
    BY DEF HolderCountStep
  <2>2. g \in [(Nat) \X Users -> Nat] /\ \A v \in Nat, r \in Users : g[<<v, r>>] = HolderCountStep(role, v, r)
    BY <2>1
  <2> HIDE DEF g
  <2> QED BY <2>1, <2>2 DEF Folding
<1> HIDE DEF g
<1>2. PICK h : FoldOf(h, Nat, 0, g, s)
  BY <1>1, FoldExists
<1>3. \A t \in SUBSET D : t # {} => s[Max(t)] \in Users /\ t \ {Max(t)} \in SUBSET D
  BY <1>1, FoldExists
<1>4. HolderCountTable(h, s, role)
  <2>1. h \in [SUBSET D -> Nat] /\ \A t \in SUBSET D : h[t] = IF t = {} THEN 0 ELSE g[<<h[t \ {Max(t)}], s[Max(t)]>>]
    BY <1>2 DEF FoldOf
  <2> HIDE DEF D
  <2>2. \A t \in SUBSET D : h[t] = IF t = {} THEN 0 ELSE HolderCountStep(role, h[t \ {Max(t)}], s[Max(t)])
    BY <1>1, <1>3, <2>1
  <2> QED BY <2>1, <2>2 DEF HolderCountTable, D
<1>5. HolderCountTable(c, s, role)
  BY <1>4
<1>6. HolderCount(s, role) = c[D]
  BY HolderCountForm
<1> HIDE DEF c
<1>7. FoldsTo(c, Nat, 0, g, s)
  <2>1. \A t \in SUBSET D : c[t] = IF t = {} THEN 0 ELSE HolderCountStep(role, c[t \ {Max(t)}], s[Max(t)])
    BY <1>5 DEF HolderCountTable
  <2> HIDE DEF D
  <2> QED BY <1>1, <1>3, <2>1 DEF FoldsTo, D
<1>8. PICK run : RunOf(run, Nat, 0, g, s) /\ run[Len(s)] = c[D]
  BY <1>1, <1>7, FoldRuns
<1>9. \A m \in 0..(Len(s) - 1) : run[m] \in Nat /\ s[m + 1] \in Users
  <2>1. Len(s) \in Nat /\ \A m \in 0..(Len(s) - 1) : s[m + 1] \in Users
    OBVIOUS
  <2>2. \A m \in 0..(Len(s) - 1) : m \in 0..Len(s)
    BY <2>1
  <2> QED BY <1>8, <2>1, <2>2 DEF RunOf
<1> HIDE DEF D
<1> QED BY <1>1, <1>6, <1>8, <1>9 DEF RunOf

HoldersOf(role) == {v \in Users : v.role = role}

\* It counts those who hold the role.
LEMMA HoldersAre ==
  ASSUME NEW s \in Seq(Users), Distinct(s), NEW role
  PROVE  HolderCount(s, role) = Cardinality(ToSet(s) \cap HoldersOf(role))
<1>1. PICK n \in Nat : n = Len(s) /\ \A i \in 1..n : s[i] \in Users
  OBVIOUS
<1>2. PICK run \in [0..n -> Nat] :
        /\ run[0] = 0 /\ run[n] = HolderCount(s, role)
        /\ \A m \in 0..(n - 1) : run[m + 1] = HolderCountStep(role, run[m], s[m + 1])
  <2>1. PICK run \in [0..Len(s) -> Nat] :
           /\ run[0] = 0 /\ run[Len(s)] = HolderCount(s, role)
           /\ \A m \in 0..(Len(s) - 1) : run[m + 1] = HolderCountStep(role, run[m], s[m + 1])
    BY HolderCountRuns
  <2> QED BY <1>1, <2>1
<1> DEFINE T == HoldersOf(role)
           S == {m \in 0..n : run[m] = Cardinality(Upto(s, m) \cap T)}
<1>3. 0 \in S
  <2>1. Upto(s, 0) \cap T = {}
    BY UptoFacts
  <2>2. Cardinality(Upto(s, 0) \cap T) = 0
    BY <2>1, FS_EmptySet
  <2> QED BY <1>2, <2>2
<1>4. ASSUME NEW m \in 0..(n - 1), m \in S PROVE m + 1 \in S
  <2>1. PICK r \in Users : r = s[m + 1]
    BY <1>1
  <2>2. run[m] = Cardinality(Upto(s, m) \cap T) /\ run[m + 1] = HolderCountStep(role, run[m], r) /\ run[m] \in Nat
    BY <1>2, <1>4, <2>1
  <2>3. Cardinality(Upto(s, m + 1) \cap T) = Cardinality(Upto(s, m) \cap T) + (IF r \in T THEN 1 ELSE 0)
    <3>1. m \in 0..(Len(s) - 1)
      BY <1>1
    <3> QED BY <2>1, <3>1, CountGrows
  <2>4. r \in T <=> r.role = role
    BY DEF HoldersOf
  <2>5. run[m + 1] = run[m] + (IF r \in T THEN 1 ELSE 0)
    BY <2>2, <2>4 DEF HolderCountStep
  <2>6. m + 1 \in 0..n
    OBVIOUS
  <2> QED BY <2>2, <2>3, <2>5, <2>6
<1>5. n \in S
  <2>1. S \in SUBSET (0..n)
    OBVIOUS
  <2> HIDE DEF S
  <2> QED BY <1>3, <1>4, <2>1, Steps
<1>6. Upto(s, n) = ToSet(s)
  BY <1>1, UptoFacts
<1> QED BY <1>2, <1>5, <1>6

\* They are as many in Postgres.
LEMMA HoldersAgree ==
  ASSUME AccountsInv, ~accountRefused, NEW role
  PROVE  PgCountUsers(role) = MemCountUsers(role)
<1>1. pgUsers \in SUBSET Users /\ pgUsers = ToSet(memUsers) /\ memUsers \in Seq(Users) /\ Distinct(memUsers)
  BY UsersFacts
<1>2. MemCountUsers(role) = HolderCount(memUsers, role)
  BY DEF MemCountUsers, HolderCount
<1>3. {v \in pgUsers : v.role = role} = ToSet(memUsers) \cap HoldersOf(role)
  BY <1>1 DEF HoldersOf
<1> QED BY <1>1, <1>2, <1>3, HoldersAre DEF PgCountUsers, Select

-----------------------------------------------------------------------------
\* One role for an id is found alike.
LEMMA RolesAlike ==
  ASSUME AccountsInv, ~accountRefused, NEW id
  PROVE  LET one == One({r \in pgRoles : r.id = id})
         IN  /\ one = FirstOf(EntriesAt(memRoles, {i \in DOMAIN memRoles : memRoles[i].id = id}))
             /\ one # NoRow => one \in pgRoles /\ one.id = id
<1>1. PICK T : T = {r \in Roles : r.id = id}
  OBVIOUS
<1>2. /\ memRoles \in Seq(Roles) /\ pgRoles = ToSet(memRoles) /\ pgRoles \in SUBSET Roles /\ \A i \in DOMAIN memRoles : memRoles[i] \in pgRoles
      /\ \A r, s \in pgRoles : r.id = s.id => r = s
  BY UsersFacts
<1>3. \A x, y \in ToSet(memRoles) \cap T : x = y
  BY <1>1, <1>2
<1>4. /\ One(ToSet(memRoles) \cap T) = FirstOf(Found(memRoles, T))
      /\ IF ToSet(memRoles) \cap T = {} THEN One(ToSet(memRoles) \cap T) = NoRow ELSE One(ToSet(memRoles) \cap T) \in ToSet(memRoles) \cap T
  BY <1>2, <1>3, FoundOne
<1>5. {r \in pgRoles : r.id = id} = ToSet(memRoles) \cap T
  BY <1>1, <1>2
<1>6. {i \in DOMAIN memRoles : memRoles[i].id = id} = {i \in DOMAIN memRoles : memRoles[i] \in T}
  BY <1>1, <1>2
<1> QED BY <1>1, <1>2, <1>4, <1>5, <1>6 DEF Found

\* Grants are the same pairs.
LEMMA GrantsAgree ==
  ASSUME AccountsInv, ~accountRefused
  PROVE  MemListGrants = pgGrants /\ \A id : id \in RoleIds => PgPermissionsForRole(id) = MemPermissionsForRole(id)
<1>1. /\ DOMAIN memGrants \in SUBSET RoleIds /\ \A i \in DOMAIN memGrants : memGrants[i] \in SUBSET Grants
      /\ pgGrants = {p \in RoleIds \X Grants : p[1] \in DOMAIN memGrants /\ p[2] \in memGrants[p[1]]}
  BY UsersFacts DEF GrantsSame
<1>2. ASSUME NEW id \in RoleIds PROVE PgPermissionsForRole(id) = MemPermissionsForRole(id)
  <2>1. \A g \in Grants : <<id, g>> \in pgGrants <=> id \in DOMAIN memGrants /\ g \in memGrants[id]
    BY <1>1
  <2>2. CASE id \in DOMAIN memGrants
    BY <1>1, <2>1, <2>2 DEF PgPermissionsForRole, MemPermissionsForRole
  <2>3. CASE id \notin DOMAIN memGrants
    BY <2>1, <2>3 DEF PgPermissionsForRole, MemPermissionsForRole
  <2> QED BY <2>2, <2>3
<1>3. MemListGrants \subseteq pgGrants
  <2> SUFFICES ASSUME NEW i \in DOMAIN memGrants, NEW p \in {i} \X memGrants[i] PROVE p \in pgGrants
    BY DEF MemListGrants
  <2> QED BY <1>1
<1>4. pgGrants \subseteq MemListGrants
  <2> SUFFICES ASSUME NEW p \in pgGrants PROVE \E i \in DOMAIN memGrants : p \in {i} \X memGrants[i]
    BY DEF MemListGrants
  <2> QED BY <1>1
<1> QED BY <1>2, <1>3, <1>4

\* A token minted from either adapter carries the same claims.
LEMMA ClaimsAgree ==
  ASSUME AccountsInv, ~accountRefused, NEW id \in RoleIds
  PROVE  PgClaimInputs(id) = MemClaimInputs(id)
<1>1. permVersions[1] = permVersions[2]
  BY DEF AccountsInv, PgAccounts
<1>2. PgPermissionsForRole(id) = MemPermissionsForRole(id)
  BY GrantsAgree
<1>3. One({r \in pgRoles : r.id = id}) = FirstOf(EntriesAt(memRoles, {i \in DOMAIN memRoles : memRoles[i].id = id}))
  BY RolesAlike
<1> QED BY <1>1, <1>2, <1>3 DEF PgClaimInputs, MemClaimInputs, Select, Scan

\* The team view is the same, or the double throws on a custom role.
LEMMA ProjectionsAgree ==
  ASSUME AccountsInv, ~accountRefused, NEW v
  PROVE  \/ MemProject(v) = PgProject(v)
         \/ MemProject(v) = "throws" /\ \E r \in pgRoles : r.id = v.role /\ r.name \notin TeamRoles
<1>1. PICK id, role : id = v.role /\ role = One({r \in pgRoles : r.id = id})
  OBVIOUS
<1>2. /\ role = FirstOf(EntriesAt(memRoles, {i \in DOMAIN memRoles : memRoles[i].id = id}))
      /\ role # NoRow => role \in pgRoles /\ role.id = v.role
  BY <1>1, RolesAlike
<1>3. PgProject(v) = IF role # NoRow /\ role.name = "admin" THEN "admin" ELSE "reviewer"
  BY <1>1 DEF PgProject, Select
<1>4. PICK name : name = IF role = NoRow THEN "reviewer" ELSE role.name
  OBVIOUS
<1>5. MemProject(v) = IF name \in TeamRoles THEN name ELSE "throws"
  BY <1>1, <1>2, <1>4 DEF MemProject, Scan
<1>6. CASE name \in TeamRoles
  BY <1>3, <1>4, <1>5, <1>6 DEF TeamRoles
<1>7. CASE name \notin TeamRoles
  <2>1. role # NoRow /\ name = role.name
    BY <1>4, <1>7 DEF TeamRoles
  <2> QED BY <1>2, <1>5, <1>7, <2>1
<1> QED BY <1>6, <1>7

\* In lockstep the accounts read alike.
LEMMA AccountsFollow == AccountsInv => AccountsAgree
<1> SUFFICES ASSUME AccountsInv, ~accountRefused PROVE AccountsAgree
  BY DEF AccountsAgree
<1>1. SameAnswer
  BY DEF AccountsInv
<1>2. \A id : PgFind(id) = MemFind(id)
  <2>1. Lockstep(pgUsers, memUsers, Users, "email") /\ \A u, v \in pgUsers : u.id = v.id => u = v
    BY UsersFacts
  <2> SUFFICES ASSUME NEW id PROVE PgFind(id) = MemFind(id)
    OBVIOUS
  <2>2. PICK pg, mem : pg = pgUsers /\ mem = memUsers
    OBVIOUS
  <2>3. Lockstep(pg, mem, Users, "email") /\ \A u, v \in pg : u.id = v.id => u = v
    BY <2>1, <2>2
  <2>4. One({v \in pg : v.id = id}) = FirstOf(EntriesAt(mem, {i \in DOMAIN mem : mem[i].id = id}))
    BY <2>3, FindsAlike
  <2> QED BY <2>2, <2>4 DEF PgFind, MemFind, Select, Scan
<1>3. \A id \in RoleIds : PgClaimInputs(id) = MemClaimInputs(id) /\ PgCountUsers(id) = MemCountUsers(id)
  BY ClaimsAgree, HoldersAgree
<1>4. MemListGrants = pgGrants /\ PgListUsers = MemListUsers /\ PgListRoles = MemListRoles
  BY GrantsAgree, ListsAgree
<1>5. \A v \in pgUsers : \/ MemProject(v) = PgProject(v)
                         \/ MemProject(v) = "throws" /\ \E r \in pgRoles : r.id = v.role /\ r.name \notin TeamRoles
  BY ProjectionsAgree
<1> QED BY <1>1, <1>2, <1>3, <1>4, <1>5 DEF AccountsAgree, SameAnswer

\* Accounts, roles and claims read alike from both adapters.
THEOREM AccountReadsHold == AccountTablesSpec => []AccountsAgree
<1>1. AccountTablesSpec => []AccountsInv
  BY AccountsInvariant
<1> QED BY <1>1, AccountsFollow, PTL

-----------------------------------------------------------------------------
(* The three together.                                                      *)

\* Side by side: a step of one part leaves the tables of the others alone.
ReferenceInv == DealsInv /\ LogsInv /\ AccountsInv

\* Nothing differs at first,
LEMMA ReferenceStart == MCInit => ReferenceInv
<1> SUFFICES ASSUME MCInit PROVE ReferenceInv
  OBVIOUS
<1>1. DealTablesInit /\ AccountTablesInit /\ LogTablesInit
  BY DEF MCInit
<1> QED BY <1>1, DealsStart, LogsStart, AccountsStart DEF ReferenceInv

\* and no step of a part disturbs another.
LEMMA ReferenceStep == ReferenceInv /\ [MCNext]_referenceVars => ReferenceInv'
<1> SUFFICES ASSUME ReferenceInv, [MCNext]_referenceVars PROVE ReferenceInv'
  OBVIOUS
<1>1. [DealTablesNext]_dealTableVars /\ [LogTablesNext]_logTableVars /\ [AccountTablesNext]_accountTableVars
  <2>1. CASE UNCHANGED referenceVars
    <3>1. UNCHANGED dealTableVars /\ UNCHANGED logTableVars /\ UNCHANGED accountTableVars
      BY <2>1 DEF referenceVars
    <3> QED BY <3>1
  <2>2. CASE MCNext
    <3>1. CASE part = "deals" /\ DealTablesNext /\ UNCHANGED <<logTableVars, accountTableVars>>
      BY <3>1
    <3>2. CASE part = "logs" /\ LogTablesNext /\ UNCHANGED <<dealTableVars, accountTableVars>>
      BY <3>2
    <3>3. CASE part = "accounts" /\ AccountTablesNext /\ UNCHANGED <<dealTableVars, logTableVars>>
      BY <3>3
    <3> QED BY <2>2, <3>1, <3>2, <3>3 DEF MCNext
  <2> QED BY <2>1, <2>2
<1>2. DealsInv /\ LogsInv /\ AccountsInv
  BY DEF ReferenceInv
<1>3. DealsInv' /\ LogsInv' /\ AccountsInv'
  BY <1>1, <1>2, DealsStep, LogsStep, AccountsStep
<1> QED BY <1>3 DEF ReferenceInv

\* Every read of every table: the double answers as Postgres does, whatever was
\* written before.
THEOREM DoubleHolds == MCSpec => []DoubleAgrees
<1>1. ReferenceInv => DoubleAgrees
  BY DealsTypeFollows, LookupsFollow, ScreensFollow, LogsTypeFollows, LedgerFollows, TrailsFollow,
     WorklistsFollow, AccountsTypeFollows, AccountsFollow DEF ReferenceInv, DoubleAgrees
<1> QED BY <1>1, ReferenceStart, ReferenceStep, PTL DEF MCSpec
=============================================================================
