------------------------------ MODULE LogTables ------------------------------
(***************************************************************************)
(* The run ledger, the three logs (changes, reviews, source reviews), the  *)
(* alerts, the refresh tokens and the small keyed tables (settings, manual *)
(* captures, field proposals, vocabulary, catalogue) in both adapters.     *)
(* The tables do not touch each other, so each behaviour exercises one of  *)
(* them, named by "table".  Ids are random: a later row may have the       *)
(* smaller one.                                                            *)
(***************************************************************************)
EXTENDS Tables

CONSTANTS
  Ids,          \* ids the generator may draw
  Owners,       \* sources, deals or keys a row belongs to
  Actors,       \* approvers
  Instants,     \* timestamps
  DayLength,    \* instants to a day
  Costs,        \* costs of a run, in micro-euros
  Cent,         \* micro-euros to a cent
  Captured,     \* by deal: when its evidence was captured, NotCaptured for none
  MaxRows       \* bounds a table

VARIABLES
  table,        \* the table of this behaviour
  pgRows,       \* the rows of the Postgres table
  memRows       \* the entries of the in-memory store

logTableVars == <<table, pgRows, memRows>>

NotCaptured == -1
NoSource == "(sourceless)"
NotRevoked == 0
NoSuccessor == 0
ActionsOf == {"approve", "reject"}
LogNames == {"changes", "reviews", "source_reviews"}
TableNames == LogNames \cup {"crawl_runs", "alerts", "settings", "captures", "proposals", "vocabulary", "catalog", "tokens"}

Run == [id: Ids, source_id: Owners \cup {NoSource}, started_at: Instants, cost: Costs]
LogRow == [id: Ids, owner: Owners, action: ActionsOf, approver: Actors, at: Instants]
AlertRow == [id: Ids, dedupe_key: Owners, status: {"open", "acknowledged", "resolved"}, created_at: Instants, updated_at: Instants]
SettingRow == [key: Owners, value: Actors]
CaptureRow == [id: Ids, status: {"open", "done"}, note: Actors]
ProposalRow == [key: Owners, count: 1..MaxRows + 1, status: {"open", "promoted"}, last_seen_at: Instants]
VocabularyRow == [key: Owners, version: 1..2]
TokenRow == [id: Ids, user_id: Owners, family_id: Actors, expires_at: Instants, revoked_at: {NotRevoked} \cup Instants,
             replaced_by: {NoSuccessor} \cup Ids]

\* Times, amounts and ids are numbers; a run without a source belongs to no owner.
ASSUME LogTablesAssumption ==
  /\ Ids \subseteq Nat /\ Instants \subseteq Nat /\ Costs \subseteq Nat
  /\ DayLength \in Nat \ {0} /\ Cent \in Nat \ {0} /\ MaxRows \in Nat
  /\ IsFiniteSet(Owners) /\ NoSource \notin Owners

LogTablesInit ==
  /\ table \in TableNames
  /\ pgRows = {} /\ memRows = <<>>

Fresh(id) == id \notin {r.id : r \in pgRows}
Room == Cardinality(pgRows) < MaxRows

-----------------------------------------------------------------------------
(* Rows that are only appended, and the run rows that are closed later.     *)

PgInsert(row) == pgRows' = pgRows \cup {row}
MemSet(row) == memRows' = Put(memRows, "id", row)
MemPush(row) == memRows' = Append(memRows, row)

InsertRun(r) ==
  /\ table = "crawl_runs" /\ Room /\ Fresh(r.id)
  /\ PgInsert(r) /\ MemSet(r)
  /\ UNCHANGED table

\* Mutant: an update is pushed like an insert.
MemPushRun(r) == memRows' = Append(memRows, r)

PgUpdateRun(r) == pgRows' = Update(pgRows, LAMBDA s : s.id = r.id, LAMBDA s : r)
MemUpdateRun(r) == memRows' = Put(memRows, "id", r)

\* A run is closed with its cost; its start stays.
UpdateRun(r) ==
  /\ table = "crawl_runs"
  /\ \E s \in pgRows : s # r /\ s.id = r.id /\ s.started_at = r.started_at /\ s.source_id = r.source_id
  /\ PgUpdateRun(r) /\ MemUpdateRun(r)
  /\ UNCHANGED table

InsertLog(r) ==
  /\ table \in LogNames /\ Room /\ Fresh(r.id)
  /\ PgInsert(r) /\ MemPush(r)
  /\ UNCHANGED table

-----------------------------------------------------------------------------
(* Alerts.                                                                  *)

OpenFor(r, key) == r.dedupe_key = key /\ r.status = "open"

\* The partial unique index on open rows is the conflict target.
PgUpsertOpen(a) ==
  pgRows' = IF \E r \in pgRows : OpenFor(r, a.dedupe_key)
            THEN Update(pgRows, LAMBDA r : OpenFor(r, a.dedupe_key), LAMBDA r : [r EXCEPT !.updated_at = a.updated_at])
            ELSE pgRows \cup {a}

\* Mutant: any row of the key is refreshed, a handled one too.
MemUpsertHandled(a) ==
  memRows' = IF \E i \in DOMAIN memRows : memRows[i].dedupe_key = a.dedupe_key
             THEN Rewrite(memRows, LAMBDA r : r.dedupe_key = a.dedupe_key, LAMBDA r : [r EXCEPT !.updated_at = a.updated_at])
             ELSE Append(memRows, a)

\* findIndex of the open row of the key.
MemUpsertOpen(a) ==
  memRows' = IF \E i \in DOMAIN memRows : OpenFor(memRows[i], a.dedupe_key)
             THEN LET first == Min({i \in DOMAIN memRows : OpenFor(memRows[i], a.dedupe_key)})
                  IN  [memRows EXCEPT ![first].updated_at = a.updated_at]
             ELSE Append(memRows, a)

UpsertOpen(a) ==
  /\ table = "alerts" /\ Fresh(a.id) /\ a.status = "open" /\ a.updated_at >= a.created_at
  /\ Room \/ \E r \in pgRows : OpenFor(r, a.dedupe_key)
  /\ PgUpsertOpen(a) /\ MemUpsertOpen(a)
  /\ UNCHANGED table

PgSetAlertStatus(id, status, at) ==
  pgRows' = Update(pgRows, LAMBDA r : r.id = id, LAMBDA r : [r EXCEPT !.status = status, !.updated_at = at])
MemSetAlertStatus(id, status, at) ==
  memRows' = Rewrite(memRows, LAMBDA r : r.id = id, LAMBDA r : [r EXCEPT !.status = status, !.updated_at = at])

\* acknowledge and resolve are the only callers.
SetAlertStatus(id, status, at) ==
  /\ table = "alerts"
  /\ PgSetAlertStatus(id, status, at) /\ MemSetAlertStatus(id, status, at)
  /\ UNCHANGED table

-----------------------------------------------------------------------------
(* Keyed tables.                                                            *)

PgUpsertKeyed(r) ==
  pgRows' = IF \E s \in pgRows : s.key = r.key THEN Update(pgRows, LAMBDA s : s.key = r.key, LAMBDA s : r)
            ELSE pgRows \cup {r}
MemUpsertKeyed(r) == memRows' = Put(memRows, "key", r)

UpsertSetting(r) ==
  /\ table \in {"settings", "catalog"}
  /\ PgUpsertKeyed(r) /\ MemUpsertKeyed(r)
  /\ UNCHANGED table

DeleteSetting(key) ==
  /\ table = "settings"
  /\ pgRows' = {r \in pgRows : r.key # key}
  /\ memRows' = Scan(memRows, LAMBDA r : r.key # key)
  /\ UNCHANGED table

UpsertVocabulary(r) ==
  /\ table = "vocabulary"
  /\ PgUpsertKeyed(r) /\ MemUpsertKeyed(r)
  /\ UNCHANGED table

InsertCapture(r) ==
  /\ table = "captures" /\ Room /\ Fresh(r.id)
  /\ PgInsert(r) /\ MemPush(r)
  /\ UNCHANGED table

MarkDone(id, note) ==
  LET Done(r) == [r EXCEPT !.status = "done", !.note = note]
  IN  /\ table = "captures"
      /\ pgRows' = Update(pgRows, LAMBDA r : r.id = id, Done)
      /\ memRows' = Rewrite(memRows, LAMBDA r : r.id = id, Done)
      /\ UNCHANGED table

\* count = count + 1 on conflict; the status is left alone.
PgUpsertAndCount(key, at) ==
  pgRows' = IF \E r \in pgRows : r.key = key
            THEN Update(pgRows, LAMBDA r : r.key = key, LAMBDA r : [r EXCEPT !.count = @ + 1, !.last_seen_at = at])
            ELSE pgRows \cup {[key |-> key, count |-> 1, status |-> "open", last_seen_at |-> at]}
MemUpsertAndCount(key, at) ==
  LET known == FirstOf(Scan(memRows, LAMBDA r : r.key = key))
  IN  memRows' = Put(memRows, "key", IF known = NoRow
                                     THEN [key |-> key, count |-> 1, status |-> "open", last_seen_at |-> at]
                                     ELSE [known EXCEPT !.count = @ + 1, !.last_seen_at = at])

UpsertAndCount(key, at) ==
  /\ table = "proposals"
  /\ \A r \in pgRows : r.count <= MaxRows
  /\ PgUpsertAndCount(key, at) /\ MemUpsertAndCount(key, at)
  /\ UNCHANGED table

MarkPromoted(key) ==
  LET Promoted(r) == [r EXCEPT !.status = "promoted"]
  IN  /\ table = "proposals"
      /\ pgRows' = Update(pgRows, LAMBDA r : r.key = key, Promoted)
      /\ memRows' = Rewrite(memRows, LAMBDA r : r.key = key, Promoted)
      /\ UNCHANGED table

-----------------------------------------------------------------------------
(* Refresh tokens.                                                          *)

IssueToken(t) ==
  /\ table = "tokens" /\ Room /\ Fresh(t.id)
  /\ t.revoked_at = NotRevoked /\ t.replaced_by = NoSuccessor
  /\ PgInsert(t) /\ MemSet(t)
  /\ UNCHANGED table

\* The old row is stamped, revoked or not, and its successor stored with it.
RotateToken(old, t) ==
  LET Stamped(r) == [r EXCEPT !.revoked_at = t.expires_at, !.replaced_by = t.id]
  IN  /\ table = "tokens" /\ Room /\ Fresh(t.id)
      /\ t.revoked_at = NotRevoked /\ t.replaced_by = NoSuccessor
      /\ \E r \in pgRows : r.id = old /\ r.user_id = t.user_id /\ r.family_id = t.family_id
      /\ pgRows' = Update(pgRows, LAMBDA r : r.id = old, Stamped) \cup {t}
      /\ memRows' = Put(Rewrite(memRows, LAMBDA r : r.id = old, Stamped), "id", t)
      /\ UNCHANGED table

\* revokeFamily and revokeAllForUser differ in the column.
RevokeBy(column, value, at) ==
  LET Met(r) == r[column] = value /\ r.revoked_at = NotRevoked
      Stamped(r) == [r EXCEPT !.revoked_at = at]
  IN  /\ table = "tokens"
      /\ pgRows' = Update(pgRows, Met, Stamped)
      /\ memRows' = Rewrite(memRows, Met, Stamped)
      /\ UNCHANGED table

DeleteExpired(now) ==
  /\ table = "tokens"
  /\ pgRows' = {r \in pgRows : r.expires_at > now}
  /\ memRows' = Scan(memRows, LAMBDA r : ~(r.expires_at <= now))
  /\ UNCHANGED table

LogTablesNext ==
  \/ \E r \in Run : InsertRun(r) \/ UpdateRun(r)
  \/ \E r \in LogRow : InsertLog(r)
  \/ \E a \in AlertRow : UpsertOpen(a)
  \/ \E id \in Ids, status \in {"acknowledged", "resolved"}, at \in Instants : SetAlertStatus(id, status, at)
  \/ \E r \in SettingRow : UpsertSetting(r)
  \/ \E key \in Owners : DeleteSetting(key) \/ MarkPromoted(key)
  \/ \E r \in VocabularyRow : UpsertVocabulary(r)
  \/ \E id \in Ids, note \in Actors : InsertCapture([id |-> id, status |-> "open", note |-> note]) \/ MarkDone(id, note)
  \/ \E key \in Owners, at \in Instants : UpsertAndCount(key, at)
  \/ \E t \in TokenRow : IssueToken(t) \/ \E old \in Ids : RotateToken(old, t)
  \/ \E at \in Instants : \/ \E family \in Actors : RevokeBy("family_id", family, at)
                           \/ \E user \in Owners : RevokeBy("user_id", user, at)
                           \/ DeleteExpired(at)

LogTablesSpec == LogTablesInit /\ [][LogTablesNext]_logTableVars

-----------------------------------------------------------------------------
(* The run ledger: a half-open window, exact sums, one rounding.            *)

InWindow(r, w) == (w.since # NotCaptured => r.started_at >= w.since) /\ (w.until # NotCaptured => r.started_at < w.until)
Day(at) == at \div DayLength

\* Half a cent is rounded up.
EurFromMicros(micros) == (2 * micros + Cent) \div (2 * Cent)

NewestRunFirst(a, b) == a.started_at > b.started_at \/ (a.started_at = b.started_at /\ a.id > b.id)

PgRecentRuns(w, limit) == Ordered(Select(pgRows, LAMBDA r : InWindow(r, w)), NewestRunFirst, 0, limit)
MemRecentRuns(w, limit) == Slice(StableSort(Scan(memRows, LAMBDA r : InWindow(r, w)), NewestRunFirst), 0, limit)

SumOf(rows) == MapThenSumSet(LAMBDA r : r.cost, rows)

PgSpentSince(since) == EurFromMicros(SumOf(Select(pgRows, LAMBDA r : r.started_at >= since)))
MemSpentSince(since) ==
  EurFromMicros(FoldLeft(LAMBDA sum, r : IF r.started_at < since THEN sum ELSE sum + r.cost, 0, memRows))

\* The dearest bucket first, by its rounded cost.
DearestFirst(a, b) == a.cost > b.cost \/ (a.cost = b.cost /\ a.rank < b.rank)
SourceNames == <<NoSource>> \o SetToSeq(Owners)   \* in alphabetical order
RankOf(source) == CHOOSE i \in DOMAIN SourceNames : SourceNames[i] = source

\* Three queries: the total, GROUP BY day, GROUP BY source.
PgCostSummary(w) ==
  LET rows == Select(pgRows, LAMBDA r : InWindow(r, w))
      Bucket(S) == [cost |-> EurFromMicros(SumOf(S)), count |-> Cardinality(S)]
      days == {Day(r.started_at) : r \in rows}
      sources == {r.source_id : r \in rows}
  IN  [total      |-> Bucket(rows),
       per_day    |-> [i \in 1..Cardinality(days) |->
                         LET d == InOrder(days, <)[i] IN <<d, Bucket({r \in rows : Day(r.started_at) = d})>>],
       per_source |-> InOrder({[rank |-> RankOf(s), count |-> Bucket({r \in rows : r.source_id = s}).count,
                                cost |-> Bucket({r \in rows : r.source_id = s}).cost] : s \in sources}, DearestFirst)]

\* Mutant: every run is rounded before it is added.
TallyRounded(buckets, name, cost) ==
  IF \E i \in DOMAIN buckets : buckets[i].name = name
  THEN [i \in DOMAIN buckets |-> IF buckets[i].name = name
                                 THEN [name |-> name, micros |-> buckets[i].micros + Cent * EurFromMicros(cost), count |-> buckets[i].count + 1]
                                 ELSE buckets[i]]
  ELSE Append(buckets, [name |-> name, micros |-> Cent * EurFromMicros(cost), count |-> 1])

\* One pass that adds each run to its three buckets, rounding after the last one.
Tally(buckets, name, cost) ==
  IF \E i \in DOMAIN buckets : buckets[i].name = name
  THEN [i \in DOMAIN buckets |-> IF buckets[i].name = name
                                 THEN [name |-> name, micros |-> buckets[i].micros + cost, count |-> buckets[i].count + 1]
                                 ELSE buckets[i]]
  ELSE Append(buckets, [name |-> name, micros |-> cost, count |-> 1])

MemCostSummary(w) ==
  LET rows == Scan(memRows, LAMBDA r : InWindow(r, w))
      days == FoldLeft(LAMBDA b, r : Tally(b, Day(r.started_at), r.cost), <<>>, rows)
      sources == FoldLeft(LAMBDA b, r : Tally(b, r.source_id, r.cost), <<>>, rows)
      total == FoldLeft(LAMBDA n, r : n + r.cost, 0, rows)
  IN  [total      |-> [cost |-> EurFromMicros(total), count |-> Len(rows)],
       per_day    |-> [i \in DOMAIN days |->
                         LET d == StableSort(days, LAMBDA a, b : a.name < b.name)[i]
                         IN  <<d.name, [cost |-> EurFromMicros(d.micros), count |-> d.count]>>],
       per_source |-> StableSort([i \in DOMAIN sources |-> [rank |-> RankOf(sources[i].name), count |-> sources[i].count,
                                                            cost |-> EurFromMicros(sources[i].micros)]], DearestFirst)]

-----------------------------------------------------------------------------
(* The logs.                                                                *)

\* Equal times are ordered by the random id there and by insertion here.
NewerById(a, b) == a.at > b.at \/ (a.at = b.at /\ a.id > b.id)
MemNewest(store) == StableSort(Reverse(store), LAMBDA a, b : a.at > b.at)

PgRecent(owner, limit) == Ordered(Select(pgRows, LAMBDA r : r.owner = owner), NewerById, 0, limit)
MemRecent(owner, limit) == Slice(MemNewest(Scan(memRows, LAMBDA r : r.owner = owner)), 0, limit)

PgRecentForSource(source, limit) == PgRecent(source, limit)
MemRecentForSource(source, limit) == MemRecent(source, limit)
PgListForDeal(deal, limit) == PgRecent(deal, limit)
MemListForDeal(deal, limit) == MemRecent(deal, limit)
PgListForSource(source, limit) == PgRecent(source, limit)
MemListForSource(source, limit) == MemRecent(source, limit)

Wanted(r, f) == /\ f.approver \in {Unset, r.approver}
                /\ f.owner \in {Unset, r.owner}
                /\ f.since # NotCaptured => r.at >= f.since

PgListRecent(f, limit) == Ordered(Select(pgRows, LAMBDA r : Wanted(r, f)), NewerById, 0, limit)
MemListRecent(f, limit) == Slice(MemNewest(Scan(memRows, LAMBDA r : Wanted(r, f))), 0, limit)

PgCountByAction(action, since) == Cardinality(Select(pgRows, LAMBDA r : r.action = action /\ r.at >= since))
MemCountByAction(action, since) == Len(Scan(memRows, LAMBDA r : r.action = action /\ r.at >= since))

PgCountByApprover == [a \in {r.approver : r \in pgRows} |-> Cardinality(Select(pgRows, LAMBDA r : r.approver = a))]
MemCountByApprover ==
  FoldLeft(LAMBDA n, r : [a \in DOMAIN n \cup {r.approver} |->
                            IF a # r.approver THEN n[a] ELSE IF a \in DOMAIN n THEN n[a] + 1 ELSE 1],
           [a \in {} |-> 0], memRows)

\* Mutant: a decision without a capture is left out.
MemLatenciesInner(since) ==
  LET rows == Scan(memRows, LAMBDA r : r.at >= since /\ Captured[r.owner] # NotCaptured)
  IN  [i \in DOMAIN rows |-> <<rows[i].action, rows[i].at - Captured[rows[i].owner]>>]

\* Two LEFT JOINs: without a capture the latency is null, the decision counts.
Latency(r) == IF Captured[r.owner] = NotCaptured THEN NotCaptured ELSE r.at - Captured[r.owner]
PgLatencies(since) == {<<r.id, r.action, Latency(r)>> : r \in Select(pgRows, LAMBDA r : r.at >= since)}
MemLatencies(since) ==
  LET rows == Scan(memRows, LAMBDA r : r.at >= since)
  IN  [i \in DOMAIN rows |-> <<rows[i].action, Latency(rows[i])>>]

-----------------------------------------------------------------------------
(* Lists of the other tables.                                               *)

NewestAlertFirst(a, b) == a.created_at > b.created_at \/ (a.created_at = b.created_at /\ a.id > b.id)
PgListAlerts(limit) == Ordered(pgRows, NewestAlertFirst, 0, limit)
MemListAlerts(limit) == Slice(StableSort(memRows, NewestAlertFirst), 0, limit)

PgListOpenCaptures(limit) == Unordered(Select(pgRows, LAMBDA r : r.status = "open"), limit)
MemListOpenCaptures(limit) == Slice(Scan(memRows, LAMBDA r : r.status = "open"), 0, limit)

\* The most frequent first there, the oldest first here: the same, if all fit.
PgListOpenProposals(limit) ==
  LET open == Select(pgRows, LAMBDA r : r.status = "open")
  IN  {S \in Unordered(open, limit) : \A r \in S, s \in open \ S : s.count <= r.count}
MemListOpenProposals(limit) == Slice(Scan(memRows, LAMBDA r : r.status = "open"), 0, limit)

PgGet(key) == One(Select(pgRows, LAMBDA r : r.key = key))
MemGet(key) == FirstOf(Scan(memRows, LAMBDA r : r.key = key))

\* How many a revocation would report.
PgLive(column, value) == Cardinality(Select(pgRows, LAMBDA r : r[column] = value /\ r.revoked_at = NotRevoked))
MemLive(column, value) == FoldLeft(LAMBDA n, r : IF r[column] = value /\ r.revoked_at = NotRevoked THEN n + 1 ELSE n, 0, memRows)

-----------------------------------------------------------------------------
Since == {NotCaptured} \cup Instants
Windows == [since: Since, until: Since]
LogLimits == 1..MaxRows
LogFilters == [approver: {Unset} \cup Actors, owner: {Unset} \cup Owners, since: Since]
TimesOf(seq) == [i \in DOMAIN seq |-> seq[i].at]
TiesAmong(rows) == \E r, s \in rows : r # s /\ r.at = s.at

\* The same log, newest first; to the row where no two share their instant.
SameLog(pg, mem, rows) == TimesOf(pg) = TimesOf(mem) /\ (~TiesAmong(rows) => pg = mem)

RowsOf(t) ==
  CASE t = "crawl_runs" -> Run
    [] t \in LogNames -> LogRow
    [] t = "alerts" -> AlertRow
    [] t = "captures" -> CaptureRow
    [] t = "proposals" -> ProposalRow
    [] t = "vocabulary" -> VocabularyRow
    [] t = "tokens" -> TokenRow
    [] OTHER -> SettingRow
Identity(r) == IF "id" \in DOMAIN r THEN r.id ELSE r.key

\* Each store holds rows of its table, no two of them with the same identity.
LogTablesTypeOK ==
  /\ table \in TableNames
  /\ \A r \in pgRows : r \in RowsOf(table)
  /\ \A r \in ToSet(memRows) : r \in RowsOf(table)
  /\ \A r, s \in pgRows : Identity(r) = Identity(s) => r = s
  /\ \A i, j \in DOMAIN memRows : Identity(memRows[i]) = Identity(memRows[j]) => i = j

\* The ledger reads alike from both adapters: the same runs of a window, in the
\* same order, and the same sums to the cent, though one adds in the database
\* and the other row by row; and what the budget guard sums is what the panel's
\* total for the same window says.
LedgerAgrees ==
  table = "crawl_runs" =>
    /\ \A w \in Windows : /\ PgCostSummary(w) = MemCostSummary(w)
                          /\ \A limit \in LogLimits : PgRecentRuns(w, limit) = MemRecentRuns(w, limit)
    /\ \A since \in Instants : /\ PgSpentSince(since) = MemSpentSince(since)
                               /\ PgSpentSince(since) = MemCostSummary([since |-> since, until |-> NotCaptured]).total.cost

\* The audit trail reads alike: histories newest first (ties of one instant
\* excepted, where Postgres falls back on a random id), the same decisions for a
\* filter, the same counts, and no decision lost because its capture is gone.
TrailsAgree ==
  table \in LogNames =>
    /\ \A o \in Owners, limit \in LogLimits :
         /\ SameLog(PgRecentForSource(o, limit), MemRecentForSource(o, limit), {r \in pgRows : r.owner = o})
         /\ SameLog(PgListForDeal(o, limit), MemListForDeal(o, limit), {r \in pgRows : r.owner = o})
         /\ SameLog(PgListForSource(o, limit), MemListForSource(o, limit), {r \in pgRows : r.owner = o})
    /\ \A f \in LogFilters, limit \in LogLimits : SameLog(PgListRecent(f, limit), MemListRecent(f, limit), pgRows)
    /\ \A a \in ActionsOf, since \in Instants : PgCountByAction(a, since) = MemCountByAction(a, since)
    /\ PgCountByApprover = MemCountByApprover
    /\ \A since \in Instants :
         /\ Len(MemLatencies(since)) = Cardinality(PgLatencies(since))
         /\ \A x \in ToSet(MemLatencies(since)) :
              Occurrences(MemLatencies(since), x) = Cardinality({p \in PgLatencies(since) : <<p[2], p[3]>> = x})

\* The worklists agree: alerts in the same order with one open row per key,
\* open captures as Postgres may list them, open proposals as a whole, every keyed
\* row under its key, and as many live refresh tokens of a family or a user.
WorklistsAgree ==
  /\ table = "alerts" =>
       /\ \A limit \in LogLimits : PgListAlerts(limit) = MemListAlerts(limit)
       /\ \A r, s \in pgRows : r.dedupe_key = s.dedupe_key /\ r.status = "open" /\ s.status = "open" => r = s
  /\ table = "captures" => \A limit \in LogLimits : ToSet(MemListOpenCaptures(limit)) \in PgListOpenCaptures(limit)
  /\ table = "proposals" => LET all == Cardinality(pgRows) IN ToSet(MemListOpenProposals(all)) \in PgListOpenProposals(all)
  /\ table \in {"settings", "catalog", "vocabulary", "proposals"} => \A key \in Owners : PgGet(key) = MemGet(key)
  /\ table = "tokens" => /\ \A family \in Actors : PgLive("family_id", family) = MemLive("family_id", family)
                         /\ \A user \in Owners : PgLive("user_id", user) = MemLive("user_id", user)
=============================================================================
