------------------------------ MODULE DealTables ------------------------------
(***************************************************************************)
(* deals, evidence and sources as the two adapters of the Database port    *)
(* keep them, in lockstep: every write is made through both, every read    *)
(* has the answer of each.  The suite of the repository runs its use cases *)
(* on the in-memory adapter and production runs them on Postgres.          *)
(***************************************************************************)
EXTENDS Tables

CONSTANTS
  DealRows,     \* the rows a deal is inserted as or rewritten to
  SourceRows,   \* the rows a source is registered as or rewritten to
  EvidenceRows, \* the captures
  Latest,       \* the time a decision or an expiry stamps
  FetchCap,     \* PUBLISHED_FETCH_CAP
  MaxDeals      \* bounds the rows

VARIABLES
  pgDeals, pgSources, pgEvidence,     \* sets of rows
  memDeals, memSources, memEvidence,  \* sequences of rows
  dealAnswer,   \* what the last write returned, by adapter
  dealRefused   \* history: did the unique index of deals refuse a row?

dealTableVars == <<pgDeals, pgSources, pgEvidence, memDeals, memSources, memEvidence, dealAnswer, dealRefused>>

NoTime == 0
NoLimit == -1
NoDomain == "unpinned"
Statuses == {"candidate", "in_review", "published", "expired", "rejected"}
Reviewable == {"candidate", "in_review"}
AdminStatuses == {"published", "expired"}
LowConfidence == 1   \* LOW_CONFIDENCE_MAX, in halves
Neutral == 1         \* NEUTRAL_RELIABILITY, in halves
RouteTypes == {"bundle", "promo"}

DealRow == [id: Nat, service: STRING, domain: STRING, url: STRING, route_type: RouteTypes, status: Statuses,
            confidence: 0..2, cost: Nat, verified_at: Nat, published_at: Nat, evidence: Nat, edited: BOOLEAN]
SourceRow == [id: Nat, url: STRING, domain: STRING, status: STRING, reliability: 0..2, next_due: Nat]
EvidenceRow == [id: Nat, hash: STRING, captured_at: Nat]

ASSUME DealTablesAssumption ==
  /\ DealRows \subseteq DealRow /\ SourceRows \subseteq SourceRow /\ EvidenceRows \subseteq EvidenceRow
  /\ Latest \in Nat /\ FetchCap \in Nat /\ MaxDeals \in Nat

DealTablesInit ==
  /\ pgDeals = {} /\ pgSources = {} /\ pgEvidence = {}
  /\ memDeals = <<>> /\ memSources = <<>> /\ memEvidence = <<>>
  /\ dealAnswer = <<0, 0>>
  /\ dealRefused = FALSE

\* dedupeKey, which both adapters take from the row itself.
Key(d) == <<d.service, d.route_type, d.domain>>

-----------------------------------------------------------------------------
(* Writes.                                                                  *)

\* ON CONFLICT DO NOTHING, on the primary key or (dedupe_key, evidence_id).
Conflicts(d, table) == \E e \in table : e.id = d.id \/ (Key(e) = Key(d) /\ e.evidence = d.evidence)
PgInsertDeal(d) == pgDeals' = IF Conflicts(d, pgDeals) THEN pgDeals ELSE pgDeals \cup {d}
MemInsertDeal(d) == memDeals' = Put(memDeals, "id", d)

\* An UPDATE that would break the unique index fails and changes nothing.
PgUpdateDeal(d) ==
  pgDeals' = IF Conflicts(d, {e \in pgDeals : e.id # d.id}) THEN pgDeals
             ELSE Update(pgDeals, LAMBDA e : e.id = d.id, LAMBDA e : d)
MemUpdateDeal(d) == memDeals' = Put(memDeals, "id", d)

InsertDeal(d) ==
  /\ Cardinality(pgDeals) < MaxDeals
  /\ d.id \notin {e.id : e \in pgDeals}
  /\ PgInsertDeal(d) /\ MemInsertDeal(d)
  /\ dealRefused' = Conflicts(d, pgDeals)
  /\ dealAnswer' = <<0, 0>>
  /\ UNCHANGED <<pgSources, pgEvidence, memSources, memEvidence>>

UpdateDeal(d) ==
  /\ \E e \in pgDeals : e.id = d.id /\ e # d
  /\ PgUpdateDeal(d) /\ MemUpdateDeal(d)
  /\ dealRefused' = Conflicts(d, {e \in pgDeals : e.id # d.id})
  /\ dealAnswer' = <<0, 0>>
  /\ UNCHANGED <<pgSources, pgEvidence, memSources, memEvidence>>

PgUpdateStatus(id, status, at) ==
  pgDeals' = Update(pgDeals, LAMBDA e : e.id = id, LAMBDA e : [e EXCEPT !.status = status, !.verified_at = at])
MemUpdateStatus(id, status, at) ==
  memDeals' = Rewrite(memDeals, LAMBDA e : e.id = id, LAMBDA e : [e EXCEPT !.status = status, !.verified_at = at])

UpdateStatus(id, status, at) ==
  /\ id \in {e.id : e \in pgDeals}
  /\ PgUpdateStatus(id, status, at) /\ MemUpdateStatus(id, status, at)
  /\ dealAnswer' = <<0, 0>>
  /\ UNCHANGED <<pgSources, pgEvidence, memSources, memEvidence, dealRefused>>

Expired(d, at) == [d EXCEPT !.status = "expired", !.verified_at = at]

PgExpirePublished(url, at) ==
  LET P(e) == e.url = url /\ e.status = "published"
  IN  [rows |-> Update(pgDeals, P, LAMBDA e : Expired(e, at)), count |-> Cardinality(Select(pgDeals, P))]

\* The loop counts as it rewrites.
MemExpirePublished(url, at) ==
  LET P(e) == e.url = url /\ e.status = "published"
  IN  [rows |-> Rewrite(memDeals, P, LAMBDA e : Expired(e, at)), count |-> Len(Scan(memDeals, P))]

ExpirePublished(url, at) ==
  /\ pgDeals' = PgExpirePublished(url, at).rows
  /\ memDeals' = MemExpirePublished(url, at).rows
  /\ dealAnswer' = <<PgExpirePublished(url, at).count, MemExpirePublished(url, at).count>>
  /\ UNCHANGED <<pgSources, pgEvidence, memSources, memEvidence, dealRefused>>

\* Conflict on url: everything but the id is replaced.
PgUpsertSource(s) ==
  pgSources' = IF \E t \in pgSources : t.url = s.url
               THEN Update(pgSources, LAMBDA t : t.url = s.url, LAMBDA t : [s EXCEPT !.id = t.id])
               ELSE pgSources \cup {s}
MemUpsertSource(s) ==
  LET known == FirstOf(Scan(memSources, LAMBDA t : t.url = s.url))
  IN  memSources' = Put(memSources, "url", IF known = NoRow THEN s ELSE [s EXCEPT !.id = known.id])

UpsertSource(s) ==
  /\ \A t \in pgSources : t.url # s.url => t.id # s.id
  /\ PgUpsertSource(s) /\ MemUpsertSource(s)
  /\ dealAnswer' = <<0, 0>>
  /\ UNCHANGED <<pgDeals, pgEvidence, memDeals, memEvidence, dealRefused>>

\* Mutant: every update of a source becomes a row of its own.
MemAppendSource(s) == memSources' = Append(memSources, s)

\* By id there, by url here: a source that was read has both.
PgUpdateSource(s) == pgSources' = Update(pgSources, LAMBDA t : t.id = s.id, LAMBDA t : s)
MemUpdateSource(s) == memSources' = Put(memSources, "url", s)

UpdateSource(s) ==
  /\ \E t \in pgSources : t.id = s.id /\ t.url = s.url /\ t # s
  /\ PgUpdateSource(s) /\ MemUpdateSource(s)
  /\ dealAnswer' = <<0, 0>>
  /\ UNCHANGED <<pgDeals, pgEvidence, memDeals, memEvidence, dealRefused>>

InsertEvidence(e) ==
  /\ e.id \notin {f.id : f \in pgEvidence}
  /\ pgEvidence' = pgEvidence \cup {e}
  /\ memEvidence' = Put(memEvidence, "id", e)
  /\ dealAnswer' = <<0, 0>>
  /\ UNCHANGED <<pgDeals, pgSources, memDeals, memSources, dealRefused>>

\* The comparison ends where the index has refused what the Map took.
DealTablesNext ==
  /\ ~dealRefused
  /\ \/ \E d \in DealRows : \/ InsertDeal(d) \/ UpdateDeal(d)
                            \/ UpdateStatus(d.id, "rejected", Latest)
                            \/ ExpirePublished(d.url, Latest)
     \/ \E s \in SourceRows : UpsertSource(s) \/ UpdateSource(s)
     \/ \E e \in EvidenceRows : InsertEvidence(e)

DealTablesSpec == DealTablesInit /\ [][DealTablesNext]_dealTableVars

-----------------------------------------------------------------------------
(* Reads of one row.                                                        *)

PgGetDeal(id) == One(Select(pgDeals, LAMBDA d : d.id = id))
MemGetDeal(id) == FirstOf(Scan(memDeals, LAMBDA d : d.id = id))

PgGetSource(id) == One(Select(pgSources, LAMBDA s : s.id = id))
MemGetSource(id) == FirstOf(Scan(memSources, LAMBDA s : s.id = id))

PgGetSourceByUrl(url) == One(Select(pgSources, LAMBDA s : s.url = url))
MemGetSourceByUrl(url) == FirstOf(Scan(memSources, LAMBDA s : s.url = url))

PgGetEvidence(id) == One(Select(pgEvidence, LAMBDA e : e.id = id))
MemGetEvidence(id) == FirstOf(Scan(memEvidence, LAMBDA e : e.id = id))

\* ORDER BY confidence DESC LIMIT 1: any of the most confident.
PgFindByKey(key) ==
  LET live == Select(pgDeals, LAMBDA d : Key(d) = key /\ d.status # "rejected")
  IN  IF live = {} THEN {NoRow} ELSE {d \in live : \A e \in live : e.confidence <= d.confidence}

\* Mutant: the newest match shadows a more confident one.
MemFindNewest(key) ==
  FirstOf(Reverse(Scan(memDeals, LAMBDA d : d.status # "rejected" /\ Key(d) = key)))

\* The scan keeps the best seen so far.
MemFindByKey(key) ==
  FoldLeft(LAMBDA best, d : IF d.status = "rejected" \/ Key(d) # key THEN best
                            ELSE IF best = NoRow THEN d
                            ELSE IF d.confidence > best.confidence THEN d ELSE best,
           NoRow, memDeals)

PgFindActive(key, hash) ==
  LET rows == {d \in pgDeals : /\ Key(d) = key /\ d.status \in Reviewable
                               /\ \E e \in pgEvidence : e.id = d.evidence /\ e.hash = hash}
  IN  IF rows = {} THEN {NoRow} ELSE rows
MemFindActive(key, hash) ==
  FirstOf(Scan(memDeals, LAMBDA d : /\ d.status \in Reviewable
                                    /\ Key(d) = key
                                    /\ MemGetEvidence(d.evidence) # NoRow
                                    /\ MemGetEvidence(d.evidence).hash = hash))

-----------------------------------------------------------------------------
(* Reads without an order.                                                  *)

PgListByStatus(status, limit) == Unordered(Select(pgDeals, LAMBDA d : d.status = status), limit)
MemListByStatus(status, limit) == Slice(Scan(memDeals, LAMBDA d : d.status = status), 0, limit)

PgListDue(now, limit) ==
  Unordered(Select(pgSources, LAMBDA s : s.status = "active" /\ (s.next_due = NoTime \/ s.next_due <= now)), limit)
MemListDue(now, limit) ==
  Slice(Scan(memSources, LAMBDA s : s.status = "active" /\ (s.next_due = NoTime \/ s.next_due <= now)), 0, limit)

PgSourcesByStatus(status) == Select(pgSources, LAMBDA s : s.status = status)
MemSourcesByStatus(status) == Scan(memSources, LAMBDA s : s.status = status)

\* listBySourceUrl orders by id there and by insertion here: the same rows, as long as all fit.
PgListByUrl(url, statuses) == Select(pgDeals, LAMBDA d : d.url = url /\ d.status \in statuses)
MemListByUrl(url, statuses) == Scan(memDeals, LAMBDA d : d.url = url /\ d.status \in statuses)

PgQueueSignals ==
  {[id |-> d.id, confidence |-> d.confidence,
    captured_at |-> IF PgGetEvidence(d.evidence) = NoRow THEN NoTime ELSE PgGetEvidence(d.evidence).captured_at]
     : d \in Select(pgDeals, LAMBDA d : d.status \in Reviewable)}
MemQueueSignals ==
  LET queue == Scan(memDeals, LAMBDA d : d.status \in Reviewable)
  IN  [i \in DOMAIN queue |->
         [confidence |-> queue[i].confidence,
          captured_at |-> IF MemGetEvidence(queue[i].evidence) = NoRow THEN NoTime
                          ELSE MemGetEvidence(queue[i].evidence).captured_at]]

\* One query per resource, by the text of a service.
PgSearch(q, resource, limit) ==
  Unordered(Select(pgDeals, LAMBDA d : /\ d.service = q
                                       /\ d.status \in IF resource = "candidates" THEN Reviewable ELSE {"published"}),
            limit)

\* Every row of the status is scanned, then filtered, then cut.
MemSearch(q, resource, limit) ==
  LET all == IF resource = "candidates"
             THEN MemListByStatus("candidate", MaxDeals) \o MemListByStatus("in_review", MaxDeals)
             ELSE MemListByStatus("published", MaxDeals)
  IN  Slice(Scan(all, LAMBDA d : d.service = q), 0, limit)

-----------------------------------------------------------------------------
(* The public feed.                                                         *)

MatchesFilters(d, f) ==
  /\ f.service \in {Unset, d.service}
  /\ f.route_type \in {Unset, d.route_type}
  /\ f.price_max # NoLimit => d.cost <= f.price_max

\* comparePrimary: cheapest first, or most recently verified first and nulls last.
PrimaryBefore(sort, a, b) ==
  IF sort = "cost_asc" THEN a.cost < b.cost
  ELSE a.verified_at # b.verified_at /\ a.verified_at > b.verified_at

PrimaryTie(sort, a, b) == ~PrimaryBefore(sort, a, b) /\ ~PrimaryBefore(sort, b, a)

\* Mutant: the rows are fetched by price whatever the feed is sorted by.
ComparePriceOnly(sort, a, b) == a.cost < b.cost \/ (a.cost = b.cost /\ a.id < b.id)

ComparePublishedPrimary(sort, a, b) ==
  PrimaryBefore(sort, a, b) \/ (PrimaryTie(sort, a, b) /\ a.id < b.id)

\* buildReliabilityIndex: by pinned domain, the most reliable active source.
ReliabilityIndex(sources) ==
  LET pinned == {s \in sources : s.domain # NoDomain}
  IN  [dom \in {s.domain : s \in pinned} |-> Max({s.reliability : s \in {t \in pinned : t.domain = dom}})]

\* A score of zero is a score.
Reliability(domain, index) == IF domain \in DOMAIN index THEN index[domain] ELSE Neutral

ComparePublished(sort, index, a, b) ==
  LET ra == Reliability(a.domain, index)
      rb == Reliability(b.domain, index)
  IN  \/ PrimaryBefore(sort, a, b)
      \/ PrimaryTie(sort, a, b) /\ (ra > rb \/ (ra = rb /\ a.id < b.id))

RankPublished(deals, index, query) ==
  Slice(StableSort(deals, LAMBDA a, b : ComparePublished(query.sort, index, a, b)), query.offset, query.limit)

CapByPrimary(deals, sort) ==
  Slice(StableSort(deals, LAMBDA a, b : ComparePublishedPrimary(sort, a, b)), 0, FetchCap)

PgListPublished(query) ==
  LET rows == Select(pgDeals, LAMBDA d : d.status = "published" /\ MatchesFilters(d, query.filters))
      fetched == Ordered(rows, LAMBDA a, b : ComparePublishedPrimary(query.sort, a, b), 0, FetchCap)
  IN  RankPublished(fetched, ReliabilityIndex(PgSourcesByStatus("active")), query)

\* Mutant: the page is cut before reliability has its say.
MemListPublishedUnranked(query) ==
  LET rows == Scan(memDeals, LAMBDA d : d.status = "published" /\ MatchesFilters(d, query.filters))
  IN  Slice(CapByPrimary(rows, query.sort), query.offset, query.limit)

MemListPublished(query) ==
  LET rows == Scan(memDeals, LAMBDA d : d.status = "published" /\ MatchesFilters(d, query.filters))
  IN  RankPublished(CapByPrimary(rows, query.sort), ReliabilityIndex(ToSet(MemSourcesByStatus("active"))), query)

PgCountPublished(f) == Cardinality(Select(pgDeals, LAMBDA d : d.status = "published" /\ MatchesFilters(d, f)))
MemCountPublished(f) == Len(Scan(memDeals, LAMBDA d : d.status = "published" /\ MatchesFilters(d, f)))

-----------------------------------------------------------------------------
(* The screens of the panel.                                                *)

\* The shakiest extraction first.
TriageBefore(a, b) == a.confidence < b.confidence \/ (a.confidence = b.confidence /\ a.id < b.id)

QueueStatuses(f) == IF f.status = Unset THEN Reviewable ELSE {f.status}
InQueue(d, f) == /\ d.status \in QueueStatuses(f)
                 /\ f.service \in {Unset, d.service}
                 /\ f.confidence_max # NoLimit => d.confidence <= f.confidence_max

PgListCandidates(f, offset, limit) == Ordered(Select(pgDeals, LAMBDA d : InQueue(d, f)), TriageBefore, offset, limit)
MemListCandidates(f, offset, limit) == Slice(StableSort(Scan(memDeals, LAMBDA d : InQueue(d, f)), TriageBefore), offset, limit)

\* GROUP BY route_type, then the groups are added up.
PgCountCandidates ==
  LET queue == Select(pgDeals, LAMBDA d : d.status \in Reviewable)
      Group(r) == {d \in queue : d.route_type = r}
      groups == {d.route_type : d \in queue}
      Total(P(_)) == MapThenSumSet(LAMBDA r : Cardinality(Select(Group(r), P)), groups)
  IN  [all_pending    |-> Total(LAMBDA d : TRUE),
       low_confidence |-> Total(LAMBDA d : d.confidence <= LowConfidence),
       human_edited   |-> Total(LAMBDA d : d.edited),
       by_route       |-> [r \in RouteTypes |-> Cardinality(Group(r))]]

\* One pass that adds row by row.
MemCountCandidates ==
  FoldLeft(LAMBDA n, d :
             IF d.status \notin Reviewable THEN n
             ELSE [all_pending    |-> n.all_pending + 1,
                   low_confidence |-> n.low_confidence + (IF d.confidence <= LowConfidence THEN 1 ELSE 0),
                   human_edited   |-> n.human_edited + (IF d.edited THEN 1 ELSE 0),
                   by_route       |-> [n.by_route EXCEPT ![d.route_type] = @ + 1]],
           [all_pending |-> 0, low_confidence |-> 0, human_edited |-> 0, by_route |-> [r \in RouteTypes |-> 0]],
           memDeals)

\* published_at DESC NULLS LAST, id.
PublishedBefore(a, b) == a.published_at > b.published_at \/ (a.published_at = b.published_at /\ a.id < b.id)

\* comparePublishedAtDesc: a missing date sorts after every date.
ComparePublishedAt(a, b) ==
  \/ /\ a.published_at # b.published_at
     /\ a.published_at # NoTime
     /\ b.published_at = NoTime \/ b.published_at < a.published_at
  \/ a.published_at = b.published_at /\ a.id < b.id

PgListAdminPublished(offset, limit) ==
  Ordered(Select(pgDeals, LAMBDA d : d.status \in AdminStatuses), PublishedBefore, offset, limit)
MemListAdminPublished(offset, limit) ==
  Slice(StableSort(Scan(memDeals, LAMBDA d : d.status \in AdminStatuses), ComparePublishedAt), offset, limit)

PgCountAdmin == Cardinality(Select(pgDeals, LAMBDA d : d.status \in AdminStatuses))
MemCountAdmin == Len(Scan(memDeals, LAMBDA d : d.status \in AdminStatuses))

-----------------------------------------------------------------------------
DealTimes == {d.verified_at : d \in DealRows} \ {NoTime}
Keys == {Key(d) : d \in DealRows}
Urls == {d.url : d \in DealRows}
Services == {d.service : d \in DealRows}
DealLimits == {1, MaxDeals}
NoFilter == [service |-> Unset, route_type |-> Unset, price_max |-> NoLimit]
FeedFilters == {NoFilter, [NoFilter EXCEPT !.price_max = 1]}
               \cup {[NoFilter EXCEPT !.service = s, !.route_type = r] : s \in Services, r \in RouteTypes}
FeedQueries == [filters: FeedFilters, sort: {"cost_asc", "verified_desc"}, limit: {1, MaxDeals}, offset: 0..1]
QueueFilters == {[service |-> Unset, status |-> Unset, confidence_max |-> NoLimit]}
                \cup {[service |-> s, status |-> t, confidence_max |-> LowConfidence] : s \in Services, t \in {Unset, "candidate"}}

\* Each adapter holds rows of its tables.
DealTablesTypeOK ==
  /\ \A d \in pgDeals : d \in DealRow
  /\ \A s \in ToSet(memSources) : s \in SourceRow
  /\ Len(memDeals) <= MaxDeals + 1 /\ Len(memSources) = Cardinality(pgSources) /\ Len(memEvidence) = Cardinality(pgEvidence)
  /\ dealAnswer \in (0..MaxDeals) \X (0..MaxDeals)

\* The double the tests run on stands in for the database: after any writes that
\* the unique index accepts, it finds the same rows, chooses a canonical deal or
\* an active duplicate that Postgres may choose as well, keeps to a LIMIT as
\* Postgres may, and reports the same numbers.
LookupsAgree ==
  ~dealRefused =>
    /\ dealAnswer[1] = dealAnswer[2]
    /\ \A d \in DealRows : PgGetDeal(d.id) = MemGetDeal(d.id)
    /\ \A s \in SourceRows : PgGetSource(s.id) = MemGetSource(s.id) /\ PgGetSourceByUrl(s.url) = MemGetSourceByUrl(s.url)
    /\ \A key \in Keys : MemFindByKey(key) \in PgFindByKey(key)
    /\ \A key \in Keys, e \in EvidenceRows : MemFindActive(key, e.hash) \in PgFindActive(key, e.hash)
    /\ \A status \in Statuses, limit \in DealLimits : ToSet(MemListByStatus(status, limit)) \in PgListByStatus(status, limit)
    /\ \A now \in DealTimes, limit \in DealLimits : ToSet(MemListDue(now, limit)) \in PgListDue(now, limit)
    /\ \A url \in Urls : ToSet(MemListByUrl(url, Reviewable)) = PgListByUrl(url, Reviewable)
    /\ \A q \in Services, resource \in {"candidates", "published"}, limit \in DealLimits :
         ToSet(MemSearch(q, resource, limit)) \in PgSearch(q, resource, limit)

\* Every screen shows the same page from either adapter, in the same order, with
\* the same total: the public feed under its cap and reliability tie-break, the
\* review queue, its counters and ages, and the history of publication.
ScreensAgree ==
  ~dealRefused =>
    /\ \A query \in FeedQueries : PgListPublished(query) = MemListPublished(query)
    /\ \A f \in FeedFilters : PgCountPublished(f) = MemCountPublished(f)
    /\ \A f \in QueueFilters, offset \in 0..1, limit \in DealLimits :
         PgListCandidates(f, offset, limit) = MemListCandidates(f, offset, limit)
    /\ PgCountCandidates = MemCountCandidates
    /\ \A offset \in 0..1, limit \in DealLimits : PgListAdminPublished(offset, limit) = MemListAdminPublished(offset, limit)
    /\ PgCountAdmin = MemCountAdmin
    /\ \A x \in ToSet(MemQueueSignals) :
         Occurrences(MemQueueSignals, x) =
           Cardinality({s \in PgQueueSignals : s.confidence = x.confidence /\ s.captured_at = x.captured_at})
    /\ Len(MemQueueSignals) = Cardinality(PgQueueSignals)

\* The cap of the fetch costs the feed nothing: a page that ends above it is the
\* page of the whole ranking, unless deals that tie on the primary key lie on
\* both sides of the cap, among which a more reliable one may be cut off.
CapIsHarmless ==
  \A sort \in {"cost_asc", "verified_desc"}, offset \in 0..FetchCap - 1 :
    LET query == [filters |-> NoFilter, sort |-> sort, offset |-> offset, limit |-> FetchCap - offset]
        rows == Scan(memDeals, LAMBDA d : d.status = "published")
        kept == CapByPrimary(rows, sort)
        cut == ToSet(rows) \ ToSet(kept)
    IN  \/ MemListPublished(query) = RankPublished(rows, ReliabilityIndex(ToSet(MemSourcesByStatus("active"))), query)
        \/ \E d \in ToSet(kept), e \in cut : PrimaryTie(sort, d, e)
=============================================================================
