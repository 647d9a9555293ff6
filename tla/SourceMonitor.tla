---------------------------- MODULE SourceMonitor ----------------------------
(***************************************************************************)
(* Re-verifying one source: the monitor lane fetches its page, diffs it    *)
(* against the newest bundle, re-crawls on a change, and expires the       *)
(* source's published deals when the page is gone; the crawl lane runs on  *)
(* the same schedule.  A pass works on the source row it read first and    *)
(* writes that whole row back at its end.                                  *)
(*                                                                         *)
(* One page, one offer, one route: what the sink does with several routes  *)
(* is DealLifecycle's subject, and persisting one offer is one step here.  *)
(* last_seen, the manual-capture rows and the crawl_runs rows are left out *)
(* (no decision of these lanes reads them); next_due is whether it has     *)
(* elapsed.                                                                *)
(***************************************************************************)
EXTENDS Naturals, Sequences, FiniteSets

CONSTANTS
  Monitors,   \* monitor passes that may run at a time (cron: one)
  Crawlers,   \* crawl passes that may run at a time (cron: one)
  Ids,        \* deal ids, ordered as the database orders them; bounds the rows
  Home,       \* the configured url of the source
  Urls,       \* final (post-redirect) urls its page may have
  Hashes,     \* content hashes of its page
  Empty,      \* hashes of pages that carry no offer
  RelMax,     \* reliability 1.0, in steps
  RelUp,      \* SUCCESS_DELTA in steps
  RelDown,    \* FAILURE_DELTA in steps
  OnDemand,   \* are passes also started by hand (--source), not only when due?
  MaxFlips,   \* bounds how often the page changes
  MaxFaults,  \* bounds failed database calls and killed processes
  NoUrl       \* resolved_url = null

ASSUME IdsAssumption == Ids \subseteq Nat \ {0}
ASSUME ReliabilityAssumption == RelMax \in Nat /\ RelUp \in Nat /\ RelDown \in Nat
ASSUME BoundsAssumption == MaxFlips \in Nat /\ MaxFaults \in Nat /\ OnDemand \in BOOLEAN
ASSUME UrlsAssumption == NoUrl \notin Urls \cup {Home}
ASSUME LanesAssumption == Monitors \cap Crawlers = {}

VARIABLES
  page,    \* what the next fetch of the source will see
  source,  \* the source row: reliability_score and resolved_url
  due,     \* has next_due elapsed?
  deals,   \* the deals captured from this source
  latest,  \* history: the id of the row inserted last, 0 for none
  recent,  \* its change log, newest first, as far as recentForSource can look
  pass,    \* what each lane's pass is doing
  overtaken, \* history: passes about to expire, since whose count the log has changed
  flips,   \* page changes so far
  faults   \* failures so far

vars == <<page, source, due, deals, latest, recent, pass, overtaken, flips, faults>>

Lanes == Monitors \cup Crawlers

\* CONSECUTIVE_DISAPPEARANCES_TO_EXPIRE; recentForSource looks one row further.
Threshold == 2
Window == Threshold + 1

Outcomes == {"ok", "robots_disallowed", "wall", "error"}
Pages == [outcome: Outcomes, url: Urls, hash: Hashes]
Source == [rel: 0..RelMax, resolved: Urls \cup {NoUrl}]
Statuses == {"queued", "published", "rejected", "expired"}
Deal == [status: Statuses, url: Urls, hash: Hashes]
Kinds == {"unchanged", "content_changed", "blocked", "disappeared", "error"}
Disposition == {"success", "failure", "neutral"}

\* src is the row the pass read first, own the row its crawl works on.
Idle == [stage |-> "idle"]
Pass == {Idle} \cup
  [stage: {"compare", "record", "count", "expire", "recrawl", "persist", "finish", "advance"},
   src: Source, own: Source, seen: Pages, kind: Kinds, disp: Disposition]

Step(stage, src, own, seen, kind, disp) ==
  [stage |-> stage, src |-> src, own |-> own, seen |-> seen, kind |-> kind, disp |-> disp]
Goto(p, stage) == Step(stage, p.src, p.own, p.seen, p.kind, p.disp)
Noting(p, kind, disp) == Step("record", p.src, p.own, p.seen, kind, disp)
Settled(p, disp) == Step("advance", p.src, p.own, p.seen, p.kind, disp)
Crawling(p, row, stage, disp) == Step(stage, p.src, row, page, p.kind, disp)
Finishing(p, disp) == Step("finish", p.src, p.own, p.seen, p.kind, disp)

Moves(l, next) == pass' = [pass EXCEPT ![l] = next]

\* History, after a step of lane l: it is overtaken no more, and when it logged a
\* change, every other pass between its count and its expiry is.
Overtakes(l) == overtaken' =
  {m \in Monitors \ {l} : pass[m].stage = "expire" /\ (m \in overtaken \/ recent' # recent)}

-----------------------------------------------------------------------------
(* The schedule policy shared by both lanes.                                *)

\* Mutant: a success is not clamped.
ReliabilityUnclamped(rel, success) ==
  IF success THEN rel + RelUp ELSE IF rel < RelDown THEN 0 ELSE rel - RelDown

\* reliabilityAfter, clamped to [0, 1].
ReliabilityAfter(rel, success) ==
  IF success THEN (IF rel + RelUp > RelMax THEN RelMax ELSE rel + RelUp)
  ELSE IF rel < RelDown THEN 0 ELSE rel - RelDown

\* applyCrawlOutcome: url is NoUrl when the pass saw no trustworthy final URL.
CrawlOutcome(row, success, url) ==
  [rel |-> ReliabilityAfter(row.rel, success),
   resolved |-> IF success /\ url # NoUrl THEN url ELSE row.resolved]

\* The row a pass writes back: its own stale copy, moved by the disposition.
WrittenBack(row, disp, url) ==
  IF disp = "neutral" THEN row ELSE CrawlOutcome(row, disp = "success", url)

FinalUrl(seen) == IF seen.outcome = "ok" THEN seen.url ELSE NoUrl

\* dealMatchUrl: the url this source's deals are keyed by.
DealMatchUrl(row) == IF row.resolved = NoUrl THEN Home ELSE row.resolved

-----------------------------------------------------------------------------
(* The change log and the deals.                                            *)

\* Mutant: a change equal to the newest one on record is not logged again.
LogOnce(kind) == recent' =
  IF recent # <<>> /\ recent[1] = kind THEN recent
  ELSE SubSeq(<<kind>> \o recent, 1, IF Len(recent) < Window THEN Len(recent) + 1 ELSE Window)

\* changes.insert; older rows than recentForSource returns are forgotten.
LogChange(kind) == recent' = SubSeq(<<kind>> \o recent, 1,
  IF Len(recent) < Window THEN Len(recent) + 1 ELSE Window)

\* Mutant: every disappearance in the window counts, consecutive or not.
AnyDisappearances(log) == Cardinality({i \in 1..Len(log) : log[i] = "disappeared"})

\* consecutiveDisappearances: the run of disappearances at the head of the log.
Disappearances(log) ==
  Cardinality({i \in 1..Len(log) : \A j \in 1..i : log[j] = "disappeared"})

\* lastHashForSource: listBySourceUrl orders by id, the first live row counts.
Live(url) == {d \in DOMAIN deals : deals[d].url = url /\ deals[d].status \in {"queued", "published"}}
IsBaseline(d, url) == d \in Live(url) /\ \A x \in Live(url) : x <= d
SameAsBaseline(url, hash) == \E d \in Live(url) : IsBaseline(d, url) /\ deals[d].hash = hash

Row(status, url, hash) == [status |-> status, url |-> url, hash |-> hash]
Marked(row, status) == Row(status, row.url, row.hash)

Queue(d, seen) ==
  /\ latest' = d
  /\ deals' = [x \in DOMAIN deals \cup {d} |->
                IF x = d THEN Row("queued", seen.url, seen.hash) ELSE deals[x]]

\* CandidateSink.persist for the one offer of the page: the route is new, or
\* neither queued with this content nor equal to the row findByDedupeKey chose.
NotRejected == {d \in DOMAIN deals : deals[d].status # "rejected"}
QueuedWithHash(hash) == \E d \in DOMAIN deals : deals[d].status = "queued" /\ deals[d].hash = hash

\* Mutant: a route that is known is never queued again.
PersistNewRoutesOnly(seen) ==
  IF NotRejected = {} THEN \E d \in Ids \ DOMAIN deals : Queue(d, seen) ELSE UNCHANGED <<deals, latest>>

PersistOffer(seen) ==
  \/ /\ NotRejected = {} \/ \E d \in NotRejected : deals[d].hash # seen.hash
     /\ ~QueuedWithHash(seen.hash)
     /\ \E d \in Ids \ DOMAIN deals : Queue(d, seen)
  \/ /\ \E d \in NotRejected : QueuedWithHash(seen.hash) \/ deals[d].hash = seen.hash
     /\ UNCHANGED <<deals, latest>>

-----------------------------------------------------------------------------
Init ==
  /\ page \in Pages
  /\ source = [rel |-> RelMax \div 2, resolved |-> NoUrl]
  /\ due = TRUE
  /\ deals = [d \in {} |-> Idle]
  /\ latest = 0
  /\ recent = <<>>
  /\ pass = [l \in Lanes |-> Idle]
  /\ overtaken = {}
  /\ flips = 0
  /\ faults = 0

MayStart(l) == pass[l] = Idle /\ (due \/ OnDemand)

\* A monitor pass: read the source, fetch the page, choose what to record.
StartMonitor(m) ==
  LET p == Step("compare", source, source, page, "unchanged", "neutral")
  IN /\ MayStart(m)
     /\ \/ page.outcome = "ok" /\ Moves(m, p)
        \/ page.outcome = "robots_disallowed" /\ Moves(m, Noting(p, "unchanged", "neutral"))
        \/ page.outcome = "wall" /\ Moves(m, Noting(p, "blocked", "neutral"))
        \/ page.outcome = "error" /\ Moves(m, Noting(p, "disappeared", "failure"))
     /\ UNCHANGED <<page, source, due, deals, latest, recent, overtaken, flips, faults>>

\* handleOk: diff the page against the bundle of the baseline deal.
Compare(m) ==
  LET p == pass[m]
      kind == IF SameAsBaseline(DealMatchUrl(p.src), p.seen.hash)
              THEN "unchanged" ELSE "content_changed"
  IN /\ p.stage = "compare"
     /\ Moves(m, Noting(p, kind, "success"))
     /\ UNCHANGED <<page, source, due, deals, latest, recent, overtaken, flips, faults>>

\* changes.insert; what follows depends on the change.
RecordChange(m) ==
  LET p == pass[m]
  IN /\ p.stage = "record"
     /\ LogChange(p.kind)
     /\ Moves(m, Goto(p, IF p.kind = "disappeared" THEN "count"
                         ELSE IF p.kind = "content_changed" THEN "recrawl"
                         ELSE "advance"))
     /\ UNCHANGED <<page, source, due, deals, latest, flips, faults>>
     /\ Overtakes(m)

\* handleUnreachable: expire only after enough disappearances in a row.
CountDisappearances(m) ==
  LET p == pass[m]
  IN /\ p.stage = "count"
     /\ Moves(m, Goto(p, IF Disappearances(recent) >= Threshold THEN "expire" ELSE "advance"))
     /\ UNCHANGED <<page, source, due, deals, latest, recent, overtaken, flips, faults>>

\* expirePublishedBySourceUrl, by the url the source row had when the pass began.
Expire(m) ==
  LET p == pass[m]
  IN /\ p.stage = "expire"
     /\ deals' = [d \in DOMAIN deals |->
          IF deals[d].status = "published" /\ deals[d].url = DealMatchUrl(p.src)
          THEN Marked(deals[d], "expired")
          ELSE deals[d]]
     /\ Moves(m, Goto(p, "advance"))
     /\ UNCHANGED <<page, source, due, latest, recent, flips, faults>>
     /\ Overtakes(m)

\* advanceSchedule, in the finally block.
AdvanceSchedule(m) ==
  LET p == pass[m]
  IN /\ p.stage = "advance"
     /\ source' = WrittenBack(p.src, p.disp, IF p.disp = "success" THEN FinalUrl(p.seen) ELSE NoUrl)
     /\ due' = FALSE
     /\ Moves(m, Idle)
     /\ UNCHANGED <<page, deals, latest, recent, overtaken, flips, faults>>

-----------------------------------------------------------------------------
(* The crawl, on its own schedule or inside a monitor pass.                 *)

\* The second fetch of a re-crawl may see another page than the monitor did.  A
\* wall or a robots refusal finishes the run as a skip, with success = true.
Fetched(l, p, row) ==
  \/ page.outcome = "ok" /\ Moves(l, Crawling(p, row, "persist", "success"))
  \/ /\ page.outcome \in {"wall", "robots_disallowed"}
     /\ Moves(l, Crawling(p, row, "finish", "success"))
  \/ page.outcome = "error" /\ Moves(l, Crawling(p, row, "finish", "failure"))

StartCrawl(c) ==
  /\ MayStart(c)
  /\ Fetched(c, Step("finish", source, source, page, "unchanged", "neutral"), source)
  /\ UNCHANGED <<page, source, due, deals, latest, recent, overtaken, flips, faults>>

Recrawl(m) ==
  /\ pass[m].stage = "recrawl"
  /\ Fetched(m, pass[m], source)
  /\ UNCHANGED <<page, source, due, deals, latest, recent, overtaken, flips, faults>>

\* Evidence, extraction and the sink: a page without offers leaves no row.
Persist(l) ==
  LET p == pass[l]
  IN /\ p.stage = "persist"
     /\ IF p.seen.hash \in Empty THEN UNCHANGED <<deals, latest>> ELSE PersistOffer(p.seen)
     /\ Moves(l, Finishing(p, "success"))
     /\ UNCHANGED <<page, source, due, recent, overtaken, flips, faults>>

\* finishRun or failRun, then updateSourceAfterCrawl; a monitor pass ends here too.
FinishCrawl(l) ==
  LET p == pass[l]
  IN /\ p.stage = "finish"
     /\ source' = WrittenBack(p.own, p.disp, FinalUrl(p.seen))
     /\ due' = FALSE
     /\ Moves(l, Idle)
     /\ UNCHANGED <<page, deals, latest, recent, overtaken, flips, faults>>

-----------------------------------------------------------------------------
(* Failures, the world and the reviewer.                                    *)

Fault == faults < MaxFaults /\ faults' = faults + 1

\* A call inside the monitor's try failed: an `error` change, if that insert works.
MonitorFails(m) ==
  LET p == pass[m]
  IN /\ Fault
     /\ \/ p.stage \in {"compare", "record", "count", "expire", "recrawl"}
        \/ p.stage = "finish" /\ p.disp = "failure"
     /\ LogChange("error") \/ UNCHANGED recent
     /\ Moves(m, Settled(p, "failure"))
     /\ UNCHANGED <<page, source, due, deals, latest, flips>>
     /\ Overtakes(m)

\* The manual-capture insert failed after its `blocked` change was recorded.
RoutingFails(m) ==
  LET p == pass[m]
  IN /\ Fault
     /\ p.stage = "advance" /\ p.kind = "blocked" /\ p.disp = "neutral"
     /\ LogChange("error") \/ UNCHANGED recent
     /\ Moves(m, Settled(p, "failure"))
     /\ UNCHANGED <<page, source, due, deals, latest, flips>>
     /\ Overtakes(m)

\* A call inside the crawl's try failed: failRun.
CrawlFails(l) ==
  LET p == pass[l]
  IN /\ Fault
     /\ p.stage = "persist" \/ (p.stage = "finish" /\ p.disp = "success")
     /\ Moves(l, Finishing(p, "failure"))
     /\ UNCHANGED <<page, source, due, deals, latest, recent, overtaken, flips>>

\* The last write of a pass fails, or its process is killed: the pass is over.
PassEnds(l) ==
  /\ Fault
  /\ pass[l] # Idle
  /\ Moves(l, Idle)
  /\ UNCHANGED <<page, source, due, deals, latest, recent, flips>>
  /\ Overtakes(l)

\* Time passes next_due; the back-off is at most five cadences long.
Elapse ==
  /\ ~due
  /\ due' = TRUE
  /\ UNCHANGED <<page, source, deals, latest, recent, pass, overtaken, flips, faults>>

PageChanges ==
  /\ flips < MaxFlips
  /\ flips' = flips + 1
  /\ page' \in Pages \ {page}
  /\ page'.outcome # "ok" => page'.url = page.url /\ page'.hash = page.hash
  /\ UNCHANGED <<source, due, deals, latest, recent, pass, overtaken, faults>>

\* A reviewer decides a queued deal (DealLifecycle has the details).
Review(d, status) ==
  /\ deals[d].status = "queued"
  /\ deals' = [deals EXCEPT ![d] = Marked(deals[d], status)]
  /\ UNCHANGED <<page, source, due, latest, recent, pass, overtaken, flips, faults>>

-----------------------------------------------------------------------------
MonitorStep(m) ==
  \/ Compare(m) \/ RecordChange(m) \/ CountDisappearances(m) \/ Expire(m)
  \/ AdvanceSchedule(m) \/ Recrawl(m)

CrawlStep(l) == Persist(l) \/ FinishCrawl(l)

Fails(l) ==
  \/ l \in Monitors /\ (MonitorFails(l) \/ RoutingFails(l))
  \/ CrawlFails(l)
  \/ PassEnds(l)

Next ==
  \/ \E m \in Monitors : StartMonitor(m) \/ MonitorStep(m)
  \/ \E c \in Crawlers : StartCrawl(c)
  \/ \E l \in Lanes : CrawlStep(l) \/ Fails(l)
  \/ Elapse
  \/ PageChanges
  \/ \E d \in DOMAIN deals : Review(d, "published") \/ Review(d, "rejected")

Spec == Init /\ [][Next]_vars

\* Time passes, a started pass runs on, and cron keeps starting both lanes: the
\* monitor more often than anything else that moves next_due, hence strongly.
Fairness ==
  /\ WF_vars(Elapse)
  /\ \A m \in Monitors : SF_vars(StartMonitor(m)) /\ WF_vars(MonitorStep(m))
  /\ \A c \in Crawlers : WF_vars(StartCrawl(c))
  /\ \A l \in Lanes : WF_vars(CrawlStep(l))

FairSpec == Spec /\ Fairness

-----------------------------------------------------------------------------
(* Properties.                                                              *)

TypeOK ==
  /\ page \in Pages
  /\ source \in Source
  /\ due \in BOOLEAN
  /\ DOMAIN deals \subseteq Ids
  /\ deals \in [DOMAIN deals -> Deal]
  /\ latest \in DOMAIN deals \cup {0}
  /\ recent \in Seq(Kinds) /\ Len(recent) <= Window
  /\ pass \in [Lanes -> Pass]
  /\ overtaken \subseteq Monitors
  /\ flips \in 0..MaxFlips
  /\ faults \in 0..MaxFaults

\* A published deal is only taken down while the newest two changes on record are
\* disappearances: a sighting, a wall, a refusal or a failure that was recorded in
\* between starts the count anew.  Excepted is a pass whose source got another
\* change row, by a pass that overlaps it, between its count and its expiry; and
\* two passes that overlap in one outage each count with a row of their own.
ExpiryDebounced ==
  [][\A d \in DOMAIN deals :
       deals[d].status = "published" /\ deals'[d].status = "expired" =>
         \/ \E m \in overtaken : pass[m].stage = "expire" /\ pass'[m].stage # "expire"
         \/ /\ Len(recent) >= Threshold
            /\ \A i \in 1..Threshold : recent[i] = "disappeared"]_vars

\* Once its page is gone for good and the url its deals are matched by no longer
\* changes, no deal of that url stays published.  Deals captured under another url
\* the source once resolved to are not matched, and stay.
GoneIsRetired ==
  \A u \in Urls \cup {Home} :
    <>[](page.outcome = "error" /\ DealMatchUrl(source) = u) =>
      <>[](\A d \in DOMAIN deals : deals[d].url = u => deals[d].status # "published")

\* Content that lasts is captured: some row of the source gets exactly it, as
\* long as the bound on rows leaves room for one.
LastingContentIsCaptured ==
  \A h \in Hashes \ Empty :
    <>[](page.outcome = "ok" /\ page.hash = h) =>
      <>(DOMAIN deals = Ids \/ \E d \in DOMAIN deals : deals[d].hash = h)

\* The diff baseline is the newest capture: a page equal to the row captured last,
\* while that row is still live, is not reported as changed and extracted again.
NewestIsBaseline ==
  [][\A m \in Monitors :
       pass[m].stage = "compare" /\ pass'[m].stage = "record" /\ pass'[m].kind = "content_changed" =>
         ~(/\ latest \in Live(DealMatchUrl(pass[m].src))
           /\ deals[latest].hash = pass[m].seen.hash)]_vars
=============================================================================
