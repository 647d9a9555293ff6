------------------------------ MODULE LaneRuns ------------------------------
(***************************************************************************)
(* The paid lanes: site discovery, broad discovery and community ingestion *)
(* as the command line runs them, each run bounded by items, money and     *)
(* time, with its row in crawl_runs and the daily budget guard that sums   *)
(* those rows before a run may start.                                      *)
(*                                                                         *)
(* Money is in whole units (roundEur's cents).  Pages, links, feed items   *)
(* and search results are counted, not named: the loops only ask how many  *)
(* are left.  Which deals and sources a run stores is the subject of       *)
(* DealLifecycle and SourceRegistry.  Time caps may strike at any look at  *)
(* the clock.  Dry runs write nothing and are left out.                    *)
(***************************************************************************)
EXTENDS Naturals

CONSTANTS
  Batches,    \* command-line processes that may run at a time
  Lanes,      \* the lanes they run
  Ceiling,    \* daily_budget_eur, 0 for no daily budget
  PerRun,     \* agent.maxCostEur
  CallMax,    \* the dearest LLM call
  Search,     \* searchCostEur
  ItemCap,    \* maxPages, maxSteps and maxItems
  MaxLinks,   \* bounds the new links of a page
  MaxNew,     \* bounds the results of a query and the items of a feed
  MaxQueries, \* queries of a broad run
  MaxFeeds,   \* community sources of an ingest batch
  LastDay,    \* bounds the days
  MaxFaults   \* bounds failed database calls and killed processes

ASSUME LanesAssumption == Lanes \subseteq {"discover", "broad", "ingest"}
ASSUME MoneyAssumption ==
  Ceiling \in Nat /\ PerRun \in Nat /\ CallMax \in Nat /\ Search \in Nat
ASSUME BoundsAssumption ==
  /\ ItemCap \in Nat \ {0} /\ MaxLinks \in Nat /\ MaxNew \in Nat /\ MaxQueries \in Nat
  /\ MaxFeeds \in Nat /\ LastDay \in Nat /\ MaxFaults \in Nat

VARIABLES
  day,     \* the UTC day
  spent,   \* per day, cost_eur summed over the rows started that day
  running, \* per batch, the rows it inserted whose status is still 'running'
  run,     \* what each batch is doing
  capped,  \* history: the rows closed as daily_budget_cap
  lost,    \* history: per batch, the rows it left open: killed, or the closing write failed
  faults   \* failures so far

vars == <<day, spent, running, run, capped, lost, faults>>

Days == 0..LastDay
FrontierHeadroom == 5
MaxFrontier == ItemCap * FrontierHeadroom

CapReasons == {"step_cap", "cost_cap", "time_cap"}
AgentReasons == CapReasons \cup {"completed", "error"}
Reasons == AgentReasons \cup {"page_cap", "item_cap", "daily_budget_cap"}

Stages == {"idle", "check", "start", "open", "top", "lead", "extract", "pages",
           "propose", "finish", "fail"}

Run == [stage: Stages,
        lane: Lanes,
        feeds: 0..MaxFeeds,        \* runs left in the batch, this one included
        checked: Days,             \* the day the guard looked at
        started: Days,             \* started_at of the row
        row: BOOLEAN,              \* was the row inserted?
        cap: Nat, clamped: BOOLEAN,
        cost: Nat,                 \* costEur, what the run charges itself
        billed: Nat,               \* history: what its LLM and search calls cost
        outage: BOOLEAN,           \* history: did an LLM call throw?
        count: 0..ItemCap,         \* pagesFetched, stepsUsed, processed
        todo: Nat,                 \* links, pages or items in hand
        queued: 0..MaxFrontier,    \* size of discovery's queued set
        queries: 0..MaxQueries,    \* queries left
        agent: AgentReasons,       \* the stoppedReason of the last query
        reason: Reasons]           \* stoppedReason

NoRun(l) ==
  [stage |-> "idle", lane |-> l, feeds |-> 0, checked |-> 0, started |-> 0,
   row |-> FALSE, cap |-> PerRun, clamped |-> FALSE, cost |-> 0, billed |-> 0,
   outage |-> FALSE, count |-> 0, todo |-> 0, queued |-> 0, queries |-> 0,
   agent |-> "completed", reason |-> "completed"]

Init ==
  /\ day = 0
  /\ spent = [d \in Days |-> 0]
  /\ running = [b \in Batches |-> 0]
  /\ run \in [Batches -> {NoRun(l) : l \in Lanes}]
  /\ capped = {}
  /\ lost = [b \in Batches |-> 0]
  /\ faults = 0

-----------------------------------------------------------------------------
(* Helpers of the steps.                                                    *)

Becomes(b, next) == run' = [run EXCEPT ![b] = next]
LedgerUnchanged == UNCHANGED <<day, spent, running, capped, lost>>

\* A step of the run that only this process sees.
Local(b, next) == Becomes(b, next) /\ LedgerUnchanged /\ UNCHANGED faults

\* A call that throws past the lane's own containment: the outer catch.
Fault == faults < MaxFaults /\ faults' = faults + 1
Abort(b) == Becomes(b, [run[b] EXCEPT !.stage = "fail"]) /\ LedgerUnchanged /\ Fault

Stop(b, why) == Local(b, [run[b] EXCEPT !.stage = "propose", !.reason = why])

\* The budget is spent, or the deadline has passed, when the run looks.
OverBudget(b) == run[b].cost >= run[b].cap
StopOnBudget(b) ==
  \/ OverBudget(b) /\ Stop(b, "cost_cap")
  \/ ~OverBudget(b) /\ Stop(b, "time_cap")

DailyBudgetEnabled == Ceiling > 0
Remaining(total) == IF Ceiling > total THEN Ceiling - total ELSE 0
Exhausted(total) == DailyBudgetEnabled /\ Remaining(total) = 0

\* Mutant: the run's own cap, whatever is left of the day.
UnclampedCap(total) == PerRun

\* effectiveRunCostCap.
EffectiveCap(total) ==
  IF DailyBudgetEnabled /\ Remaining(total) < PerRun THEN Remaining(total) ELSE PerRun

(* One extraction: one LLM call, or two when the first reply is rejected.   *)
(* It ends saved, or with candidates whose evidence or rows could not be    *)
(* stored, or with both replies rejected (ExtractionFailedError, which      *)
(* carries the cost), or with a call that threw.                            *)
Extractions ==
  [ending: {"saved", "unsaved", "rejected"}, billed: 0..2 * CallMax]
    \cup [ending: {"outage"}, billed: 0..CallMax]

\* Mutant: the cost is added after the candidates were stored.
ChargedWhenSaved(lane, extraction) ==
  IF \/ extraction.ending = "saved"
     \/ extraction.ending = "rejected" /\ lane \in {"discover", "broad"}
  THEN extraction.billed ELSE 0

\* What the lane adds to costEur for it.
Charged(lane, extraction) ==
  IF \/ extraction.ending = "saved"
     \/ extraction.ending = "rejected" /\ lane \in {"discover", "broad"}
     \/ extraction.ending = "unsaved" /\ lane = "discover"
  THEN extraction.billed ELSE 0

Paid(r, extraction) ==
  [r EXCEPT !.cost = @ + Charged(r.lane, extraction),
            !.billed = @ + extraction.billed,
            !.outage = @ \/ extraction.ending = "outage"]

-----------------------------------------------------------------------------
(* The batch: command line, budget guard, run row.                          *)

\* The batch goes on with its next feed, or the command ends.
AfterRun(r) ==
  IF r.feeds > 1 THEN [NoRun(r.lane) EXCEPT !.stage = "check", !.feeds = r.feeds - 1]
  ELSE NoRun(r.lane)

Launch(b) ==
  /\ run[b].stage = "idle"
  /\ \E l \in Lanes, n \in 1..MaxFeeds :
       /\ l # "ingest" => n = 1
       /\ Local(b, [NoRun(l) EXCEPT !.stage = "check", !.feeds = n])

\* DailyBudgetGuard.check, then effectiveCostCap.
Check(b) ==
  /\ run[b].stage = "check"
  /\ IF Exhausted(spent[day])
     THEN Local(b, NoRun(run[b].lane))
     ELSE LET cap == EffectiveCap(spent[day])
          IN Local(b, [run[b] EXCEPT !.stage = "start", !.checked = day, !.cap = cap,
                                     !.clamped = cap < PerRun])

\* The guard's read throws: the command ends.
CheckFails(b) ==
  /\ run[b].stage = "check"
  /\ Becomes(b, NoRun(run[b].lane))
  /\ LedgerUnchanged /\ Fault

\* RunRecorder.start: a failed insert is swallowed and the lane goes on.
StartRun(b) ==
  /\ run[b].stage = "start"
  /\ \E inserted \in BOOLEAN :
       /\ Becomes(b, [run[b] EXCEPT !.stage = "open", !.started = day, !.row = inserted])
       /\ running' = IF inserted THEN [running EXCEPT ![b] = @ + 1] ELSE running
       /\ IF inserted THEN UNCHANGED faults ELSE Fault
  /\ UNCHANGED <<day, spent, capped, lost>>

\* The feed's source row is gone or cannot be read: no run, on to the next feed.
SourceMissing(b) ==
  /\ run[b].stage = "start" /\ run[b].lane = "ingest"
  /\ Becomes(b, AfterRun(run[b]))
  /\ LedgerUnchanged /\ Fault

\* What a lane reads before its loop: allowlist, queries, or feed and catalog.
Open(b) ==
  /\ run[b].stage = "open"
  /\ \/ Abort(b)
     \/ run[b].lane = "discover"
        /\ Local(b, [run[b] EXCEPT !.stage = "top", !.todo = 1, !.queued = 1])
     \/ run[b].lane = "broad"
        /\ \E n \in 0..MaxQueries : Local(b, [run[b] EXCEPT !.stage = "top", !.queries = n])
     \/ run[b].lane = "ingest"
        /\ \E n \in 0..MaxNew : Local(b, [run[b] EXCEPT !.stage = "top", !.todo = n])
     \/ run[b].lane = "ingest" /\ Local(b, [run[b] EXCEPT !.stage = "finish"])  \* no catalog

\* persistProposedSources.
Propose(b) ==
  /\ run[b].stage = "propose"
  /\ Abort(b) \/ Local(b, [run[b] EXCEPT !.stage = "finish"])

\* Mutant: every stop of a clamped run is blamed on the daily budget.
ClampedReason(r) == IF r.clamped THEN "daily_budget_cap" ELSE r.reason

EffectiveReason(r) ==
  IF r.reason = "cost_cap" /\ r.clamped THEN "daily_budget_cap" ELSE r.reason

\* History: the day whose headroom the run was given, and what it books on another.
CappedRow(r) == [against |-> r.checked, elsewhere |-> IF r.started = r.checked THEN 0 ELSE r.cost]

\* Mutant: a run that threw does not close its row.
CloseFinished(b) ==
  LET r == run[b]
  IN /\ r.stage \in {"finish", "fail"}
     /\ Becomes(b, AfterRun(r))
     /\ IF r.stage = "finish" /\ r.row
        THEN /\ spent' = [spent EXCEPT ![r.started] = @ + r.cost]
             /\ running' = [running EXCEPT ![b] = @ - 1]
        ELSE UNCHANGED <<spent, running>>
     /\ UNCHANGED <<day, capped, lost, faults>>

\* RunRecorder.finish and fail: a failed update is swallowed, and without the
\* row there is nothing to update.
CloseRun(b) ==
  LET r == run[b]
  IN /\ r.stage \in {"finish", "fail"}
     /\ Becomes(b, AfterRun(r))
     /\ \/ /\ r.row
           /\ spent' = [spent EXCEPT ![r.started] = @ + r.cost]
           /\ running' = [running EXCEPT ![b] = @ - 1]
           /\ capped' = IF r.stage = "finish" /\ EffectiveReason(r) = "daily_budget_cap"
                        THEN capped \cup {CappedRow(r)} ELSE capped
           /\ UNCHANGED <<lost, faults>>
        \/ ~r.row /\ UNCHANGED <<spent, running, capped, lost, faults>>
        \/ /\ Fault
           /\ lost' = IF r.row THEN [lost EXCEPT ![b] = @ + 1] ELSE lost
           /\ UNCHANGED <<spent, running, capped>>
     /\ UNCHANGED day

\* The process dies; its row stays as it is.
Kill(b) ==
  /\ run[b].stage # "idle"
  /\ Becomes(b, NoRun(run[b].lane))
  /\ lost' = IF run[b].row THEN [lost EXCEPT ![b] = @ + 1] ELSE lost
  /\ UNCHANGED <<day, spent, running, capped>>
  /\ Fault

Midnight ==
  /\ day < LastDay
  /\ day' = day + 1
  /\ UNCHANGED <<spent, running, run, capped, lost, faults>>

-----------------------------------------------------------------------------
(* Site discovery.                                                          *)

AtTop(b, lane) == run[b].stage = "top" /\ run[b].lane = lane

DiscoverStops(b) ==
  /\ AtTop(b, "discover")
  /\ \/ run[b].todo = 0 /\ Stop(b, "completed")
     \/ run[b].todo > 0 /\ run[b].count >= ItemCap /\ Stop(b, "page_cap")
     \/ run[b].todo > 0 /\ run[b].count < ItemCap /\ StopOnBudget(b)

\* A fetch that throws is not counted in pagesFetched; a page that answers is,
\* whether it is skipped, proposed, handed to a human or extracted.
DiscoverPage(b) ==
  LET taken   == [run[b] EXCEPT !.todo = @ - 1]
      fetched == [taken EXCEPT !.count = @ + 1]
  IN /\ AtTop(b, "discover")
     /\ run[b].todo > 0 /\ run[b].count < ItemCap /\ ~OverBudget(b)
     /\ \/ Local(b, taken)
        \/ Local(b, fetched)
        \/ Local(b, [fetched EXCEPT !.stage = "extract"])
        \/ Abort(b)

\* Mutant: the frontier takes every link.
DiscoverUnbounded(b) ==
  /\ run[b].stage = "extract" /\ run[b].lane = "discover"
  /\ \E e \in Extractions, n \in 0..MaxLinks :
       Local(b, [Paid(run[b], e) EXCEPT !.stage = "top", !.todo = @ + n, !.queued = @ + n])

\* Extraction, then the page's in-scope links while the frontier has room.
DiscoverExtract(b) ==
  /\ run[b].stage = "extract" /\ run[b].lane = "discover"
  /\ \/ StopOnBudget(b)
     \/ /\ ~OverBudget(b)
        /\ \E e \in Extractions, n \in 0..MaxLinks :
             /\ run[b].queued + n <= MaxFrontier
             /\ Local(b, [Paid(run[b], e) EXCEPT !.stage = "top", !.todo = @ + n,
                                                 !.queued = @ + n])

-----------------------------------------------------------------------------
(* Broad discovery.                                                         *)

BroadStops(b) ==
  /\ AtTop(b, "broad")
  /\ \/ run[b].queries = 0 /\ Stop(b, "completed")
     \/ run[b].queries > 0 /\ run[b].count >= ItemCap /\ Stop(b, "step_cap")
     \/ run[b].queries > 0 /\ run[b].count < ItemCap /\ StopOnBudget(b)

\* Mutant: a query whose search failed stays in the list.
BroadRetries(b) ==
  /\ AtTop(b, "broad")
  /\ run[b].queries > 0 /\ run[b].count < ItemCap /\ ~OverBudget(b)
  /\ Local(b, [run[b] EXCEPT !.stage = "pages", !.agent = "error", !.todo = 0])

\* SearchBrowserAgent.run under the headroom left: the search, then fetches up
\* to its own caps; robots-disallowed results cost a step but carry no page.
BroadQuery(b) ==
  LET headroom == run[b].cap - run[b].cost
      asked    == [run[b] EXCEPT !.queries = @ - 1, !.stage = "pages"]
      billed   == [asked EXCEPT !.cost = @ + Search, !.billed = @ + Search]
  IN /\ AtTop(b, "broad")
     /\ run[b].queries > 0 /\ run[b].count < ItemCap /\ ~OverBudget(b)
     /\ \/ Local(b, [asked EXCEPT !.agent = "error", !.todo = 0])
        \/ Search >= headroom /\ Local(b, [billed EXCEPT !.agent = "cost_cap", !.todo = 0])
        \/ /\ Search <= headroom
           /\ \E steps \in 0..MaxNew, why \in AgentReasons :
                /\ run[b].count + steps <= ItemCap
                /\ why = "step_cap" => run[b].count + steps = ItemCap
                /\ why # "cost_cap"
                /\ steps > 0 => Search < headroom
                /\ \E n \in 0..steps :
                     Local(b, [billed EXCEPT !.agent = why, !.todo = n,
                                             !.count = @ + steps])

\* handlePage: denied, unreadable or blocked pages cost nothing.
BroadPage(b) ==
  LET taken == [run[b] EXCEPT !.todo = @ - 1]
  IN /\ run[b].stage = "pages" /\ run[b].todo > 0
     /\ \/ Local(b, taken)
        \/ Abort(b)
        \/ StopOnBudget(b)
        \/ /\ ~OverBudget(b)
           /\ \E e \in Extractions : Local(b, Paid(taken, e))

BroadQueryDone(b) ==
  /\ run[b].stage = "pages" /\ run[b].todo = 0
  /\ IF run[b].agent \in CapReasons THEN Stop(b, run[b].agent)
     ELSE Local(b, [run[b] EXCEPT !.stage = "top"])

-----------------------------------------------------------------------------
(* Community ingestion.                                                     *)

IngestStops(b) ==
  /\ AtTop(b, "ingest")
  /\ \/ run[b].todo = 0 /\ Stop(b, "completed")
     \/ run[b].todo > 0 /\ run[b].count >= ItemCap /\ Stop(b, "item_cap")
     \/ run[b].todo > 0 /\ run[b].count < ItemCap /\ StopOnBudget(b)

\* The keyword filter drops the item for free, triage throws, or triage answers.
IngestItem(b) ==
  LET taken == [run[b] EXCEPT !.todo = @ - 1, !.count = @ + 1]
  IN /\ AtTop(b, "ingest")
     /\ run[b].todo > 0 /\ run[b].count < ItemCap /\ ~OverBudget(b)
     /\ \/ Local(b, taken)
        \/ Local(b, [taken EXCEPT !.outage = TRUE])
        \/ \E c \in 0..CallMax, next \in {"top", "lead"} :
             Local(b, [taken EXCEPT !.stage = next, !.cost = @ + c, !.billed = @ + c])

\* Mutant: the budget is not looked at again between triage and extraction.
IngestLeadUnguarded(b) ==
  /\ run[b].stage = "lead"
  /\ \E e \in Extractions : Local(b, [Paid(run[b], e) EXCEPT !.stage = "top"])

\* processLead: nothing to read or no budget left, a wall, or an extraction.
IngestLead(b) ==
  /\ run[b].stage = "lead"
  /\ \/ Local(b, [run[b] EXCEPT !.stage = "top"])
     \/ Abort(b)
     \/ /\ ~OverBudget(b)
        /\ \E e \in Extractions : Local(b, [Paid(run[b], e) EXCEPT !.stage = "top"])

-----------------------------------------------------------------------------
LaneStep(b) ==
  \/ DiscoverStops(b) \/ DiscoverPage(b) \/ DiscoverExtract(b)
  \/ BroadStops(b) \/ BroadQuery(b) \/ BroadPage(b) \/ BroadQueryDone(b)
  \/ IngestStops(b) \/ IngestItem(b) \/ IngestLead(b)

BatchStep(b) ==
  \/ Check(b) \/ CheckFails(b) \/ StartRun(b) \/ SourceMissing(b) \/ Open(b)
  \/ LaneStep(b) \/ Propose(b) \/ CloseRun(b)

Next == Midnight \/ \E b \in Batches : Launch(b) \/ BatchStep(b) \/ Kill(b)

Spec == Init /\ [][Next]_vars

\* A command that runs goes on: every call it waits for has a timeout.
FairSpec == Spec /\ \A b \in Batches : WF_vars(BatchStep(b))

-----------------------------------------------------------------------------
(* Properties.                                                              *)

\* Every variable has its type.
TypeOK ==
  /\ day \in Days
  /\ spent \in [Days -> Nat]
  /\ running \in [Batches -> Nat]
  /\ run \in [Batches -> Run]
  /\ capped \subseteq [against: Days, elsewhere: Nat]
  /\ lost \in [Batches -> Nat]
  /\ faults \in 0..MaxFaults

\* The most one paid step can add: an extraction with its retry, or a search.
Overshoot == IF 2 * CallMax > Search THEN 2 * CallMax ELSE Search

\* No run charges more than its cap plus one extraction (or one search),
\* whatever mix of triage, search and extraction it went through: the cost is
\* looked at before every paid step (discover-site.ts:196-206,
\* discover-broad.ts:286-310, ingest-community.ts:305-310).
RunCostBounded ==
  \A b \in Batches : run[b].cost > 0 => run[b].cost < run[b].cap + Overshoot

\* The ledger of a day exceeds the daily ceiling by at most one extraction, a
\* run that was checked before midnight and started after it included, as long
\* as commands do not overlap (daily-budget-guard.ts:22-37).
DailyCeiling ==
  DailyBudgetEnabled => \A d \in Days : spent[d] < Ceiling + Overshoot

\* A row closed as daily_budget_cap says that the day whose headroom its run was
\* given has reached the ceiling, its own cost included, even when commands overlap
\* (crawl-run.ts:22-31).  A run that was clamped before midnight and starts after it
\* books that cost on the new day, which may have all its headroom left: there the
\* reason speaks of the day before.
DailyCapIsHonest == \A c \in capped : spent[c.against] + c.elsewhere >= Ceiling

\* Site discovery charges every call it made, pages whose extraction or
\* persistence failed included, as long as no call threw
\* (discover-site.ts:209-248).
DiscoveryChargesAll ==
  \A b \in Batches : run[b].lane = "discover" /\ ~run[b].outage => run[b].cost = run[b].billed

\* No row of crawl_runs is left 'running' once its run has ended, by whichever of
\* its exits and by the catch of any call that throws (discover-site.ts:103-104,
\* ingest-community.ts:101-102), but for the rows of killed processes and those
\* whose closing write failed: of these exactly one is left for each.
NoRowDangles ==
  \A b \in Batches :
    run[b].stage \in {"idle", "check", "start"} => running[b] = lost[b]

\* A run that has started ends, even when every fetch of its frontier throws and
\* pagesFetched never reaches its cap, or every search fails and no step is used
\* (discover-site.ts:128-162, discover-broad.ts:108-178).
RunsEnd ==
  \A b \in Batches : run[b].stage = "open" ~> run[b].stage \in {"idle", "check"}
=============================================================================
