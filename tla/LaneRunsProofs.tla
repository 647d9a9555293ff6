--------------------------- MODULE LaneRunsProofs ---------------------------
(***************************************************************************)
(* Proofs about the paid lanes and what they pay for.  For any money,      *)
(* caps, batches and days: the bound on what a run charges (LaneRuns), the *)
(* meaning of daily_budget_cap, and, for commands that do not overlap, the *)
(* soft ceiling of a day.  For every text, reading, draft and vocabulary:  *)
(* the record rules (RecordRules) and the recovery of the JSON document    *)
(* (JsonRecovery).  Both walk over sequences; the induction they need is   *)
(* over sets of natural numbers.                                           *)
(***************************************************************************)
EXTENDS LaneRuns, RecordRules, JsonRecovery, FiniteSetTheorems, SequenceTheorems, WellFoundedInduction, TLAPS

-----------------------------------------------------------------------------
(* The lanes.                                                               *)

Running == Stages \ {"idle", "check", "start"}

\* What the money of a run says, wherever the run is.
Sound(r) ==
  /\ r.cost > 0 => r.cost < r.cap + Overshoot
  /\ r.reason = "cost_cap" => r.cost >= r.cap
  /\ r.agent = "cost_cap" => r.cost >= r.cap
  /\ r.reason # "daily_budget_cap"
  /\ r.stage = "check" => r.cost = 0 /\ r.reason = "completed" /\ r.agent = "completed"
  /\ r.lane = "discover" /\ ~r.outage => r.cost = r.billed

\* A clamped run may spend all that was left of the day it was checked on.
Headroom(r) == r.clamped => spent[r.checked] + r.cap >= Ceiling

\* The rows a command has open are those it lost and the one its run holds.
Accounted(b) ==
  /\ run[b].row => run[b].stage \in Running
  /\ running[b] = IF run[b].row THEN lost[b] + 1 ELSE lost[b]

IInv ==
  /\ TypeOK
  /\ \A b \in Batches : Accounted(b)
  /\ \A b \in Batches : Sound(run[b]) /\ Headroom(run[b])
  /\ DailyCapIsHonest

\* What no step inside a run changes.
Steady(r, n) ==
  /\ r.stage \in Running /\ n.stage \in Running
  /\ n.lane = r.lane /\ n.feeds = r.feeds /\ n.checked = r.checked /\ n.started = r.started
  /\ n.row = r.row /\ n.cap = r.cap /\ n.clamped = r.clamped

Inner(b, n) ==
  /\ n \in Run
  /\ Steady(run[b], n)
  /\ Sound(run[b]) => Sound(n)

InnerStep(b) ==
  \E n \in Run :
    /\ Inner(b, n)
    /\ Becomes(b, n)
    /\ LedgerUnchanged
    /\ faults' \in 0..MaxFaults

-----------------------------------------------------------------------------
(* Money.                                                                   *)

\* The overshoot covers an extraction and a search.
LEMMA OvershootCovers ==
  Overshoot \in Nat /\ 2 * CallMax <= Overshoot /\ Search <= Overshoot /\ CallMax <= Overshoot
BY MoneyAssumption DEF Overshoot

\* An extraction is charged at most what it cost, and less than a full overshoot.
LEMMA ChargeBounded ==
  ASSUME NEW e \in Extractions, NEW l \in Lanes
  PROVE  Charged(l, e) \in 0..Overshoot /\ e.billed \in Nat
<1>1. e.billed \in Nat /\ e.billed <= 2 * CallMax
  BY MoneyAssumption DEF Extractions
<1>2. e.billed \in 0..Overshoot
  BY <1>1, OvershootCovers, MoneyAssumption
<1>3. Charged(l, e) = e.billed \/ Charged(l, e) = 0
  BY DEF Charged
<1> QED BY <1>1, <1>2, <1>3, OvershootCovers

\* The cap of a run that passed the guard, when the daily budget is on.
LEMMA CapFits ==
  ASSUME NEW total \in Nat
  PROVE  /\ EffectiveCap(total) \in Nat
         /\ EffectiveCap(total) < PerRun => total + EffectiveCap(total) >= Ceiling
         /\ DailyBudgetEnabled /\ ~Exhausted(total) => total + EffectiveCap(total) <= Ceiling
BY MoneyAssumption DEF EffectiveCap, Remaining, Exhausted, DailyBudgetEnabled

\* A run that has not begun is a run, and charges nothing.
LEMMA NoRunFits ==
  ASSUME NEW l \in Lanes
  PROVE  NoRun(l) \in Run /\ Sound(NoRun(l)) /\ ~NoRun(l).clamped
<1>1. MaxFrontier \in Nat
  BY BoundsAssumption DEF MaxFrontier, FrontierHeadroom
<1> QED BY <1>1, MoneyAssumption, BoundsAssumption
        DEF NoRun, Run, Sound, Stages, Days, AgentReasons, CapReasons, Reasons

-----------------------------------------------------------------------------
(* Steps inside a run.                                                      *)

\* A local step, or a call that throws, to a proper next state is an inner step.
LEMMA LocalInner ==
  ASSUME TypeOK, NEW b \in Batches, NEW n, Inner(b, n), Local(b, n)
  PROVE  InnerStep(b)
BY DEF InnerStep, Inner, Local, TypeOK

LEMMA AbortInner ==
  ASSUME TypeOK, NEW b \in Batches, run[b].stage \in Running, Abort(b)
  PROVE  InnerStep(b)
<1> DEFINE n == [run[b] EXCEPT !.stage = "fail"]
<1>1. Inner(b, n)
  BY DEF Inner, TypeOK, Run, Steady, Sound, Running, Stages
<1> QED BY <1>1, BoundsAssumption DEF InnerStep, Inner, Abort, Fault, TypeOK

LEMMA StopInner ==
  ASSUME TypeOK, NEW b \in Batches, run[b].stage \in Running, NEW why \in Reasons \ {"daily_budget_cap"},
         why = "cost_cap" => OverBudget(b), Stop(b, why)
  PROVE  InnerStep(b)
<1> DEFINE n == [run[b] EXCEPT !.stage = "propose", !.reason = why]
<1>1. n \in Run
  <2>1. run[b] \in Run /\ why \in Reasons /\ "propose" \in Stages
    BY DEF TypeOK, Stages
  <2> QED BY <2>1 DEF Run
<1>2. Inner(b, n)
  BY <1>1 DEF Inner, TypeOK, Run, Steady, Sound, Running, Stages, OverBudget
<1> QED BY <1>2, LocalInner DEF Stop

LEMMA BudgetStopInner ==
  ASSUME TypeOK, NEW b \in Batches, run[b].stage \in Running, StopOnBudget(b)
  PROVE  InnerStep(b)
BY StopInner DEF StopOnBudget, Reasons, AgentReasons, CapReasons

\* Paying for an extraction within the budget.
LEMMA PaidFits ==
  ASSUME NEW r \in Run, NEW e \in Extractions, r.cost < r.cap, r.stage \in Running
  PROVE  Paid(r, e) \in Run /\ Steady(r, Paid(r, e)) /\ (Sound(r) => Sound(Paid(r, e)))
<1> DEFINE n == Paid(r, e)
<1>1. Charged(r.lane, e) \in 0..Overshoot /\ e.billed \in Nat
  BY ChargeBounded DEF Run
<1>2. n = [r EXCEPT !.cost = r.cost + Charged(r.lane, e), !.billed = r.billed + e.billed,
                    !.outage = r.outage \/ e.ending = "outage"]
  BY DEF Paid
<1>3. r.cost \in Nat /\ r.cap \in Nat /\ r.billed \in Nat /\ Overshoot \in Nat
  BY OvershootCovers DEF Run
<1>4. (r.outage \/ e.ending = "outage") \in BOOLEAN
  OBVIOUS
<1>5. r.cost + Charged(r.lane, e) \in Nat /\ r.billed + e.billed \in Nat
  BY <1>1, <1>3
<1>6. n \in Run
  BY <1>2, <1>4, <1>5 DEF Run
<1>7. /\ n.cost = r.cost + Charged(r.lane, e)
      /\ n.cap = r.cap /\ n.stage = r.stage /\ n.reason = r.reason /\ n.agent = r.agent
  BY <1>2 DEF Run
<1>8. Steady(r, n)
  BY <1>2 DEF Run, Steady
<1>9. r.stage # "check"
  BY DEF Running
<1>10. n.lane = r.lane /\ (n.outage <=> r.outage \/ e.ending = "outage") /\ n.billed = r.billed + e.billed
  BY <1>2 DEF Run
<1>11. r.lane = "discover" /\ e.ending # "outage" => Charged(r.lane, e) = e.billed
  BY DEF Extractions, Charged
<1>12. Sound(r) => Sound(n)
  BY <1>1, <1>3, <1>7, <1>9, <1>10, <1>11 DEF Sound
<1> QED BY <1>6, <1>8, <1>12

LEMMA DiscoverInner ==
  ASSUME TypeOK, NEW b \in Batches, DiscoverStops(b) \/ DiscoverPage(b) \/ DiscoverExtract(b)
  PROVE  InnerStep(b)
<1> DEFINE r == run[b]
<1>1. r \in Run /\ MaxFrontier \in Nat
  BY BoundsAssumption DEF TypeOK, MaxFrontier, FrontierHeadroom
<1>2. r.stage \in Running
  BY DEF DiscoverStops, DiscoverPage, DiscoverExtract, AtTop, Running, Stages
<1>3. CASE DiscoverStops(b)
  BY <1>2, <1>3, StopInner, BudgetStopInner DEF DiscoverStops, Reasons, AgentReasons, CapReasons
<1>4. CASE DiscoverPage(b)
  <2> DEFINE taken == [r EXCEPT !.todo = @ - 1]
             fetched == [taken EXCEPT !.count = @ + 1]
             kept == [fetched EXCEPT !.stage = "extract"]
  <2>1. /\ Local(b, taken) \/ Local(b, fetched) \/ Local(b, kept) \/ Abort(b)
        /\ r.todo > 0 /\ r.count < ItemCap /\ r.stage = "top"
    BY <1>4 DEF DiscoverPage, AtTop
  <2>2. r.todo - 1 \in Nat /\ r.count + 1 \in 0..ItemCap
    BY <1>1, <2>1, BoundsAssumption DEF Run
  <2>3. taken \in Run /\ fetched \in Run /\ kept \in Run
    BY <1>1, <2>2 DEF Run, Stages
  <2>4. Inner(b, taken) /\ Inner(b, fetched) /\ Inner(b, kept)
    BY <1>1, <1>2, <2>1, <2>3 DEF Inner, Steady, Sound, Run, Running, Stages
  <2> QED BY <1>2, <2>1, <2>4, LocalInner, AbortInner
<1>5. CASE DiscoverExtract(b)
  <2>1. CASE StopOnBudget(b)
    BY <1>2, <2>1, BudgetStopInner
  <2>2. ASSUME NEW e \in Extractions, NEW n \in 0..MaxLinks, r.queued + n <= MaxFrontier,
               ~OverBudget(b),
               Local(b, [Paid(r, e) EXCEPT !.stage = "top", !.todo = @ + n, !.queued = @ + n])
        PROVE  InnerStep(b)
    <3> DEFINE p == Paid(r, e)
               next == [p EXCEPT !.stage = "top", !.todo = @ + n, !.queued = @ + n]
    <3>1. r.cost < r.cap
      BY <1>1, <2>2 DEF OverBudget, Run
    <3>2. p \in Run /\ Steady(r, p) /\ (Sound(r) => Sound(p))
      BY <1>1, <1>2, <3>1, PaidFits
    <3>3. p.queued = r.queued /\ p.todo = r.todo
      BY <1>1 DEF Paid, Run
    <3>4. p.todo + n \in Nat /\ p.queued + n \in 0..MaxFrontier
      BY <1>1, <2>2, <3>3, BoundsAssumption DEF Run
    <3>5. next \in Run
      BY <3>2, <3>4 DEF Run, Stages
    <3>6. Inner(b, next)
      BY <3>2, <3>5 DEF Inner, Steady, Sound, Run, Running, Stages
    <3> QED BY <2>2, <3>6, LocalInner
  <2> QED BY <1>5, <2>1, <2>2 DEF DiscoverExtract
<1> QED BY <1>3, <1>4, <1>5

LEMMA BroadInner ==
  ASSUME TypeOK, NEW b \in Batches,
         BroadStops(b) \/ BroadQuery(b) \/ BroadPage(b) \/ BroadQueryDone(b)
  PROVE  InnerStep(b)
<1> DEFINE r == run[b]
<1>1. r \in Run
  BY DEF TypeOK
<1>2. r.stage \in Running
  BY DEF BroadStops, BroadQuery, BroadPage, BroadQueryDone, AtTop, Running, Stages
<1>3. CASE BroadStops(b)
  BY <1>2, <1>3, StopInner, BudgetStopInner DEF BroadStops, Reasons, AgentReasons, CapReasons
<1>4. CASE BroadQuery(b)
  <2> DEFINE asked == [r EXCEPT !.queries = @ - 1, !.stage = "pages"]
             billed == [asked EXCEPT !.cost = @ + Search, !.billed = @ + Search]
  <2> HIDE DEF asked, billed
  <2>0. r.queries > 0 /\ ~(r.cost >= r.cap)
    BY <1>4 DEF BroadQuery, OverBudget
  <2>1. r.cost < r.cap /\ r.queries - 1 \in 0..MaxQueries
    BY <1>1, <2>0, BoundsAssumption DEF Run
  <2> USE DEF asked, billed
  <2>2. asked \in Run /\ Steady(r, asked) /\ (Sound(r) => Sound(asked)) /\ asked.cost = r.cost
    BY <1>1, <1>2, <2>1 DEF Run, Stages, Steady, Sound, Running
  <2>3. r.cost + Search \in Nat /\ r.cost + Search < r.cap + Overshoot /\ r.billed + Search \in Nat
    BY <1>1, <2>1, OvershootCovers, MoneyAssumption DEF Run
  <2>4. billed \in Run /\ Steady(r, billed) /\ billed.cost = r.cost + Search /\ billed.cap = r.cap
        /\ billed.stage = "pages" /\ billed.reason = r.reason /\ billed.agent = r.agent
    BY <1>1, <2>2, <2>3 DEF Run, Steady
  <2>5. Sound(r) => Sound(billed)
    BY <1>1, <2>3, <2>4, MoneyAssumption DEF Sound, Run
  <2>6. CASE Local(b, [asked EXCEPT !.agent = "error", !.todo = 0])
    <3> DEFINE n == [asked EXCEPT !.agent = "error", !.todo = 0]
    <3>1. n \in Run
      BY <2>2 DEF Run, AgentReasons
    <3>2. Inner(b, n)
      BY <2>2, <3>1 DEF Inner, Steady, Sound, Run, Running, Stages
    <3> QED BY <2>6, <3>2, LocalInner
  <2>7. CASE Search >= r.cap - r.cost /\ Local(b, [billed EXCEPT !.agent = "cost_cap", !.todo = 0])
    <3> DEFINE n == [billed EXCEPT !.agent = "cost_cap", !.todo = 0]
    <3>1. n \in Run
      BY <2>4 DEF Run, AgentReasons, CapReasons
    <3>2. n.cost >= n.cap
      BY <1>1, <2>4, <2>7, MoneyAssumption DEF Run
    <3>3. Inner(b, n)
      BY <2>4, <2>5, <3>1, <3>2 DEF Inner, Steady, Sound, Run, Running, Stages
    <3> QED BY <2>7, <3>3, LocalInner
  <2>8. ASSUME NEW steps \in 0..MaxNew, NEW why \in AgentReasons, NEW k \in 0..steps,
               r.count + steps <= ItemCap, why # "cost_cap",
               Local(b, [billed EXCEPT !.agent = why, !.todo = k, !.count = @ + steps])
        PROVE  InnerStep(b)
    <3> DEFINE n == [billed EXCEPT !.agent = why, !.todo = k, !.count = @ + steps]
    <3>1. billed.count = r.count
      BY <1>1 DEF Run
    <3>2. billed.count + steps \in 0..ItemCap /\ k \in Nat
      BY <1>1, <2>8, <3>1, BoundsAssumption DEF Run
    <3>3. n \in Run
      BY <2>4, <3>2 DEF Run
    <3>4. Inner(b, n)
      BY <2>4, <2>5, <2>8, <3>3 DEF Inner, Steady, Sound, Run, Running, Stages
    <3> QED BY <2>8, <3>4, LocalInner
  <2> QED BY <1>4, <2>6, <2>7, <2>8 DEF BroadQuery
<1>5. CASE BroadPage(b)
  <2> DEFINE taken == [r EXCEPT !.todo = @ - 1]
  <2>1. r.todo - 1 \in Nat
    BY <1>1, <1>5 DEF BroadPage, Run
  <2>2. taken \in Run /\ Steady(r, taken) /\ (Sound(r) => Sound(taken))
        /\ taken.cost = r.cost /\ taken.cap = r.cap /\ taken.stage = r.stage
    BY <1>1, <1>2, <2>1 DEF Run, Steady, Sound
  <2>3. CASE Local(b, taken)
    BY <2>2, <2>3, LocalInner DEF Inner
  <2>4. ASSUME NEW e \in Extractions, ~OverBudget(b), Local(b, Paid(taken, e))
        PROVE  InnerStep(b)
    <3>1. r.cost < r.cap
      BY <1>1, <2>4 DEF OverBudget, Run
    <3>2. Paid(taken, e) \in Run /\ Steady(taken, Paid(taken, e))
          /\ (Sound(taken) => Sound(Paid(taken, e)))
      BY <1>2, <2>2, <3>1, PaidFits
    <3>3. Inner(b, Paid(taken, e))
      BY <2>2, <3>2 DEF Inner, Steady
    <3> QED BY <2>4, <3>3, LocalInner
  <2> QED BY <1>2, <1>5, <2>3, <2>4, AbortInner, BudgetStopInner DEF BroadPage
<1>6. CASE BroadQueryDone(b)
  <2> DEFINE n == [r EXCEPT !.stage = "top"]
  <2>1. CASE r.agent \in CapReasons
    <3>1. r.agent = "cost_cap" /\ Sound(r) => OverBudget(b)
      BY DEF Sound, OverBudget
    <3> DEFINE m == [r EXCEPT !.stage = "propose", !.reason = r.agent]
    <3>2. Local(b, m)
      BY <1>6, <2>1 DEF BroadQueryDone, Stop
    <3>3. m \in Run
      BY <1>1 DEF Run, Stages, Reasons
    <3>4. Inner(b, m)
      BY <1>1, <1>2, <2>1, <3>1, <3>3
      DEF Inner, Steady, Sound, Run, Running, Stages, OverBudget, CapReasons
    <3> QED BY <3>2, <3>4, LocalInner
  <2>2. CASE r.agent \notin CapReasons
    <3>1. n \in Run
      BY <1>1 DEF Run, Stages
    <3>2. Inner(b, n)
      BY <1>1, <1>2, <3>1 DEF Inner, Steady, Sound, Run, Running, Stages
    <3> QED BY <1>6, <2>2, <3>2, LocalInner DEF BroadQueryDone
  <2> QED BY <2>1, <2>2
<1> QED BY <1>3, <1>4, <1>5, <1>6

LEMMA IngestInner ==
  ASSUME TypeOK, NEW b \in Batches, IngestStops(b) \/ IngestItem(b) \/ IngestLead(b)
  PROVE  InnerStep(b)
<1> DEFINE r == run[b]
<1>1. r \in Run
  BY DEF TypeOK
<1>2. r.stage \in Running
  BY DEF IngestStops, IngestItem, IngestLead, AtTop, Running, Stages
<1>3. CASE IngestStops(b)
  BY <1>2, <1>3, StopInner, BudgetStopInner DEF IngestStops, Reasons, AgentReasons, CapReasons
<1>4. CASE IngestItem(b)
  <2> DEFINE taken == [r EXCEPT !.todo = @ - 1, !.count = @ + 1]
  <2>1. r.todo > 0 /\ r.count < ItemCap /\ ~(r.cost >= r.cap)
    BY <1>4 DEF IngestItem, OverBudget
  <2>2. r.todo - 1 \in Nat /\ r.count + 1 \in 0..ItemCap /\ r.cost < r.cap
    BY <1>1, <2>1, BoundsAssumption DEF Run
  <2>3. taken \in Run /\ Steady(r, taken) /\ (Sound(r) => Sound(taken))
        /\ taken.cost = r.cost /\ taken.cap = r.cap /\ taken.stage = r.stage
        /\ taken.billed = r.billed /\ taken.reason = r.reason /\ taken.agent = r.agent
    BY <1>1, <1>2, <2>2 DEF Run, Steady, Sound
  <2>4. CASE Local(b, taken)
    BY <2>3, <2>4, LocalInner DEF Inner
  <2>5. CASE Local(b, [taken EXCEPT !.outage = TRUE])
    <3> DEFINE n == [taken EXCEPT !.outage = TRUE]
    <3>1. n \in Run
      BY <2>3 DEF Run
    <3>2. Inner(b, n)
      BY <2>3, <3>1 DEF Inner, Steady, Sound, Run
    <3> QED BY <2>5, <3>2, LocalInner
  <2>6. ASSUME NEW c \in 0..CallMax, NEW stage \in {"top", "lead"},
               Local(b, [taken EXCEPT !.stage = stage, !.cost = @ + c, !.billed = @ + c])
        PROVE  InnerStep(b)
    <3> DEFINE n == [taken EXCEPT !.stage = stage, !.cost = @ + c, !.billed = @ + c]
    <3>1. taken.cost + c \in Nat /\ taken.billed + c \in Nat
          /\ taken.cost + c < taken.cap + Overshoot /\ taken.cost + c >= taken.cost
      BY <1>1, <2>2, <2>3, OvershootCovers, MoneyAssumption DEF Run
    <3>2. n \in Run
      BY <2>3, <3>1 DEF Run, Stages
    <3>3. n.cost = taken.cost + c /\ n.cap = taken.cap /\ n.stage = stage
          /\ n.reason = taken.reason /\ n.agent = taken.agent
      BY <2>3 DEF Run
    <3>4. Sound(taken) => Sound(n)
      BY <2>2, <2>3, <3>1, <3>3, <1>1 DEF Sound, Run
    <3>5. Steady(taken, n)
      BY <1>2, <2>3 DEF Steady, Run, Running, Stages
    <3>6. Inner(b, n)
      BY <2>3, <3>2, <3>4, <3>5 DEF Inner, Steady
    <3> QED BY <2>6, <3>6, LocalInner
  <2> QED BY <1>4, <2>4, <2>5, <2>6 DEF IngestItem
<1>5. CASE IngestLead(b)
  <2>1. CASE Local(b, [r EXCEPT !.stage = "top"])
    <3> DEFINE n == [r EXCEPT !.stage = "top"]
    <3>1. n \in Run
      BY <1>1 DEF Run, Stages
    <3>2. Inner(b, n)
      BY <1>1, <1>2, <3>1 DEF Inner, Steady, Sound, Run, Running, Stages
    <3> QED BY <2>1, <3>2, LocalInner
  <2>2. ASSUME NEW e \in Extractions, ~OverBudget(b),
               Local(b, [Paid(r, e) EXCEPT !.stage = "top"])
        PROVE  InnerStep(b)
    <3> DEFINE p == Paid(r, e)
               n == [p EXCEPT !.stage = "top"]
    <3>1. r.cost < r.cap
      BY <1>1, <2>2 DEF OverBudget, Run
    <3>2. p \in Run /\ Steady(r, p) /\ (Sound(r) => Sound(p))
      BY <1>1, <1>2, <3>1, PaidFits
    <3> HIDE DEF p
    <3>3. n \in Run
      BY <3>2 DEF Run, Stages
    <3>4. Inner(b, n)
      BY <3>2, <3>3 DEF Inner, Steady, Sound, Run, Running, Stages
    <3> QED BY <2>2, <3>4, LocalInner DEF p
  <2> QED BY <1>2, <1>5, <2>1, <2>2, AbortInner DEF IngestLead
<1> QED BY <1>3, <1>4, <1>5

LEMMA FinishInner ==
  ASSUME TypeOK, NEW b \in Batches, run[b].stage \in Running,
         Local(b, [run[b] EXCEPT !.stage = "finish"])
  PROVE  InnerStep(b)
<1> DEFINE n == [run[b] EXCEPT !.stage = "finish"]
<1>1. run[b] \in Run
  BY DEF TypeOK
<1>2. n \in Run
  BY <1>1 DEF Run, Stages
<1>3. Inner(b, n)
  BY <1>1, <1>2 DEF Inner, Steady, Sound, Run, Running, Stages
<1> QED BY <1>3, LocalInner

\* What a lane reads before its loop, and storing its proposals.
LEMMA AroundInner ==
  ASSUME TypeOK, NEW b \in Batches, Open(b) \/ Propose(b)
  PROVE  InnerStep(b)
<1> DEFINE r == run[b]
<1>1. r \in Run
  BY DEF TypeOK
<1>2. r.stage \in Running
  BY DEF Open, Propose, Running, Stages
<1>3. 1 \in 0..MaxFrontier
  BY BoundsAssumption DEF MaxFrontier, FrontierHeadroom
<1>4. ASSUME NEW n \in Run, Local(b, n), n.stage \in {"top", "finish"},
             n.lane = r.lane, n.feeds = r.feeds, n.checked = r.checked, n.started = r.started,
             n.row = r.row, n.cap = r.cap, n.clamped = r.clamped,
             n.cost = r.cost, n.billed = r.billed, n.outage = r.outage, n.reason = r.reason, n.agent = r.agent
      PROVE  InnerStep(b)
  <2>1. Inner(b, n)
    BY <1>2, <1>4 DEF Inner, Steady, Sound, Running, Stages
  <2> QED BY <1>4, <2>1, LocalInner
<1>5. CASE Open(b)
  <2>1. CASE Abort(b)
    BY <1>2, <2>1, AbortInner
  <2>2. CASE Local(b, [r EXCEPT !.stage = "top", !.todo = 1, !.queued = 1])
    <3> DEFINE n == [r EXCEPT !.stage = "top", !.todo = 1, !.queued = 1]
    <3>1. n \in Run
      BY <1>1, <1>3 DEF Run, Stages
    <3> QED BY <1>1, <1>4, <2>2, <3>1 DEF Run
  <2>3. ASSUME NEW k \in 0..MaxQueries, Local(b, [r EXCEPT !.stage = "top", !.queries = k])
        PROVE  InnerStep(b)
    <3> DEFINE n == [r EXCEPT !.stage = "top", !.queries = k]
    <3>1. n \in Run
      BY <1>1 DEF Run, Stages
    <3> QED BY <1>1, <1>4, <2>3, <3>1 DEF Run
  <2>4. ASSUME NEW k \in 0..MaxNew, Local(b, [r EXCEPT !.stage = "top", !.todo = k])
        PROVE  InnerStep(b)
    <3> DEFINE n == [r EXCEPT !.stage = "top", !.todo = k]
    <3>1. k \in Nat
      BY BoundsAssumption
    <3>2. n \in Run
      BY <1>1, <3>1 DEF Run, Stages
    <3> QED BY <1>1, <1>4, <2>4, <3>2 DEF Run
  <2>5. CASE Local(b, [r EXCEPT !.stage = "finish"])
    BY <1>2, <2>5, FinishInner
  <2> QED BY <1>5, <2>1, <2>2, <2>3, <2>4, <2>5 DEF Open
<1>6. CASE Propose(b)
  BY <1>2, <1>6, FinishInner, AbortInner DEF Propose
<1> QED BY <1>5, <1>6

LEMMA InnerSteps ==
  ASSUME TypeOK, NEW b \in Batches, Open(b) \/ LaneStep(b) \/ Propose(b)
  PROVE  InnerStep(b)
BY DiscoverInner, BroadInner, IngestInner, AroundInner DEF LaneStep

-----------------------------------------------------------------------------
(* The invariant.                                                           *)

\* A step that replaces one run by another keeps the others.
LEMMA Replaced ==
  ASSUME TypeOK, NEW b \in Batches, NEW n \in Run, Becomes(b, n)
  PROVE  /\ run' \in [Batches -> Run]
         /\ run'[b] = n
         /\ \A c \in Batches : c # b => run'[c] = run[c]
BY DEF TypeOK, Becomes

LEMMA InitHolds ==
  ASSUME Init
  PROVE  IInv
<1>1. \A b \in Batches : \E l \in Lanes : run[b] = NoRun(l)
  BY DEF Init
<1>2. \A b \in Batches : run[b] \in Run /\ Sound(run[b]) /\ Headroom(run[b]) /\ ~run[b].row
  <2> TAKE b \in Batches
  <2>1. PICK l \in Lanes : run[b] = NoRun(l)
    BY <1>1
  <2>2. ~NoRun(l).row
    BY DEF NoRun
  <2> QED BY <2>1, <2>2, NoRunFits DEF Headroom
<1>3. run \in [Batches -> Run]
  BY <1>2 DEF Init
<1>4. TypeOK
  BY <1>3, BoundsAssumption DEF Init, TypeOK, Days
<1> QED BY <1>2, <1>4 DEF Init, IInv, Accounted, DailyCapIsHonest

\* A step inside a run.
LEMMA InnerKeeps ==
  ASSUME IInv, NEW b \in Batches, InnerStep(b)
  PROVE  IInv'
<1> PICK n \in Run : /\ Inner(b, n) /\ Becomes(b, n) /\ LedgerUnchanged
                     /\ faults' \in 0..MaxFaults
  BY DEF InnerStep
<1> TypeOK
  BY DEF IInv
<1>1. /\ run' \in [Batches -> Run] /\ run'[b] = n
      /\ \A c \in Batches : c # b => run'[c] = run[c]
  BY Replaced
<1>2. UNCHANGED <<day, spent, running, capped, lost>>
  BY DEF LedgerUnchanged
<1>3. TypeOK'
  BY <1>1, <1>2 DEF TypeOK
<1>4. Sound(n) /\ Headroom(n) /\ n.row = run[b].row /\ n.stage \in Running
  BY DEF IInv, Inner, Steady, Headroom
<1>5. \A c \in Batches : Accounted(c)'
  BY <1>1, <1>2, <1>4 DEF IInv, Accounted
<1>6. \A c \in Batches : Sound(run[c])' /\ Headroom(run[c])'
  BY <1>1, <1>2, <1>4 DEF IInv, Sound, Headroom
<1> QED BY <1>2, <1>3, <1>5, <1>6 DEF IInv, DailyCapIsHonest

\* A failure stays within the bound.
LEMMA FaultCounts ==
  ASSUME TypeOK, Fault \/ UNCHANGED faults
  PROVE  faults' \in 0..MaxFaults
BY BoundsAssumption DEF Fault, TypeOK

\* A run is replaced by one without a row, and loses the row it held: at the start
\* and the end of a batch, at the guard and when a process dies.
LEMMA FreshKeeps ==
  ASSUME IInv, NEW b \in Batches, NEW n \in Run, Becomes(b, n),
         UNCHANGED <<day, spent, running, capped>>, faults' \in 0..MaxFaults,
         Sound(n), Headroom(n), ~n.row,
         lost' = IF run[b].row THEN [lost EXCEPT ![b] = @ + 1] ELSE lost
  PROVE  IInv'
<1> TypeOK
  BY DEF IInv
<1>1. /\ run' \in [Batches -> Run] /\ run'[b] = n
      /\ \A c \in Batches : c # b => run'[c] = run[c]
  BY Replaced
<1>2. /\ lost' \in [Batches -> Nat]
      /\ lost'[b] = IF run[b].row THEN lost[b] + 1 ELSE lost[b]
      /\ \A c \in Batches : c # b => lost'[c] = lost[c]
  BY DEF TypeOK
<1>3. TypeOK'
  BY <1>1, <1>2 DEF TypeOK
<1>4. \A c \in Batches : Accounted(c)'
  BY <1>1, <1>2 DEF IInv, Accounted
<1>5. \A c \in Batches : Sound(run[c])' /\ Headroom(run[c])'
  BY <1>1 DEF IInv, Sound, Headroom
<1> QED BY <1>3, <1>4, <1>5 DEF IInv, DailyCapIsHonest

\* What AfterRun leaves is a run that charges nothing yet.
LEMMA AfterRunFits ==
  ASSUME NEW r \in Run
  PROVE  AfterRun(r) \in Run /\ Sound(AfterRun(r)) /\ ~AfterRun(r).row /\ ~AfterRun(r).clamped
<1>1. r.lane \in Lanes /\ r.feeds \in 0..MaxFeeds
  BY DEF Run
<1>2. NoRun(r.lane) \in Run /\ Sound(NoRun(r.lane)) /\ ~NoRun(r.lane).row
  BY <1>1, NoRunFits DEF NoRun
<1>3. CASE r.feeds > 1
  <2> DEFINE n == [NoRun(r.lane) EXCEPT !.stage = "check", !.feeds = r.feeds - 1]
  <2>1. r.feeds - 1 \in 0..MaxFeeds
    BY <1>1, <1>3, BoundsAssumption
  <2>2. n \in Run
    BY <1>2, <2>1 DEF Run, Stages
  <2>3. n.cost = 0 /\ n.billed = 0 /\ n.reason = "completed" /\ n.agent = "completed" /\ ~n.row /\ ~n.clamped
    BY DEF NoRun
  <2> QED BY <1>3, <2>2, <2>3 DEF AfterRun, Sound
<1>4. CASE ~(r.feeds > 1)
  BY <1>1, <1>2, <1>4, NoRunFits DEF AfterRun
<1> QED BY <1>3, <1>4

\* Starting a command, and the ends of a batch without a row.
LEMMA OuterKeeps ==
  ASSUME IInv, NEW b \in Batches, Launch(b) \/ CheckFails(b) \/ SourceMissing(b) \/ Kill(b)
  PROVE  IInv'
<1>0. TypeOK
  BY DEF IInv
<1>1. run[b] \in Run /\ run[b].lane \in Lanes
  BY DEF IInv, TypeOK, Run
<1>2. NoRun(run[b].lane) \in Run /\ Sound(NoRun(run[b].lane)) /\ Headroom(NoRun(run[b].lane))
      /\ ~NoRun(run[b].lane).row
  BY <1>1, NoRunFits DEF Headroom, NoRun
<1>3. CASE Launch(b)
  <2>1. PICK l \in Lanes, k \in 1..MaxFeeds :
          Local(b, [NoRun(l) EXCEPT !.stage = "check", !.feeds = k])
    BY <1>3 DEF Launch
  <2> DEFINE n == [NoRun(l) EXCEPT !.stage = "check", !.feeds = k]
  <2>2. NoRun(l) \in Run /\ k \in 0..MaxFeeds
    BY NoRunFits, BoundsAssumption
  <2>3. n \in Run
    BY <2>2 DEF Run, Stages
  <2>4. n.cost = 0 /\ n.billed = 0 /\ n.reason = "completed" /\ n.agent = "completed" /\ ~n.row /\ ~n.clamped
    BY DEF NoRun
  <2>5. Sound(n) /\ Headroom(n)
    BY <2>4 DEF Sound, Headroom
  <2>6. ~run[b].row
    BY <1>3 DEF Launch, IInv, Accounted, Running
  <2> QED BY <1>0, <2>1, <2>3, <2>4, <2>5, <2>6, FreshKeeps, FaultCounts DEF Local, LedgerUnchanged
<1>4. CASE CheckFails(b)
  <2>1. ~run[b].row
    BY <1>4 DEF CheckFails, IInv, Accounted, Running
  <2> QED BY <1>0, <1>2, <1>4, <2>1, FreshKeeps, FaultCounts DEF CheckFails, LedgerUnchanged
<1>6. CASE Kill(b)
  BY <1>0, <1>2, <1>6, FreshKeeps, FaultCounts DEF Kill
<1>5. CASE SourceMissing(b)
  <2>1. Headroom(AfterRun(run[b]))
    BY <1>1, AfterRunFits DEF Headroom
  <2>2. ~run[b].row
    BY <1>5 DEF SourceMissing, IInv, Accounted, Running
  <2> QED BY <1>0, <1>1, <1>5, <2>1, <2>2, AfterRunFits, FreshKeeps, FaultCounts
       DEF SourceMissing, LedgerUnchanged
<1> QED BY <1>3, <1>4, <1>5, <1>6

\* The budget guard.
LEMMA CheckKeeps ==
  ASSUME IInv, NEW b \in Batches, Check(b)
  PROVE  IInv'
<1> DEFINE r == run[b]
           cap == EffectiveCap(spent[day])
           n == [r EXCEPT !.stage = "start", !.checked = day, !.cap = cap, !.clamped = cap < PerRun]
<1>1. TypeOK /\ r \in Run /\ r.lane \in Lanes /\ day \in Days /\ spent[day] \in Nat
  BY DEF IInv, TypeOK, Run
<1>2. r.stage = "check" /\ r.cost = 0 /\ r.reason = "completed" /\ r.agent = "completed" /\ ~r.row
  BY DEF Check, IInv, Sound, Accounted, Running
<1>5. r.lane = "discover" /\ ~r.outage => r.cost = r.billed
  BY DEF IInv, Sound
<1>3. CASE Exhausted(spent[day])
  <2>1. NoRun(r.lane) \in Run /\ Sound(NoRun(r.lane)) /\ Headroom(NoRun(r.lane)) /\ ~NoRun(r.lane).row
    BY <1>1, NoRunFits DEF Headroom, NoRun
  <2>2. Local(b, NoRun(r.lane))
    BY <1>3 DEF Check
  <2> QED BY <1>1, <1>2, <2>1, <2>2, FreshKeeps, FaultCounts DEF Local, LedgerUnchanged
<1>4. CASE ~Exhausted(spent[day])
  <2>1. cap \in Nat /\ (cap < PerRun => spent[day] + cap >= Ceiling)
    BY <1>1, CapFits
  <2>2. Local(b, n)
    BY <1>4 DEF Check
  <2> HIDE DEF cap
  <2>3. n \in Run
    <3>1. (cap < PerRun) \in BOOLEAN /\ "start" \in Stages
      BY DEF Stages
    <3> QED BY <1>1, <2>1, <3>1 DEF Run
  <2>4. n.cost = 0 /\ n.reason = "completed" /\ n.agent = "completed" /\ ~n.row
        /\ n.stage = "start" /\ n.checked = day /\ n.cap = cap /\ (n.clamped <=> cap < PerRun)
        /\ n.lane = r.lane /\ n.outage = r.outage /\ n.billed = r.billed
    BY <1>1, <1>2 DEF Run
  <2>5. Sound(n) /\ Headroom(n)
    BY <1>2, <1>5, <2>1, <2>4 DEF Sound, Headroom
  <2> QED BY <1>1, <1>2, <2>2, <2>3, <2>4, <2>5, FreshKeeps, FaultCounts DEF Local, LedgerUnchanged
<1> QED BY <1>3, <1>4

\* The insert of the row.
LEMMA StartKeeps ==
  ASSUME IInv, NEW b \in Batches, StartRun(b)
  PROVE  IInv'
<1> PICK inserted \in BOOLEAN :
      /\ Becomes(b, [run[b] EXCEPT !.stage = "open", !.started = day, !.row = inserted])
      /\ running' = IF inserted THEN [running EXCEPT ![b] = @ + 1] ELSE running
      /\ IF inserted THEN UNCHANGED faults ELSE Fault
  BY DEF StartRun
<1> DEFINE r == run[b]
           n == [r EXCEPT !.stage = "open", !.started = day, !.row = inserted]
<1>0. TypeOK /\ UNCHANGED <<day, spent, capped, lost>>
  BY DEF IInv, StartRun
<1>1. r \in Run /\ day \in Days /\ ~r.row /\ running[b] \in Nat
      /\ running[b] = lost[b]
  BY <1>0 DEF IInv, TypeOK, StartRun, Accounted, Running
<1>2. n \in Run
  BY <1>1 DEF Run, Stages
<1>3. /\ n.stage = "open" /\ n.row = inserted /\ n.cost = r.cost /\ n.cap = r.cap
      /\ n.reason = r.reason /\ n.agent = r.agent /\ n.clamped = r.clamped
      /\ n.checked = r.checked /\ n.lane = r.lane /\ n.outage = r.outage /\ n.billed = r.billed
  BY <1>1 DEF Run
<1>4. /\ run' \in [Batches -> Run] /\ run'[b] = n
      /\ \A c \in Batches : c # b => run'[c] = run[c]
  BY <1>0, <1>2, Replaced
<1>5. faults' \in 0..MaxFaults
  BY <1>0, FaultCounts
<1>6. /\ running' \in [Batches -> Nat]
      /\ running'[b] = IF inserted THEN running[b] + 1 ELSE running[b]
      /\ \A c \in Batches : c # b => running'[c] = running[c]
  BY <1>0, <1>1 DEF TypeOK
<1>7. TypeOK'
  BY <1>0, <1>4, <1>5, <1>6 DEF TypeOK
<1> HIDE DEF n
<1>8. \A c \in Batches : Accounted(c)'
  <2> TAKE c \in Batches
  <2>1. CASE c = b
    <3>1. n.stage \in Running
      BY <1>3 DEF Running, Stages
    <3> QED BY <1>0, <1>1, <1>3, <1>4, <1>6, <2>1, <3>1 DEF Accounted
  <2>2. CASE c # b
    BY <1>0, <1>4, <1>6, <2>2 DEF IInv, Accounted
  <2> QED BY <2>1, <2>2
<1>9. Sound(n) /\ Headroom(n)
  BY <1>3 DEF IInv, Sound, Headroom
<1>10. \A c \in Batches : Sound(run[c])' /\ Headroom(run[c])'
  <2>1. \A c \in Batches : Sound(run'[c]) /\ (Headroom(n) /\ Headroom(run[c]))
    BY <1>4, <1>9 DEF IInv
  <2>2. \A c \in Batches : Headroom(run[c])'
    BY <1>0, <1>4, <2>1 DEF Headroom
  <2> QED BY <2>1, <2>2 DEF Sound
<1> QED BY <1>0, <1>7, <1>8, <1>10 DEF IInv, DailyCapIsHonest

\* The end of a run.
LEMMA CloseKeeps ==
  ASSUME IInv, NEW b \in Batches, CloseRun(b)
  PROVE  IInv'
<1> DEFINE r == run[b]
           n == AfterRun(r)
<1>0. TypeOK /\ UNCHANGED day /\ Becomes(b, n)
  BY DEF IInv, CloseRun
<1>1. r \in Run /\ running[b] \in Nat /\ r.cost \in Nat /\ r.started \in Days
  BY <1>0 DEF TypeOK, Run
<1>2. n \in Run /\ Sound(n) /\ ~n.row /\ ~n.clamped
  BY <1>1, AfterRunFits
<1>3. CASE /\ UNCHANGED <<spent, running, capped>>
           /\ lost' = IF r.row THEN [lost EXCEPT ![b] = @ + 1] ELSE lost
           /\ Fault \/ UNCHANGED faults
  <2>1. Headroom(n) /\ faults' \in 0..MaxFaults
    BY <1>0, <1>2, <1>3, FaultCounts DEF Headroom
  <2> HIDE DEF n
  <2> QED BY <1>0, <1>2, <1>3, <2>1, FreshKeeps
<1>4. CASE /\ r.row
           /\ spent' = [spent EXCEPT ![r.started] = @ + r.cost]
           /\ running' = [running EXCEPT ![b] = @ - 1]
           /\ capped' = IF r.stage = "finish" /\ EffectiveReason(r) = "daily_budget_cap"
                        THEN capped \cup {CappedRow(r)} ELSE capped
           /\ UNCHANGED <<lost, faults>>
  <2> HIDE DEF n
  <2>1. /\ run' \in [Batches -> Run] /\ run'[b] = n
        /\ \A c \in Batches : c # b => run'[c] = run[c]
    BY <1>0, <1>2, Replaced
  <2>2. running[b] = lost[b] + 1 /\ lost[b] \in Nat
    BY <1>0, <1>4 DEF IInv, Accounted, TypeOK
  <2>3. /\ running' \in [Batches -> Nat] /\ running'[b] = running[b] - 1
        /\ \A c \in Batches : c # b => running'[c] = running[c]
    BY <1>0, <1>1, <1>4, <2>2 DEF TypeOK
  <2>4. /\ spent' \in [Days -> Nat]
        /\ spent'[r.started] = spent[r.started] + r.cost
        /\ \A d \in Days : spent[d] \in Nat /\ spent'[d] >= spent[d]
    BY <1>0, <1>1, <1>4 DEF TypeOK
  <2>5. capped' \subseteq [against: Days, elsewhere: Nat]
    <3>1. CappedRow(r) \in [against: Days, elsewhere: Nat]
      BY <1>1 DEF CappedRow, Run
    <3> QED BY <1>0, <1>4, <3>1 DEF TypeOK
  <2>6. TypeOK'
    BY <1>0, <1>4, <2>1, <2>3, <2>4, <2>5 DEF TypeOK
  <2>7. \A c \in Batches : Accounted(c)'
    BY <1>2, <1>4, <2>1, <2>2, <2>3 DEF IInv, Accounted
  <2>8. \A c \in Batches : Headroom(run[c])'
    <3> TAKE c \in Batches
    <3>1. CASE c = b
      BY <1>2, <2>1, <3>1 DEF Headroom
    <3>2. CASE c # b
      <4>1. run[c] \in Run /\ run[c].checked \in Days /\ run[c].cap \in Nat /\ Ceiling \in Nat
        BY <1>0, MoneyAssumption DEF TypeOK, Run
      <4>2. run[c].clamped => spent[run[c].checked] + run[c].cap >= Ceiling
        BY DEF IInv, Headroom
      <4>3. run[c].clamped => spent'[run[c].checked] + run[c].cap >= Ceiling
        BY <2>4, <4>1, <4>2
      <4> QED BY <2>1, <3>2, <4>3 DEF Headroom
    <3> QED BY <3>1, <3>2
  <2>9. \A c \in Batches : Sound(run[c])'
    BY <1>2, <2>1 DEF IInv, Sound
  <2>10. DailyCapIsHonest'
    <3> SUFFICES ASSUME NEW c \in capped' PROVE spent'[c.against] + c.elsewhere >= Ceiling
      BY DEF DailyCapIsHonest
    <3>1. c.against \in Days /\ c.elsewhere \in Nat /\ Ceiling \in Nat
      BY <2>5, MoneyAssumption
    <3>2. CASE c \in capped
      <4>1. spent[c.against] + c.elsewhere >= Ceiling
        BY <3>2 DEF IInv, DailyCapIsHonest
      <4> QED BY <2>4, <3>1, <4>1
    <3>3. CASE c = CappedRow(r) /\ EffectiveReason(r) = "daily_budget_cap"
      <4>1. r.reason = "cost_cap" /\ r.clamped /\ r.cost >= r.cap
        BY <3>3 DEF EffectiveReason, IInv, Sound
      <4>2. spent[r.checked] + r.cap >= Ceiling /\ r.cap \in Nat /\ r.checked \in Days
        BY <1>1, <4>1 DEF IInv, Headroom, Run
      <4>3. c.against = r.checked /\ c.elsewhere = IF r.started = r.checked THEN 0 ELSE r.cost
        BY <3>3 DEF CappedRow
      <4>4. CASE r.started = r.checked
        BY <1>1, <2>4, <3>1, <4>1, <4>2, <4>3, <4>4
      <4>5. CASE r.started # r.checked
        BY <1>1, <2>4, <3>1, <4>1, <4>2, <4>3, <4>5
      <4> QED BY <4>4, <4>5
    <3> QED BY <1>4, <3>2, <3>3
  <2> QED BY <2>6, <2>7, <2>8, <2>9, <2>10 DEF IInv
<1> HIDE DEF n
<1> QED BY <1>3, <1>4 DEF CloseRun

\* The invariant is inductive.
LEMMA StepKeeps ==
  ASSUME IInv, [Next]_vars
  PROVE  IInv'
<1>1. CASE UNCHANGED vars
  BY <1>1 DEF vars, IInv, TypeOK, Accounted, Sound, Headroom, DailyCapIsHonest
<1>2. CASE Midnight
  <2>1. day' \in Days /\ UNCHANGED <<spent, running, run, capped, lost, faults>>
    BY <1>2, BoundsAssumption DEF Midnight, IInv, TypeOK, Days
  <2> QED BY <2>1 DEF IInv, TypeOK, Accounted, Sound, Headroom, DailyCapIsHonest
<1>3. ASSUME NEW b \in Batches, Launch(b) \/ BatchStep(b) \/ Kill(b)
      PROVE  IInv'
  <2>1. CASE Open(b) \/ LaneStep(b) \/ Propose(b)
    BY <2>1, InnerSteps, InnerKeeps DEF IInv
  <2> QED BY <1>3, <2>1, OuterKeeps, CheckKeeps, StartKeeps, CloseKeeps DEF BatchStep
<1> QED BY <1>1, <1>2, <1>3 DEF Next

LEMMA Invariant == Spec => []IInv
<1>1. Init => IInv
  BY InitHolds
<1>2. IInv /\ [Next]_vars => IInv'
  BY StepKeeps
<1> QED BY <1>1, <1>2, PTL DEF Spec

-----------------------------------------------------------------------------
(* The results.                                                             *)

\* Every variable keeps its type: the frontier stays within its bound, counts
\* never go below zero, no ledger entry is closed twice.
THEOREM TypeCorrect == Spec => []TypeOK
<1>1. IInv => TypeOK
  BY DEF IInv
<1> QED BY <1>1, Invariant, PTL

\* No run of any lane charges more than its cap and one extraction or search,
\* for any prices, caps and number of commands side by side.
THEOREM RunsStayInBudget == Spec => []RunCostBounded
<1>1. IInv => RunCostBounded
  BY DEF IInv, Sound, RunCostBounded
<1> QED BY <1>1, Invariant, PTL

\* Site discovery charges itself every call it made, whatever became of its pages,
\* unless a call threw.
THEOREM DiscoveryIsHonest == Spec => []DiscoveryChargesAll
<1>1. IInv => DiscoveryChargesAll
  BY DEF IInv, Sound, DiscoveryChargesAll
<1> QED BY <1>1, Invariant, PTL

\* daily_budget_cap in the ledger means that the day the run was clamped against is
\* spent, its own cost included, however commands overlap.
THEOREM DailyCapNeverLies == Spec => []DailyCapIsHonest
<1>1. IInv => DailyCapIsHonest
  BY DEF IInv
<1> QED BY <1>1, Invariant, PTL

\* Every run closes its row, whichever lane and way it takes, thrown calls included,
\* unless its process dies or the closing write fails.
THEOREM RowsAreClosed == Spec => []NoRowDangles
<1>1. IInv => NoRowDangles
  BY DEF IInv, Accounted, NoRowDangles, Running
<1> QED BY <1>1, Invariant, PTL

-----------------------------------------------------------------------------
(* The ceiling of a day, for commands that do not overlap.                  *)

\* Nothing is booked on a day that has not begun.
FutureFree == \A d \in Days : d > day => spent[d] = 0

\* A run that passed the guard fits into what is left of the day it was checked
\* on; once started, into what is left of the day it is booked on.
Placed(r) ==
  /\ r.stage = "start" =>
       /\ r.checked <= day
       /\ \A d \in Days : d > r.checked => spent[d] = 0
       /\ DailyBudgetEnabled => spent[r.checked] + r.cap <= Ceiling
  /\ r.stage \in Running =>
       /\ r.started <= day
       /\ DailyBudgetEnabled => spent[r.started] + r.cap <= Ceiling

CInv == IInv /\ FutureFree /\ DailyCeiling /\ \A b \in Batches : Placed(run[b])

Solo == \A b, c \in Batches : b = c

\* A step that books nothing keeps the days as they are.
LEMMA UnbookedKeeps ==
  ASSUME CInv, Solo, UNCHANGED <<day, spent>>, NEW b \in Batches, Placed(run[b])'
  PROVE  FutureFree' /\ DailyCeiling' /\ \A c \in Batches : Placed(run[c])'
BY DEF CInv, Solo, FutureFree, DailyCeiling

\* A run outside the guard and the lanes is placed.
LEMMA OutsidePlaced ==
  ASSUME NEW r, r.stage \in {"idle", "check"}
  PROVE  Placed(r)
BY DEF Placed, Running

LEMMA NoRunOutside ==
  ASSUME NEW l \in Lanes
  PROVE  NoRun(l).stage = "idle"
BY DEF NoRun

LEMMA AfterRunOutside ==
  ASSUME NEW r \in Run
  PROVE  AfterRun(r).stage \in {"idle", "check"}
BY DEF AfterRun, NoRun, Run

\* Every step of a command that is alone leaves the days within the ceiling.
LEMMA CeilingStep ==
  ASSUME CInv, Solo, NEW b \in Batches, Launch(b) \/ BatchStep(b) \/ Kill(b)
  PROVE  FutureFree' /\ DailyCeiling' /\ \A c \in Batches : Placed(run[c])'
<1> DEFINE r == run[b]
<1>1. /\ TypeOK /\ IInv /\ r \in Run /\ Placed(r) /\ r.lane \in Lanes
      /\ day \in Days /\ spent \in [Days -> Nat]
  BY DEF CInv, IInv, TypeOK, Run
<1>2. \A n : Becomes(b, n) => run'[b] = n
  BY <1>1 DEF TypeOK, Becomes
<1>3. CASE Launch(b) \/ CheckFails(b) \/ SourceMissing(b) \/ Kill(b)
  <2>1. UNCHANGED <<day, spent>>
    BY <1>3 DEF Launch, CheckFails, SourceMissing, Kill, Local, LedgerUnchanged
  <2>2. run'[b].stage \in {"idle", "check"}
    <3>1. CASE Launch(b)
      <4>1. PICK l \in Lanes, k \in 1..MaxFeeds :
              Becomes(b, [NoRun(l) EXCEPT !.stage = "check", !.feeds = k])
        BY <3>1 DEF Launch, Local
      <4>2. [NoRun(l) EXCEPT !.stage = "check", !.feeds = k].stage = "check"
        BY DEF NoRun
      <4> QED BY <1>2, <4>1, <4>2
    <3>2. CASE CheckFails(b) \/ Kill(b)
      BY <1>1, <1>2, <3>2, NoRunOutside DEF CheckFails, Kill
    <3>3. CASE SourceMissing(b)
      BY <1>1, <1>2, <3>3, AfterRunOutside DEF SourceMissing
    <3> QED BY <1>3, <3>1, <3>2, <3>3
  <2>3. Placed(run'[b])
    BY <2>2, OutsidePlaced
  <2>4. Placed(run[b])'
    BY <2>2 DEF Placed, Running
  <2> QED BY <2>1, <2>4, UnbookedKeeps
<1>4. CASE Check(b)
  <2> DEFINE cap == EffectiveCap(spent[day])
             n == [r EXCEPT !.stage = "start", !.checked = day, !.cap = cap,
                            !.clamped = cap < PerRun]
  <2>1. UNCHANGED <<day, spent>>
    BY <1>4 DEF Check, Local, LedgerUnchanged
  <2>2. CASE Exhausted(spent[day])
    <3>1. run'[b].stage = "idle"
      BY <1>1, <1>2, <1>4, <2>2, NoRunOutside DEF Check, Local
    <3>2. Placed(run[b])'
      BY <3>1 DEF Placed, Running
    <3> QED BY <2>1, <3>2, UnbookedKeeps
  <2>3. CASE ~Exhausted(spent[day])
    <3>1. run'[b] = n
      BY <1>2, <1>4, <2>3 DEF Check, Local
    <3>2. DailyBudgetEnabled => spent[day] + cap <= Ceiling
      BY <1>1, <2>3, CapFits
    <3> HIDE DEF cap
    <3>3. run'[b].stage = "start" /\ run'[b].checked = day /\ run'[b].cap = cap
      BY <1>1, <3>1 DEF Run
    <3>4. Placed(run[b])'
      BY <1>1, <2>1, <3>2, <3>3 DEF Placed, Running, CInv, FutureFree, Days, DailyBudgetEnabled
    <3> QED BY <2>1, <3>4, UnbookedKeeps
  <2> QED BY <2>2, <2>3
<1>5. CASE StartRun(b)
  <2>1. UNCHANGED <<day, spent>> /\ r.stage = "start"
    BY <1>5 DEF StartRun
  <2>2. PICK inserted \in BOOLEAN :
          run'[b] = [r EXCEPT !.stage = "open", !.started = day, !.row = inserted]
    BY <1>2, <1>5 DEF StartRun
  <2>3. run'[b].stage = "open" /\ run'[b].started = day /\ run'[b].cap = r.cap
    BY <1>1, <2>2 DEF Run
  <2>4. DailyBudgetEnabled => spent[day] + r.cap <= Ceiling
    <3>1. r.checked \in Days /\ r.cap \in Nat /\ spent[r.checked] \in Nat /\ Ceiling \in Nat
      BY <1>1, MoneyAssumption DEF Run
    <3>2. r.checked <= day /\ (day > r.checked => spent[day] = 0)
          /\ (DailyBudgetEnabled => spent[r.checked] + r.cap <= Ceiling)
      BY <1>1, <2>1 DEF Placed
    <3>3. CASE r.checked = day
      BY <3>2, <3>3
    <3>4. CASE r.checked # day
      <4>1. day > r.checked
        BY <1>1, <3>1, <3>2, <3>4 DEF Days
      <4> QED BY <3>1, <3>2, <4>1
    <3> QED BY <3>3, <3>4
  <2>5. Placed(run[b])'
    BY <1>1, <2>1, <2>3, <2>4 DEF Placed, Running, Days, DailyBudgetEnabled
  <2> QED BY <2>1, <2>5, UnbookedKeeps
<1>6. CASE Open(b) \/ LaneStep(b) \/ Propose(b)
  <2>1. PICK n \in Run : Inner(b, n) /\ Becomes(b, n) /\ LedgerUnchanged
    BY <1>1, <1>6, InnerSteps DEF InnerStep
  <2>2. UNCHANGED <<day, spent>> /\ run'[b] = n /\ r.stage \in Running /\ n.stage \in Running
        /\ n.started = r.started /\ n.cap = r.cap
    BY <1>2, <2>1 DEF LedgerUnchanged, Inner, Steady
  <2>3. Placed(run[b])'
    BY <1>1, <2>2 DEF Placed, Running, DailyBudgetEnabled
  <2> QED BY <2>2, <2>3, UnbookedKeeps
<1>7. CASE CloseRun(b)
  <2>1. run'[b].stage \in {"idle", "check"} /\ UNCHANGED day
    BY <1>1, <1>2, <1>7, AfterRunOutside DEF CloseRun
  <2>2. Placed(run[b])'
    BY <2>1 DEF Placed, Running
  <2>3. CASE UNCHANGED spent
    BY <2>1, <2>2, <2>3, UnbookedKeeps
  <2>4. CASE spent' = [spent EXCEPT ![r.started] = @ + r.cost]
    <3>1. r.stage \in Running
      BY <1>7 DEF CloseRun, Running, Stages
    <3>2. /\ r.started \in Days /\ r.cost \in Nat /\ r.cap \in Nat /\ spent[r.started] \in Nat
          /\ Ceiling \in Nat /\ Overshoot \in Nat
      BY <1>1, OvershootCovers, MoneyAssumption DEF Run
    <3>3. r.started <= day /\ (DailyBudgetEnabled => spent[r.started] + r.cap <= Ceiling)
      BY <1>1, <3>1 DEF Placed
    <3>4. r.cost > 0 => r.cost < r.cap + Overshoot
      BY <1>1 DEF IInv, Sound
    <3>5. /\ spent'[r.started] = spent[r.started] + r.cost
          /\ \A d \in Days : d # r.started => spent'[d] = spent[d]
      BY <1>1, <2>4, <3>2
    <3>6. FutureFree'
      <4>1. ASSUME NEW d \in Days, d > day PROVE spent'[d] = 0
        <5>1. d # r.started
          BY <1>1, <3>2, <3>3, <4>1 DEF Days
        <5> QED BY <3>5, <4>1, <5>1 DEF CInv, FutureFree
      <4> QED BY <2>1, <4>1 DEF FutureFree
    <3>7. DailyCeiling'
      <4>1. ASSUME DailyBudgetEnabled, NEW d \in Days PROVE spent'[d] < Ceiling + Overshoot
        <5>1. spent[d] < Ceiling + Overshoot /\ spent[d] \in Nat
          BY <1>1, <4>1 DEF CInv, DailyCeiling
        <5>2. CASE d # r.started
          BY <3>5, <5>1, <5>2
        <5>3. CASE d = r.started /\ r.cost > 0
          BY <3>2, <3>3, <3>4, <3>5, <4>1, <5>3
        <5>4. CASE d = r.started /\ r.cost = 0
          BY <3>2, <3>5, <5>1, <5>4
        <5> QED BY <3>2, <5>2, <5>3, <5>4
      <4> QED BY <4>1 DEF DailyCeiling, DailyBudgetEnabled
    <3>8. \A c \in Batches : Placed(run[c])'
      BY <2>2 DEF Solo
    <3> QED BY <3>6, <3>7, <3>8
  <2> QED BY <1>7, <2>3, <2>4 DEF CloseRun
<1> QED BY <1>3, <1>4, <1>5, <1>6, <1>7 DEF BatchStep

LEMMA CeilingKeeps ==
  ASSUME CInv, Solo, [Next]_vars
  PROVE  CInv'
<1>1. IInv'
  BY StepKeeps DEF CInv
<1>2. FutureFree' /\ DailyCeiling' /\ \A c \in Batches : Placed(run[c])'
  <2>1. CASE UNCHANGED vars
    BY <2>1 DEF vars, CInv, FutureFree, DailyCeiling, Placed
  <2>2. CASE Midnight
    <3>1. day' = day + 1 /\ UNCHANGED <<spent, run>> /\ day \in Days /\ TypeOK
      BY <2>2 DEF Midnight, CInv, IInv, TypeOK
    <3>2. FutureFree' /\ DailyCeiling'
      BY <3>1 DEF CInv, FutureFree, DailyCeiling, Days
    <3>3. ASSUME NEW c \in Batches PROVE Placed(run[c])'
      <4>1. Placed(run[c]) /\ run[c].checked \in Days /\ run[c].started \in Days
        BY <3>1 DEF CInv, TypeOK, Run
      <4>2. \A k \in Days : k <= day => k <= day'
        BY <3>1 DEF Days
      <4> QED BY <3>1, <4>1, <4>2 DEF Placed
    <3> QED BY <3>2, <3>3
  <2>3. ASSUME NEW b \in Batches, Launch(b) \/ BatchStep(b) \/ Kill(b)
        PROVE  FutureFree' /\ DailyCeiling' /\ \A c \in Batches : Placed(run[c])'
    BY <2>3, CeilingStep
  <2> QED BY <2>1, <2>2, <2>3 DEF Next
<1> QED BY <1>1, <1>2 DEF CInv

\* Commands that do not overlap keep the ledger of every day below the daily
\* ceiling plus one extraction, midnight between check and start included.
THEOREM DayStaysUnderCeiling ==
  ASSUME \A b, c \in Batches : b = c
  PROVE  Spec => []DailyCeiling
<1> Solo
  BY DEF Solo
<1>1. Init => CInv
  <2> SUFFICES ASSUME Init PROVE CInv
    OBVIOUS
  <2>1. IInv
    BY InitHolds
  <2>2. FutureFree
    BY DEF Init, FutureFree
  <2>3. DailyCeiling
    <3>1. \A d \in Days : spent[d] = 0
      BY DEF Init
    <3> QED BY <3>1, OvershootCovers, MoneyAssumption DEF DailyCeiling, DailyBudgetEnabled
  <2>4. \A b \in Batches : run[b].stage = "idle"
    BY NoRunOutside DEF Init
  <2> QED BY <2>1, <2>2, <2>3, <2>4 DEF CInv, Placed, Running
<1>2. CInv /\ [Next]_vars => CInv'
  BY CeilingKeeps
<1>3. CInv => DailyCeiling
  BY DEF CInv
<1> QED BY <1>1, <1>2, <1>3, PTL DEF Spec

-----------------------------------------------------------------------------
(* Induction.                                                               *)

\* Induction over the natural numbers: a nonempty set of them has a least element.
LEMMA LeastOf ==
  ASSUME NEW T \in SUBSET Nat, T # {}
  PROVE  \E m \in T : \A n \in T : m <= n
<1> DEFINE R == OpToRel(<, Nat)
<1>1. IsWellFoundedOn(R, Nat)
  BY NatLessThanWellFounded
<1>2. \A x, y \in Nat : x < y => <<x, y>> \in R
  BY DEF OpToRel
<1> HIDE DEF R
<1>3. PICK x \in T : \A y \in T : ~(<<y, x>> \in R)
  BY <1>1, WFMin
<1>4. \A y \in T : x <= y
  <2> TAKE y \in T
  <2>1. x \in Nat /\ y \in Nat /\ ~(y < x)
    BY <1>2, <1>3
  <2> QED BY <2>1
<1> QED BY <1>4

LEMMA Induct ==
  ASSUME NEW S \in SUBSET Nat, 0 \in S, \A n \in S : n + 1 \in S
  PROVE  S = Nat
<1> SUFFICES ASSUME S # Nat PROVE FALSE
  OBVIOUS
<1>1. PICK m \in Nat \ S : \A n \in Nat \ S : m <= n
  BY LeastOf
<1>2. m - 1 \in Nat /\ m - 1 \in S
  BY <1>1
<1> QED BY <1>1, <1>2

\* The largest element of a set of positions.
LEMMA LastOf ==
  ASSUME NEW n \in Nat, NEW T \in SUBSET (1..n), T # {}
  PROVE  \E m \in T : \A k \in T : k <= m
<1> DEFINE U == {i \in Nat : n - i \in T}
<1>1. U \in SUBSET Nat /\ U # {}
  <2>1. PICK t \in T : TRUE
    OBVIOUS
  <2>2. n - t \in Nat /\ n - (n - t) = t
    BY <2>1
  <2> QED BY <2>1, <2>2
<1>2. PICK m \in U : \A k \in U : m <= k
  BY <1>1, LeastOf
<1>3. n - m \in T /\ \A k \in T : k <= n - m
  <2> SUFFICES ASSUME NEW k \in T PROVE k <= n - m
    BY <1>2
  <2>1. n - k \in Nat /\ n - (n - k) = k
    OBVIOUS
  <2>2. n - k \in U
    BY <2>1
  <2> QED BY <1>2, <2>1, <2>2
<1> QED BY <1>3

\* Positions up to n, taken from the last one down.
LEMMA LastPosition ==
  ASSUME NEW n \in Nat
  PROVE  /\ Max(1..(n + 1)) = n + 1 /\ (1..(n + 1)) \ {n + 1} = 1..n
         /\ \A s \in SUBSET (1..(n + 1)) : n + 1 \in s => Max(s) = n + 1 /\ s \ {n + 1} \in SUBSET (1..n)
         /\ \A s \in SUBSET (1..(n + 1)) : n + 1 \notin s => s \in SUBSET (1..n)
         /\ \A s \in SUBSET (1..n) : s # {} => Max(s) \in s
<1>1. \A s \in SUBSET (1..(n + 1)) : n + 1 \in s => Max(s) = n + 1 /\ s \ {n + 1} \in SUBSET (1..n)
  <2> SUFFICES ASSUME NEW s \in SUBSET (1..(n + 1)), n + 1 \in s PROVE Max(s) = n + 1 /\ s \ {n + 1} \in SUBSET (1..n)
    OBVIOUS
  <2>1. \A y \in s : n + 1 >= y
    OBVIOUS
  <2>2. Max(s) \in s /\ \A y \in s : Max(s) >= y
    BY <2>1 DEF Max
  <2>3. Max(s) \in 1..(n + 1) /\ Max(s) >= n + 1
    BY <2>2
  <2> QED BY <2>3
<1>2. \A s \in SUBSET (1..n) : s # {} => Max(s) \in s
  BY LastOf DEF Max
<1> QED BY <1>1, <1>2

LEMMA NextPosition ==
  ASSUME NEW n \in Nat, NEW m \in 0..(n - 1)
  PROVE  /\ 1..(m + 1) \in SUBSET (1..n) /\ 1..(m + 1) # {} /\ m + 1 \in 1..n
         /\ Max(1..(m + 1)) = m + 1 /\ (1..(m + 1)) \ {m + 1} = 1..m
<1>1. m \in Nat /\ 1..(m + 1) \in SUBSET (1..n) /\ 1..(m + 1) # {} /\ m + 1 \in 1..n
  OBVIOUS
<1> QED BY <1>1, LastPosition

\* A loop from the first position to the last, as a function of the positions it
\* has seen: it starts at base and takes a step at each.
IsLoop(base, step, n, iter) ==
  \A s \in SUBSET (1..n) : iter[s] = IF s = {} THEN base ELSE step[Max(s)][iter[s \ {Max(s)}]]

LEMMA LoopExists ==
  ASSUME NEW V, NEW base \in V, NEW step \in [Nat -> [V -> V]], NEW n \in Nat
  PROVE  \E iter \in [SUBSET (1..n) -> V] : IsLoop(base, step, n, iter)
<1> DEFINE S == {m \in Nat : \E iter \in [SUBSET (1..m) -> V] : IsLoop(base, step, m, iter)}
<1>0. S \in SUBSET Nat
  OBVIOUS
<1>1. 0 \in S
  <2> DEFINE g == [s \in SUBSET (1..0) |-> base]
  <2>1. g \in [SUBSET (1..0) -> V]
    OBVIOUS
  <2>2. \A s \in SUBSET (1..0) : s = {} /\ g[s] = base
    OBVIOUS
  <2>3. IsLoop(base, step, 0, g)
    BY <2>2 DEF IsLoop
  <2> QED BY <2>1, <2>3
<1>2. ASSUME NEW m \in S PROVE m + 1 \in S
  <2>0. m \in Nat /\ m + 1 \in Nat
    <3> HIDE DEF S
    <3> QED BY <1>0
  <2>1. PICK g \in [SUBSET (1..m) -> V] : IsLoop(base, step, m, g)
    OBVIOUS
  <2> DEFINE h == [s \in SUBSET (1..(m + 1)) |-> IF m + 1 \in s THEN step[m + 1][g[s \ {m + 1}]] ELSE g[s]]
  <2>2. ASSUME NEW s \in SUBSET (1..(m + 1))
        PROVE  h[s] \in V /\ h[s] = IF s = {} THEN base ELSE step[Max(s)][h[s \ {Max(s)}]]
    <3>1. CASE m + 1 \in s
      <4>1. Max(s) = m + 1 /\ s \ {m + 1} \in SUBSET (1..m) /\ s \ {m + 1} \in SUBSET (1..(m + 1))
        BY <2>0, <3>1, LastPosition
      <4>2. h[s \ {m + 1}] = g[s \ {m + 1}] /\ g[s \ {m + 1}] \in V
        BY <4>1
      <4>3. h[s] = step[m + 1][g[s \ {m + 1}]]
        BY <3>1
      <4>4. step[m + 1][g[s \ {m + 1}]] \in V
        BY <4>2, <2>0
      <4>5. h[s] \in V
        <5> HIDE DEF h
        <5> QED BY <4>3, <4>4
      <4>6. s # {} /\ h[s \ {Max(s)}] = g[s \ {m + 1}]
        BY <3>1, <4>1, <4>2
      <4> HIDE DEF h
      <4> QED BY <4>1, <4>3, <4>5, <4>6
    <3>2. CASE m + 1 \notin s
      <4>1. /\ s \in SUBSET (1..m)
            /\ s # {} => s \ {Max(s)} \in SUBSET (1..m) /\ s \ {Max(s)} \in SUBSET (1..(m + 1)) /\ m + 1 \notin s \ {Max(s)}
        BY <2>0, <3>2, LastPosition
      <4>2. g[s] = IF s = {} THEN base ELSE step[Max(s)][g[s \ {Max(s)}]]
        BY <2>1, <4>1 DEF IsLoop
      <4>3. h[s] = g[s] /\ g[s] \in V /\ (s # {} => h[s \ {Max(s)}] = g[s \ {Max(s)}])
        BY <3>2, <4>1
      <4> HIDE DEF h
      <4> QED BY <4>2, <4>3
    <3> QED BY <3>1, <3>2
  <2>3. h \in [SUBSET (1..(m + 1)) -> V]
    <3>1. \A s \in SUBSET (1..(m + 1)) : h[s] \in V
      BY <2>2
    <3> QED BY <3>1
  <2>4. IsLoop(base, step, m + 1, h)
    <3> HIDE DEF h
    <3> QED BY <2>2 DEF IsLoop
  <2> HIDE DEF h
  <2> QED BY <2>0, <2>3, <2>4
<1>3. S = Nat
  <2> HIDE DEF S
  <2> QED BY <1>0, <1>1, <1>2, Induct
<1> QED BY <1>3

\* What a loop that steps so on values of V does.
Follows(V, base, step, n, c) ==
  /\ c[{}] = base
  /\ \A s \in SUBSET (1..n) : s # {} /\ c[s \ {Max(s)}] \in V => c[s] = step[Max(s)][c[s \ {Max(s)}]]

\* What has been computed after each position.
Computes(base, step, n, c, walk) ==
  walk[0] = base /\ walk[n] = c[1..n] /\ \A m \in 0..(n - 1) : walk[m + 1] = step[m + 1][walk[m]]

LEMMA LoopRuns ==
  ASSUME NEW V, NEW base \in V, NEW step \in [Nat -> [V -> V]], NEW n \in Nat, NEW c, Follows(V, base, step, n, c)
  PROVE  \E walk \in [0..n -> V] : Computes(base, step, n, c, walk)
<1>1. c[1..0] = base
  <2>1. 1..0 = {}
    OBVIOUS
  <2> QED BY <2>1 DEF Follows
<1>2. ASSUME NEW m \in 0..(n - 1), c[1..m] \in V PROVE c[1..(m + 1)] = step[m + 1][c[1..m]] /\ c[1..(m + 1)] \in V
  <2>1. PICK s \in SUBSET (1..n) : s = 1..(m + 1) /\ s # {} /\ Max(s) = m + 1 /\ s \ {m + 1} = 1..m
    BY NextPosition
  <2>2. c[s] = step[m + 1][c[1..m]]
    BY <1>2, <2>1 DEF Follows
  <2>3. step[m + 1][c[1..m]] \in V
    BY <1>2
  <2> QED BY <2>1, <2>2, <2>3
<1> DEFINE S == {m \in Nat : m <= n => c[1..m] \in V}
<1>3. S \in SUBSET Nat /\ 0 \in S
  BY <1>1
<1>4. ASSUME NEW m \in S PROVE m + 1 \in S
  <2>1. CASE m + 1 <= n
    <3>1. m \in 0..(n - 1) /\ c[1..m] \in V
      BY <2>1
    <3>2. c[1..(m + 1)] \in V
      BY <1>2, <3>1
    <3> QED BY <3>1, <3>2
  <2>2. CASE ~(m + 1 <= n)
    BY <2>2
  <2> QED BY <2>1, <2>2
<1>5. S = Nat
  <2> HIDE DEF S
  <2> QED BY <1>3, <1>4, Induct
<1>6. \A m \in 0..n : c[1..m] \in V
  BY <1>5
<1> DEFINE walk == [m \in 0..n |-> c[1..m]]
<1>7. walk \in [0..n -> V] /\ walk[0] = base /\ walk[n] = c[1..n]
  BY <1>1, <1>6
<1>8. ASSUME NEW m \in 0..(n - 1) PROVE walk[m + 1] = step[m + 1][walk[m]]
  <2>1. m \in 0..n /\ m + 1 \in 0..n
    OBVIOUS
  <2> QED BY <1>2, <1>6, <2>1
<1> HIDE DEF walk
<1> QED BY <1>7, <1>8 DEF Computes

-----------------------------------------------------------------------------
(* Conditions.                                                              *)

ProposalRow == [suggested_key: STRING \cup {Other}, example_quote: STRING]
Proposes(ps, key) == \E j \in 1..Len(ps) : ps[j].suggested_key = key
DedupeStep(kept, p) == IF \E i \in 1..Len(kept) : kept[i].suggested_key = p.suggested_key THEN kept ELSE Append(kept, p)

LEMMA DedupeFold ==
  ASSUME NEW ps
  PROVE  DedupeProposals(ps) =
         LET iter == CHOOSE iter : iter = [s \in SUBSET (DOMAIN ps) |-> IF s = {} THEN <<>> ELSE DedupeStep(iter[s \ {Max(s)}], ps[Max(s)])]
         IN iter[DOMAIN ps]
BY DEF DedupeProposals, FoldLeft, MapThenFoldSet, DedupeStep

\* What the loop has kept after each proposal.
LEMMA DedupeRuns ==
  ASSUME NEW ps \in Seq(ProposalRow), NEW n \in Nat, n = Len(ps)
  PROVE  \E kept \in [0..n -> Seq(ProposalRow)] :
           /\ kept[0] = <<>> /\ kept[n] = DedupeProposals(ps)
           /\ \A m \in 0..(n - 1) : kept[m + 1] = DedupeStep(kept[m], ps[m + 1])
<1> DEFINE V == Seq(ProposalRow)
           step == [i \in Nat |-> [v \in V |-> IF i \in 1..n THEN DedupeStep(v, ps[i]) ELSE v]]
           Iter(c) == c = [s \in SUBSET (1..n) |-> IF s = {} THEN <<>> ELSE DedupeStep(c[s \ {Max(s)}], ps[Max(s)])]
           c == CHOOSE c : Iter(c)
<1>1. <<>> \in V /\ DOMAIN ps = 1..n /\ \A i \in 1..n : ps[i] \in ProposalRow
  OBVIOUS
<1>2. \A v \in V, i \in 1..n : DedupeStep(v, ps[i]) \in V
  BY <1>1 DEF DedupeStep
<1>3. step \in [Nat -> [V -> V]]
  BY <1>2
<1>4. \A v \in V, i \in 1..n : step[i][v] = DedupeStep(v, ps[i])
  OBVIOUS
<1>5. \A s \in SUBSET (1..n) : s # {} => Max(s) \in 1..n
  BY LastPosition
<1> HIDE DEF step, V
<1>6. PICK g \in [SUBSET (1..n) -> V] : IsLoop(<<>>, step, n, g)
  BY <1>1, <1>3, LoopExists
<1>7. Iter(g)
  <2>1. \A s \in SUBSET (1..n) : g[s] = IF s = {} THEN <<>> ELSE DedupeStep(g[s \ {Max(s)}], ps[Max(s)])
    BY <1>4, <1>5, <1>6 DEF IsLoop
  <2> QED BY <2>1
<1>8. Iter(c)
  BY <1>7
<1>9. Follows(V, <<>>, step, n, c)
  <2> HIDE DEF c
  <2> QED BY <1>4, <1>5, <1>8 DEF Follows
<1>10. DedupeProposals(ps) = c[1..n]
  BY <1>1, DedupeFold
<1> HIDE DEF c
<1>11. PICK kept \in [0..n -> V] : Computes(<<>>, step, n, c, kept)
  BY <1>1, <1>3, <1>9, LoopRuns
<1>12. \A m \in 0..(n - 1) : kept[m + 1] = DedupeStep(kept[m], ps[m + 1])
  BY <1>4, <1>11 DEF Computes
<1> QED BY <1>10, <1>11, <1>12 DEF Computes, V

LEMMA AppendProposes ==
  ASSUME NEW k \in Seq(ProposalRow), NEW p \in ProposalRow
  PROVE  Proposes(Append(k, p), p.suggested_key) /\ \A i \in 1..Len(k) : Proposes(Append(k, p), k[i].suggested_key)
<1>0. Len(Append(k, p)) = Len(k) + 1 /\ Append(k, p)[Len(k) + 1] = p /\ \A i \in 1..Len(k) : Append(k, p)[i] = k[i]
  OBVIOUS
<1>1. PICK a : a = Append(k, p) /\ Len(a) = Len(k) + 1 /\ a[Len(k) + 1] = p /\ \A i \in 1..Len(k) : a[i] = k[i]
  BY <1>0
<1>2. Len(k) + 1 \in 1..Len(a) /\ \A i \in 1..Len(k) : i \in 1..Len(a)
  BY <1>1
<1> QED BY <1>1, <1>2 DEF Proposes

\* Of the proposals under one key exactly one is kept.
LEMMA DedupeKeepsOne ==
  ASSUME NEW ps \in Seq(ProposalRow)
  PROVE  /\ DedupeProposals(ps) \in Seq(ProposalRow)
         /\ \A key : Proposes(ps, key) => Listed(DedupeProposals(ps), key) = 1
<1>1. PICK n \in Nat : n = Len(ps)
  OBVIOUS
<1>2. PICK kept \in [0..n -> Seq(ProposalRow)] :
           /\ kept[0] = <<>> /\ kept[n] = DedupeProposals(ps)
           /\ \A m \in 0..(n - 1) : kept[m + 1] = DedupeStep(kept[m], ps[m + 1])
  BY <1>1, DedupeRuns
<1> DEFINE Once(k) == \A i, j \in 1..Len(k) : k[i].suggested_key = k[j].suggested_key => i = j
           All(m) == \A i \in 1..m : Proposes(kept[m], ps[i].suggested_key)
           S == {m \in Nat : m <= n => Once(kept[m]) /\ All(m)}
<1>3. S \in SUBSET Nat /\ 0 \in S
  BY <1>2
<1>4. ASSUME NEW m \in S PROVE m + 1 \in S
  <2>1. CASE m + 1 <= n
    <3>1. m \in 0..(n - 1) /\ Once(kept[m]) /\ All(m)
      BY <2>1
    <3>2. PICK k \in Seq(ProposalRow), p \in ProposalRow : k = kept[m] /\ p = ps[m + 1]
      BY <1>1, <3>1
    <3>3. kept[m + 1] = DedupeStep(k, p)
      BY <1>2, <3>1, <3>2
    <3>4. Once(DedupeStep(k, p)) /\ Proposes(DedupeStep(k, p), p.suggested_key)
          /\ \A i \in 1..Len(k) : Proposes(DedupeStep(k, p), k[i].suggested_key)
      <4> HIDE DEF S
      <4>1. CASE \E i \in 1..Len(k) : k[i].suggested_key = p.suggested_key
        BY <3>1, <3>2, <4>1 DEF DedupeStep, Proposes
      <4>2. CASE ~\E i \in 1..Len(k) : k[i].suggested_key = p.suggested_key
        <5>1. /\ DedupeStep(k, p) = Append(k, p) /\ Len(Append(k, p)) = Len(k) + 1 /\ Append(k, p)[Len(k) + 1] = p
              /\ \A i \in 1..Len(k) : Append(k, p)[i] = k[i]
          BY <3>2, <4>2 DEF DedupeStep
        <5>2. Len(k) \in Nat
          OBVIOUS
        <5>3. Proposes(Append(k, p), p.suggested_key) /\ \A i \in 1..Len(k) : Proposes(Append(k, p), k[i].suggested_key)
          BY <3>2, AppendProposes
        <5>4. Once(k)
          BY <3>1, <3>2
        <5>5. Once(Append(k, p))
          <6>1. PICK a : a = Append(k, p)
            OBVIOUS
          <6>2. Len(a) = Len(k) + 1 /\ a[Len(k) + 1] = p /\ \A i \in 1..Len(k) : a[i] = k[i]
            BY <5>1, <6>1
          <6>3. \A i \in 1..Len(k) : a[i].suggested_key # p.suggested_key
            BY <4>2, <6>2
          <6>4. \A i \in 1..(Len(k) + 1) : i \in 1..Len(k) \/ i = Len(k) + 1
            <7>1. \A l \in Nat : \A i \in 1..(l + 1) : i \in 1..l \/ i = l + 1
              OBVIOUS
            <7> QED BY <5>2, <7>1
          <6>5. \A i, j \in 1..Len(k) : a[i].suggested_key = a[j].suggested_key => i = j
            BY <5>4, <6>2
          <6>6. ASSUME NEW i \in 1..(Len(k) + 1), NEW j \in 1..(Len(k) + 1), a[i].suggested_key = a[j].suggested_key
                PROVE  i = j
            <7>1. CASE i \in 1..Len(k) /\ j \in 1..Len(k)
              BY <6>5, <6>6, <7>1
            <7>2. CASE i \in 1..Len(k) /\ j = Len(k) + 1
              BY <6>2, <6>3, <6>6, <7>2
            <7>3. CASE i = Len(k) + 1 /\ j \in 1..Len(k)
              BY <6>2, <6>3, <6>6, <7>3
            <7> QED BY <6>4, <7>1, <7>2, <7>3
          <6> QED BY <6>1, <6>2, <6>6
        <5> QED BY <5>1, <5>3, <5>5
      <4> QED BY <4>1, <4>2
    <3>5. All(m + 1)
      <4>1. ASSUME NEW i \in 1..(m + 1) PROVE Proposes(kept[m + 1], ps[i].suggested_key)
        <5>1. CASE i = m + 1
          BY <3>2, <3>3, <3>4, <5>1
        <5>2. CASE i # m + 1
          <6>1. i \in 1..m
            BY <3>1, <5>2
          <6>2. PICK j \in 1..Len(k) : k[j].suggested_key = ps[i].suggested_key
            BY <3>1, <3>2, <6>1 DEF Proposes
          <6> QED BY <3>3, <3>4, <6>2
        <5> QED BY <5>1, <5>2
      <4> QED BY <4>1
    <3> QED BY <3>1, <3>3, <3>4, <3>5
  <2>2. CASE ~(m + 1 <= n)
    BY <2>2
  <2> QED BY <2>1, <2>2
<1>5. S = Nat
  <2> HIDE DEF S
  <2> QED BY <1>3, <1>4, Induct
<1>6. Once(kept[n]) /\ All(n)
  <2>1. n \in S
    <3> HIDE DEF S
    <3> QED BY <1>5
  <2> QED BY <2>1
<1>7. ASSUME NEW key, Proposes(ps, key) PROVE Listed(kept[n], key) = 1
  <2>1. PICK i \in 1..n : ps[i].suggested_key = key
    BY <1>1, <1>7 DEF Proposes
  <2>2. PICK j \in 1..Len(kept[n]) : kept[n][j].suggested_key = key
    BY <1>6, <2>1 DEF Proposes
  <2>3. {l \in 1..Len(kept[n]) : kept[n][l].suggested_key = key} = {j}
    BY <1>6, <2>2
  <2>4. Cardinality({j}) = 1
    BY FS_Singleton
  <2> QED BY <2>3, <2>4 DEF Listed
<1> QED BY <1>2, <1>7

\* A condition the vocabulary does not know.
Unknown(c, vocab) == BuildIndex(vocab, Normal[c.key]) = 0
ProposeStep(vocab, proposed, c) ==
  IF BuildIndex(vocab, Normal[c.key]) # 0 THEN proposed
  ELSE Append(proposed, [suggested_key |-> SuggestedKey(c), example_quote |-> c.source_quote])

LEMMA ProposeFold ==
  ASSUME NEW cs, NEW vocab
  PROVE  Proposals(cs, vocab) =
         LET iter == CHOOSE iter : iter = [s \in SUBSET (DOMAIN cs) |-> IF s = {} THEN <<>> ELSE ProposeStep(vocab, iter[s \ {Max(s)}], cs[Max(s)])]
         IN iter[DOMAIN cs]
BY DEF Proposals, FoldLeft, MapThenFoldSet, ProposeStep

LEMMA ProposalTyped ==
  ASSUME NEW c \in Conditions
  PROVE  [suggested_key |-> SuggestedKey(c), example_quote |-> c.source_quote] \in ProposalRow
<1>1. SuggestedKey(c) \in STRING \cup {Other}
  <2>1. c.key \in DOMAIN Normal
    BY DEF Conditions
  <2>2. Normal[c.key] \in STRING
    BY <2>1, RulesAssumption
  <2> QED BY <2>2 DEF SuggestedKey
<1>2. c.source_quote \in STRING
  BY DEF Conditions
<1> QED BY <1>1, <1>2 DEF ProposalRow

ProposeRun(cs, vocab, n, made) ==
  /\ made[0] = <<>> /\ made[n] = Proposals(cs, vocab)
  /\ \A m \in 0..(n - 1) : made[m + 1] = ProposeStep(vocab, made[m], cs[m + 1])

LEMMA ProposeRuns ==
  ASSUME NEW cs \in Seq(Conditions), NEW vocab, NEW n \in Nat, n = Len(cs)
  PROVE  \E made \in [0..n -> Seq(ProposalRow)] : ProposeRun(cs, vocab, n, made)
<1> DEFINE V == Seq(ProposalRow)
           step == [i \in Nat |-> [v \in V |-> IF i \in 1..n THEN ProposeStep(vocab, v, cs[i]) ELSE v]]
           Iter(c) == c = [s \in SUBSET (1..n) |-> IF s = {} THEN <<>> ELSE ProposeStep(vocab, c[s \ {Max(s)}], cs[Max(s)])]
           c == CHOOSE c : Iter(c)
<1>1. <<>> \in V /\ DOMAIN cs = 1..n /\ \A i \in 1..n : cs[i] \in Conditions
  OBVIOUS
<1>2. \A v \in V, i \in 1..n : ProposeStep(vocab, v, cs[i]) \in V
  BY <1>1, ProposalTyped DEF ProposeStep
<1>3. step \in [Nat -> [V -> V]]
  BY <1>2
<1>4. \A v \in V, i \in 1..n : step[i][v] = ProposeStep(vocab, v, cs[i])
  OBVIOUS
<1>5. \A s \in SUBSET (1..n) : s # {} => Max(s) \in 1..n
  BY LastPosition
<1> HIDE DEF step, V
<1>6. PICK g \in [SUBSET (1..n) -> V] : IsLoop(<<>>, step, n, g)
  BY <1>1, <1>3, LoopExists
<1>7. Iter(g)
  <2>1. \A s \in SUBSET (1..n) : g[s] = IF s = {} THEN <<>> ELSE ProposeStep(vocab, g[s \ {Max(s)}], cs[Max(s)])
    BY <1>4, <1>5, <1>6 DEF IsLoop
  <2> QED BY <2>1
<1>8. Iter(c)
  BY <1>7
<1>9. Follows(V, <<>>, step, n, c)
  <2> HIDE DEF c
  <2> QED BY <1>4, <1>5, <1>8 DEF Follows
<1>10. Proposals(cs, vocab) = c[1..n]
  BY <1>1, ProposeFold
<1> HIDE DEF c
<1>11. PICK made \in [0..n -> V] : Computes(<<>>, step, n, c, made)
  BY <1>1, <1>3, <1>9, LoopRuns
<1>12. \A m \in 0..(n - 1) : made[m + 1] = ProposeStep(vocab, made[m], cs[m + 1])
  BY <1>4, <1>11 DEF Computes
<1> QED BY <1>10, <1>11, <1>12 DEF Computes, V, ProposeRun

\* Every condition the vocabulary does not know is proposed.
LEMMA UnknownIsProposed ==
  ASSUME NEW cs \in Seq(Conditions), NEW vocab
  PROVE  /\ Proposals(cs, vocab) \in Seq(ProposalRow)
         /\ \A i \in 1..Len(cs) : Unknown(cs[i], vocab) => Proposes(Proposals(cs, vocab), SuggestedKey(cs[i]))
<1>1. PICK n \in Nat : n = Len(cs)
  OBVIOUS
<1>2. PICK made \in [0..n -> Seq(ProposalRow)] : ProposeRun(cs, vocab, n, made)
  BY <1>1, ProposeRuns
<1> DEFINE All(m) == \A i \in 1..m : Unknown(cs[i], vocab) => Proposes(made[m], SuggestedKey(cs[i]))
           S == {m \in Nat : m <= n => All(m)}
<1>3. S \in SUBSET Nat /\ 0 \in S
  OBVIOUS
<1>4. ASSUME NEW m \in S PROVE m + 1 \in S
  <2>1. CASE m + 1 <= n
    <3>1. m \in 0..(n - 1) /\ All(m)
      BY <2>1
    <3>2. PICK k, c : k \in Seq(ProposalRow) /\ k = made[m] /\ c = cs[m + 1] /\ c \in Conditions
      <4>1. m \in 0..n /\ m + 1 \in 1..Len(cs)
        BY <1>1, <3>1
      <4> HIDE DEF S, All
      <4> QED BY <4>1
    <3>3. made[m + 1] = ProposeStep(vocab, k, c)
      BY <1>2, <3>1, <3>2 DEF ProposeRun
    <3>4. /\ Unknown(c, vocab) => Proposes(made[m + 1], SuggestedKey(c))
          /\ \A i \in 1..Len(k) : Proposes(made[m + 1], k[i].suggested_key)
      <4>1. PICK p \in ProposalRow : p = [suggested_key |-> SuggestedKey(c), example_quote |-> c.source_quote]
        BY <3>2, ProposalTyped
      <4>2. CASE Unknown(c, vocab)
        <5>1. made[m + 1] = Append(k, p) /\ p.suggested_key = SuggestedKey(c)
          BY <3>2, <3>3, <4>1, <4>2 DEF ProposeStep, Unknown
        <5> HIDE DEF S
        <5> QED BY <3>2, <5>1, AppendProposes
      <4>3. CASE ~Unknown(c, vocab)
        BY <3>3, <4>3 DEF ProposeStep, Unknown, Proposes
      <4> QED BY <4>2, <4>3
    <3>5. ASSUME NEW i \in 1..(m + 1), Unknown(cs[i], vocab) PROVE Proposes(made[m + 1], SuggestedKey(cs[i]))
      <4>1. CASE i = m + 1
        BY <3>2, <3>4, <3>5, <4>1
      <4>2. CASE i # m + 1
        <5>1. i \in 1..m
          BY <3>1, <4>2
        <5>2. PICK j \in 1..Len(k) : k[j].suggested_key = SuggestedKey(cs[i])
          BY <3>1, <3>2, <3>5, <5>1 DEF Proposes
        <5> QED BY <3>4, <5>2
      <4> QED BY <4>1, <4>2
    <3> QED BY <3>1, <3>5
  <2>2. CASE ~(m + 1 <= n)
    BY <2>2
  <2> QED BY <2>1, <2>2
<1>5. S = Nat
  <2> HIDE DEF S
  <2> QED BY <1>3, <1>4, Induct
<1>6. All(n)
  <2>1. n \in S
    <3> HIDE DEF S
    <3> QED BY <1>5
  <2> QED BY <2>1
<1> QED BY <1>1, <1>2, <1>6 DEF ProposeRun

\* Of the entries that bear a name the index keeps the last.
LEMMA IndexKeepsLast ==
  ASSUME NEW vocab \in Seq(Entries), NEW name
  PROVE  LET bearers == {e \in 1..Len(vocab) : name \in Named(e, vocab)} IN
         /\ BuildIndex(vocab, name) = 0 <=> bearers = {}
         /\ bearers # {} => /\ BuildIndex(vocab, name) \in bearers
                             /\ \A e \in bearers : e <= BuildIndex(vocab, name)
<1> DEFINE bearers == {e \in 1..Len(vocab) : name \in Named(e, vocab)}
<1>1. CASE bearers = {}
  BY <1>1 DEF BuildIndex
<1>2. CASE bearers # {}
  <2>1. \E e \in bearers : \A f \in bearers : f <= e
    <3>1. Len(vocab) \in Nat /\ bearers \in SUBSET (1..Len(vocab))
      OBVIOUS
    <3> HIDE DEF bearers
    <3> QED BY <1>2, <3>1, LastOf
  <2>2. BuildIndex(vocab, name) = CHOOSE e \in bearers : \A f \in bearers : f <= e
    BY <1>2 DEF BuildIndex
  <2>3. BuildIndex(vocab, name) \in bearers /\ \A e \in bearers : e <= BuildIndex(vocab, name)
    <3> HIDE DEF bearers
    <3> QED BY <2>1, <2>2
  <2>4. BuildIndex(vocab, name) # 0
    BY <2>3
  <2> QED BY <1>2, <2>3, <2>4
<1> QED BY <1>1, <1>2

\* A condition is filed under the last entry that bears its name, or as other.
LEMMA FiledUnderBearer ==
  ASSUME NEW vocab \in Seq(Entries), NEW c \in Conditions
  PROVE  LET bearers == {e \in 1..Len(vocab) : Normal[c.key] \in Named(e, vocab)} IN
         /\ MapCondition(c, vocab).source_quote = c.source_quote
         /\ Unknown(c, vocab) <=> bearers = {}
         /\ bearers = {} => MapCondition(c, vocab).key = Other
         /\ bearers # {} => \E e \in bearers : MapCondition(c, vocab).key = vocab[e].key /\ \A f \in bearers : f <= e
<1> DEFINE bearers == {e \in 1..Len(vocab) : Normal[c.key] \in Named(e, vocab)}
<1>1. /\ BuildIndex(vocab, Normal[c.key]) = 0 <=> bearers = {}
      /\ bearers # {} => /\ BuildIndex(vocab, Normal[c.key]) \in bearers
                          /\ \A e \in bearers : e <= BuildIndex(vocab, Normal[c.key])
  BY IndexKeepsLast
<1> HIDE DEF bearers
<1>2. bearers = {} => MapCondition(c, vocab) = [c EXCEPT !.key = Other]
  BY <1>1 DEF MapCondition
<1>3. bearers # {} => \E e \in bearers : /\ MapCondition(c, vocab) = [c EXCEPT !.key = vocab[e].key, !.label = vocab[e].label]
                                          /\ \A f \in bearers : f <= e
  BY <1>1 DEF MapCondition
<1>4. MapCondition(c, vocab).source_quote = c.source_quote
  BY <1>2, <1>3 DEF Conditions
<1>5. bearers = {} => MapCondition(c, vocab).key = Other
  BY <1>2 DEF Conditions
<1>6. bearers # {} => \E e \in bearers : MapCondition(c, vocab).key = vocab[e].key /\ \A f \in bearers : f <= e
  BY <1>3 DEF Conditions
<1> QED BY <1>1, <1>4, <1>5, <1>6 DEF bearers, Unknown

-----------------------------------------------------------------------------
(* The candidate an extraction queues.                                      *)

\* The parts of a canonicalised deal.
LEMMA CanonicalParts ==
  ASSUME NEW raw \in ExtractedDeals, NEW vocab
  PROVE  LET deal == Canonicalised(raw, vocab) IN
         /\ DOMAIN deal = DOMAIN raw
         /\ deal.price = raw.price /\ deal.route_type = raw.route_type /\ deal.grounding = raw.grounding
         /\ deal.confidence = raw.confidence
         /\ deal.validity.conditions = [i \in 1..Len(raw.validity.conditions) |-> MapCondition(raw.validity.conditions[i], vocab)]
         /\ deal.eligibility = [i \in 1..Len(raw.eligibility) |-> MapCondition(raw.eligibility[i], vocab)]
         /\ deal.unmapped_conditions = (raw.unmapped_conditions \/ MapConditions(raw.eligibility, vocab).unmapped
                                                                \/ MapConditions(raw.validity.conditions, vocab).unmapped)
         /\ deal.field_proposals = DedupeProposals(raw.field_proposals \o MapConditions(raw.eligibility, vocab).proposals
                                                                      \o MapConditions(raw.validity.conditions, vocab).proposals)
BY DEF Canonicalised, MapConditions, ExtractedDeals

LEMMA Rounding ==
  ASSUME NEW a \in Nat, NEW m \in Nat \ {0}
  PROVE  Rounded(a, m) \in Nat /\ 2 * Distance(Rounded(a, m) * m, a) <= m
<1>1. PICK k, x : k = 2 * m /\ x = 2 * a + m /\ k \in Nat \ {0} /\ x \in Nat
  OBVIOUS
<1>2. PICK q \in Int : q = x \div k
  BY <1>1
<1>3. k * q <= x /\ x < k * q + k /\ q >= 0
  BY <1>1, <1>2
<1>4. PICK p \in Int : p = q * m /\ k * q = 2 * p
  BY <1>1
<1>5. Rounded(a, m) = q
  BY <1>1, <1>2 DEF Rounded
<1> QED BY <1>1, <1>3, <1>4, <1>5 DEF Distance

LEMMA CostIsNat ==
  ASSUME NEW price \in Prices
  PROVE  TrueCostMonthly(price) \in Nat
<1>1. price.amount \in Nat /\ price.months \in Nat
  BY DEF Prices
<1>2. CASE price.billing = "annual"
  BY <1>1, <1>2, Rounding DEF TrueCostMonthly
<1>3. CASE price.billing = "prepaid" /\ price.months # NoTerm
  BY <1>1, <1>3, Rounding DEF TrueCostMonthly, NoTerm
<1>4. CASE price.billing # "annual" /\ ~(price.billing = "prepaid" /\ price.months # NoTerm)
  BY <1>1, <1>4, Rounding DEF TrueCostMonthly
<1> QED BY <1>2, <1>3, <1>4

LEMMA FailuresFinite ==
  ASSUME NEW deal, IsFiniteSet(deal.grounding), NEW page
  PROVE  IsFiniteSet(Failures(deal, page))
<1>1. \A broken, rule, field : IsFiniteSet(If(broken, rule, field))
  BY FS_EmptySet, FS_Singleton DEF If
<1>2. \A A, B : IsFiniteSet(A) /\ IsFiniteSet(B) => IsFiniteSet(A \cup B)
  BY FS_Union
<1>3. IsFiniteSet(PriceFailures(deal.price))
  BY <1>1, <1>2 DEF PriceFailures
<1>4. IsFiniteSet(ValidatePromoPricing(deal))
  BY <1>1 DEF ValidatePromoPricing
<1>5. IsFiniteSet(ValidateDates(deal.validity))
  BY <1>1, <1>2 DEF ValidateDates
<1>6. ASSUME NEW quotes PROVE IsFiniteSet(ValidateGrounding(deal, quotes))
  <2> DEFINE missing == KeyGroundedFields \ Grounded(deal)
             unfound == {h \in deal.grounding : h.quote \notin quotes}
  <2>1. IsFiniteSet(KeyGroundedFields)
    <3>1. KeyGroundedFields = {"price"} \cup {"eligibility"} \cup {"validity"}
      BY DEF KeyGroundedFields
    <3> QED BY <1>2, <3>1, FS_Singleton
  <2>2. IsFiniteSet(missing) /\ IsFiniteSet(unfound)
    BY <2>1, FS_Subset
  <2>3. IsFiniteSet({Failure("grounding_present", field) : field \in missing})
    <3> DEFINE F == [field \in missing |-> Failure("grounding_present", field)]
    <3>1. {Failure("grounding_present", field) : field \in missing} = {F[field] : field \in missing}
      OBVIOUS
    <3>2. F \in [missing -> {F[field] : field \in missing}]
      OBVIOUS
    <3>3. F \in Surjection(missing, {F[field] : field \in missing})
      BY <3>2 DEF Surjection
    <3> HIDE DEF F, missing
    <3> QED BY <2>2, <3>1, <3>3, FS_Surjection
  <2>4. IsFiniteSet({<<"grounding_quote_in_source", g.field, g.quote>> : g \in unfound})
    <3> DEFINE F == [g \in unfound |-> <<"grounding_quote_in_source", g.field, g.quote>>]
    <3>1. {<<"grounding_quote_in_source", g.field, g.quote>> : g \in unfound} = {F[g] : g \in unfound}
      OBVIOUS
    <3>2. F \in [unfound -> {F[g] : g \in unfound}]
      OBVIOUS
    <3>3. F \in Surjection(unfound, {F[g] : g \in unfound})
      BY <3>2 DEF Surjection
    <3> HIDE DEF F, unfound
    <3> QED BY <2>2, <3>1, <3>3, FS_Surjection
  <2> QED BY <1>2, <2>3, <2>4 DEF ValidateGrounding
<1> QED BY <1>1, <1>2, <1>3, <1>4, <1>5, <1>6 DEF Failures, ValidateRecord

\* A deal that needs no review broke no rule, and the model was sure of it.
LEMMA UnreviewedIsUnbroken ==
  ASSUME NEW raw \in Drafts, NEW page, NEW vocab, ~ProcessDeal(raw, page, vocab).review
  PROVE  Failures(Canonicalised(raw, vocab), page) = {} /\ raw.confidence > MustReviewThreshold
<1> DEFINE deal == Canonicalised(raw, vocab)
           failed == Cardinality(Failures(deal, page))
<1>1. raw \in ExtractedDeals /\ IsFiniteSet(raw.grounding) /\ deal.grounding = raw.grounding /\ deal.confidence = raw.confidence
  BY RulesAssumption, CanonicalParts
<1>2. IsFiniteSet(Failures(deal, page))
  <2> HIDE DEF deal
  <2> QED BY <1>1, FailuresFinite
<1>3. failed \in Nat
  BY <1>2, FS_CardinalityType
<1>4. ~MustReview(AdjustConfidence(deal, failed), failed)
  BY DEF ProcessDeal
<1> HIDE DEF deal
<1>5. failed = 0
  BY <1>3, <1>4 DEF MustReview
<1>6. Failures(deal, page) = {}
  BY <1>2, <1>5, FS_EmptySet
<1>7. Cardinality(KeyGroundedFields \ Grounded(deal)) \in Nat
  <2>1. IsFiniteSet(KeyGroundedFields)
    <3>1. KeyGroundedFields = {"price"} \cup {"eligibility"} \cup {"validity"}
      BY DEF KeyGroundedFields
    <3> QED BY <3>1, FS_Singleton, FS_Union
  <2> QED BY <2>1, FS_Subset, FS_CardinalityType
<1>8. deal.confidence \in 0..100
  BY <1>1 DEF ExtractedDeals
<1>9. deal.confidence > MustReviewThreshold
  <2> HIDE DEF failed
  <2>1. PICK g \in Nat : g = Cardinality(KeyGroundedFields \ Grounded(deal))
    BY <1>7
  <2>2. AdjustConfidence(deal, failed) = Clamped(deal.confidence - 20 * 0 - 15 * g)
    BY <1>5, <2>1 DEF AdjustConfidence, FailurePenalty, GroundingPenalty
  <2>3. ~(AdjustConfidence(deal, failed) <= 70)
    BY <1>4 DEF MustReview, MustReviewThreshold
  <2> QED BY <1>8, <2>1, <2>2, <2>3 DEF Clamped, MustReviewThreshold
<1> QED BY <1>1, <1>6, <1>9 DEF deal

\* No condition of a deal is an introductory price under a name that no later entry took over.
LEMMA NoIntroPrice ==
  ASSUME NEW vocab \in Seq(Entries), NEW cs \in Seq(Conditions),
         ~Bears([i \in 1..Len(cs) |-> MapCondition(cs[i], vocab)], "intro_period"),
         NEW e \in 1..Len(vocab), vocab[e].key = "intro_period",
         NEW i \in 1..Len(cs), Normal[cs[i].key] \in Named(e, vocab)
  PROVE  \E f \in (e + 1)..Len(vocab) : Normal[cs[i].key] \in Named(f, vocab)
<1> DEFINE mapped == [j \in 1..Len(cs) |-> MapCondition(cs[j], vocab)]
<1>1. Len(cs) \in Nat /\ Len(mapped) = Len(cs) /\ mapped[i] = MapCondition(cs[i], vocab) /\ cs[i] \in Conditions
  OBVIOUS
<1>2. MapCondition(cs[i], vocab).key # "intro_period"
  BY <1>1 DEF Bears
<1>3. PICK f \in 1..Len(vocab) : /\ Normal[cs[i].key] \in Named(f, vocab) /\ e <= f
                                 /\ MapCondition(cs[i], vocab).key = vocab[f].key
  BY <1>1, FiledUnderBearer
<1>4. f # e
  BY <1>2, <1>3
<1> QED BY <1>3, <1>4

LEMMA UnreviewedIsClean ==
  ASSUME NEW raw \in Drafts, NEW page \in Readings, NEW vocab \in Vocabularies, ~ProcessDeal(raw, page, vocab).review
  PROVE  Clean(raw, page, vocab)
<1> DEFINE deal == Canonicalised(raw, vocab)
<1>1. raw \in ExtractedDeals /\ vocab \in Seq(Entries) /\ page.long \in BOOLEAN
  BY RulesAssumption
<1>2. /\ deal.price = raw.price /\ deal.route_type = raw.route_type /\ deal.grounding = raw.grounding
      /\ deal.validity.conditions = [i \in 1..Len(raw.validity.conditions) |-> MapCondition(raw.validity.conditions[i], vocab)]
      /\ deal.eligibility = [i \in 1..Len(raw.eligibility) |-> MapCondition(raw.eligibility[i], vocab)]
  BY <1>1, CanonicalParts
<1>3. Failures(deal, page) = {} /\ raw.confidence > MustReviewThreshold
  BY UnreviewedIsUnbroken
<1> HIDE DEF deal
<1>4. \A broken, rule, field : If(broken, rule, field) = {} => ~broken
  BY DEF If
<1>5. ~page.long /\ PriceFailures(raw.price) = {} /\ ValidatePromoPricing(deal) = {} /\ ValidateGrounding(deal, page.quotes) = {}
  <2>1. ~page.long
    BY <1>3, <1>4 DEF Failures
  <2>2. BoundExtractionInput(page) = page.quotes
    BY <2>1 DEF BoundExtractionInput
  <2> QED BY <1>2, <1>3, <2>1, <2>2 DEF Failures, ValidateRecord
<1>6. /\ ~(TrueCostMonthly(raw.price) > MaxPlausible) /\ raw.price.billing # "unknown"
      /\ ~(raw.price.billing = "prepaid" /\ raw.price.months = NoTerm)
  BY <1>5 DEF PriceFailures, If
<1>7. raw.price \in Prices /\ raw.price.amount \in Nat /\ raw.price.months \in Nat
  BY <1>1 DEF ExtractedDeals, Prices
<1>8. /\ PaidOver(raw.price).months \in Nat \ {0} /\ PaidOver(raw.price).cents = raw.price.amount
      /\ TrueCostMonthly(raw.price) = Rounded(raw.price.amount, PaidOver(raw.price).months)
  <2>1. CASE raw.price.billing = "annual"
    BY <2>1, <1>7 DEF PaidOver, TrueCostMonthly
  <2>2. CASE raw.price.billing = "prepaid"
    BY <2>2, <1>6, <1>7 DEF PaidOver, TrueCostMonthly, NoTerm
  <2>3. CASE raw.price.billing \notin {"annual", "prepaid"}
    BY <2>3, <1>7 DEF PaidOver, TrueCostMonthly
  <2> QED BY <2>1, <2>2, <2>3
<1>9. /\ 2 * Distance(TrueCostMonthly(raw.price) * PaidOver(raw.price).months, PaidOver(raw.price).cents) <= PaidOver(raw.price).months
      /\ TrueCostMonthly(raw.price) <= MaxPlausible
  <2>1. PICK a, m : a = raw.price.amount /\ m = PaidOver(raw.price).months /\ a \in Nat /\ m \in Nat \ {0}
    BY <1>7, <1>8
  <2>2. 2 * Distance(Rounded(a, m) * m, a) <= m
    BY <2>1, Rounding
  <2>3. TrueCostMonthly(raw.price) \in Nat /\ MaxPlausible \in Nat
    BY <1>7, CostIsNat, RulesAssumption
  <2> QED BY <1>6, <1>8, <2>1, <2>2, <2>3
<1>10. raw.route_type # "promo" /\ ~Bears(deal.eligibility, "intro_period") /\ ~Bears(deal.validity.conditions, "intro_period")
  BY <1>2, <1>4, <1>5 DEF ValidatePromoPricing
<1>11. raw.eligibility \in Seq(Conditions) /\ raw.validity.conditions \in Seq(Conditions)
  BY <1>1 DEF ExtractedDeals
<1>12. ASSUME NEW e \in 1..Len(vocab), vocab[e].key = "intro_period",
              NEW name \in {Normal[raw.eligibility[i].key] : i \in 1..Len(raw.eligibility)}
                           \cup {Normal[raw.validity.conditions[i].key] : i \in 1..Len(raw.validity.conditions)},
              name \in Named(e, vocab)
       PROVE  \E f \in (e + 1)..Len(vocab) : name \in Named(f, vocab)
  <2>1. CASE name \in {Normal[raw.eligibility[i].key] : i \in 1..Len(raw.eligibility)}
    <3>1. PICK i \in 1..Len(raw.eligibility) : name = Normal[raw.eligibility[i].key]
      BY <2>1
    <3> QED BY <1>1, <1>2, <1>10, <1>11, <1>12, <3>1, NoIntroPrice
  <2>2. CASE name \in {Normal[raw.validity.conditions[i].key] : i \in 1..Len(raw.validity.conditions)}
    <3>1. PICK i \in 1..Len(raw.validity.conditions) : name = Normal[raw.validity.conditions[i].key]
      BY <2>2
    <3> QED BY <1>1, <1>2, <1>10, <1>11, <1>12, <3>1, NoIntroPrice
  <2> QED BY <2>1, <2>2
<1>13. KeyGroundedFields \subseteq Grounded(raw) /\ {g.quote : g \in raw.grounding} \subseteq page.quotes
  <2>1. Grounded(deal) = Grounded(raw)
    BY <1>2 DEF Grounded
  <2>2. KeyGroundedFields \ Grounded(deal) = {} /\ {h \in deal.grounding : h.quote \notin page.quotes} = {}
    BY <1>5 DEF ValidateGrounding
  <2> QED BY <1>2, <2>1, <2>2
<1> QED BY <1>3, <1>5, <1>6, <1>8, <1>9, <1>10, <1>12, <1>13 DEF Clean

LEMMA MiddleProposes ==
  ASSUME NEW A \in Seq(ProposalRow), NEW B \in Seq(ProposalRow), NEW C \in Seq(ProposalRow), NEW key, Proposes(B, key)
  PROVE  A \o B \o C \in Seq(ProposalRow) /\ Proposes(A \o B \o C, key)
<1>1. PICK j \in 1..Len(B) : B[j].suggested_key = key
  BY DEF Proposes
<1>2. PICK D : D \in Seq(ProposalRow) /\ D = A \o B
  BY ConcatProperties
<1>3. Len(A) \in Nat /\ Len(B) \in Nat /\ Len(C) \in Nat /\ Len(D) = Len(A) + Len(B) /\ D[Len(A) + j] = B[j]
  BY <1>2
<1>4. PICK E : E \in Seq(ProposalRow) /\ E = D \o C
  BY <1>2, ConcatProperties
<1>5. Len(A) + j \in 1..Len(D)
  BY <1>3
<1>6. Len(E) = Len(D) + Len(C) /\ E[Len(A) + j] = D[Len(A) + j]
  BY <1>4, <1>5
<1>7. Len(A) + j \in 1..Len(E)
  BY <1>3, <1>5, <1>6
<1> QED BY <1>1, <1>2, <1>3, <1>4, <1>6, <1>7 DEF Proposes

LEMMA CanonicalisedIsFiled ==
  ASSUME NEW raw \in Drafts, NEW vocab \in Vocabularies
  PROVE  Filed(Canonicalised(raw, vocab), raw, vocab)
<1> DEFINE deal == Canonicalised(raw, vocab)
           own == raw.field_proposals
           told == MapConditions(raw.eligibility, vocab).proposals
           dated == MapConditions(raw.validity.conditions, vocab).proposals
<1>1. raw \in ExtractedDeals /\ vocab \in Seq(Entries)
  BY RulesAssumption
<1>2. /\ raw.eligibility \in Seq(Conditions) /\ raw.validity.conditions \in Seq(Conditions)
      /\ own \in Seq([suggested_key: STRING, example_quote: STRING]) /\ raw.unmapped_conditions \in BOOLEAN
  BY <1>1 DEF ExtractedDeals
<1>3. own \in Seq(ProposalRow)
  <2>1. [suggested_key: STRING, example_quote: STRING] \subseteq ProposalRow
    BY DEF ProposalRow
  <2> HIDE DEF own
  <2> QED BY <1>2, <2>1, SeqMonotonic
<1>4. /\ deal.eligibility = [i \in 1..Len(raw.eligibility) |-> MapCondition(raw.eligibility[i], vocab)]
      /\ deal.unmapped_conditions = (raw.unmapped_conditions \/ MapConditions(raw.eligibility, vocab).unmapped
                                                             \/ MapConditions(raw.validity.conditions, vocab).unmapped)
      /\ deal.field_proposals = DedupeProposals(own \o told \o dated)
  BY <1>1, CanonicalParts
<1>5. /\ told = DedupeProposals(Proposals(raw.eligibility, vocab))
      /\ dated = DedupeProposals(Proposals(raw.validity.conditions, vocab))
      /\ MapConditions(raw.eligibility, vocab).unmapped = \E i \in 1..Len(raw.eligibility) : Unknown(raw.eligibility[i], vocab)
  BY DEF MapConditions, Unknown
<1>6. told \in Seq(ProposalRow) /\ dated \in Seq(ProposalRow)
  BY <1>2, <1>5, UnknownIsProposed, DedupeKeepsOne
<1> HIDE DEF deal, own, told, dated
<1>7. ASSUME NEW i \in 1..Len(raw.eligibility), NEW condition, condition = raw.eligibility[i], Unknown(condition, vocab)
      PROVE  deal.unmapped_conditions /\ Listed(deal.field_proposals, SuggestedKey(condition)) = 1
  <2>1. Proposes(Proposals(raw.eligibility, vocab), SuggestedKey(condition)) /\ Proposals(raw.eligibility, vocab) \in Seq(ProposalRow)
    BY <1>2, <1>7, UnknownIsProposed
  <2>2. Listed(told, SuggestedKey(condition)) = 1
    BY <1>5, <2>1, DedupeKeepsOne
  <2>3. Proposes(told, SuggestedKey(condition))
    <3>1. {j \in 1..Len(told) : told[j].suggested_key = SuggestedKey(condition)} # {}
      <4> SUFFICES ASSUME {j \in 1..Len(told) : told[j].suggested_key = SuggestedKey(condition)} = {} PROVE FALSE
        OBVIOUS
      <4>1. Cardinality({}) = 1
        BY <2>2 DEF Listed
      <4> QED BY <4>1, FS_EmptySet
    <3> QED BY <3>1 DEF Proposes
  <2>4. Listed(DedupeProposals(own \o told \o dated), SuggestedKey(condition)) = 1
    BY <1>3, <1>6, <2>3, MiddleProposes, DedupeKeepsOne
  <2> QED BY <1>4, <1>5, <1>7, <2>4
<1>8. ASSUME NEW i \in 1..Len(raw.eligibility), NEW condition, condition = raw.eligibility[i],
             NEW filed, filed = deal.eligibility[i],
             NEW bearers, bearers = {f \in 1..Len(vocab) : Normal[condition.key] \in Named(f, vocab)}
      PROVE  /\ filed.source_quote = condition.source_quote
             /\ bearers = {} => filed.key = Other /\ deal.unmapped_conditions /\ Listed(deal.field_proposals, SuggestedKey(condition)) = 1
             /\ bearers # {} => filed.key \in {vocab[e].key : e \in bearers}
  <2>1. filed = MapCondition(condition, vocab) /\ condition \in Conditions
    BY <1>2, <1>4, <1>8
  <2>2. /\ filed.source_quote = condition.source_quote
        /\ Unknown(condition, vocab) <=> bearers = {}
        /\ bearers = {} => filed.key = Other
        /\ bearers # {} => \E e \in bearers : filed.key = vocab[e].key
    BY <1>1, <1>8, <2>1, FiledUnderBearer
  <2> QED BY <1>7, <1>8, <2>2
<1>9. Filed(deal, raw, vocab)
  <2> SUFFICES ASSUME NEW i \in 1..Len(raw.eligibility)
               PROVE  LET condition == raw.eligibility[i]  filed == deal.eligibility[i]
                          bearers == {vocab[e].key : e \in {f \in 1..Len(vocab) : Normal[condition.key] \in Named(f, vocab)}}
                      IN /\ filed.source_quote = condition.source_quote
                         /\ IF bearers = {}
                              THEN filed.key = Other /\ deal.unmapped_conditions /\ Listed(deal.field_proposals, SuggestedKey(condition)) = 1
                              ELSE filed.key \in bearers
    BY DEF Filed
  <2> DEFINE condition == raw.eligibility[i]
             filed == deal.eligibility[i]
             bearers == {f \in 1..Len(vocab) : Normal[condition.key] \in Named(f, vocab)}
  <2>2. /\ filed.source_quote = condition.source_quote
        /\ bearers = {} => filed.key = Other /\ deal.unmapped_conditions /\ Listed(deal.field_proposals, SuggestedKey(condition)) = 1
        /\ bearers # {} => filed.key \in {vocab[e].key : e \in bearers}
    BY <1>8
  <2>3. bearers = {} <=> {vocab[e].key : e \in bearers} = {}
    OBVIOUS
  <2> QED BY <2>2, <2>3
<1> QED BY <1>9 DEF deal

-----------------------------------------------------------------------------
(* The record as the pipeline and its reviewers leave it.                   *)

\* What no step after the extraction changes about a candidate.
Descends ==
  candidate # NoCandidate =>
    LET extracted == ProcessDeal(draft, reading, entries) IN
    /\ draft \in Drafts /\ outcome.outcome = "ok"
    /\ DOMAIN candidate = {"deal", "true_cost_monthly", "human_edited", "status"}
    /\ candidate.status = ToDealRecord(extracted).status
    /\ DOMAIN candidate.deal = DOMAIN extracted.deal
    /\ candidate.deal.confidence = extracted.deal.confidence
    /\ candidate.deal.price \in Prices
    /\ candidate.human_edited = {} => candidate.deal = extracted.deal

Classified == outcome # Unread => outcome = ClassifyPage(reading)

RulesInv == RulesTypeOK /\ Classified /\ Descends /\ CorrectionsAreTraced

LEMMA ClassificationTyped ==
  ASSUME NEW page
  PROVE  ClassifyPage(page) \in [outcome : {"none", "ok", "captcha", "error"}, signal : {"none", "login_wall", "soft_block"}]
BY DEF ClassifyPage, Verdict

LEMMA ReadPageIsContent ==
  ASSUME NEW page \in Readings, ClassifyPage(page).outcome = "ok"
  PROVE  /\ "captcha" \notin page.signs
         /\ ClassifyPage(page).signal = "none" =>
              /\ page.http \notin {401, 403, 429} /\ page.http < 500 /\ "block" \notin page.signs
              /\ page.thin => ~page.password /\ "gone" \notin page.signs
<1>1. page.http \in Nat /\ page.thin \in BOOLEAN /\ page.password \in BOOLEAN
  BY RulesAssumption
<1>2. "captcha" \notin page.signs
  BY DEF ClassifyPage, Verdict
<1>3. page.http # 429 /\ ~(page.http >= 500)
  BY <1>1 DEF ClassifyPage, Verdict
<1>4. page.http \in {401, 403} \/ "block" \in page.signs => ClassifyPage(page).signal \in {"login_wall", "soft_block"}
  BY <1>2, <1>3 DEF ClassifyPage, Verdict
<1>5. page.http \notin {401, 403} /\ "block" \notin page.signs /\ page.thin
        => IF page.password THEN ClassifyPage(page).signal = "login_wall" ELSE "gone" \notin page.signs
  BY <1>1, <1>2, <1>3 DEF ClassifyPage, Verdict
<1> QED BY <1>1, <1>2, <1>3, <1>4, <1>5

\* What the extraction makes of a draft has the types of a candidate.
LEMMA ExtractedTyped ==
  ASSUME NEW raw \in Drafts, NEW page, NEW vocab
  PROVE  LET extracted == ProcessDeal(raw, page, vocab) IN
         /\ DOMAIN extracted.deal = DOMAIN raw
         /\ extracted.deal.price = raw.price /\ extracted.cost = TrueCostMonthly(raw.price)
         /\ raw.price \in Prices /\ extracted.cost \in Nat
         /\ extracted.deal.confidence \in 0..100
         /\ extracted.deal.eligibility = Canonicalised(raw, vocab).eligibility
         /\ extracted.deal.unmapped_conditions = Canonicalised(raw, vocab).unmapped_conditions
         /\ extracted.deal.field_proposals = Canonicalised(raw, vocab).field_proposals
<1> DEFINE deal == Canonicalised(raw, vocab)
           failed == Cardinality(Failures(deal, page))
<1>1. raw \in ExtractedDeals /\ IsFiniteSet(raw.grounding)
  BY RulesAssumption
<1>2. DOMAIN deal = DOMAIN raw /\ deal.price = raw.price /\ deal.grounding = raw.grounding /\ deal.confidence = raw.confidence
  BY <1>1, CanonicalParts
<1> HIDE DEF deal
<1>3. failed \in Nat
  BY <1>1, <1>2, FailuresFinite, FS_CardinalityType
<1>4. Cardinality(KeyGroundedFields \ Grounded(deal)) \in Nat
  <2>1. IsFiniteSet(KeyGroundedFields)
    <3>1. KeyGroundedFields = {"price"} \cup {"eligibility"} \cup {"validity"}
      BY DEF KeyGroundedFields
    <3> QED BY <3>1, FS_Singleton, FS_Union
  <2> QED BY <2>1, FS_Subset, FS_CardinalityType
<1>5. AdjustConfidence(deal, failed) \in 0..100
  <2> HIDE DEF failed
  <2>1. deal.confidence \in 0..100
    BY <1>1, <1>2 DEF ExtractedDeals
  <2>2. PICK g \in Nat : g = Cardinality(KeyGroundedFields \ Grounded(deal))
    BY <1>4
  <2>3. AdjustConfidence(deal, failed) = Clamped(deal.confidence - 20 * failed - 15 * g)
    BY <2>2 DEF AdjustConfidence, FailurePenalty, GroundingPenalty
  <2>4. ASSUME NEW conf \in 0..100, NEW f \in Nat, NEW h \in Nat PROVE Clamped(conf - 20 * f - 15 * h) \in 0..100
    BY DEF Clamped
  <2>5. PICK f \in Nat, conf \in 0..100 : f = failed /\ conf = deal.confidence
    BY <1>3, <2>1
  <2> QED BY <2>2, <2>3, <2>4, <2>5
<1>6. ProcessDeal(raw, page, vocab).deal = [deal EXCEPT !.confidence = AdjustConfidence(deal, failed)]
      /\ ProcessDeal(raw, page, vocab).cost = TrueCostMonthly(deal.price)
  BY DEF ProcessDeal, deal
<1>7. raw.price \in Prices /\ {"price", "confidence", "eligibility", "unmapped_conditions", "field_proposals"} \subseteq DOMAIN raw
  BY <1>1 DEF ExtractedDeals
<1> HIDE DEF failed
<1>8. TrueCostMonthly(raw.price) \in Nat
  BY <1>7, CostIsNat
<1> QED BY <1>2, <1>5, <1>6, <1>7, <1>8 DEF deal

\* What a correction does to a candidate.
LEMMA EditedParts ==
  ASSUME NEW record, DOMAIN record = {"deal", "true_cost_monthly", "human_edited", "status"},
         "price" \in DOMAIN record.deal, NEW patch
  PROVE  LET changed == Changed(record, patch)  edited == Edited(record, patch) IN
         /\ DOMAIN edited = DOMAIN record /\ edited.status = record.status
         /\ DOMAIN edited.deal = DOMAIN record.deal
         /\ \A field \in DOMAIN record.deal : edited.deal[field] = IF field \in changed THEN patch[field] ELSE record.deal[field]
         /\ edited.human_edited = record.human_edited \cup IF "price" \in changed THEN changed \ {"true_cost_monthly"} ELSE changed
         /\ edited.true_cost_monthly = IF "price" \in changed THEN TrueCostMonthly(patch.price)
                                       ELSE IF "true_cost_monthly" \in changed THEN patch.true_cost_monthly ELSE record.true_cost_monthly
<1> DEFINE changed == Changed(record, patch)
           merged == Merged(record, patch)
<1>1. /\ DOMAIN merged = DOMAIN record /\ merged.status = record.status /\ merged.human_edited = record.human_edited
      /\ DOMAIN merged.deal = DOMAIN record.deal
      /\ \A field \in DOMAIN record.deal : merged.deal[field] = IF field \in changed THEN patch[field] ELSE record.deal[field]
      /\ merged.true_cost_monthly = IF "true_cost_monthly" \in changed THEN patch.true_cost_monthly ELSE record.true_cost_monthly
  <2> HIDE DEF changed
  <2> QED BY DEF Merged, changed
<1> HIDE DEF changed, merged
<1>2. CASE "price" \in changed
  <2>1. Edited(record, patch) = [[merged EXCEPT !.true_cost_monthly = TrueCostMonthly(merged.deal.price)]
                                   EXCEPT !.human_edited = @ \cup (changed \ {"true_cost_monthly"})]
    BY <1>2 DEF Edited, ApplyCandidatePatch, changed, merged
  <2>2. merged.deal.price = patch.price
    BY <1>1, <1>2
  <2> QED BY <1>1, <1>2, <2>1, <2>2 DEF changed
<1>3. CASE "price" \notin changed
  <2>1. Edited(record, patch) = [merged EXCEPT !.human_edited = @ \cup changed]
    BY <1>3 DEF Edited, ApplyCandidatePatch, changed, merged
  <2> QED BY <1>1, <1>3, <2>1 DEF changed
<1> QED BY <1>2, <1>3

LEMMA RulesStart ==
  ASSUME RulesInit PROVE RulesInv
<1>1. outcome = Unread /\ candidate = NoCandidate /\ draft = NoDraft /\ reading \in Readings /\ entries \in Vocabularies
  BY DEF RulesInit
<1>2. RulesTypeOK
  BY <1>1 DEF RulesTypeOK, Unread
<1> QED BY <1>1, <1>2 DEF RulesInv, Classified, Descends, CorrectionsAreTraced, CostFollowsPrice, EditsAreNamed

LEMMA ClassifyStep ==
  ASSUME RulesInv, Classify PROVE RulesInv'
<1>1. outcome = Unread /\ outcome' = ClassifyPage(reading) /\ UNCHANGED <<reading, entries, draft, candidate>>
  BY DEF Classify
<1>2. candidate = NoCandidate
  BY <1>1 DEF RulesInv, Descends, Unread
<1>3. RulesTypeOK'
  BY <1>1, ClassificationTyped DEF RulesInv, RulesTypeOK
<1>4. Classified'
  BY <1>1 DEF Classified
<1>5. candidate' = NoCandidate
  BY <1>1, <1>2
<1> QED BY <1>3, <1>4, <1>5 DEF RulesInv, Descends, CorrectionsAreTraced, CostFollowsPrice, EditsAreNamed

LEMMA ExtractStep ==
  ASSUME RulesInv, Extract PROVE RulesInv'
<1>1. outcome.outcome = "ok" /\ UNCHANGED <<reading, outcome, entries>> /\ RulesTypeOK /\ Classified
  BY DEF Extract, RulesInv
<1>2. PICK raw \in Drafts : draft' = raw /\ candidate' = ToDealRecord(ProcessDeal(raw, reading, entries))
  BY DEF Extract
<1>3. PICK extracted : extracted = ProcessDeal(raw, reading, entries)
  OBVIOUS
<1>4. /\ extracted.deal.price = raw.price /\ extracted.cost = TrueCostMonthly(raw.price)
      /\ raw.price \in Prices /\ extracted.cost \in Nat /\ extracted.deal.confidence \in 0..100
  BY <1>3, ExtractedTyped
<1>6. /\ candidate'.deal = extracted.deal /\ candidate'.true_cost_monthly = extracted.cost /\ candidate'.human_edited = {}
      /\ candidate'.status \in {"candidate", "in_review"} /\ candidate' = ToDealRecord(extracted)
      /\ DOMAIN candidate' = {"deal", "true_cost_monthly", "human_edited", "status"}
  BY <1>2, <1>3 DEF ToDealRecord
<1>7. RulesTypeOK'
  BY <1>1, <1>2, <1>4, <1>6 DEF RulesTypeOK
<1>8. Classified'
  BY <1>1 DEF Classified
<1>9. ProcessDeal(draft, reading, entries)' = extracted
  BY <1>1, <1>2, <1>3
<1>10. Descends'
  BY <1>1, <1>2, <1>4, <1>6, <1>9 DEF Descends
<1>11. CostFollowsPrice' /\ EditsAreNamed'
  BY <1>4, <1>6, <1>9 DEF CostFollowsPrice, EditsAreNamed
<1> QED BY <1>7, <1>8, <1>10, <1>11 DEF RulesInv, CorrectionsAreTraced

\* What holds of a candidate that a patch changes.
LEMMA EditedTyped ==
  ASSUME RulesInv, candidate # NoCandidate, NEW patch \in Patches, DOMAIN patch \subseteq Patchable,
         Changed(candidate, patch) # {}, candidate' = Edited(candidate, patch)
  PROVE  LET changed == Changed(candidate, patch) IN
         /\ changed \subseteq Patchable /\ changed \subseteq DOMAIN patch
         /\ "price" \in DOMAIN candidate.deal /\ "confidence" \in DOMAIN candidate.deal /\ "true_cost_monthly" \notin DOMAIN candidate.deal
         /\ DOMAIN candidate' = DOMAIN candidate /\ candidate'.status = candidate.status
         /\ DOMAIN candidate'.deal = DOMAIN candidate.deal
         /\ \A field \in DOMAIN candidate.deal :
              candidate'.deal[field] = IF field \in changed THEN patch[field] ELSE candidate.deal[field]
         /\ candidate'.human_edited = candidate.human_edited \cup IF "price" \in changed THEN changed \ {"true_cost_monthly"} ELSE changed
         /\ candidate'.true_cost_monthly = IF "price" \in changed THEN TrueCostMonthly(patch.price)
                                           ELSE IF "true_cost_monthly" \in changed THEN patch.true_cost_monthly ELSE candidate.true_cost_monthly
<1>1. PICK extracted : extracted = ProcessDeal(draft, reading, entries)
  OBVIOUS
<1>2. draft \in Drafts /\ DOMAIN candidate = {"deal", "true_cost_monthly", "human_edited", "status"} /\ DOMAIN candidate.deal = DOMAIN extracted.deal
  BY <1>1 DEF RulesInv, Descends
<1>3. DOMAIN extracted.deal = DOMAIN draft
  BY <1>1, <1>2, ExtractedTyped
<1>4. "price" \in DOMAIN draft /\ "confidence" \in DOMAIN draft /\ "true_cost_monthly" \notin DOMAIN draft
  BY <1>2, RulesAssumption DEF ExtractedDeals
<1>5. Changed(candidate, patch) \subseteq DOMAIN patch
  BY DEF Changed
<1> QED BY <1>2, <1>3, <1>4, <1>5, EditedParts

LEMMA EditStep ==
  ASSUME RulesInv, EditCandidate PROVE RulesInv'
<1>1. PICK patch \in Patches : DOMAIN patch \subseteq Patchable /\ Changed(candidate, patch) # {} /\ candidate' = Edited(candidate, patch)
  BY DEF EditCandidate
<1>2. candidate # NoCandidate /\ UNCHANGED <<reading, outcome, entries, draft>>
  BY DEF EditCandidate
<1>3. PICK changed, extracted : changed = Changed(candidate, patch) /\ extracted = ProcessDeal(draft, reading, entries)
  OBVIOUS
<1>4. /\ changed \subseteq Patchable /\ changed \subseteq DOMAIN patch
      /\ "price" \in DOMAIN candidate.deal /\ "confidence" \in DOMAIN candidate.deal /\ "true_cost_monthly" \notin DOMAIN candidate.deal
      /\ DOMAIN candidate' = DOMAIN candidate /\ candidate'.status = candidate.status
      /\ DOMAIN candidate'.deal = DOMAIN candidate.deal
      /\ \A field \in DOMAIN candidate.deal :
           candidate'.deal[field] = IF field \in changed THEN patch[field] ELSE candidate.deal[field]
      /\ candidate'.human_edited = candidate.human_edited \cup IF "price" \in changed THEN changed \ {"true_cost_monthly"} ELSE changed
      /\ candidate'.true_cost_monthly = IF "price" \in changed THEN TrueCostMonthly(patch.price)
                                        ELSE IF "true_cost_monthly" \in changed THEN patch.true_cost_monthly ELSE candidate.true_cost_monthly
  BY <1>1, <1>2, <1>3, EditedTyped
<1>5. /\ "price" \in changed => patch.price \in Prices /\ TrueCostMonthly(patch.price) \in Nat
      /\ "true_cost_monthly" \in changed => patch.true_cost_monthly \in Nat
  BY <1>4, RulesAssumption, CostIsNat
<1>6. /\ candidate'.human_edited # {}
      /\ candidate.human_edited \subseteq candidate'.human_edited
      /\ \A field \in changed \ {"true_cost_monthly"} : field \in candidate'.human_edited
      /\ "true_cost_monthly" \in changed /\ "price" \notin changed => "true_cost_monthly" \in candidate'.human_edited
  BY <1>1, <1>3, <1>4
<1>7. /\ candidate'.deal.confidence = candidate.deal.confidence
      /\ candidate'.deal.price = IF "price" \in changed THEN patch.price ELSE candidate.deal.price
  <2>1. "confidence" \notin changed
    BY <1>4 DEF Patchable
  <2> QED BY <1>4, <2>1
<1>8. /\ candidate.status \in {"candidate", "in_review"} /\ candidate.human_edited \subseteq Patchable
      /\ candidate.true_cost_monthly \in Nat /\ candidate.deal.confidence \in 0..100
  BY <1>2 DEF RulesInv, RulesTypeOK
<1>9. candidate' # NoCandidate
  BY <1>4, <1>8 DEF NoCandidate
<1>10. RulesTypeOK'
  <2>1. candidate'.human_edited \subseteq Patchable
    BY <1>4, <1>8
  <2>2. candidate'.true_cost_monthly \in Nat
    BY <1>4, <1>5, <1>8
  <2> QED BY <1>2, <1>4, <1>7, <1>8, <2>1, <2>2 DEF RulesInv, RulesTypeOK
<1>11. ProcessDeal(draft, reading, entries)' = extracted
  BY <1>2, <1>3
<1>12. Descends'
  <2>1. Descends
    BY DEF RulesInv
  <2>2. candidate'.deal.price \in Prices
    BY <1>2, <1>5, <1>7, <2>1 DEF Descends
  <2> QED BY <1>2, <1>3, <1>4, <1>6, <1>7, <1>11, <2>1, <2>2 DEF Descends
<1>13. CostFollowsPrice'
  <2> SUFFICES ASSUME candidate'.true_cost_monthly # TrueCostMonthly(candidate'.deal.price)
               PROVE  "true_cost_monthly" \in candidate'.human_edited
    BY DEF CostFollowsPrice
  <2>1. "price" \notin changed
    BY <1>4, <1>7
  <2>2. CostFollowsPrice
    BY DEF RulesInv, CorrectionsAreTraced
  <2> QED BY <1>2, <1>4, <1>6, <1>7, <2>1, <2>2 DEF CostFollowsPrice
<1>14. EditsAreNamed'
  <2>1. EditsAreNamed
    BY DEF RulesInv, CorrectionsAreTraced
  <2>2. PICK queued : queued = ToDealRecord(extracted)
    OBVIOUS
  <2>3. /\ \A field \in DOMAIN candidate.deal : candidate.deal[field] # queued.deal[field] => field \in candidate.human_edited
        /\ candidate.true_cost_monthly # queued.true_cost_monthly => candidate.human_edited \cap {"price", "true_cost_monthly"} # {}
    BY <1>2, <1>3, <2>1, <2>2 DEF EditsAreNamed
  <2>4. \A field \in DOMAIN candidate'.deal : candidate'.deal[field] # queued.deal[field] => field \in candidate'.human_edited
    BY <1>4, <1>6, <2>3
  <2>5. candidate'.true_cost_monthly # queued.true_cost_monthly => candidate'.human_edited \cap {"price", "true_cost_monthly"} # {}
    <3>1. CASE "price" \in changed
      BY <1>6, <3>1
    <3>2. CASE "price" \notin changed /\ "true_cost_monthly" \in changed
      BY <1>6, <3>2
    <3>3. CASE "price" \notin changed /\ "true_cost_monthly" \notin changed
      BY <1>4, <1>6, <2>3, <3>3
    <3> QED BY <3>1, <3>2, <3>3
  <2>6. ToDealRecord(ProcessDeal(draft, reading, entries))' = queued
    BY <1>2, <1>3, <2>2
  <2> QED BY <2>4, <2>5, <2>6 DEF EditsAreNamed
<1> QED BY <1>2, <1>10, <1>12, <1>13, <1>14 DEF RulesInv, Classified, CorrectionsAreTraced

\* What RulesInv says of a record and its page.
LEMMA RulesMeans ==
  ASSUME RulesInv PROVE CleanIsSound /\ CorrectionsAreTraced /\ ReadingIsFaithful
<1>1. CleanIsSound
  <2> SUFFICES ASSUME candidate.status = "candidate" PROVE Clean(draft, reading, entries)
    BY DEF CleanIsSound
  <2>1. candidate # NoCandidate /\ draft \in Drafts /\ reading \in Readings /\ entries \in Vocabularies
    BY DEF RulesInv, Descends, RulesTypeOK, NoCandidate
  <2>2. ~ProcessDeal(draft, reading, entries).review
    BY <2>1 DEF RulesInv, Descends, ToDealRecord
  <2> QED BY <2>1, <2>2, UnreviewedIsClean
<1>2. UnmarkedIsContent
  <2> SUFFICES ASSUME outcome.outcome = "ok" PROVE UnmarkedIsContent
    BY DEF UnmarkedIsContent
  <2>1. outcome = ClassifyPage(reading) /\ reading \in Readings
    BY DEF RulesInv, Classified, RulesTypeOK, Unread
  <2> QED BY <2>1, ReadPageIsContent DEF UnmarkedIsContent
<1>3. ConditionsFiled
  <2> SUFFICES ASSUME candidate # NoCandidate, candidate.human_edited = {} PROVE Filed(candidate.deal, draft, entries)
    BY DEF ConditionsFiled
  <2>1. draft \in Drafts /\ entries \in Vocabularies /\ candidate.deal = ProcessDeal(draft, reading, entries).deal
    BY DEF RulesInv, Descends, RulesTypeOK
  <2>2. PICK extracted, canonical : extracted = ProcessDeal(draft, reading, entries) /\ canonical = Canonicalised(draft, entries)
    OBVIOUS
  <2>3. /\ extracted.deal.eligibility = canonical.eligibility
        /\ extracted.deal.unmapped_conditions = canonical.unmapped_conditions
        /\ extracted.deal.field_proposals = canonical.field_proposals
    BY <2>1, <2>2, ExtractedTyped
  <2>4. Filed(canonical, draft, entries)
    BY <2>1, <2>2, CanonicalisedIsFiled
  <2> QED BY <2>1, <2>2, <2>3, <2>4 DEF Filed
<1> QED BY <1>1, <1>2, <1>3 DEF RulesInv, ReadingIsFaithful

\* What is queued came from a page read as content and is what the rules make of the
\* draft, but for the fields a reviewer's patches changed (extract.ts:200-260,
\* review.ts:271-285): kept by every step, for any pages, drafts and patches.
THEOREM RulesInvariant == RulesSpec => []RulesInv
<1>1. RulesInv /\ [RulesNext]_ruleVars => RulesInv'
  <2> SUFFICES ASSUME RulesInv, [RulesNext]_ruleVars PROVE RulesInv'
    OBVIOUS
  <2>1. CASE UNCHANGED ruleVars
    BY <2>1 DEF ruleVars, RulesInv, RulesTypeOK, Classified, Descends, CorrectionsAreTraced, CostFollowsPrice, EditsAreNamed
  <2> QED BY <2>1, ClassifyStep, ExtractStep, EditStep DEF RulesNext
<1> QED BY <1>1, RulesStart, PTL DEF RulesSpec

\* A candidate queued without the must-review mark costs a month what its price
\* says, to half a cent and within the band, and its quotes stand on the page it was
\* read from (validate-record.ts:40-186), whatever the model extracted.
THEOREM CleanHolds == RulesSpec => []CleanIsSound
BY RulesInvariant, RulesMeans, PTL

\* However many patches reviewers send, and in whatever order: the cost that ranks a
\* deal follows its price, or its override is named among the corrections, and so is
\* every other field that differs from the extraction (review.ts:271-285).
THEOREM CorrectionsHold == RulesSpec => []CorrectionsAreTraced
BY RulesInvariant, RulesMeans, PTL

\* No sign of a challenge, a wall or a withdrawn offer is passed over
\* (page-classifier.ts), and a queued candidate files each condition once: under the
\* key the vocabulary knows for it, or with one proposal, for vocabularies and lists
\* of any length (extract.ts).
THEOREM ReadingHolds == RulesSpec => []ReadingIsFaithful
BY RulesInvariant, RulesMeans, PTL

-----------------------------------------------------------------------------
(* JsonRecovery: recursive functions.                                       *)

\* What a recursive function of the positions up to n computes.
IsRun(base, step, n, walk) == walk[0] = base /\ \A i \in 1..n : walk[i] = step[i][walk[i - 1]]

LEMMA RunExists ==
  ASSUME NEW V, NEW base \in V, NEW n \in Nat, NEW step \in [1..n -> [V -> V]]
  PROVE  \E walk \in [0..n -> V] : IsRun(base, step, n, walk)
<1> DEFINE Upto(m, walk) == walk[0] = base /\ \A i \in 1..m : walk[i] = step[i][walk[i - 1]]
           S == {m \in Nat : m <= n => \E walk \in [0..m -> V] : Upto(m, walk)}
<1>1. S \in SUBSET Nat /\ 0 \in S
  <2>1. [i \in 0..0 |-> base] \in [0..0 -> V] /\ Upto(0, [i \in 0..0 |-> base])
    OBVIOUS
  <2> QED BY <2>1
<1>2. ASSUME NEW m \in S PROVE m + 1 \in S
  <2>0. m \in Nat /\ m + 1 \in Nat
    <3> HIDE DEF S
    <3> QED BY <1>1
  <2>1. CASE m + 1 <= n
    <3>1. PICK walk \in [0..m -> V] : Upto(m, walk)
      BY <2>0, <2>1
    <3>2. m + 1 \in 1..n /\ m \in 0..m
      BY <2>0, <2>1
    <3> DEFINE next == [i \in 0..(m + 1) |-> IF i = m + 1 THEN step[m + 1][walk[m]] ELSE walk[i]]
    <3>3. step[m + 1][walk[m]] \in V
      BY <3>2
    <3>4. next \in [0..(m + 1) -> V]
      BY <2>0, <3>3
    <3>5. Upto(m + 1, next)
      <4>1. next[0] = base
        BY <2>0, <3>1
      <4>2. ASSUME NEW i \in 1..(m + 1) PROVE next[i] = step[i][next[i - 1]]
        <5>1. CASE i = m + 1
          BY <2>0, <5>1
        <5>2. CASE i # m + 1
          <6>1. i \in 1..m /\ i \in 0..(m + 1) /\ i - 1 \in 0..(m + 1) /\ i - 1 # m + 1
            BY <2>0, <5>2
          <6> QED BY <3>1, <5>2, <6>1
        <5> QED BY <5>1, <5>2
      <4> HIDE DEF next
      <4> QED BY <4>1, <4>2
    <3> HIDE DEF next, Upto
    <3> QED BY <2>0, <3>4, <3>5
  <2>2. CASE ~(m + 1 <= n)
    BY <2>0, <2>2
  <2> QED BY <2>1, <2>2
<1>3. S = Nat
  <2> HIDE DEF S
  <2> QED BY <1>1, <1>2, Induct
<1>4. PICK walk \in [0..n -> V] : Upto(n, walk)
  BY <1>3
<1> QED BY <1>4 DEF IsRun

-----------------------------------------------------------------------------
(* The strict reader.                                                       *)

Readers == [at: {"start", "field", "string", "escape", "after", "last", "end", "refused"}, value: Seq(Characters)]
Fresh == [at |-> "start", value |-> <<>>]

LEMMA ReadStepTyped ==
  ASSUME NEW s \in Readers, NEW c \in Characters
  PROVE  ReadStep(s, c) \in Readers
<1>1. s.value \in Seq(Characters) /\ s.at \in {"start", "field", "string", "escape", "after", "last", "end", "refused"}
  BY DEF Readers
<1>2. Append(s.value, c) \in Seq(Characters) /\ Append(s.value, "newline") \in Seq(Characters)
  BY <1>1 DEF Characters
<1> QED BY <1>1, <1>2 DEF ReadStep, Readers

\* What the reader knows after each character.
Reads(text, walk) == walk[0] = Fresh /\ \A i \in 1..Len(text) : walk[i] = ReadStep(walk[i - 1], text[i])

LEMMA ReadRuns ==
  ASSUME NEW text \in Seq(Characters)
  PROVE  \E walk \in [0..Len(text) -> Readers] : Reads(text, walk) /\ Read(text) = walk[Len(text)]
<1> DEFINE n == Len(text)
           step == [i \in 1..n |-> [s \in Readers |-> ReadStep(s, text[i])]]
           Iter(c) == c = [i \in 0..n |-> IF i = 0 THEN Fresh ELSE ReadStep(c[i - 1], text[i])]
           c == CHOOSE c : Iter(c)
<1>1. n \in Nat /\ \A i \in 1..n : text[i] \in Characters
  OBVIOUS
<1>2. step \in [1..n -> [Readers -> Readers]]
  BY <1>1, ReadStepTyped
<1>3. Fresh \in Readers
  BY DEF Fresh, Readers
<1>4. PICK walk \in [0..n -> Readers] : IsRun(Fresh, step, n, walk)
  <2> HIDE DEF step, n
  <2> QED BY <1>1, <1>2, <1>3, RunExists
<1> HIDE DEF n
<1>5. \A i \in 1..n : i \in 0..n /\ i - 1 \in 0..n /\ walk[i - 1] \in Readers /\ step[i][walk[i - 1]] = ReadStep(walk[i - 1], text[i])
  BY <1>1
<1> HIDE DEF step
<1>6. Iter(walk)
  <2>1. \A i \in 0..n : walk[i] = IF i = 0 THEN Fresh ELSE ReadStep(walk[i - 1], text[i])
    BY <1>1, <1>4, <1>5 DEF IsRun
  <2> QED BY <2>1
<1>7. Iter(c)
  BY <1>6
<1>8. Read(text) = c[n]
  BY DEF Read, Fresh, n
<1> HIDE DEF c
<1>9. /\ \A i \in 1..n : c[i] = ReadStep(c[i - 1], text[i])
      /\ \A i \in 1..n : walk[i] = ReadStep(walk[i - 1], text[i])
  BY <1>1, <1>6, <1>7
<1>10. c[0] = Fresh /\ walk[0] = Fresh
  BY <1>1, <1>6, <1>7
<1> DEFINE S == {m \in Nat : m <= n => c[m] = walk[m]}
<1>11. S \in SUBSET Nat /\ 0 \in S
  BY <1>10
<1>12. ASSUME NEW m \in S PROVE m + 1 \in S
  <2>1. CASE m + 1 <= n
    <3>1. m + 1 \in 1..n /\ (m + 1) - 1 = m /\ c[m] = walk[m]
      BY <1>1, <2>1
    <3> QED BY <1>9, <3>1
  <2>2. CASE ~(m + 1 <= n)
    BY <2>2
  <2> QED BY <2>1, <2>2
<1>13. S = Nat
  <2> HIDE DEF S
  <2> QED BY <1>11, <1>12, Induct
<1>14. c[n] = walk[n]
  BY <1>1, <1>13
<1> QED BY <1>8, <1>9, <1>10, <1>14 DEF Reads, n

LEMMA ReadNothing == Read(<<>>) = Fresh
<1>1. PICK walk \in [0..Len(<<>>) -> Readers] : Reads(<<>>, walk) /\ Read(<<>>) = walk[Len(<<>>)]
  <2>1. <<>> \in Seq(Characters)
    OBVIOUS
  <2> QED BY <2>1, ReadRuns
<1> QED BY <1>1 DEF Reads

\* The reader takes the characters one by one.
LEMMA ReadMore ==
  ASSUME NEW text \in Seq(Characters), NEW c \in Characters
  PROVE  Read(text) \in Readers /\ Read(Append(text, c)) = ReadStep(Read(text), c)
<1> DEFINE n == Len(text)
           longer == Append(text, c)
<1>1. n \in Nat /\ longer \in Seq(Characters) /\ Len(longer) = n + 1 /\ longer[n + 1] = c /\ \A i \in 1..n : longer[i] = text[i]
  OBVIOUS
<1> HIDE DEF longer
<1>2. PICK walk \in [0..n -> Readers] : Reads(text, walk) /\ Read(text) = walk[n]
  BY ReadRuns
<1>3. PICK next \in [0..(n + 1) -> Readers] : Reads(longer, next) /\ Read(longer) = next[n + 1]
  BY <1>1, ReadRuns
<1> HIDE DEF n
<1> DEFINE S == {m \in Nat : m <= n => walk[m] = next[m]}
<1>4. S \in SUBSET Nat /\ 0 \in S
  BY <1>2, <1>3 DEF Reads
<1>5. ASSUME NEW m \in S PROVE m + 1 \in S
  <2>1. CASE m + 1 <= n
    <3>0. m \in Nat /\ (m <= n => walk[m] = next[m])
      OBVIOUS
    <3>1. m + 1 \in 1..n /\ m + 1 \in 1..(n + 1) /\ (m + 1) - 1 = m /\ walk[m] = next[m]
      <4> HIDE DEF S
      <4>1. m <= n /\ m + 1 \in 1..n /\ m + 1 \in 1..(n + 1) /\ (m + 1) - 1 = m
        BY <1>1, <2>1, <3>0
      <4> QED BY <3>0, <4>1
    <3>2. walk[m + 1] = ReadStep(walk[m], text[m + 1]) /\ next[m + 1] = ReadStep(next[m], longer[m + 1])
      BY <1>1, <1>2, <1>3, <3>1 DEF Reads, n
    <3> QED BY <1>1, <3>1, <3>2
  <2>2. CASE ~(m + 1 <= n)
    BY <2>2
  <2> QED BY <2>1, <2>2
<1>6. S = Nat
  <2> HIDE DEF S
  <2> QED BY <1>4, <1>5, Induct
<1>7. walk[n] = next[n] /\ n + 1 \in 1..(n + 1) /\ (n + 1) - 1 = n /\ n \in 0..n
  BY <1>1, <1>6
<1>8. next[n + 1] = ReadStep(next[n], c)
  BY <1>1, <1>3, <1>7 DEF Reads
<1> QED BY <1>2, <1>3, <1>7, <1>8 DEF longer

-----------------------------------------------------------------------------
(* The search for the object.                                               *)

Scans == [depth: Int, quoted: BOOLEAN, escaped: BOOLEAN, end: Nat]
Outside == [depth |-> 0, quoted |-> FALSE, escaped |-> FALSE, end |-> 0]
ScansRun(text, walk) == walk[0] = Outside /\ \A i \in 1..Len(text) : walk[i] = ScanStep(walk[i - 1], text[i], i)

LEMMA ScanStepTyped ==
  ASSUME NEW s \in Scans, NEW c, NEW i \in Nat
  PROVE  ScanStep(s, c, i) \in Scans
<1>1. CASE s.end > 0
  BY <1>1 DEF ScanStep
<1>2. CASE ~(s.end > 0) /\ s.quoted
  <2>1. PICK escaped, quoted : escaped = (~s.escaped /\ c = "slash") /\ quoted = (s.escaped \/ c # "quote")
    OBVIOUS
  <2>2. escaped \in BOOLEAN /\ quoted \in BOOLEAN
    BY <2>1
  <2>3. ScanStep(s, c, i) = [s EXCEPT !.escaped = escaped, !.quoted = quoted]
    BY <1>2, <2>1 DEF ScanStep
  <2> QED BY <2>2, <2>3 DEF Scans
<1>3. CASE ~(s.end > 0) /\ ~s.quoted
  <2>1. s.depth \in Int /\ s.depth + 1 \in Int /\ s.depth - 1 \in Int /\ (IF s.depth = 1 THEN i ELSE 0) \in Nat
    BY DEF Scans
  <2>2. \/ ScanStep(s, c, i) = [s EXCEPT !.quoted = TRUE]
        \/ ScanStep(s, c, i) = [s EXCEPT !.depth = s.depth + 1]
        \/ ScanStep(s, c, i) = [s EXCEPT !.depth = s.depth - 1, !.end = IF s.depth = 1 THEN i ELSE 0]
        \/ ScanStep(s, c, i) = s
    BY <1>3 DEF ScanStep
  <2> QED BY <2>1, <2>2 DEF Scans
<1> QED BY <1>1, <1>2, <1>3

LEMMA ScanRuns ==
  ASSUME NEW text \in Seq(Characters)
  PROVE  \E walk \in [0..Len(text) -> Scans] : ScansRun(text, walk) /\ Scanned(text) = walk[Len(text)].end
<1> DEFINE n == Len(text)
           step == [i \in 1..n |-> [s \in Scans |-> ScanStep(s, text[i], i)]]
           Iter(c) == c = [i \in 0..n |-> IF i = 0 THEN Outside ELSE ScanStep(c[i - 1], text[i], i)]
           c == CHOOSE c : Iter(c)
<1>1. n \in Nat /\ \A i \in 1..n : text[i] \in Characters
  OBVIOUS
<1>2. step \in [1..n -> [Scans -> Scans]]
  BY <1>1, ScanStepTyped
<1>3. Outside \in Scans
  BY DEF Outside, Scans
<1>4. PICK walk \in [0..n -> Scans] : IsRun(Outside, step, n, walk)
  <2> HIDE DEF step, n
  <2> QED BY <1>1, <1>2, <1>3, RunExists
<1> HIDE DEF n
<1>5. \A i \in 1..n : i \in 0..n /\ i - 1 \in 0..n /\ walk[i - 1] \in Scans /\ step[i][walk[i - 1]] = ScanStep(walk[i - 1], text[i], i)
  BY <1>1
<1> HIDE DEF step
<1>6. Iter(walk)
  <2>1. \A i \in 0..n : walk[i] = IF i = 0 THEN Outside ELSE ScanStep(walk[i - 1], text[i], i)
    BY <1>1, <1>4, <1>5 DEF IsRun
  <2> QED BY <2>1
<1>7. Iter(c)
  BY <1>6
<1>8. Scanned(text) = c[n].end
  BY DEF Scanned, Outside, n
<1> HIDE DEF c
<1>9. /\ \A i \in 1..n : c[i] = ScanStep(c[i - 1], text[i], i)
      /\ \A i \in 1..n : walk[i] = ScanStep(walk[i - 1], text[i], i)
  BY <1>1, <1>6, <1>7
<1>10. c[0] = Outside /\ walk[0] = Outside
  BY <1>1, <1>6, <1>7
<1> DEFINE S == {m \in Nat : m <= n => c[m] = walk[m]}
<1>11. S \in SUBSET Nat /\ 0 \in S
  BY <1>10
<1>12. ASSUME NEW m \in S PROVE m + 1 \in S
  <2>1. CASE m + 1 <= n
    <3>1. m + 1 \in 1..n /\ (m + 1) - 1 = m /\ c[m] = walk[m]
      BY <1>1, <2>1
    <3> QED BY <1>9, <3>1
  <2>2. CASE ~(m + 1 <= n)
    BY <2>2
  <2> QED BY <2>1, <2>2
<1>13. S = Nat
  <2> HIDE DEF S
  <2> QED BY <1>11, <1>12, Induct
<1>14. c[n] = walk[n]
  BY <1>1, <1>13
<1> QED BY <1>8, <1>9, <1>10, <1>14 DEF ScansRun, n

\* What is found ends at a closing brace.
LEMMA FoundIsClosed ==
  ASSUME NEW text \in Seq(Characters)
  PROVE  Scanned(text) = 0 \/ (Scanned(text) \in 1..Len(text) /\ text[Scanned(text)] = "close")
<1> DEFINE n == Len(text)
<1>1. PICK walk \in [0..n -> Scans] : ScansRun(text, walk) /\ Scanned(text) = walk[n].end
  BY ScanRuns
<1>2. n \in Nat
  OBVIOUS
<1> DEFINE Closed(m) == walk[m].end = 0 \/ (walk[m].end \in 1..m /\ text[walk[m].end] = "close")
           S == {m \in Nat : m <= n => Closed(m)}
<1>3. S \in SUBSET Nat /\ 0 \in S
  BY <1>1 DEF ScansRun, Outside
<1>4. ASSUME NEW m \in S PROVE m + 1 \in S
  <2>1. CASE m + 1 <= n
    <3>1. m + 1 \in 1..n /\ (m + 1) - 1 = m /\ m \in 0..n /\ Closed(m)
      BY <2>1
    <3>2. PICK s \in Scans, c \in Characters : s = walk[m] /\ c = text[m + 1] /\ walk[m + 1] = ScanStep(s, c, m + 1)
      BY <1>1, <3>1 DEF ScansRun
    <3>3. walk[m + 1].end = s.end \/ (walk[m + 1].end = m + 1 /\ c = "close") \/ walk[m + 1].end = 0
      BY <3>1, <3>2 DEF ScanStep, Scans
    <3> QED BY <3>1, <3>2, <3>3
  <2>2. CASE ~(m + 1 <= n)
    BY <2>2
  <2> QED BY <2>1, <2>2
<1>5. S = Nat
  <2> HIDE DEF S
  <2> QED BY <1>3, <1>4, Induct
<1> QED BY <1>1, <1>2, <1>5

-----------------------------------------------------------------------------
(* What the model wrote.                                                    *)

Plain == Characters \ {"fence"}

\* The k-th character of a text stands for itself, or for an escape.
Unit(text, sent, pos, k) ==
  \/ /\ pos[k] = pos[k - 1] + 1 /\ text[k] # "slash" /\ sent[pos[k]] = text[k]
  \/ /\ pos[k] = pos[k - 1] + 2 /\ sent[pos[k] - 1] = "slash"
     /\ <<text[k], sent[pos[k]]>> \in {<<"quote", "quote">>, <<"newline", "esc">>, <<"slash", "slash">>, <<"char", "char">>}

\* Where each character of the text ends in what was sent.
Spelled(text, sent, pos) ==
  /\ pos[0] = 0 /\ pos[Len(text)] = Len(sent)
  /\ \A k \in 1..Len(text) : Unit(text, sent, pos, k) /\ pos[k] \in 1..Len(sent) /\ pos[k - 1] < pos[k]

\* A spelling is a character or an escape.
LEMMA SpellingForms ==
  ASSUME NEW c \in Plain, NEW s \in Spellings(c)
  PROVE  /\ s \in Seq(Plain)
         /\ \/ c # "slash" /\ s = <<c>>
            \/ \E x \in Plain : s = <<"slash", x>> /\ <<c, x>> \in {<<"quote", "quote">>, <<"newline", "esc">>, <<"slash", "slash">>, <<"char", "char">>}
<1>1. \/ c # "slash" /\ s = <<c>>
      \/ \E x \in {"quote", "esc", "slash", "char"} : s = <<"slash", x>> /\ <<c, x>> \in {<<"quote", "quote">>, <<"newline", "esc">>, <<"slash", "slash">>, <<"char", "char">>}
  BY DEF Spellings
<1>2. {"quote", "esc", "slash", "char"} \subseteq Plain
  BY DEF Plain, Characters
<1>3. "slash" \in Plain
  BY <1>2
<1>4. \A x \in Plain : <<x>> \in Seq(Plain) /\ <<"slash", x>> \in Seq(Plain)
  BY <1>3
<1> QED BY <1>1, <1>2, <1>4

\* Where the characters of a joined sequence come from.
Joins(w, u, s) ==
  /\ Len(w) = Len(u) + Len(s)
  /\ \A i \in 1..Len(u) : w[i] = u[i]
  /\ \A i \in 1..Len(s) : w[Len(u) + i] = s[i]

LEMMA Joined ==
  ASSUME NEW V, NEW u \in Seq(V), NEW s \in Seq(V)
  PROVE  \E w \in Seq(V) : w = u \o s /\ Joins(w, u, s)
<1>0. Len(u) \in Nat /\ Len(s) \in Nat
  BY LenProperties
<1>1. PICK v, m, n : v = u \o s /\ m = Len(u) /\ n = Len(s) /\ m \in Nat /\ n \in Nat
  BY <1>0
<1>2. v \in Seq(V) /\ Len(v) = m + n /\ \A i \in 1..(m + n) : v[i] = IF i <= m THEN u[i] ELSE s[i - m]
  <2>1. \A i \in 1..(Len(u) + Len(s)) : (u \o s)[i] = IF i <= Len(u) THEN u[i] ELSE s[i - Len(u)]
    BY ConcatProperties
  <2>2. u \o s \in Seq(V) /\ Len(u \o s) = Len(u) + Len(s)
    BY ConcatProperties
  <2> QED BY <1>1, <2>1, <2>2
<1>3. \A i \in 1..n : m + i \in 1..(m + n) /\ ~(m + i <= m) /\ (m + i) - m = i
  BY <1>1
<1>4. \A i \in 1..n : v[m + i] = s[i]
  <2> TAKE i \in 1..n
  <2>1. PICK j \in 1..(m + n) : j = m + i /\ ~(j <= m) /\ j - m = i
    BY <1>3
  <2> QED BY <1>2, <2>1
<1>5. \A i \in 1..m : v[i] = u[i]
  <2> TAKE i \in 1..m
  <2>1. i \in 1..(m + n) /\ i <= m
    BY <1>1
  <2> QED BY <1>2, <2>1
<1> QED BY <1>1, <1>2, <1>4, <1>5 DEF Joins

LEMMA JoinedRuns ==
  ASSUME NEW n \in Nat, NEW f \in [1..n -> Seq(Plain)]
  PROVE  \E walk \in [0..n -> Seq(Plain)] :
           walk[0] = <<>> /\ walk[n] = FlattenSeq(f) /\ \A i \in 1..n : walk[i] = walk[i - 1] \o f[i]
<1> DEFINE V == Seq(Plain)
           step == [i \in 1..n |-> [v \in V |-> v \o f[i]]]
           Iter(c) == c = [i \in 1..n |-> IF i = 1 THEN f[i] ELSE c[i - 1] \o f[i]]
           c == CHOOSE c : Iter(c)
<1>1. f \in Seq(V) /\ Len(f) = n /\ \A i \in 1..n : f[i] \in V
  OBVIOUS
<1>2. step \in [1..n -> [V -> V]]
  <2>1. \A i \in 1..n, v \in V : v \o f[i] \in V
    BY <1>1
  <2> QED BY <2>1
<1>3. <<>> \in V
  OBVIOUS
<1>4. PICK walk \in [0..n -> V] : IsRun(<<>>, step, n, walk)
  <2> HIDE DEF step, V
  <2> QED BY <1>2, <1>3, RunExists
<1>5. ASSUME NEW i \in 1..n PROVE i \in 0..n /\ i - 1 \in 0..n /\ walk[i - 1] \in V /\ walk[i] = walk[i - 1] \o f[i]
  <2>1. i \in 0..n /\ i - 1 \in 0..n /\ walk[i - 1] \in V
    OBVIOUS
  <2>2. walk[i] = step[i][walk[i - 1]]
    <3> HIDE DEF step
    <3> QED BY <1>4 DEF IsRun
  <2>3. step[i][walk[i - 1]] = walk[i - 1] \o f[i]
    BY <2>1
  <2> HIDE DEF step
  <2> QED BY <2>1, <2>2, <2>3
<1>6. walk[0] = <<>>
  BY <1>4 DEF IsRun
<1> HIDE DEF step
<1>7. CASE n = 0
  <2>1. f = <<>>
    BY <1>1, <1>7
  <2>2. FlattenSeq(f) = f
    BY <1>1, <1>7 DEF FlattenSeq
  <2> QED BY <1>5, <1>6, <1>7, <2>1, <2>2
<1>8. CASE n # 0
  <2>1. 1 \in 1..n /\ n \in 1..n
    BY <1>8
  <2>2. walk[1] = f[1]
    <3>1. walk[1] = walk[0] \o f[1] /\ f[1] \in V
      BY <1>1, <1>5, <2>1
    <3> QED BY <1>6, <3>1
  <2>3. Iter([i \in 1..n |-> walk[i]])
    <3> DEFINE r == [i \in 1..n |-> walk[i]]
    <3>1. \A i \in 1..n : r[i] = IF i = 1 THEN f[i] ELSE r[i - 1] \o f[i]
      <4> TAKE i \in 1..n
      <4>1. CASE i = 1
        BY <2>2, <4>1
      <4>2. CASE i # 1
        <5>1. i - 1 \in 1..n
          BY <4>2
        <5> QED BY <1>5, <4>2, <5>1
      <4> QED BY <4>1, <4>2
    <3>2. r = [i \in 1..n |-> IF i = 1 THEN f[i] ELSE r[i - 1] \o f[i]]
      BY <3>1
    <3> QED BY <3>2
  <2>4. Iter(c)
    BY <2>3
  <2>5. FlattenSeq(f) = c[n]
    BY <1>1, <1>8 DEF FlattenSeq
  <2> HIDE DEF c
  <2>6. \A i \in 1..n : c[i] = IF i = 1 THEN f[i] ELSE c[i - 1] \o f[i]
    BY <2>4
  <2> DEFINE S == {m \in Nat : m + 1 <= n => c[m + 1] = walk[m + 1]}
  <2>7. S \in SUBSET Nat /\ 0 \in S
    BY <2>1, <2>2, <2>6
  <2>8. ASSUME NEW m \in S PROVE m + 1 \in S
    <3>1. CASE m + 2 <= n
      <4>1. PICK j \in 1..n : j = m + 2 /\ j - 1 = m + 1 /\ c[m + 1] = walk[m + 1] /\ j # 1
        BY <3>1
      <4>2. c[j] = c[j - 1] \o f[j] /\ walk[j] = walk[j - 1] \o f[j]
        BY <1>5, <2>6, <4>1
      <4>3. c[m + 2] = walk[m + 2]
        BY <4>1, <4>2
      <4> QED BY <4>1, <4>3
    <3>2. CASE ~(m + 2 <= n)
      BY <3>2
    <3> QED BY <3>1, <3>2
  <2>9. S = Nat
    <3> HIDE DEF S
    <3> QED BY <2>7, <2>8, Induct
  <2>10. n - 1 \in Nat /\ (n - 1) + 1 = n
    BY <1>8
  <2>11. c[n] = walk[n]
    <3>1. n - 1 \in S
      <4> HIDE DEF S
      <4> QED BY <2>9, <2>10
    <3> QED BY <2>10, <3>1
  <2> QED BY <1>5, <1>6, <2>5, <2>11
<1> QED BY <1>7, <1>8

LEMMA WrittenSpelled ==
  ASSUME NEW text \in Seq(Plain), NEW sent \in Written(text)
  PROVE  sent \in Seq(Plain) /\ \E pos \in [0..Len(text) -> Nat] : Spelled(text, sent, pos)
<1> DEFINE n == Len(text)
<1>1. PICK f \in [1..n -> UNION {Spellings(text[i]) : i \in 1..n}] :
        (\A i \in 1..n : f[i] \in Spellings(text[i])) /\ sent = FlattenSeq(f)
  BY DEF Written
<1>2. n \in Nat /\ \A i \in 1..n : text[i] \in Plain
  OBVIOUS
<1>3. \A i \in 1..n : /\ f[i] \in Seq(Plain)
                      /\ \/ text[i] # "slash" /\ f[i] = <<text[i]>>
                         \/ \E x \in Plain : f[i] = <<"slash", x>> /\ <<text[i], x>> \in {<<"quote", "quote">>, <<"newline", "esc">>, <<"slash", "slash">>, <<"char", "char">>}
  BY <1>1, <1>2, SpellingForms
<1>4. f \in [1..n -> Seq(Plain)]
  BY <1>1, <1>3
<1> HIDE DEF n
<1>5. PICK walk \in [0..n -> Seq(Plain)] : walk[0] = <<>> /\ walk[n] = FlattenSeq(f) /\ \A i \in 1..n : walk[i] = walk[i - 1] \o f[i]
  BY <1>2, <1>4, JoinedRuns
<1> DEFINE pos == [i \in 0..n |-> Len(walk[i])]
<1>6. pos \in [0..n -> Nat] /\ pos[0] = 0 /\ pos[n] = Len(sent)
  BY <1>1, <1>2, <1>5
<1> DEFINE Good(m) == \A k \in 1..m : Unit(text, walk[m], pos, k) /\ pos[k] \in 1..pos[m] /\ pos[k - 1] < pos[k]
           S == {m \in Nat : m <= n => Good(m)}
<1>7. S \in SUBSET Nat /\ 0 \in S
  OBVIOUS
<1>8. ASSUME NEW m \in S PROVE m + 1 \in S
  <2>0. m \in Nat
    <3> HIDE DEF S
    <3> QED BY <1>7
  <2>1. CASE m + 1 <= n
    <3>0. m + 1 \in 1..n /\ (m + 1) - 1 = m /\ m \in 0..n /\ m + 1 \in 0..n
      BY <1>2, <2>0, <2>1
    <3>00. Good(m)
      <4>1. m <= n
        BY <1>2, <2>0, <2>1
      <4> HIDE DEF Good
      <4> QED BY <4>1
    <3>1. m + 1 \in 1..n /\ (m + 1) - 1 = m /\ m \in 0..n /\ m + 1 \in 0..n /\ Good(m)
      BY <3>0, <3>00
    <3>2. PICK u, v, s : u = walk[m] /\ v = walk[m + 1] /\ s = f[m + 1] /\ u \in Seq(Plain) /\ s \in Seq(Plain) /\ v = u \o s
      BY <1>3, <1>5, <3>1
    <3>3. Len(v) = Len(u) + Len(s) /\ (\A i \in 1..Len(u) : v[i] = u[i]) /\ \A i \in 1..Len(s) : v[Len(u) + i] = s[i]
      <4> HIDE DEF S, Good, pos, n
      <4>1. \E w \in Seq(Plain) : w = u \o s /\ Joins(w, u, s)
        BY <3>2, Joined
      <4> QED BY <3>2, <4>1 DEF Joins
    <3>4. pos[m] = Len(u) /\ pos[m + 1] = Len(v) /\ Len(u) \in Nat
      <4>1. Len(u) \in Nat
        BY <3>2
      <4> QED BY <3>0, <3>2, <4>1
    <3>5. Unit(text, v, pos, m + 1) /\ Len(v) > Len(u)
      <4>1. CASE text[m + 1] # "slash" /\ s = <<text[m + 1]>>
        <5>1. Len(s) = 1 /\ s[1] = text[m + 1]
          BY <4>1
        <5> HIDE DEF pos
        <5> QED BY <3>1, <3>3, <3>4, <4>1, <5>1 DEF Unit
      <4>2. ASSUME NEW x \in Plain, s = <<"slash", x>>, <<text[m + 1], x>> \in {<<"quote", "quote">>, <<"newline", "esc">>, <<"slash", "slash">>, <<"char", "char">>}
            PROVE  Unit(text, v, pos, m + 1) /\ Len(v) > Len(u)
        <5>1. Len(s) = 2 /\ s[1] = "slash" /\ s[2] = x
          BY <4>2
        <5>2. Len(v) = Len(u) + 2 /\ v[Len(u) + 1] = "slash" /\ v[Len(u) + 2] = x
          BY <3>3, <5>1
        <5> HIDE DEF pos
        <5> QED BY <3>1, <3>4, <4>2, <5>2 DEF Unit
      <4> QED BY <1>3, <3>1, <3>2, <4>1, <4>2
    <3>6. ASSUME NEW k \in 1..(m + 1) PROVE Unit(text, v, pos, k) /\ pos[k] \in 1..pos[m + 1] /\ pos[k - 1] < pos[k]
      <4>1. CASE k = m + 1
        BY <3>1, <3>4, <3>5, <4>1
      <4>2. CASE k # m + 1
        <5>1. k \in 1..m
          BY <3>1, <4>2
        <5>2. Unit(text, u, pos, k) /\ pos[k] \in 1..Len(u) /\ pos[k - 1] < pos[k]
          BY <3>1, <3>2, <3>4, <5>1
        <5>3. pos[k - 1] \in Nat
          BY <1>6, <3>1, <5>1
        <5>4. v[pos[k]] = u[pos[k]] /\ (pos[k] - 1 > 0 => v[pos[k] - 1] = u[pos[k] - 1])
          <6>1. PICK p : p = pos[k] /\ p \in 1..Len(u) /\ (p - 1 > 0 => p - 1 \in 1..Len(u))
            <7> HIDE DEF pos
            <7> QED BY <3>4, <5>2
          <6> HIDE DEF pos
          <6> QED BY <3>3, <6>1
        <5>5. Unit(text, v, pos, k)
          <6> HIDE DEF pos
          <6> QED BY <5>2, <5>3, <5>4 DEF Unit
        <5> HIDE DEF pos
        <5> QED BY <3>4, <3>5, <5>2, <5>5
      <4> QED BY <4>1, <4>2
    <3>7. Good(m + 1)
      BY <3>2, <3>6
    <3> HIDE DEF Good
    <3> QED BY <3>1, <3>7
  <2>2. CASE ~(m + 1 <= n)
    BY <2>2
  <2> QED BY <2>1, <2>2
<1>9. S = Nat
  <2> HIDE DEF S
  <2> QED BY <1>7, <1>8, Induct
<1>10. Good(n)
  <2>1. n \in S
    <3> HIDE DEF S
    <3> QED BY <1>2, <1>9
  <2> HIDE DEF Good
  <2> QED BY <1>2, <2>1
<1>11. Spelled(text, sent, pos) /\ sent \in Seq(Plain)
  <2>1. sent = walk[n] /\ n \in 0..n
    BY <1>1, <1>2, <1>5
  <2>2. \A k \in 1..n : Unit(text, sent, pos, k) /\ pos[k] \in 1..Len(sent) /\ pos[k - 1] < pos[k]
    <3> HIDE DEF pos
    <3> QED BY <1>6, <1>10, <2>1
  <2> HIDE DEF pos
  <2> QED BY <1>5, <1>6, <2>1, <2>2 DEF Spelled, n
<1> HIDE DEF pos
<1> QED BY <1>6, <1>11 DEF n

-----------------------------------------------------------------------------
(* The document in the reply.                                               *)

LEMMA DocumentForm ==
  ASSUME NEW sent \in Seq(Plain)
  PROVE  /\ Document(sent) \in Seq(Plain) /\ Len(sent) \in Nat /\ Len(Document(sent)) = Len(sent) + 5
         /\ Document(sent)[1] = "open" /\ Document(sent)[2] = "quote"
         /\ \A i \in 1..Len(sent) : Document(sent)[i + 2] = sent[i]
         /\ Document(sent)[Len(sent) + 3] = "quote" /\ Document(sent)[Len(sent) + 4] = "newline" /\ Document(sent)[Len(sent) + 5] = "close"
<1> DEFINE head == <<"open", "quote">>
           tail == <<"quote", "newline", "close">>
<1>1. /\ head \in Seq(Plain) /\ Len(head) = 2 /\ head[1] = "open" /\ head[2] = "quote"
      /\ tail \in Seq(Plain) /\ Len(tail) = 3 /\ tail[1] = "quote" /\ tail[2] = "newline" /\ tail[3] = "close"
  BY DEF Plain, Characters
<1> HIDE DEF head, tail
<1>2. PICK begun \in Seq(Plain) : begun = head \o sent /\ Joins(begun, head, sent)
  BY <1>1, Joined
<1>3. /\ begun \in Seq(Plain) /\ Len(begun) = 2 + Len(sent)
      /\ (\A i \in 1..2 : begun[i] = head[i]) /\ \A i \in 1..Len(sent) : begun[2 + i] = sent[i]
  BY <1>1, <1>2 DEF Joins
<1>4. PICK doc \in Seq(Plain) : doc = begun \o tail /\ Joins(doc, begun, tail)
  BY <1>1, <1>3, Joined
<1>5. /\ doc \in Seq(Plain) /\ Len(doc) = 2 + Len(sent) + 3
      /\ (\A i \in 1..Len(begun) : doc[i] = begun[i]) /\ \A i \in 1..3 : doc[Len(begun) + i] = tail[i]
  BY <1>1, <1>3, <1>4 DEF Joins
<1>6. Document(sent) = doc
  BY <1>2, <1>4 DEF Document, head, tail
<1>7. Len(sent) \in Nat
  OBVIOUS
<1>8. doc[1] = "open" /\ doc[2] = "quote"
  BY <1>1, <1>3, <1>5, <1>7
<1>9. \A i \in 1..Len(sent) : doc[i + 2] = sent[i]
  <2> TAKE i \in 1..Len(sent)
  <2>1. i + 2 = 2 + i /\ 2 + i \in 1..Len(begun)
    BY <1>3, <1>7
  <2> QED BY <1>3, <1>5, <2>1
<1>10. doc[Len(sent) + 3] = "quote" /\ doc[Len(sent) + 4] = "newline" /\ doc[Len(sent) + 5] = "close"
  <2>1. Len(sent) + 3 = Len(begun) + 1 /\ Len(sent) + 4 = Len(begun) + 2 /\ Len(sent) + 5 = Len(begun) + 3
    BY <1>3, <1>7
  <2>2. doc[Len(begun) + 1] = tail[1] /\ doc[Len(begun) + 2] = tail[2] /\ doc[Len(begun) + 3] = tail[3]
    BY <1>5
  <2> QED BY <1>1, <2>1, <2>2
<1> QED BY <1>5, <1>6, <1>7, <1>8, <1>9, <1>10

\* A reply that was cut off holds the beginning of the document.
LEMMA CutForm ==
  ASSUME NEW sent \in Seq(Plain)
  PROVE  /\ Cut(sent) \in Seq(Plain) /\ Len(Cut(sent)) \in 2..(Len(sent) + 2)
         /\ \A i \in 1..Len(Cut(sent)) : Cut(sent)[i] = Document(sent)[i]
<1> DEFINE head == <<"open", "quote">>
           rest == SubSeq(sent, 1, Len(sent) - 1)
<1>1. head \in Seq(Plain) /\ Len(head) = 2 /\ head[1] = "open" /\ head[2] = "quote" /\ Len(sent) \in Nat
  BY DEF Plain, Characters
<1>2. rest \in Seq(Plain) /\ Len(rest) \in 0..Len(sent) /\ \A i \in 1..Len(rest) : rest[i] = sent[i]
  <2>1. CASE Len(sent) = 0
    <3>1. rest = <<>>
      BY <1>1, <2>1, SubSeqEmpty
    <3> QED BY <1>1, <3>1
  <2>2. CASE Len(sent) # 0
    <3>1. /\ rest \in Seq(Plain) /\ Len(rest) = (IF 1 <= Len(sent) - 1 THEN (Len(sent) - 1) - 1 + 1 ELSE 0)
          /\ \A i \in 1..((Len(sent) - 1) - 1 + 1) : rest[i] = sent[1 + i - 1]
      <4>1. 1 \in 1..(Len(sent) + 1) /\ Len(sent) - 1 \in 0..Len(sent)
        BY <1>1, <2>2
      <4> QED BY <4>1, SubSeqProperties
    <3> QED BY <1>1, <2>2, <3>1
  <2> QED BY <2>1, <2>2
<1> HIDE DEF head, rest
<1>3. PICK cut \in Seq(Plain) : cut = head \o rest /\ Joins(cut, head, rest)
  BY <1>1, <1>2, Joined
<1>4. /\ cut \in Seq(Plain) /\ Len(cut) = 2 + Len(rest)
      /\ (\A i \in 1..2 : cut[i] = head[i]) /\ \A i \in 1..Len(rest) : cut[2 + i] = rest[i]
  BY <1>1, <1>2, <1>3 DEF Joins
<1>5. Cut(sent) = cut
  BY <1>3 DEF Cut, head, rest
<1>6. ASSUME NEW i \in 1..Len(cut) PROVE cut[i] = Document(sent)[i]
  <2>1. CASE i \in 1..2
    <3>1. i = 1 \/ i = 2
      BY <2>1
    <3>2. cut[i] = head[i] /\ Document(sent)[1] = "open" /\ Document(sent)[2] = "quote"
      BY <1>4, <2>1, DocumentForm
    <3> QED BY <1>1, <3>1, <3>2
  <2>2. CASE i \notin 1..2
    <3>1. PICK j : j = i - 2 /\ j \in 1..Len(rest) /\ j \in 1..Len(sent) /\ 2 + j = i /\ j + 2 = i
      BY <1>1, <1>2, <1>4, <2>2
    <3>2. cut[2 + j] = rest[j] /\ rest[j] = sent[j]
      BY <1>2, <1>4, <3>1
    <3>3. Document(sent)[j + 2] = sent[j]
      BY <3>1, DocumentForm
    <3> QED BY <3>1, <3>2, <3>3
  <2> QED BY <2>1, <2>2
<1> QED BY <1>1, <1>2, <1>4, <1>5, <1>6

\* The search inside the string, after a backslash in it, and after its end.
InString == [depth |-> 1, quoted |-> TRUE, escaped |-> FALSE, end |-> 0]
AfterSlash == [depth |-> 1, quoted |-> TRUE, escaped |-> TRUE, end |-> 0]
AfterString == [depth |-> 1, quoted |-> FALSE, escaped |-> FALSE, end |-> 0]

\* The search in a string, by its three fields.
LEMMA ScanQuoted ==
  ASSUME NEW s, s.end = 0, s.quoted, NEW c, NEW i
  PROVE  /\ s.escaped => ScanStep(s, c, i) = [s EXCEPT !.escaped = FALSE, !.quoted = TRUE]
         /\ ~s.escaped /\ c = "slash" => ScanStep(s, c, i) = [s EXCEPT !.escaped = TRUE, !.quoted = TRUE]
         /\ ~s.escaped /\ c = "quote" => ScanStep(s, c, i) = [s EXCEPT !.escaped = FALSE, !.quoted = FALSE]
         /\ ~s.escaped /\ c # "slash" /\ c # "quote" => ScanStep(s, c, i) = [s EXCEPT !.escaped = FALSE, !.quoted = TRUE]
<1>1. ~(s.end > 0)
  OBVIOUS
<1>2. ScanStep(s, c, i) = [s EXCEPT !.escaped = (~s.escaped /\ c = "slash"), !.quoted = (s.escaped \/ c # "quote")]
  BY <1>1, Zenon DEF ScanStep
<1>3. /\ s.escaped => (~s.escaped /\ c = "slash") = FALSE /\ (s.escaped \/ c # "quote") = TRUE
      /\ ~s.escaped /\ c = "slash" => (~s.escaped /\ c = "slash") = TRUE /\ (s.escaped \/ c # "quote") = TRUE
      /\ ~s.escaped /\ c = "quote" => (~s.escaped /\ c = "slash") = FALSE /\ (s.escaped \/ c # "quote") = FALSE
      /\ ~s.escaped /\ c # "slash" /\ c # "quote" => (~s.escaped /\ c = "slash") = FALSE /\ (s.escaped \/ c # "quote") = TRUE
  OBVIOUS
<1> QED BY <1>2, <1>3, Zenon

LEMMA ScanSteps ==
  ASSUME NEW i \in Nat \ {0}
  PROVE  /\ ScanStep(ScanStep(Outside, "open", 1), "quote", 2) = InString
         /\ \A c : c \notin {"quote", "slash"} => ScanStep(InString, c, i) = InString
         /\ ScanStep(InString, "slash", i) = AfterSlash
         /\ \A c : ScanStep(AfterSlash, c, i) = InString
         /\ ScanStep(InString, "quote", i) = AfterString
         /\ \A c : c \notin {"quote", "open", "close"} => ScanStep(AfterString, c, i) = AfterString
         /\ ScanStep(AfterString, "quote", i) = InString
         /\ ScanStep(AfterString, "close", i).end = i
         /\ \A s, c : s.end > 0 => ScanStep(s, c, i) = s
<1>1. ScanStep(ScanStep(Outside, "open", 1), "quote", 2) = InString
  <2>1. ScanStep(Outside, "open", 1) = [Outside EXCEPT !.depth = 1]
    BY DEF ScanStep, Outside
  <2>2. ScanStep(Outside, "open", 1) = AfterString
    BY <2>1 DEF Outside, AfterString
  <2>3. ScanStep(AfterString, "quote", 2) = [AfterString EXCEPT !.quoted = TRUE]
    BY DEF ScanStep, AfterString
  <2> QED BY <2>2, <2>3 DEF InString, AfterString
<1>2. ASSUME NEW c, c \notin {"quote", "slash"} PROVE ScanStep(InString, c, i) = InString
  <2>0. InString.end = 0 /\ InString.quoted /\ ~InString.escaped
    BY DEF InString
  <2>1. c # "slash" /\ c # "quote"
    BY <1>2
  <2>2. ~(InString.end > 0)
    BY <2>0
  <2>3. ScanStep(InString, c, i) = [InString EXCEPT !.escaped = (~InString.escaped /\ c = "slash"), !.quoted = (InString.escaped \/ c # "quote")]
    BY <2>0, <2>2, Zenon DEF ScanStep
  <2>4. (~InString.escaped /\ c = "slash") = FALSE /\ (InString.escaped \/ c # "quote") = TRUE
    BY <2>0, <2>1
  <2>5. ScanStep(InString, c, i) = [InString EXCEPT !.escaped = FALSE, !.quoted = TRUE]
    BY <2>3, <2>4, Zenon
  <2> QED BY <2>5 DEF InString
<1>3. ScanStep(InString, "slash", i) = AfterSlash
  <2>0. InString.end = 0 /\ InString.quoted /\ ~InString.escaped
    BY DEF InString
  <2>1. ScanStep(InString, "slash", i) = [InString EXCEPT !.escaped = TRUE, !.quoted = TRUE]
    BY ScanQuoted, <2>0
  <2> QED BY <2>1 DEF InString, AfterSlash
<1>4. ASSUME NEW c PROVE ScanStep(AfterSlash, c, i) = InString
  <2>0. AfterSlash.end = 0 /\ AfterSlash.quoted /\ AfterSlash.escaped
    BY DEF AfterSlash
  <2>1. ScanStep(AfterSlash, c, i) = [AfterSlash EXCEPT !.escaped = FALSE, !.quoted = TRUE]
    BY ScanQuoted, <2>0
  <2> QED BY <2>1 DEF InString, AfterSlash
<1>5. ScanStep(InString, "quote", i) = AfterString
  <2>0. InString.end = 0 /\ InString.quoted /\ ~InString.escaped
    BY DEF InString
  <2>1. ScanStep(InString, "quote", i) = [InString EXCEPT !.escaped = FALSE, !.quoted = FALSE]
    BY ScanQuoted, <2>0
  <2> QED BY <2>1 DEF InString, AfterString
<1>6. ScanStep(AfterString, "quote", i) = InString
  <2>1. ScanStep(AfterString, "quote", i) = [AfterString EXCEPT !.quoted = TRUE]
    BY DEF ScanStep, AfterString
  <2> QED BY <2>1 DEF InString, AfterString
<1>7. \A c : c \notin {"quote", "open", "close"} => ScanStep(AfterString, c, i) = AfterString
  BY DEF ScanStep, AfterString
<1>8. ScanStep(AfterString, "close", i).end = i
  BY DEF ScanStep, AfterString
<1>9. \A s, c : s.end > 0 => ScanStep(s, c, i) = s
  BY DEF ScanStep
<1> QED BY <1>1, <1>2, <1>3, <1>4, <1>5, <1>6, <1>7, <1>8, <1>9

\* A quote that stands for itself is bare.
LEMMA QuoteIsBare ==
  ASSUME NEW text \in Seq(Plain), NEW sent \in Seq(Plain), NEW pos \in [0..Len(text) -> Nat], Spelled(text, sent, pos),
         NEW k \in 1..Len(text), text[k] = "quote", sent[pos[k]] = "quote", pos[k] = pos[k - 1] + 1
  PROVE  pos[k] \in BareQuotes(sent)
<1>1. Len(text) \in Nat /\ Len(sent) \in Nat /\ pos[k] \in 1..Len(sent)
  BY DEF Spelled
<1>2. CASE k = 1
  <2>1. pos[k] = 1
    BY <1>2 DEF Spelled
  <2> QED BY <1>1, <2>1 DEF BareQuotes
<1>3. CASE k # 1
  <2>1. PICK j : j = k - 1 /\ j \in 1..Len(text)
    BY <1>1, <1>3
  <2>2. PICK p, q : p = pos[j] /\ q = pos[j - 1] /\ p \in 1..Len(sent) /\ q \in Nat /\ Unit(text, sent, pos, j)
    BY <1>1, <2>1 DEF Spelled
  <2>3. pos[k] = p + 1
    BY <2>1, <2>2
  <2>4. sent[p] # "slash" \/ (p > 1 /\ sent[p - 1] = "slash")
    BY <2>1, <2>2 DEF Unit
  <2>5. pos[k] - 1 = p /\ pos[k] - 2 = p - 1 /\ (p > 1 => pos[k] > 2)
    BY <2>2, <2>3
  <2> QED BY <1>1, <2>4, <2>5 DEF BareQuotes
<1> QED BY <1>2, <1>3

\* A text that starts with the document of what was sent, and a run of the search over it.
Starts(t, sent) ==
  /\ t \in Seq(Characters) /\ Len(t) \in {Len(sent) + 5, Len(sent) + 6}
  /\ \A i \in 1..(Len(sent) + 5) : t[i] = Document(sent)[i]

LEMMA ScanStarts ==
  ASSUME NEW sent \in Seq(Plain), NEW t, Starts(t, sent), NEW walk, ScansRun(t, walk)
  PROVE  /\ walk[2] = InString
         /\ \A i \in 1..Len(sent) : walk[i + 2] = ScanStep(walk[i + 1], sent[i], i + 2)
         /\ walk[Len(sent) + 2] = InString => walk[Len(t)].end = Len(sent) + 5
<1>1. PICK n : n = Len(sent) /\ n \in Nat /\ Len(t) \in {n + 5, n + 6}
  BY DocumentForm DEF Starts
<1>2. ASSUME NEW i \in 1..(n + 5) PROVE walk[i] = ScanStep(walk[i - 1], Document(sent)[i], i)
  <2>1. i \in 1..Len(t) /\ t[i] = Document(sent)[i]
    BY <1>1 DEF Starts
  <2> QED BY <2>1 DEF ScansRun
<1>3. walk[2] = InString
  <2>1. walk[1] = ScanStep(Outside, "open", 1)
    <3>1. walk[1] = ScanStep(walk[0], "open", 1)
      <4>1. PICK j \in 1..(n + 5) : j = 1 /\ j - 1 = 0
        BY <1>1
      <4>2. walk[j] = ScanStep(walk[j - 1], Document(sent)[j], j)
        BY <1>2
      <4> QED BY <4>1, <4>2, DocumentForm
    <3> QED BY <3>1 DEF ScansRun
  <2>2. walk[2] = ScanStep(walk[1], "quote", 2)
    <3>1. PICK j \in 1..(n + 5) : j = 2 /\ j - 1 = 1
      BY <1>1
    <3>2. walk[j] = ScanStep(walk[j - 1], Document(sent)[j], j)
      BY <1>2
    <3> QED BY <3>1, <3>2, DocumentForm
  <2> QED BY <2>1, <2>2, ScanSteps
<1>4. \A i \in 1..n : walk[i + 2] = ScanStep(walk[i + 1], sent[i], i + 2)
  <2> TAKE i \in 1..n
  <2>1. PICK j \in 1..(n + 5) : j = i + 2 /\ j - 1 = i + 1
    BY <1>1
  <2>2. walk[j] = ScanStep(walk[j - 1], Document(sent)[j], j)
    BY <1>2
  <2>3. Document(sent)[j] = sent[i]
    BY <1>1, <2>1, DocumentForm
  <2> QED BY <2>1, <2>2, <2>3
<1>5. ASSUME walk[n + 2] = InString PROVE walk[Len(t)].end = n + 5
  <2>1. PICK a, b, c : a = n + 3 /\ b = n + 4 /\ c = n + 5 /\ {a, b, c} \subseteq 1..(n + 5) /\ {a, b, c} \subseteq Nat \ {0}
                       /\ a - 1 = n + 2 /\ b - 1 = a /\ c - 1 = b
    BY <1>1
  <2>2. walk[a] = ScanStep(walk[n + 2], "quote", a) /\ walk[b] = ScanStep(walk[a], "newline", b) /\ walk[c] = ScanStep(walk[b], "close", c)
    <3>1. Document(sent)[a] = "quote" /\ Document(sent)[b] = "newline" /\ Document(sent)[c] = "close"
      BY <1>1, <2>1, DocumentForm
    <3>2. /\ walk[a] = ScanStep(walk[a - 1], Document(sent)[a], a) /\ walk[b] = ScanStep(walk[b - 1], Document(sent)[b], b)
          /\ walk[c] = ScanStep(walk[c - 1], Document(sent)[c], c)
      BY <1>2, <2>1
    <3> QED BY <2>1, <3>1, <3>2
  <2>3. walk[a] = AfterString
    BY <1>5, <2>1, <2>2, ScanSteps
  <2>4. walk[b] = AfterString
    BY <2>1, <2>2, <2>3, ScanSteps
  <2>5. walk[c].end = c
    BY <2>1, <2>2, <2>4, ScanSteps
  <2>6. CASE Len(t) = n + 5
    BY <2>1, <2>5, <2>6
  <2>7. CASE Len(t) = n + 6
    <3>1. PICK d : d = n + 6 /\ d \in 1..Len(t) /\ d \in Nat \ {0} /\ d - 1 = c
      BY <1>1, <2>1, <2>7
    <3>2. walk[d] = ScanStep(walk[c], t[d], d)
      BY <3>1 DEF ScansRun
    <3>3. walk[c].end > 0
      BY <1>1, <2>1, <2>5
    <3>4. walk[d] = walk[c]
      BY <3>1, <3>2, <3>3, ScanSteps
    <3> QED BY <2>1, <2>5, <2>7, <3>1, <3>4
  <2> QED BY <1>1, <2>6, <2>7
<1> QED BY <1>1, <1>3, <1>4, <1>5

\* Without a bare quote the search finds the document.
LEMMA UnquotedIsFound ==
  ASSUME NEW text \in Seq(Plain), NEW sent \in Seq(Plain), NEW pos \in [0..Len(text) -> Nat], Spelled(text, sent, pos),
         BareQuotes(sent) = {}, NEW t, Starts(t, sent)
  PROVE  Scanned(t) = Len(sent) + 5
<1>1. PICK walk \in [0..Len(t) -> Scans] : ScansRun(t, walk) /\ Scanned(t) = walk[Len(t)].end
  BY ScanRuns DEF Starts
<1>2. PICK n : n = Len(text) /\ n \in Nat /\ Len(sent) \in Nat
  BY LenProperties
<1>3. /\ walk[2] = InString /\ \A i \in 1..Len(sent) : walk[i + 2] = ScanStep(walk[i + 1], sent[i], i + 2)
      /\ walk[Len(sent) + 2] = InString => walk[Len(t)].end = Len(sent) + 5
  BY <1>1, ScanStarts
<1> DEFINE S == {k \in Nat : k <= n => walk[pos[k] + 2] = InString}
<1>4. S \in SUBSET Nat /\ 0 \in S
  BY <1>3 DEF Spelled
<1>5. ASSUME NEW k \in S PROVE k + 1 \in S
  <2>0. k \in Nat
    <3> HIDE DEF S
    <3> QED BY <1>4
  <2>1. CASE k + 1 <= n
    <3>1. PICK j \in 1..n : j = k + 1 /\ j - 1 = k /\ j \in 0..n /\ k \in 0..n
      BY <1>2, <2>0, <2>1
    <3>2. PICK p, q : p = pos[k] /\ q = pos[j] /\ p \in Nat /\ q \in Nat /\ q \in 1..Len(sent) /\ walk[p + 2] = InString
      BY <1>2, <2>0, <3>1 DEF Spelled
    <3>3. Unit(text, sent, pos, j)
      BY <1>2, <3>1 DEF Spelled
    <3>4. CASE q = p + 1 /\ text[j] # "slash" /\ sent[q] = text[j]
      <4>1. sent[q] # "quote"
        BY <1>2, <3>1, <3>2, <3>4, QuoteIsBare
      <4>2. walk[q + 2] = ScanStep(walk[q + 1], sent[q], q + 2)
        BY <1>3, <3>2
      <4> HIDE DEF S
      <4>0. q = p + 1 /\ p \in Nat /\ q \in Nat /\ sent[q] # "slash"
        BY <3>2, <3>4
      <4>3. q + 1 = p + 2 /\ q + 2 \in Nat \ {0} /\ sent[q] \notin {"quote", "slash"}
        BY <4>0, <4>1
      <4>4. ScanStep(InString, sent[q], q + 2) = InString
        BY <4>3, ScanSteps
      <4>5. walk[q + 2] = InString
        BY <3>2, <4>2, <4>3, <4>4
      <4> USE DEF S
      <4> QED BY <2>0, <3>1, <3>2, <4>5
    <3>5. CASE q = p + 2 /\ sent[q - 1] = "slash"
      <4> HIDE DEF S
      <4>a. q = p + 2 /\ p \in Nat /\ q \in 1..Len(sent) /\ Len(sent) \in Nat
        BY <1>2, <3>2, <3>5
      <4>0. q - 1 = p + 1 /\ p + 1 \in 1..Len(sent) /\ (p + 1) + 1 = p + 2 /\ (p + 1) + 2 = q + 1 /\ (p + 1) + 2 \in Nat \ {0} /\ q + 2 \in Nat \ {0}
        BY <4>a
      <4>1. PICK r : r = p + 1 /\ r = q - 1 /\ r \in 1..Len(sent) /\ r + 1 = p + 2 /\ r + 2 = q + 1 /\ sent[r] = "slash"
        BY <3>5, <4>0
      <4>2. walk[r + 2] = ScanStep(walk[r + 1], sent[r], r + 2) /\ walk[q + 2] = ScanStep(walk[q + 1], sent[q], q + 2)
        BY <1>3, <3>2, <4>1
      <4>3. r + 2 \in Nat \ {0} /\ q + 2 \in Nat \ {0}
        BY <4>0, <4>1
      <4>4. ScanStep(InString, "slash", r + 2) = AfterSlash /\ ScanStep(AfterSlash, sent[q], q + 2) = InString
        BY <4>3, ScanSteps
      <4>5. walk[q + 2] = InString
        BY <3>2, <4>1, <4>2, <4>4
      <4> USE DEF S
      <4> QED BY <2>0, <3>1, <3>2, <4>5
    <3> QED BY <3>1, <3>2, <3>3, <3>4, <3>5 DEF Unit
  <2>2. CASE ~(k + 1 <= n)
    BY <2>0, <2>2
  <2> QED BY <2>1, <2>2
<1>6. S = Nat
  <2> HIDE DEF S
  <2> QED BY <1>4, <1>5, Induct
<1>7. walk[Len(sent) + 2] = InString
  <2>1. n \in S
    <3> HIDE DEF S
    <3> QED BY <1>2, <1>6
  <2> QED BY <1>2, <2>1 DEF Spelled
<1> QED BY <1>1, <1>3, <1>7

\* Neither do bare quotes that pair up with no brace or escape among them hide it.
LEMMA EvenIsFound ==
  ASSUME NEW sent \in Seq(Plain), \A c \in {"open", "close", "slash"} : ~Uses(sent, c), Cardinality(BareQuotes(sent)) % 2 = 0,
         NEW t, Starts(t, sent)
  PROVE  Scanned(t) = Len(sent) + 5
<1>1. PICK walk \in [0..Len(t) -> Scans] : ScansRun(t, walk) /\ Scanned(t) = walk[Len(t)].end
  BY ScanRuns DEF Starts
<1>2. PICK n : n = Len(sent) /\ n \in Nat
  BY LenProperties
<1>3. /\ walk[2] = InString /\ \A i \in 1..n : walk[i + 2] = ScanStep(walk[i + 1], sent[i], i + 2)
      /\ walk[n + 2] = InString => walk[Len(t)].end = n + 5
  BY <1>1, <1>2, ScanStarts
<1>4. \A i \in 1..n : sent[i] \notin {"open", "close", "slash"}
  BY <1>2 DEF Uses
<1> DEFINE Quotes(k) == {i \in 1..k : sent[i] = "quote"}
           Even(k) == Cardinality(Quotes(k)) % 2 = 0
           S == {k \in Nat : k <= n => walk[k + 2] = IF Even(k) THEN InString ELSE AfterString}
<1>5. BareQuotes(sent) = Quotes(n)
  <2>1. \A i \in 1..n : i = 1 \/ sent[i - 1] # "slash"
    <3> TAKE i \in 1..n
    <3>1. i = 1 \/ i - 1 \in 1..n
      BY <1>2
    <3> QED BY <1>4, <3>1
  <2> QED BY <1>2, <2>1 DEF BareQuotes
<1>6. \A k \in Nat : IsFiniteSet(Quotes(k)) /\ Cardinality(Quotes(k)) \in Nat
  <2> TAKE k \in Nat
  <2>1. IsFiniteSet(1..k)
    BY FS_Interval
  <2>2. IsFiniteSet(Quotes(k))
    BY <2>1, FS_Subset
  <2> QED BY <2>2, FS_CardinalityType
<1>7. S \in SUBSET Nat /\ 0 \in S
  <2>1. Quotes(0) = {}
    OBVIOUS
  <2>2. Cardinality(Quotes(0)) = 0
    BY <2>1, FS_EmptySet
  <2>3. Even(0)
    BY <2>2
  <2> HIDE DEF Even
  <2> QED BY <1>3, <2>3
<1>8. ASSUME NEW k \in S PROVE k + 1 \in S
  <2>0. k \in Nat
    <3> HIDE DEF S
    <3> QED BY <1>7
  <2>1. CASE k + 1 <= n
    <3>1. PICK j \in 1..n : j = k + 1 /\ j + 1 = k + 2 /\ j + 2 \in Nat \ {0} /\ j \in Nat
      BY <1>2, <2>0, <2>1
    <3>2. walk[k + 2] = IF Even(k) THEN InString ELSE AfterString
      BY <1>2, <2>0, <2>1
    <3>3. walk[j + 2] = ScanStep(walk[k + 2], sent[j], j + 2)
      <4>1. walk[j + 2] = ScanStep(walk[j + 1], sent[j], j + 2)
        BY <1>3
      <4> QED BY <3>1, <4>1
    <3>4. CASE sent[j] = "quote"
      <4>1. Quotes(j) = Quotes(k) \cup {j} /\ j \notin Quotes(k)
        BY <2>0, <3>1, <3>4
      <4>2. Cardinality(Quotes(j)) = Cardinality(Quotes(k)) + 1 /\ Cardinality(Quotes(k)) \in Nat
        <5> HIDE DEF Quotes
        <5> QED BY <1>6, <2>0, <4>1, FS_AddElement
      <4>3. Even(j) <=> ~Even(k)
        <5>1. PICK c \in Nat : c = Cardinality(Quotes(k)) /\ Cardinality(Quotes(j)) = c + 1
          BY <4>2
        <5> HIDE DEF Quotes
        <5> QED BY <5>1
      <4> HIDE DEF Even, S
      <4>4. walk[j + 2] = IF Even(j) THEN InString ELSE AfterString
        BY <3>1, <3>2, <3>3, <3>4, <4>3, ScanSteps
      <4> USE DEF S
      <4> QED BY <3>1, <4>4
    <3>5. CASE sent[j] # "quote"
      <4>1. Quotes(j) = Quotes(k)
        BY <2>0, <3>1, <3>5
      <4>2. Even(j) <=> Even(k)
        <5> HIDE DEF Quotes
        <5> QED BY <4>1
      <4>3. sent[j] \notin {"quote", "slash", "open", "close"}
        BY <1>4, <3>5
      <4> HIDE DEF Even, S
      <4>4. ScanStep(InString, sent[j], j + 2) = InString /\ ScanStep(AfterString, sent[j], j + 2) = AfterString
        BY <3>1, <4>3, ScanSteps
      <4>5. walk[j + 2] = IF Even(j) THEN InString ELSE AfterString
        BY <3>2, <3>3, <4>2, <4>4
      <4> USE DEF S
      <4> QED BY <3>1, <4>5
    <3> QED BY <3>4, <3>5
  <2>2. CASE ~(k + 1 <= n)
    BY <2>0, <2>2
  <2> QED BY <2>1, <2>2
<1>9. S = Nat
  <2> HIDE DEF S
  <2> QED BY <1>7, <1>8, Induct
<1>10. walk[n + 2] = InString
  <2>1. n \in S
    <3> HIDE DEF S
    <3> QED BY <1>2, <1>9
  <2>2. Even(n)
    BY <1>5
  <2> HIDE DEF Even
  <2> QED BY <1>2, <2>1, <2>2
<1> QED BY <1>1, <1>2, <1>3, <1>10

-----------------------------------------------------------------------------
(* Unwrapping.                                                              *)

\* The first position of a set of them.
LEMMA FirstIsLeast ==
  ASSUME NEW I \in SUBSET Nat, I # {}
  PROVE  Min(I) \in I /\ \A i \in I : Min(I) <= i
<1>1. \E m \in I : \A i \in I : m <= i
  BY LeastOf
<1> QED BY <1>1 DEF Min

LEMMA PieceTyped ==
  ASSUME NEW V, NEW s \in Seq(V), NEW m \in Nat \ {0}, NEW n \in Int, n <= Len(s)
  PROVE  SubSeq(s, m, n) \in Seq(V)
<1>0. m \in Int /\ m \in Nat /\ m >= 1 /\ Len(s) \in Nat
  OBVIOUS
<1>1. ASSUME NEW i \in m..n PROVE s[i] \in V
  <2>1. i \in 1..Len(s)
    BY <1>0
  <2> QED BY <2>1
<1> QED BY <1>0, <1>1, SubSeqProperties

LEMMA TailOfCons ==
  ASSUME NEW V, NEW x \in V, NEW s \in Seq(V), Len(s) > 0
  PROVE  <<x>> \o s \in Seq(V) /\ Len(<<x>> \o s) = Len(s) + 1 /\ (<<x>> \o s)[1] = x /\ Tail(<<x>> \o s) = s
         /\ SubSeq(<<x>> \o s, 2, Len(<<x>> \o s)) = s /\ \A i \in 1..Len(s) : (<<x>> \o s)[i + 1] = s[i]
<1>0. <<x>> \in Seq(V) /\ Len(<<x>>) = 1 /\ <<x>>[1] = x
  OBVIOUS
<1>1. PICK h \in Seq(V) : h = <<x>> /\ Len(h) = 1 /\ h[1] = x
  BY <1>0
<1>2. PICK w \in Seq(V) : w = h \o s /\ Joins(w, h, s)
  BY Joined
<1>3. Len(s) \in Nat /\ Len(w) = Len(s) + 1 /\ w[1] = x /\ \A i \in 1..Len(s) : w[1 + i] = s[i]
  BY <1>1, <1>2 DEF Joins
<1>4. SubSeq(w, 2, Len(s) + 1) = s
  <2>1. 2 \in (Len(h) + 1)..(Len(h) + Len(s)) /\ Len(s) + 1 \in (Len(h) + 1)..(Len(h) + Len(s)) /\ 2 - Len(h) = 1 /\ (Len(s) + 1) - Len(h) = Len(s)
    BY <1>1, <1>3
  <2>2. SubSeq(h \o s, 2, Len(s) + 1) = SubSeq(s, 2 - Len(h), (Len(s) + 1) - Len(h))
    BY <2>1, SubSeqOfConcat2
  <2> QED BY <1>2, <2>1, <2>2, SubSeqFull
<1>5. Tail(w) = s
  <2>1. w # <<>>
    BY <1>3
  <2> QED BY <1>3, <1>4, <2>1, TailIsSubSeq
<1>6. \A i \in 1..Len(s) : w[i + 1] = s[i]
  <2> TAKE i \in 1..Len(s)
  <2>1. i + 1 = 1 + i
    OBVIOUS
  <2> QED BY <1>3, <2>1
<1> QED BY <1>1, <1>2, <1>3, <1>4, <1>5, <1>6

LEMMA FoundAtHead ==
  ASSUME NEW t \in Seq(Characters), Len(t) > 0, t[1] = "open"
  PROVE  FirstBalancedObject(t) = IF Scanned(t) = 0 THEN t ELSE SubSeq(t, 1, Scanned(t))
<1> DEFINE I == {i \in 1..Len(t) : t[i] = "open"}
<1>1. I \in SUBSET Nat /\ I # {} /\ 1 \in I /\ \A i \in I : 1 <= i
  OBVIOUS
<1>2. Min(I) = 1
  <2> HIDE DEF I
  <2>1. Min(I) \in I /\ \A i \in I : Min(I) <= i
    BY <1>1, FirstIsLeast
  <2>2. Min(I) \in Nat /\ 1 <= Min(I) /\ Min(I) <= 1
    BY <1>1, <2>1
  <2> QED BY <2>2
<1>3. SubSeq(t, 1, Len(t)) = t
  BY SubSeqFull
<1>4. FirstBalancedObject(t) = LET start == IF I # {} THEN Min(I) ELSE 0  rest == SubSeq(t, start, Len(t))
                               IN IF start = 0 \/ Scanned(rest) = 0 THEN t ELSE SubSeq(rest, 1, Scanned(rest))
  BY DEF FirstBalancedObject, SelectInSeq
<1>5. (IF I # {} THEN Min(I) ELSE 0) = 1
  BY <1>1, <1>2
<1>6. FirstBalancedObject(t) = IF 1 = 0 \/ Scanned(SubSeq(t, 1, Len(t))) = 0 THEN t ELSE SubSeq(SubSeq(t, 1, Len(t)), 1, Scanned(SubSeq(t, 1, Len(t))))
  BY <1>4, <1>5, Zenon
<1>7. 1 # 0
  OBVIOUS
<1> HIDE DEF I
<1> QED BY <1>3, <1>6, <1>7, Zenon

LEMMA FoundAfterOne ==
  ASSUME NEW c \in Characters, c # "open", NEW t \in Seq(Characters), Len(t) > 0, t[1] = "open"
  PROVE  FirstBalancedObject(<<c>> \o t) = IF Scanned(t) = 0 THEN <<c>> \o t ELSE SubSeq(t, 1, Scanned(t))
<1>1. PICK w \in Seq(Characters) : w = <<c>> \o t /\ Len(w) = Len(t) + 1 /\ w[1] = c /\ SubSeq(w, 2, Len(w)) = t /\ w[2] = t[1]
  <2>1. <<c>> \o t \in Seq(Characters) /\ Len(<<c>> \o t) = Len(t) + 1 /\ (<<c>> \o t)[1] = c
        /\ SubSeq(<<c>> \o t, 2, Len(<<c>> \o t)) = t /\ \A i \in 1..Len(t) : (<<c>> \o t)[i + 1] = t[i]
    BY TailOfCons
  <2>2. (<<c>> \o t)[2] = t[1]
    <3>1. 1 \in 1..Len(t) /\ 1 + 1 = 2
      OBVIOUS
    <3> QED BY <2>1, <3>1
  <2> QED BY <2>1, <2>2
<1> DEFINE I == {i \in 1..Len(w) : w[i] = "open"}
<1>2. I \in SUBSET Nat /\ I # {} /\ 2 \in I /\ \A i \in I : 2 <= i
  <2>1. Len(w) >= 2 /\ w[2] = "open" /\ w[1] # "open" /\ Len(w) \in Nat
    BY <1>1
  <2> QED BY <2>1
<1>3. Min(I) = 2
  <2> HIDE DEF I
  <2>1. Min(I) \in I /\ \A i \in I : Min(I) <= i
    BY <1>2, FirstIsLeast
  <2>2. Min(I) \in Nat /\ 2 <= Min(I) /\ Min(I) <= 2
    BY <1>2, <2>1
  <2> QED BY <2>2
<1>4. FirstBalancedObject(w) = IF Scanned(t) = 0 THEN w ELSE SubSeq(t, 1, Scanned(t))
  <2>1. FirstBalancedObject(w) = LET start == IF I # {} THEN Min(I) ELSE 0  rest == SubSeq(w, start, Len(w))
                                 IN IF start = 0 \/ Scanned(rest) = 0 THEN w ELSE SubSeq(rest, 1, Scanned(rest))
    BY DEF FirstBalancedObject, SelectInSeq
  <2>2. (IF I # {} THEN Min(I) ELSE 0) = 2
    BY <1>2, <1>3
  <2>3. FirstBalancedObject(w) = IF 2 = 0 \/ Scanned(SubSeq(w, 2, Len(w))) = 0 THEN w ELSE SubSeq(SubSeq(w, 2, Len(w)), 1, Scanned(SubSeq(w, 2, Len(w))))
    BY <2>1, <2>2, Zenon
  <2>4. 2 # 0 /\ SubSeq(w, 2, Len(w)) = t
    BY <1>1
  <2> HIDE DEF I
  <2> QED BY <2>3, <2>4, Zenon
<1> QED BY <1>1, <1>4

\* The text under repair, for what was sent.
Unwrapped(sent, wrapping) ==
  IF wrapping = "fenced" THEN Document(sent)
  ELSE IF wrapping = "prose" THEN FirstBalancedObject(<<"char">> \o (Document(sent) \o <<"char">>))
  ELSE IF wrapping \in Cuts THEN FirstBalancedObject(Cut(sent))
  ELSE FirstBalancedObject(Document(sent))

LEMMA NoFences ==
  ASSUME NEW s \in Seq(Plain)
  PROVE  Fences(s) = {}
<1>1. \A i \in 1..Len(s) : s[i] \in Plain
  OBVIOUS
<1> QED BY <1>1 DEF Fences, Plain

LEMMA OneFence ==
  ASSUME NEW s \in Seq(Plain), Len(s) > 0
  PROVE  Fences(<<"fence">> \o s) = {1} /\ (<<"fence">> \o s)[1] = "fence" /\ Tail(<<"fence">> \o s) = s
<1>1. "fence" \in Characters /\ s \in Seq(Characters)
  BY DEF Characters, Plain
<1>2. PICK w \in Seq(Characters) : w = <<"fence">> \o s /\ Len(w) = Len(s) + 1 /\ w[1] = "fence" /\ Tail(w) = s /\ \A i \in 1..Len(s) : w[i + 1] = s[i]
  <2>1. <<"fence">> \o s \in Seq(Characters) /\ Len(<<"fence">> \o s) = Len(s) + 1 /\ (<<"fence">> \o s)[1] = "fence"
        /\ Tail(<<"fence">> \o s) = s /\ \A i \in 1..Len(s) : (<<"fence">> \o s)[i + 1] = s[i]
    BY <1>1, TailOfCons
  <2> QED BY <2>1
<1>3. \A j \in 1..Len(w) : w[j] = "fence" <=> j = 1
  <2> TAKE j \in 1..Len(w)
  <2>1. CASE j = 1
    BY <1>2, <2>1
  <2>2. CASE j # 1
    <3>1. PICK i \in 1..Len(s) : i + 1 = j
      <4>1. j - 1 \in 1..Len(s) /\ (j - 1) + 1 = j
        BY <1>2, <2>2
      <4> QED BY <4>1
    <3>2. w[j] = s[i] /\ s[i] \in Plain
      BY <1>2, <3>1
    <3> QED BY <2>2, <3>2 DEF Plain
  <2> QED BY <2>1, <2>2
<1>4. 1 \in 1..Len(w)
  BY <1>2
<1> QED BY <1>2, <1>3, <1>4 DEF Fences

LEMMA FencedForm ==
  ASSUME NEW doc \in Seq(Plain), Len(doc) > 0, NEW r, r = <<"fence">> \o doc \o <<"fence", "char">>
  PROVE  /\ r \in Seq(Characters) /\ Len(r) = Len(doc) + 3 /\ Fences(r) = {1, Len(doc) + 2}
         /\ SubSeq(r, 2, Len(doc) + 1) = doc
<1>1. "fence" \in Characters /\ doc \in Seq(Characters) /\ Len(doc) \in Nat
  BY DEF Characters, Plain
<1> DEFINE tail == <<"fence", "char">>
<1>2. tail \in Seq(Characters) /\ Len(tail) = 2 /\ tail[1] = "fence" /\ tail[2] = "char"
  BY DEF Characters
<1> HIDE DEF tail
<1>3. PICK w \in Seq(Characters) : w = <<"fence">> \o doc /\ Len(w) = Len(doc) + 1 /\ w[1] = "fence"
                                 /\ SubSeq(w, 2, Len(w)) = doc /\ \A i \in 1..Len(doc) : w[i + 1] = doc[i]
  <2>1. /\ <<"fence">> \o doc \in Seq(Characters) /\ Len(<<"fence">> \o doc) = Len(doc) + 1 /\ (<<"fence">> \o doc)[1] = "fence"
        /\ SubSeq(<<"fence">> \o doc, 2, Len(<<"fence">> \o doc)) = doc /\ \A i \in 1..Len(doc) : (<<"fence">> \o doc)[i + 1] = doc[i]
    BY <1>1, TailOfCons
  <2> QED BY <2>1
<1>4. PICK v \in Seq(Characters) : v = w \o tail /\ Joins(v, w, tail)
  BY <1>2, Joined
<1>5. r = v
  BY <1>3, <1>4 DEF tail
<1>6. PICK n : n = Len(doc) + 2 /\ Len(v) = n + 1 /\ n \in Nat /\ n > 2
  BY <1>1, <1>2, <1>3, <1>4 DEF Joins
<1>7. v[n] = "fence" /\ v[n + 1] = "char" /\ \A i \in 1..(n - 1) : v[i] = w[i]
  <2>1. Len(w) + 1 = n /\ Len(w) + 2 = n + 1 /\ Len(w) = n - 1
    BY <1>3, <1>6, <1>1
  <2>2. v[Len(w) + 1] = tail[1] /\ v[Len(w) + 2] = tail[2] /\ \A i \in 1..Len(w) : v[i] = w[i]
    BY <1>2, <1>4 DEF Joins
  <2> QED BY <1>2, <2>1, <2>2
<1>8. ASSUME NEW j \in 1..(n + 1) PROVE v[j] = "fence" <=> j \in {1, n}
  <2>1. CASE j \in {1, n}
    BY <1>3, <1>6, <1>7, <2>1
  <2>2. CASE j \notin {1, n} /\ j # n + 1
    <3>1. PICK i \in 1..Len(doc) : i + 1 = j /\ j \in 1..(n - 1)
      <4>1. j - 1 \in 1..Len(doc) /\ (j - 1) + 1 = j /\ j \in 1..(n - 1)
        BY <1>1, <1>6, <2>2
      <4> QED BY <4>1
    <3>2. v[j] = doc[i] /\ doc[i] \in Plain
      BY <1>3, <1>7, <3>1
    <3> QED BY <2>2, <3>2 DEF Plain
  <2>3. CASE j = n + 1
    BY <1>6, <1>7, <2>3
  <2> QED BY <2>1, <2>2, <2>3
<1>9. Fences(v) = {1, n}
  BY <1>6, <1>8 DEF Fences
<1>10. SubSeq(v, 2, Len(doc) + 1) = doc
  <2>1. 2 \in 1..Len(w) /\ Len(doc) + 1 \in 1..Len(w)
    BY <1>1, <1>3
  <2>2. SubSeq(w \o tail, 2, Len(doc) + 1) = SubSeq(w, 2, Len(doc) + 1)
    BY <1>2, <2>1, SubSeqOfConcat1
  <2> QED BY <1>3, <1>4, <2>2
<1>11. Len(v) = Len(doc) + 3
  BY <1>1, <1>6
<1> QED BY <1>5, <1>6, <1>9, <1>10, <1>11

LEMMA UnwrapForm ==
  ASSUME meant.sent \in Seq(Plain), meant.wrapping \in {"bare", "fenced", "opened", "prose", "cut", "opened_cut"}, Unwrap
  PROVE  body' = Unwrapped(meant.sent, meant.wrapping)
<1> DEFINE sent == meant.sent
           w == meant.wrapping
           reply == Reply(sent, w)
           fences == Fences(reply)
           opened == IF fences # {} /\ reply[1] = "fence" THEN Tail(reply) ELSE reply
<1>1. sent \in Seq(Plain) /\ w \in {"bare", "fenced", "opened", "prose", "cut", "opened_cut"}
  OBVIOUS
<1>2. body' = IF \E i, j \in fences : i < j
                THEN LET i == CHOOSE i \in fences : \A j \in fences : i <= j
                         j == CHOOSE j \in fences \ {i} : \A k \in fences \ {i} : j <= k
                     IN SubSeq(reply, i + 1, j - 1)
                ELSE FirstBalancedObject(opened)
  BY DEF Unwrap
<1>3. Document(sent) \in Seq(Plain) /\ Len(Document(sent)) > 0 /\ Cut(sent) \in Seq(Plain) /\ Len(Cut(sent)) > 0
  <2>1. Document(sent) \in Seq(Plain) /\ Len(Document(sent)) = Len(sent) + 5 /\ Len(sent) \in Nat
    BY <1>1, DocumentForm
  <2>2. Cut(sent) \in Seq(Plain) /\ Len(Cut(sent)) \in 2..(Len(sent) + 2)
    BY <1>1, CutForm
  <2> QED BY <2>1, <2>2
<1> HIDE DEF sent, w
<1>4. CASE w = "fenced"
  <2>1. reply = <<"fence">> \o Document(sent) \o <<"fence", "char">>
    BY <1>4 DEF Reply
  <2> HIDE DEF reply
  <2>2. PICK n : n = Len(Document(sent)) + 2 /\ n \in Nat /\ n > 2 /\ n - 1 = Len(Document(sent)) + 1
    BY <1>3
  <2>3. fences = {1, n} /\ SubSeq(reply, 2, n - 1) = Document(sent)
    BY <1>3, <2>1, <2>2, FencedForm
  <2>4. fences \ {1} = {n} /\ \E i, j \in fences : i < j
    BY <2>2, <2>3
  <2>5. (CHOOSE i \in fences : \A j \in fences : i <= j) = 1
    BY <2>2, <2>3
  <2>6. (CHOOSE j \in fences \ {1} : \A k \in fences \ {1} : j <= k) = n
    BY <2>2, <2>4
  <2> HIDE DEF fences
  <2>7. body' = SubSeq(reply, 1 + 1, n - 1)
    BY <1>2, <2>4, <2>5, <2>6
  <2>8. 1 + 1 = 2
    OBVIOUS
  <2> QED BY <1>4, <2>3, <2>7, <2>8 DEF Unwrapped, sent, w
<1>5. CASE w \in {"bare", "cut"}
  <2>1. reply = IF w = "bare" THEN Document(sent) ELSE Cut(sent)
    BY <1>5 DEF Reply
  <2>2. reply \in Seq(Plain)
    BY <1>3, <2>1
  <2> HIDE DEF reply
  <2>3. fences = {}
    BY <2>2, NoFences
  <2>4. body' = FirstBalancedObject(reply)
    BY <1>2, <2>3
  <2> QED BY <1>5, <2>1, <2>4 DEF Unwrapped, Cuts, sent, w
<1>6. CASE w \in {"opened", "opened_cut"}
  <2> DEFINE inner == IF w = "opened" THEN Document(sent) ELSE Cut(sent)
  <2>1. reply = <<"fence">> \o inner
    BY <1>6 DEF Reply
  <2>2. inner \in Seq(Plain) /\ Len(inner) > 0
    BY <1>3
  <2> HIDE DEF reply, inner
  <2>3. fences = {1} /\ opened = inner
    BY <2>1, <2>2, OneFence
  <2> HIDE DEF fences, opened
  <2>4. body' = FirstBalancedObject(inner)
    BY <1>2, <2>3
  <2> QED BY <1>6, <2>4 DEF Unwrapped, Cuts, inner, sent, w
<1>7. CASE w = "prose"
  <2>1. reply = <<"char">> \o Document(sent) \o <<"char">>
    BY <1>7 DEF Reply
  <2>2. "char" \in Plain /\ <<"char">> \in Seq(Plain)
    BY DEF Plain, Characters
  <2>3. reply = <<"char">> \o (Document(sent) \o <<"char">>) /\ reply \in Seq(Plain)
    <3>1. (<<"char">> \o Document(sent)) \o <<"char">> = <<"char">> \o (Document(sent) \o <<"char">>)
      BY <1>3, <2>2, ConcatAssociative
    <3>2. Document(sent) \o <<"char">> \in Seq(Plain)
      BY <1>3, <2>2, ConcatProperties
    <3>3. <<"char">> \o (Document(sent) \o <<"char">>) \in Seq(Plain)
      BY <2>2, <3>2, ConcatProperties
    <3> QED BY <2>1, <3>1, <3>3
  <2> HIDE DEF reply
  <2>4. fences = {}
    BY <2>3, NoFences
  <2>5. body' = FirstBalancedObject(reply)
    BY <1>2, <2>4
  <2> QED BY <1>7, <2>3, <2>5 DEF Unwrapped, sent, w
<1> QED BY <1>1, <1>4, <1>5, <1>6, <1>7

LEMMA PlainIsCharacters ==
  ASSUME NEW s \in Seq(Plain)
  PROVE  s \in Seq(Characters)
<1>1. Plain \subseteq Characters
  BY DEF Plain
<1> QED BY <1>1, SeqMonotonic

\* The object at the head of a text is a piece of it.
LEMMA HeadIsPiece ==
  ASSUME NEW t \in Seq(Plain), Len(t) > 0, t[1] = "open"
  PROVE  \E n \in 1..Len(t) : FirstBalancedObject(t) = SubSeq(t, 1, n)
<1>1. t \in Seq(Characters) /\ Len(t) \in Nat
  BY PlainIsCharacters
<1>2. FirstBalancedObject(t) = IF Scanned(t) = 0 THEN t ELSE SubSeq(t, 1, Scanned(t))
  BY <1>1, FoundAtHead
<1>3. Scanned(t) = 0 \/ Scanned(t) \in 1..Len(t)
  BY <1>1, FoundIsClosed
<1>4. SubSeq(t, 1, Len(t)) = t /\ Len(t) \in 1..Len(t)
  BY <1>1, SubSeqFull
<1> QED BY <1>2, <1>3, <1>4

LEMMA HeadPiece ==
  ASSUME NEW V, NEW t \in Seq(V), NEW n \in 1..Len(t)
  PROVE  SubSeq(t, 1, n) \in Seq(V) /\ Len(SubSeq(t, 1, n)) = n /\ \A i \in 1..n : SubSeq(t, 1, n)[i] = t[i]
<1>1. Len(t) \in Nat /\ n \in Nat /\ n >= 1 /\ n <= Len(t)
  OBVIOUS
<1>2. \A i \in 1..n : t[i] \in V
  <2> TAKE i \in 1..n
  <2>1. i \in 1..Len(t)
    BY <1>1
  <2> QED BY <2>1
<1>3. /\ SubSeq(t, 1, n) \in Seq(V) /\ Len(SubSeq(t, 1, n)) = IF 1 <= n THEN n - 1 + 1 ELSE 0
      /\ \A i \in 1..(n - 1 + 1) : SubSeq(t, 1, n)[i] = t[1 + i - 1]
  BY <1>1, <1>2, SubSeqProperties
<1>4. \A i \in 1..n : i \in 1..(n - 1 + 1) /\ 1 + i - 1 = i
  BY <1>1
<1>5. \A i \in 1..n : SubSeq(t, 1, n)[i] = t[i]
  <2> TAKE i \in 1..n
  <2>1. PICK j : j = 1 + i - 1 /\ j = i
    BY <1>4
  <2> QED BY <1>3, <1>4, <2>1
<1> QED BY <1>1, <1>3, <1>5

\* A text that runs on after the document.
LEMMA ProseForm ==
  ASSUME NEW sent \in Seq(Plain)
  PROVE  LET t == Document(sent) \o <<"char">>
         IN Starts(t, sent) /\ t \in Seq(Plain) /\ t[1] = "open" /\ Len(t) = Len(sent) + 6 /\ SubSeq(t, 1, Len(sent) + 5) = Document(sent)
<1>1. PICK doc \in Seq(Plain), n \in Nat : doc = Document(sent) /\ n = Len(sent) /\ Len(doc) = n + 5 /\ doc[1] = "open"
  BY DocumentForm
<1>2. <<"char">> \in Seq(Plain) /\ Len(<<"char">>) = 1
  BY DEF Plain, Characters
<1>3. PICK t \in Seq(Plain) : t = doc \o <<"char">> /\ Joins(t, doc, <<"char">>)
  BY <1>2, Joined
<1>4. Len(t) = n + 6 /\ \A i \in 1..(n + 5) : t[i] = doc[i]
  BY <1>1, <1>2, <1>3 DEF Joins
<1>5. SubSeq(t, 1, n + 5) = doc
  <2>1. 1 \in 1..Len(doc) /\ n + 5 \in 1..Len(doc)
    BY <1>1
  <2>2. SubSeq(doc \o <<"char">>, 1, n + 5) = SubSeq(doc, 1, n + 5)
    BY <1>2, <2>1, SubSeqOfConcat1
  <2> QED BY <1>1, <1>3, <2>2, SubSeqFull
<1>6. t \in Seq(Characters)
  BY PlainIsCharacters
<1>7. Starts(t, sent)
  BY <1>1, <1>4, <1>6 DEF Starts
<1>8. t[1] = "open"
  <2>1. 1 \in 1..(n + 5)
    BY <1>1
  <2> QED BY <1>1, <1>4, <2>1
<1> QED BY <1>1, <1>3, <1>4, <1>5, <1>7, <1>8

LEMMA UnwrappedTyped ==
  ASSUME NEW sent \in Seq(Plain), NEW w
  PROVE  Unwrapped(sent, w) \in Seq(Characters)
<1>1. Document(sent) \in Seq(Plain) /\ Len(Document(sent)) > 0 /\ Document(sent)[1] = "open"
  <2>1. Document(sent) \in Seq(Plain) /\ Len(Document(sent)) = Len(sent) + 5 /\ Len(sent) \in Nat /\ Document(sent)[1] = "open"
    BY DocumentForm
  <2> QED BY <2>1
<1>2. Cut(sent) \in Seq(Plain) /\ Len(Cut(sent)) > 0 /\ Cut(sent)[1] = "open"
  <2>1. Cut(sent) \in Seq(Plain) /\ Len(Cut(sent)) \in 2..(Len(sent) + 2) /\ \A i \in 1..Len(Cut(sent)) : Cut(sent)[i] = Document(sent)[i]
    BY CutForm
  <2>2. 1 \in 1..Len(Cut(sent)) /\ Len(Cut(sent)) > 0
    BY <2>1
  <2> QED BY <1>1, <2>1, <2>2
<1>3. ASSUME NEW t \in Seq(Plain), Len(t) > 0, t[1] = "open" PROVE FirstBalancedObject(t) \in Seq(Characters)
  <2>1. PICK n \in 1..Len(t) : FirstBalancedObject(t) = SubSeq(t, 1, n)
    BY <1>3, HeadIsPiece
  <2>2. SubSeq(t, 1, n) \in Seq(Plain)
    BY HeadPiece
  <2> QED BY <2>1, <2>2, PlainIsCharacters
<1>4. FirstBalancedObject(<<"char">> \o (Document(sent) \o <<"char">>)) \in Seq(Characters)
  <2>1. PICK t \in Seq(Plain) : t = Document(sent) \o <<"char">> /\ t[1] = "open" /\ Len(t) = Len(sent) + 6
    BY ProseForm
  <2>2. t \in Seq(Characters) /\ Len(t) > 0 /\ Len(t) \in Nat
    <3>1. Len(sent) \in Nat
      OBVIOUS
    <3>2. t \in Seq(Characters)
      BY PlainIsCharacters
    <3>3. Len(t) > 0 /\ Len(t) \in Nat
      BY <2>1, <3>1
    <3> QED BY <3>2, <3>3
  <2>3. "char" \in Characters /\ "char" # "open"
    BY DEF Characters
  <2>4. FirstBalancedObject(<<"char">> \o t) = IF Scanned(t) = 0 THEN <<"char">> \o t ELSE SubSeq(t, 1, Scanned(t))
    BY <2>1, <2>2, <2>3, FoundAfterOne
  <2>5. <<"char">> \o t \in Seq(Characters)
    BY <2>2, <2>3, TailOfCons
  <2>6. Scanned(t) # 0 => SubSeq(t, 1, Scanned(t)) \in Seq(Characters)
    <3>1. Scanned(t) # 0 => Scanned(t) \in 1..Len(t)
      BY <2>2, FoundIsClosed
    <3> QED BY <2>2, <3>1, HeadPiece
  <2> QED BY <2>1, <2>4, <2>5, <2>6
<1> QED BY <1>1, <1>2, <1>3, <1>4, PlainIsCharacters DEF Unwrapped

\* A whole reply whose object is found gives the document back.
LEMMA WholeIsUnwrapped ==
  ASSUME meant.sent \in Seq(Plain), meant.wrapping \in {"bare", "fenced", "opened", "prose"}, ObjectIsFound,
         NEW text \in Seq(Plain), NEW pos \in [0..Len(text) -> Nat], Spelled(text, meant.sent, pos)
  PROVE  Unwrapped(meant.sent, meant.wrapping) = Document(meant.sent)
<1>1. PICK sent \in Seq(Plain), w \in {"bare", "fenced", "opened", "prose"} : sent = meant.sent /\ w = meant.wrapping
  OBVIOUS
<1>2. PICK doc \in Seq(Plain), n \in Nat : doc = Document(sent) /\ n = Len(sent) /\ Len(doc) = n + 5 /\ doc[1] = "open"
  BY DocumentForm
<1>3. doc \in Seq(Characters) /\ Len(doc) > 0 /\ Starts(doc, sent) /\ SubSeq(doc, 1, n + 5) = doc
  <2>1. doc \in Seq(Characters) /\ SubSeq(doc, 1, n + 5) = doc
    BY <1>2, SubSeqFull, PlainIsCharacters
  <2> QED BY <1>2, <2>1 DEF Starts
<1>4. FirstBalancedObject(doc) = IF Scanned(doc) = 0 THEN doc ELSE SubSeq(doc, 1, Scanned(doc))
  BY <1>2, <1>3, FoundAtHead
<1>5. \/ BareQuotes(sent) = {}
      \/ w \in {"bare", "opened"} /\ ~Uses(sent, "close")
      \/ w = "fenced"
      \/ w = "prose" /\ Cardinality(BareQuotes(sent)) % 2 = 0 /\ \A c \in {"open", "close", "slash"} : ~Uses(sent, c)
  BY <1>1, Zenon DEF ObjectIsFound
<1>6. CASE w = "fenced"
  BY <1>1, <1>2, <1>6 DEF Unwrapped
<1>7. CASE w \in {"bare", "opened"}
  <2>1. Scanned(doc) \in {0, n + 5}
    <3>1. CASE BareQuotes(sent) = {}
      BY <1>1, <1>2, <1>3, <3>1, UnquotedIsFound
    <3>2. CASE ~Uses(sent, "close")
      <4>1. Scanned(doc) = 0 \/ (Scanned(doc) \in 1..Len(doc) /\ doc[Scanned(doc)] = "close")
        BY <1>3, FoundIsClosed
      <4>2. ASSUME NEW k \in 1..(n + 4) PROVE doc[k] # "close"
        <5>1. CASE k \in {1, 2, n + 3, n + 4}
          BY <1>2, <5>1, DocumentForm
        <5>2. CASE k \notin {1, 2, n + 3, n + 4}
          <6>1. PICK i \in 1..n : i + 2 = k
            <7>1. k - 2 \in 1..n /\ (k - 2) + 2 = k
              BY <1>2, <5>2
            <7> QED BY <7>1
          <6>2. doc[k] = sent[i]
            BY <1>2, <6>1, DocumentForm
          <6> QED BY <1>2, <3>2, <6>2 DEF Uses
        <5> QED BY <5>1, <5>2
      <4>3. PICK k : k = Scanned(doc) /\ (k = 0 \/ (k \in 1..(n + 5) /\ doc[k] = "close"))
        BY <1>2, <4>1
      <4> QED BY <1>2, <4>2, <4>3
    <3> QED BY <1>5, <1>7, <3>1, <3>2
  <2>2. FirstBalancedObject(doc) = doc
    BY <1>3, <1>4, <2>1
  <2> QED BY <1>1, <1>2, <1>7, <2>2 DEF Unwrapped, Cuts
<1>8. CASE w = "prose"
  <2>1. PICK t \in Seq(Plain) : t = doc \o <<"char">> /\ Starts(t, sent) /\ t[1] = "open" /\ Len(t) = n + 6 /\ SubSeq(t, 1, n + 5) = doc
    BY <1>2, ProseForm
  <2>2. Scanned(t) = n + 5
    <3>1. CASE BareQuotes(sent) = {}
      BY <1>1, <1>2, <2>1, <3>1, UnquotedIsFound
    <3>2. CASE Cardinality(BareQuotes(sent)) % 2 = 0 /\ \A c \in {"open", "close", "slash"} : ~Uses(sent, c)
      BY <1>2, <2>1, <3>2, EvenIsFound
    <3> QED BY <1>5, <1>8, <3>1, <3>2
  <2>3. "char" \in Characters /\ "char" # "open" /\ t \in Seq(Characters) /\ Len(t) > 0
    BY <1>2, <2>1, PlainIsCharacters DEF Characters
  <2>4. FirstBalancedObject(<<"char">> \o t) = IF Scanned(t) = 0 THEN <<"char">> \o t ELSE SubSeq(t, 1, Scanned(t))
    BY <2>1, <2>3, FoundAfterOne
  <2>6. n + 5 # 0
    BY <1>2
  <2>5. FirstBalancedObject(<<"char">> \o t) = doc
    BY <2>1, <2>2, <2>4, <2>6, Zenon
  <2> QED BY <1>1, <1>2, <1>8, <2>1, <2>5 DEF Unwrapped
<1> QED BY <1>6, <1>7, <1>8

\* What is repaired of a reply that was cut off is the beginning of the document.
LEMMA CutIsBeginning ==
  ASSUME NEW sent \in Seq(Plain), NEW w \in Cuts
  PROVE  \E b \in Seq(Plain) : /\ Unwrapped(sent, w) = b /\ Len(b) \in 1..(Len(sent) + 2)
                               /\ \A i \in 1..Len(b) : b[i] = Document(sent)[i]
<1>1. PICK cut \in Seq(Plain), n \in Nat : /\ cut = Cut(sent) /\ n = Len(cut) /\ n \in 2..(Len(sent) + 2)
                                         /\ \A i \in 1..n : cut[i] = Document(sent)[i]
  <2>1. Len(Cut(sent)) \in Nat
    BY CutForm
  <2> QED BY <2>1, CutForm
<1>2. n > 0 /\ cut[1] = "open" /\ Len(sent) \in Nat
  <2>1. 1 \in 1..n /\ n > 0 /\ Len(sent) \in Nat
    BY <1>1
  <2>2. cut[1] = Document(sent)[1]
    BY <1>1, <2>1
  <2>3. Document(sent)[1] = "open"
    BY DocumentForm
  <2> QED BY <2>1, <2>2, <2>3
<1>3. PICK k \in 1..Len(cut) : FirstBalancedObject(cut) = SubSeq(cut, 1, k)
  BY <1>1, <1>2, HeadIsPiece
<1>4. PICK b \in Seq(Plain) : b = SubSeq(cut, 1, k) /\ Len(b) = k /\ \A i \in 1..k : b[i] = cut[i]
  BY HeadPiece
<1>5. k \in 1..(Len(sent) + 2) /\ \A i \in 1..k : i \in 1..n
  BY <1>1, <1>2
<1>6. Unwrapped(sent, w) = b
  <2>1. w \notin {"fenced", "prose"}
    BY DEF Cuts
  <2> QED BY <1>1, <1>3, <1>4, <2>1 DEF Unwrapped
<1> QED BY <1>1, <1>4, <1>5, <1>6

-----------------------------------------------------------------------------
(* What the reader makes of what the repair writes.                         *)

LEMMA ReadOne ==
  ASSUME NEW r \in Seq(Characters), NEW x \in Characters
  PROVE  r \o <<x>> \in Seq(Characters) /\ Read(r \o <<x>>) = ReadStep(Read(r), x)
<1>1. r \o <<x>> = Append(r, x)
  BY AppendIsConcat
<1>2. Append(r, x) \in Seq(Characters)
  BY AppendProperties
<1> QED BY <1>1, <1>2, ReadMore

LEMMA ReadTwo ==
  ASSUME NEW r \in Seq(Characters), NEW x \in Characters, NEW y \in Characters
  PROVE  r \o <<x, y>> \in Seq(Characters) /\ Read(r \o <<x, y>>) = ReadStep(ReadStep(Read(r), x), y)
<1>1. PICK p \in Seq(Characters) : p = r \o <<x>> /\ Read(p) = ReadStep(Read(r), x)
  BY ReadOne
<1>2. p \o <<y>> \in Seq(Characters) /\ Read(p \o <<y>>) = ReadStep(Read(p), y)
  BY ReadOne
<1>3. r \o <<x, y>> = p \o <<y>>
  <2>0. <<x>> \in Seq(Characters) /\ <<y>> \in Seq(Characters) /\ <<x, y>> \in Seq(Characters)
        /\ Len(<<x>>) = 1 /\ Len(<<y>>) = 1 /\ Len(<<x, y>>) = 2 /\ <<x>>[1] = x /\ <<y>>[1] = y /\ <<x, y>>[1] = x /\ <<x, y>>[2] = y
    OBVIOUS
  <2>1. <<x>> \in Seq(Characters) /\ <<y>> \in Seq(Characters) /\ <<x>> \o <<y>> = <<x, y>>
    <3>1. PICK u, v, xy \in Seq(Characters) : u = <<x>> /\ v = <<y>> /\ xy = <<x, y>> /\ Len(u) = 1 /\ Len(v) = 1 /\ Len(xy) = 2
                                            /\ u[1] = x /\ v[1] = y /\ xy[1] = x /\ xy[2] = y
      BY <2>0
    <3>2. PICK w \in Seq(Characters) : w = u \o v /\ Joins(w, u, v)
      BY Joined
    <3>3. Len(w) = 2 /\ w[1] = x /\ w[2] = y
      BY <3>1, <3>2 DEF Joins
    <3>4. w = xy
      BY <3>1, <3>3, SeqEqual
    <3> QED BY <2>0, <3>1, <3>2, <3>4
  <2>2. (r \o <<x>>) \o <<y>> = r \o (<<x>> \o <<y>>)
    BY <2>1, ConcatAssociative
  <2> QED BY <1>1, <2>1, <2>2
<1> QED BY <1>1, <1>2, <1>3

\* The reader of a document whose string reads `value` so far.
Reader(place, value) == [at |-> place, value |-> value]

LEMMA ReaderSteps ==
  ASSUME NEW v \in Seq(Characters)
  PROVE  /\ ReadStep(Reader("start", v), "open") = Reader("field", v)
         /\ ReadStep(Reader("field", v), "quote") = Reader("string", v)
         /\ \A c : c \notin {"quote", "slash", "newline"} => ReadStep(Reader("string", v), c) = Reader("string", Append(v, c))
         /\ ReadStep(ReadStep(Reader("string", v), "slash"), "quote") = Reader("string", Append(v, "quote"))
         /\ ReadStep(ReadStep(Reader("string", v), "slash"), "slash") = Reader("string", Append(v, "slash"))
         /\ ReadStep(ReadStep(Reader("string", v), "slash"), "esc") = Reader("string", Append(v, "newline"))
         /\ ReadStep(Reader("string", v), "quote") = Reader("after", v)
         /\ ReadStep(Reader("after", v), "newline") = Reader("last", v)
         /\ ReadStep(Reader("last", v), "close") = Reader("end", v)
<1>1. ReadStep(Reader("string", v), "slash") = Reader("escape", v)
  BY DEF ReadStep, Reader, Blank
<1>2. /\ ReadStep(Reader("escape", v), "quote") = Reader("string", Append(v, "quote"))
      /\ ReadStep(Reader("escape", v), "slash") = Reader("string", Append(v, "slash"))
      /\ ReadStep(Reader("escape", v), "esc") = Reader("string", Append(v, "newline"))
  BY DEF ReadStep, Reader, Blank
<1>3. /\ ReadStep(Reader("start", v), "open") = Reader("field", v)
      /\ ReadStep(Reader("field", v), "quote") = Reader("string", v)
  BY DEF ReadStep, Reader, Blank
<1>4. \A c : c \notin {"quote", "slash", "newline"} => ReadStep(Reader("string", v), c) = Reader("string", Append(v, c))
  BY DEF ReadStep, Reader, Blank
<1>5. /\ ReadStep(Reader("string", v), "quote") = Reader("after", v)
      /\ ReadStep(Reader("after", v), "newline") = Reader("last", v)
      /\ ReadStep(Reader("last", v), "close") = Reader("end", v)
  BY DEF ReadStep, Reader, Blank
<1> QED BY <1>1, <1>2, <1>3, <1>4, <1>5

\* One more character of the text.
LEMMA TextGrows ==
  ASSUME NEW text \in Seq(Plain), NEW k \in Nat, NEW j \in 1..Len(text), j = k + 1
  PROVE  SubSeq(text, 1, k) \in Seq(Characters) /\ Append(SubSeq(text, 1, k), text[j]) = SubSeq(text, 1, j)
<1>1. k = j - 1 /\ k <= Len(text) /\ Len(text) \in Nat
  OBVIOUS
<1>2. SubSeq(text, 1, k) \in Seq(Plain)
  BY <1>1, PieceTyped
<1>3. SubSeq(text, 1, j) = SubSeq(text, 1, k) \o <<text[j]>>
  <2>1. 1 \in 1..Len(text) /\ j \in 1..Len(text)
    BY <1>1
  <2> QED BY <1>1, <2>1, SubSeqRecursiveSecond
<1>4. Append(SubSeq(text, 1, k), text[j]) = SubSeq(text, 1, k) \o <<text[j]>>
  BY <1>2, AppendIsConcat
<1> QED BY <1>2, <1>3, <1>4, PlainIsCharacters

-----------------------------------------------------------------------------
(* The character that decides whether a quote ends the string.              *)

AllBlank(s, i) == \A l \in (i + 1)..Len(s) : s[l] \in Blank
FirstAhead(s, i, m) == m \in (i + 1)..Len(s) /\ s[m] \notin Blank /\ \A l \in (i + 1)..(m - 1) : s[l] \in Blank
Ahead(rest) == {j \in 1..Len(rest) : rest[j] \notin Blank}
NextOf(rest) == IF Ahead(rest) # {} THEN Min(Ahead(rest)) ELSE 0

LEMMA NextForm ==
  ASSUME NEW s \in Seq(Characters), NEW i \in 1..Len(s), NEW rest, rest = SubSeq(s, i + 1, Len(s))
  PROVE  \/ NextOf(rest) = 0 /\ AllBlank(s, i)
         \/ NextOf(rest) \in Nat /\ NextOf(rest) > 0 /\ \E m : FirstAhead(s, i, m) /\ rest[NextOf(rest)] = s[m]
<1>1. PICK n \in Nat : n = Len(s) /\ i \in Nat /\ i <= n
  OBVIOUS
<1>2. Len(rest) = n - i /\ \A j \in 1..(n - i) : rest[j] = s[i + j]
  <2>1. \A l \in (i + 1)..n : s[l] \in Characters
    <3> TAKE l \in (i + 1)..n
    <3>1. l \in 1..Len(s)
      BY <1>1
    <3> QED BY <3>1
  <2>2. /\ Len(rest) = IF i + 1 <= n THEN n - (i + 1) + 1 ELSE 0
        /\ \A j \in 1..(n - (i + 1) + 1) : rest[j] = s[(i + 1) + j - 1]
    BY <1>1, <2>1, SubSeqProperties
  <2>3. n - (i + 1) + 1 = n - i /\ Len(rest) = n - i
    BY <1>1, <2>2
  <2>4. ASSUME NEW j \in 1..(n - i) PROVE rest[j] = s[i + j]
    <3>1. PICK l : l = (i + 1) + j - 1 /\ l = i + j
      BY <1>1
    <3> QED BY <2>2, <2>3, <3>1
  <2> QED BY <2>3, <2>4
<1>3. \A l \in (i + 1)..n : \E j \in 1..(n - i) : l = i + j
  <2> TAKE l \in (i + 1)..n
  <2>1. l - i \in 1..(n - i) /\ l = i + (l - i)
    BY <1>1
  <2> QED BY <2>1
<1> DEFINE I == Ahead(rest)
<1>4. I \in SUBSET Nat /\ \A j \in 1..(n - i) : j \in I <=> s[i + j] \notin Blank
  BY <1>1, <1>2 DEF Ahead
<1>5. CASE I = {}
  <2>1. AllBlank(s, i)
    BY <1>1, <1>3, <1>4, <1>5 DEF AllBlank
  <2> QED BY <1>5, <2>1 DEF NextOf
<1>6. CASE I # {}
  <2> HIDE DEF I
  <2>1. PICK j : j = Min(I) /\ j \in I /\ \A l \in I : j <= l
    BY <1>4, <1>6, FirstIsLeast
  <2>2. j \in 1..(n - i)
    BY <1>2, <2>1 DEF I, Ahead
  <2>3. PICK m : m = i + j /\ m \in (i + 1)..n /\ s[m] \notin Blank /\ rest[j] = s[m]
    BY <1>1, <1>2, <1>4, <2>1, <2>2
  <2>4. ASSUME NEW l \in (i + 1)..(m - 1) PROVE s[l] \in Blank
    <3>0. l \in (i + 1)..n
      BY <1>1, <2>3
    <3>1. PICK h \in 1..(n - i) : l = i + h
      BY <1>3, <3>0
    <3>2. ~(j <= h)
      BY <1>1, <2>2, <2>3, <3>1
    <3> QED BY <1>4, <2>1, <3>1, <3>2
  <2>5. FirstAhead(s, i, m)
    BY <1>1, <2>3, <2>4 DEF FirstAhead
  <2>6. NextOf(rest) = j /\ j \in Nat /\ j > 0
    BY <1>6, <2>1, <2>2 DEF NextOf, I
  <2> QED BY <2>3, <2>5, <2>6
<1> QED BY <1>5, <1>6

LEMMA TerminatesForm ==
  ASSUME body \in Seq(Characters), at \in 1..Len(body)
  PROVE  /\ Terminates => AllBlank(body, at) \/ \E m : FirstAhead(body, at, m) /\ body[m] \in Structural
         /\ ~Terminates => \E m : FirstAhead(body, at, m) /\ body[m] \notin Structural
<1>1. PICK rest : rest = SubSeq(body, at + 1, Len(body))
  OBVIOUS
<1>2. Terminates <=> NextOf(rest) = 0 \/ rest[NextOf(rest)] \in Structural
  BY <1>1 DEF Terminates, SelectInSeq, NextOf, Ahead
<1>3. \/ NextOf(rest) = 0 /\ AllBlank(body, at)
      \/ NextOf(rest) \in Nat /\ NextOf(rest) > 0 /\ \E m : FirstAhead(body, at, m) /\ rest[NextOf(rest)] = body[m]
  BY <1>1, NextForm
<1>4. NextOf(rest) \in Nat /\ NextOf(rest) > 0 => NextOf(rest) # 0
  OBVIOUS
<1> QED BY <1>2, <1>3, <1>4

LEMMA UnambiguousForm ==
  ASSUME NEW sent \in Seq(Plain), ~Ambiguous(sent), NEW i \in BareQuotes(sent)
  PROVE  AllBlank(sent, i) \/ \E m : FirstAhead(sent, i, m) /\ sent[m] \notin Structural
<1>1. PICK rest : rest = SubSeq(sent, i + 1, Len(sent))
  OBVIOUS
<1>2. ~(NextOf(rest) > 0 /\ rest[NextOf(rest)] \in Structural)
  BY <1>1 DEF Ambiguous, SelectInSeq, NextOf, Ahead
<1>3. sent \in Seq(Characters) /\ i \in 1..Len(sent)
  BY PlainIsCharacters DEF BareQuotes
<1>4. \/ NextOf(rest) = 0 /\ AllBlank(sent, i)
      \/ NextOf(rest) \in Nat /\ NextOf(rest) > 0 /\ \E m : FirstAhead(sent, i, m) /\ rest[NextOf(rest)] = sent[m]
  BY <1>1, <1>3, NextForm
<1> QED BY <1>2, <1>4

-----------------------------------------------------------------------------
(* Where the repair stands.                                                 *)

Messages == [text : Seq(Plain), sent : Seq(Plain), wrapping : {"bare", "fenced", "opened", "prose"} \cup Cuts]

\* The text under repair is the document, or the beginning that was not cut off.
BodyIsBeginning ==
  /\ body \in Seq(Plain) /\ Len(body) \in 1..(Len(meant.sent) + 5)
  /\ \A i \in 1..Len(body) : body[i] = Document(meant.sent)[i]
  /\ IF meant.wrapping \in Cuts THEN Len(body) <= Len(meant.sent) + 2 ELSE Len(body) = Len(meant.sent) + 5

BeforeText ==
  /\ ~inString
  /\ \/ at = 1 /\ Read(repaired) = Reader("start", <<>>)
     \/ at = 2 /\ Read(repaired) = Reader("field", <<>>)

InText(pos) == inString /\ \E k \in 0..Len(meant.text) : at = pos[k] + 3 /\ Read(repaired) = Reader("string", SubSeq(meant.text, 1, k))

AfterText ==
  /\ ~inString /\ meant.wrapping \notin Cuts
  /\ \/ at = Len(meant.sent) + 4 /\ Read(repaired) = Reader("after", meant.text)
     \/ at = Len(meant.sent) + 5 /\ Read(repaired) = Reader("last", meant.text)
     \/ at = Len(meant.sent) + 6 /\ Read(repaired) = Reader("end", meant.text)

\* The end of the reply stood in an escape, or after a bare quote and blanks.
CutShort ==
  /\ meant.wrapping \in Cuts /\ Read(repaired).at # "end"
  /\ IF inString THEN at > Len(body) ELSE \A l \in at..Len(body) : body[l] \in Blank

Standing(pos) == BeforeText \/ InText(pos) \/ AfterText \/ CutShort

RepairTyped ==
  /\ JsonTypeOK /\ meant \in Messages
  /\ \E pos \in [0..Len(meant.text) -> Nat] : Spelled(meant.text, meant.sent, pos)
  /\ phase = "reply" => body = <<>> /\ at = 1 /\ ~inString /\ repaired = <<>>
  /\ phase = "done" => at > Len(body)

Readable == ~Ambiguous(meant.sent) /\ (meant.wrapping \in Cuts \/ ObjectIsFound)

RepairInv ==
  /\ RepairTyped
  /\ phase # "reply" /\ Readable =>
       /\ BodyIsBeginning
       /\ \A pos \in [0..Len(meant.text) -> Nat] : Spelled(meant.text, meant.sent, pos) => Standing(pos)

LEMMA EmitOne ==
  ASSUME JsonTypeOK, NEW x \in Characters, NEW n, Emit(<<x>>, n)
  PROVE  /\ repaired' \in Seq(Characters) /\ Read(repaired') = ReadStep(Read(repaired), x) /\ at' = at + n
         /\ meant' = meant /\ phase' = phase /\ body' = body
BY ReadOne DEF Emit, JsonTypeOK

LEMMA EmitTwo ==
  ASSUME JsonTypeOK, NEW x \in Characters, NEW y \in Characters, NEW n, Emit(<<x, y>>, n)
  PROVE  /\ repaired' \in Seq(Characters) /\ Read(repaired') = ReadStep(ReadStep(Read(repaired), x), y) /\ at' = at + n
         /\ meant' = meant /\ phase' = phase /\ body' = body
BY ReadTwo DEF Emit, JsonTypeOK

\* Every action writes characters and stays in the text.
LEMMA TypedStep ==
  ASSUME RepairTyped, JsonNext \/ UNCHANGED jsonVars
  PROVE  RepairTyped'
<1>1. /\ JsonTypeOK /\ meant.text \in Seq(Plain) /\ meant.sent \in Seq(Plain)
      /\ meant.wrapping \in {"bare", "fenced", "opened", "prose", "cut", "opened_cut"} /\ meant \in Messages
  BY DEF RepairTyped, Messages, Cuts
<1>2. Len(body) \in Nat /\ at \in Nat /\ at >= 1 /\ at <= Len(body) + 1 /\ body \in Seq(Characters) /\ repaired \in Seq(Characters)
  BY <1>1 DEF JsonTypeOK
<1>3. "slash" \in Characters /\ "quote" \in Characters /\ "esc" \in Characters
  BY DEF Characters
<1>4. CASE Unwrap
  <2>1. body' \in Seq(Characters)
    BY <1>1, <1>4, UnwrapForm, UnwrappedTyped
  <2>2. phase = "reply" /\ phase' = "repair" /\ at' = 1 /\ inString' = inString /\ repaired' = repaired /\ meant' = meant
    BY <1>4 DEF Unwrap, RepairTyped
  <2>3. at' \in 1..(Len(body') + 1)
    <3>1. Len(body') \in Nat
      BY <2>1
    <3> QED BY <2>2, <3>1
  <2> QED BY <1>1, <2>1, <2>2, <2>3 DEF RepairTyped, JsonTypeOK
<1>5. ASSUME More, NEW n \in {1, 2}, at + n <= Len(body) + 1, repaired' \in Seq(Characters), at' = at + n,
             meant' = meant, phase' = phase, body' = body, inString' \in BOOLEAN
      PROVE  RepairTyped'
  <2>1. at' \in 1..(Len(body') + 1)
    BY <1>2, <1>5
  <2>2. phase' = "repair"
    BY <1>5 DEF More
  <2> QED BY <1>1, <1>5, <2>1, <2>2 DEF RepairTyped, JsonTypeOK
<1>6. CASE CopyOutside
  <2>1. More /\ at + 1 <= Len(body) + 1 /\ Here \in Characters /\ inString' \in BOOLEAN
    BY <1>2, <1>6 DEF CopyOutside, More, Here
  <2> QED BY <1>1, <1>5, <1>6, <2>1, EmitOne DEF CopyOutside
<1>7. CASE Escape
  <2>1. More /\ Here = "slash" /\ inString' \in BOOLEAN
    BY <1>1, <1>7 DEF Escape, JsonTypeOK
  <2>2. CASE at = Len(body)
    <3>1. Emit(<<"slash", "slash">>, 1)
      BY <1>7, <2>2 DEF Escape
    <3> QED BY <1>1, <1>2, <1>3, <1>5, <2>1, <2>2, <3>1, EmitTwo
  <2>3. CASE at # Len(body)
    <3>1. at + 1 \in 1..Len(body) /\ at + 2 <= Len(body) + 1
      BY <1>2, <2>1, <2>3 DEF More
    <3>2. PICK c \in Characters : c = body[at + 1]
      BY <1>2, <3>1
    <3>3. Emit(<<"slash", c>>, 2) \/ Emit(<<c>>, 2)
      BY <1>7, <2>1, <2>3, <3>2 DEF Escape
    <3>4. CASE Emit(<<"slash", c>>, 2)
      BY <1>1, <1>3, <1>5, <2>1, <3>1, <3>4, EmitTwo
    <3>5. CASE Emit(<<c>>, 2)
      BY <1>1, <1>5, <2>1, <3>1, <3>5, EmitOne
    <3> QED BY <3>3, <3>4, <3>5
  <2> QED BY <2>2, <2>3
<1>8. CASE Quote
  <2>1. More /\ at + 1 <= Len(body) + 1 /\ inString' \in BOOLEAN
    BY <1>2, <1>8 DEF Quote, More
  <2>2. Emit(<<"quote">>, 1) \/ Emit(<<"slash", "quote">>, 1)
    BY <1>8 DEF Quote
  <2> QED BY <1>1, <1>3, <1>5, <2>1, <2>2, EmitOne, EmitTwo
<1>9. CASE EscapeControl
  <2>1. More /\ at + 1 <= Len(body) + 1 /\ inString' \in BOOLEAN /\ Emit(<<"slash", "esc">>, 1)
    BY <1>1, <1>2, <1>9 DEF EscapeControl, More, JsonTypeOK
  <2> QED BY <1>1, <1>3, <1>5, <2>1, EmitTwo
<1>10. CASE CopyInside
  <2>1. More /\ at + 1 <= Len(body) + 1 /\ Here \in Characters /\ inString' \in BOOLEAN /\ Emit(<<Here>>, 1)
    BY <1>1, <1>2, <1>10 DEF CopyInside, More, Here, JsonTypeOK
  <2> QED BY <1>1, <1>5, <2>1, EmitOne
<1>11. CASE Finish
  BY <1>2, <1>11 DEF Finish, RepairTyped, JsonTypeOK
<1>12. CASE UNCHANGED jsonVars
  BY <1>12 DEF jsonVars, RepairTyped, JsonTypeOK
<1> QED BY <1>4, <1>6, <1>7, <1>8, <1>9, <1>10, <1>11, <1>12 DEF JsonNext

\* What the body holds of the document.
LEMMA BodyForm ==
  ASSUME meant \in Messages, BodyIsBeginning
  PROVE  /\ meant.sent \in Seq(Plain) /\ Len(meant.sent) \in Nat /\ Len(body) \in Nat /\ body \in Seq(Characters)
         /\ \A i \in 1..Len(body) : /\ i = 1 => body[i] = "open"
                                    /\ i = 2 => body[i] = "quote"
                                    /\ i = Len(meant.sent) + 3 => body[i] = "quote"
                                    /\ i = Len(meant.sent) + 4 => body[i] = "newline"
                                    /\ i = Len(meant.sent) + 5 => body[i] = "close"
         /\ \A i \in 1..Len(meant.sent) : i + 2 \in 1..Len(body) => body[i + 2] = meant.sent[i]
<1>1. meant.sent \in Seq(Plain) /\ Len(meant.sent) \in Nat /\ body \in Seq(Plain) /\ Len(body) \in Nat
  BY DEF Messages, BodyIsBeginning
<1>2. \A i \in 1..Len(body) : body[i] = Document(meant.sent)[i]
  BY DEF BodyIsBeginning
<1>3. body \in Seq(Characters)
  BY <1>1, PlainIsCharacters
<1>4. PICK doc : doc = Document(meant.sent)
  OBVIOUS
<1>5. /\ doc[1] = "open" /\ doc[2] = "quote" /\ doc[Len(meant.sent) + 3] = "quote" /\ doc[Len(meant.sent) + 4] = "newline"
      /\ doc[Len(meant.sent) + 5] = "close" /\ \A i \in 1..Len(meant.sent) : doc[i + 2] = meant.sent[i]
  BY <1>1, <1>4, DocumentForm
<1>6. \A i \in 1..Len(body) : body[i] = doc[i]
  BY <1>2, <1>4
<1>7. \A i \in 1..Len(body) : /\ i = 1 => body[i] = "open"
                              /\ i = 2 => body[i] = "quote"
                              /\ i = Len(meant.sent) + 3 => body[i] = "quote"
                              /\ i = Len(meant.sent) + 4 => body[i] = "newline"
                              /\ i = Len(meant.sent) + 5 => body[i] = "close"
  BY <1>5, <1>6
<1>8. \A i \in 1..Len(meant.sent) : i + 2 \in 1..Len(body) => body[i + 2] = meant.sent[i]
  BY <1>5, <1>6
<1> QED BY <1>1, <1>3, <1>7, <1>8

\* A bare quote ends the string only where the reply was cut off behind it.
LEMMA BareQuoteEnds ==
  ASSUME meant \in Messages, BodyIsBeginning, ~Ambiguous(meant.sent), NEW i \in BareQuotes(meant.sent),
         at = i + 2, at \in 1..Len(body), Terminates
  PROVE  meant.wrapping \in Cuts /\ AllBlank(body, at)
<1>1. PICK sent \in Seq(Plain), L \in Nat, n \in Nat : sent = meant.sent /\ L = Len(sent) /\ n = Len(body) /\ i \in 1..L /\ i \in Nat
  BY BodyForm DEF BareQuotes
<1>2. \A l \in 1..L : l + 2 \in 1..n => body[l + 2] = sent[l]
  BY <1>1, BodyForm
<1>3. meant.wrapping \notin Cuts => n = L + 5 /\ L + 3 \in (at + 1)..n /\ body[L + 3] = "quote"
  <2>1. meant.wrapping \notin Cuts => n = L + 5
    BY <1>1 DEF BodyIsBeginning
  <2>2. n = L + 5 => L + 3 \in 1..n /\ L + 3 \in (at + 1)..n
    BY <1>1
  <2>3. L + 3 \in 1..n => body[L + 3] = "quote"
    BY <1>1, BodyForm
  <2> QED BY <2>1, <2>2, <2>3
<1>4. meant.wrapping \in Cuts => n <= L + 2
  BY <1>1 DEF BodyIsBeginning
<1>5. AllBlank(body, at) \/ \E m : FirstAhead(body, at, m) /\ body[m] \in Structural
  BY BodyForm, TerminatesForm
<1>6. CASE AllBlank(body, at)
  <2>1. meant.wrapping \notin Cuts => "quote" \in Blank
    BY <1>1, <1>3, <1>6 DEF AllBlank
  <2> QED BY <1>6, <2>1 DEF Blank
<1>7. ASSUME NEW m, FirstAhead(body, at, m), body[m] \in Structural PROVE FALSE
  <2>1. m \in (at + 1)..n /\ body[m] \notin Blank /\ (\A l \in (at + 1)..(m - 1) : body[l] \in Blank) /\ m \in Int
    BY <1>1, <1>7 DEF FirstAhead
  <2>2. m <= L + 2
    <3>1. CASE meant.wrapping \in Cuts
      BY <1>1, <1>4, <2>1, <3>1
    <3>2. CASE meant.wrapping \notin Cuts
      <4>1. m # L + 3
        BY <1>3, <1>7, <3>2 DEF Structural
      <4>2. ~(m > L + 3)
        <5>1. m > L + 3 => L + 3 \in (at + 1)..(m - 1)
          BY <1>1, <1>3, <2>1, <3>2
        <5>2. m > L + 3 => "quote" \in Blank
          BY <1>3, <2>1, <3>2, <5>1
        <5> QED BY <5>2 DEF Blank
      <4> QED BY <1>1, <2>1, <4>1, <4>2
    <3> QED BY <3>1, <3>2
  <2>3. PICK p \in (i + 1)..L : p + 2 = m
    <3>1. m - 2 \in (i + 1)..L /\ (m - 2) + 2 = m
      BY <1>1, <2>1, <2>2
    <3> QED BY <3>1
  <2>4. sent[p] = body[m]
    <3>1. p \in 1..L /\ p + 2 \in 1..n
      BY <1>1, <2>1, <2>3
    <3> QED BY <1>2, <2>3, <3>1
  <2>5. AllBlank(sent, i) \/ \E q : FirstAhead(sent, i, q) /\ sent[q] \notin Structural
    BY <1>1, UnambiguousForm
  <2>6. ~AllBlank(sent, i)
    BY <1>1, <2>1, <2>3, <2>4 DEF AllBlank
  <2>7. PICK q : FirstAhead(sent, i, q) /\ sent[q] \notin Structural
    BY <2>5, <2>6
  <2>8. q \in (i + 1)..L /\ sent[q] \notin Blank /\ (\A l \in (i + 1)..(q - 1) : sent[l] \in Blank) /\ q \in Int
    BY <1>1, <2>7 DEF FirstAhead
  <2>9. ~(p < q)
    <3>1. p < q => p \in (i + 1)..(q - 1)
      BY <1>1, <2>3, <2>8
    <3> QED BY <2>1, <2>4, <2>8, <3>1
  <2>10. ~(q < p)
    <3>1. PICK l : l = q + 2
      OBVIOUS
    <3>2. q < p => l \in (at + 1)..(m - 1) /\ q \in 1..L /\ l \in 1..n
      <4>1. q \in Int /\ p \in Int /\ i \in Int /\ L \in Int /\ n \in Int /\ m \in Int
        BY <1>1, <2>1, <2>3, <2>8
      <4>2. q \in 1..L /\ q > i
        BY <1>1, <2>8, <4>1
      <4>3. q < p => l \in 1..n
        <5>1. m <= n /\ p + 2 = m
          BY <1>1, <2>1, <2>3
        <5> QED BY <3>1, <4>1, <4>2, <5>1
      <4>4. q < p => l \in (at + 1)..(m - 1)
        BY <1>1, <2>1, <2>3, <3>1, <4>1, <4>2
      <4> QED BY <4>2, <4>3, <4>4
    <3>3. q < p => body[l] = sent[q] /\ body[l] \in Blank
      BY <1>2, <2>1, <3>1, <3>2
    <3> QED BY <2>8, <3>3
  <2>11. p = q
    BY <1>1, <2>3, <2>8, <2>9, <2>10
  <2> QED BY <1>7, <2>4, <2>7, <2>11
<1> QED BY <1>5, <1>6, <1>7

\* The quote that ends the text of a whole document ends its string.
LEMMA ClosingQuoteEnds ==
  ASSUME meant \in Messages, BodyIsBeginning, meant.wrapping \notin Cuts, at = Len(meant.sent) + 3
  PROVE  Terminates
<1>1. PICK L \in Nat, n \in Nat : L = Len(meant.sent) /\ n = Len(body) /\ n = L + 5
  BY BodyForm DEF BodyIsBeginning
<1>2. body \in Seq(Characters) /\ at \in 1..Len(body)
  BY <1>1, BodyForm
<1>3. SUFFICES ASSUME NEW m, FirstAhead(body, at, m), body[m] \notin Structural PROVE FALSE
  BY <1>2, TerminatesForm
<1>4. m \in (L + 4)..(L + 5) /\ body[m] \notin Blank
  BY <1>1, <1>3 DEF FirstAhead
<1>5. m = L + 4 \/ m = L + 5
  BY <1>1, <1>4
<1>6. m \in 1..Len(body)
  BY <1>1, <1>4
<1>7. (m = L + 4 => body[m] = "newline") /\ (m = L + 5 => body[m] = "close")
  BY <1>1, <1>6, BodyForm
<1> QED BY <1>3, <1>4, <1>5, <1>7 DEF Blank, Structural

LEMMA UnwrapStands ==
  ASSUME RepairInv, Unwrap, Readable
  PROVE  BodyIsBeginning' /\ BeforeText'
<1>1. /\ meant \in Messages /\ meant.text \in Seq(Plain) /\ meant.sent \in Seq(Plain)
      /\ meant.wrapping \in {"bare", "fenced", "opened", "prose", "cut", "opened_cut"}
  BY DEF RepairInv, RepairTyped, Messages, Cuts
<1>2. phase = "reply" /\ at' = 1 /\ ~inString' /\ repaired' = <<>> /\ meant' = meant
  BY DEF Unwrap, RepairInv, RepairTyped
<1>3. BeforeText'
  <2>1. Read(<<>>) = Reader("start", <<>>)
    BY ReadNothing DEF Fresh, Reader
  <2>2. Read(repaired') = Reader("start", <<>>)
    BY <1>2, <2>1
  <2>3. (Read(repaired))' = Read(repaired')
    OBVIOUS
  <2>4. (Read(repaired) = Reader("start", <<>>))'
    BY <2>2
  <2>5. (~inString)' /\ (at = 1)'
    BY <1>2
  <2> QED BY <2>4, <2>5, Zenon DEF BeforeText
<1>4. body' = Unwrapped(meant.sent, meant.wrapping)
  BY <1>1, UnwrapForm
<1>5. CASE meant.wrapping \in Cuts
  <2>1. PICK b \in Seq(Plain) : /\ Unwrapped(meant.sent, meant.wrapping) = b /\ Len(b) \in 1..(Len(meant.sent) + 2)
                               /\ \A i \in 1..Len(b) : b[i] = Document(meant.sent)[i]
    BY <1>1, <1>5, CutIsBeginning
  <2>2. Len(b) \in 1..(Len(meant.sent) + 5) /\ Len(b) <= Len(meant.sent) + 2
    BY <1>1, <2>1
  <2> QED BY <1>2, <1>3, <1>4, <1>5, <2>1, <2>2 DEF BodyIsBeginning
<1>6. CASE meant.wrapping \notin Cuts
  <2>1. PICK pos \in [0..Len(meant.text) -> Nat] : Spelled(meant.text, meant.sent, pos)
    BY DEF RepairInv, RepairTyped
  <2>2. meant.wrapping \in {"bare", "fenced", "opened", "prose"} /\ ObjectIsFound
    BY <1>1, <1>6 DEF Readable, Cuts
  <2>3. body' = Document(meant.sent)
    BY <1>1, <1>4, <2>1, <2>2, WholeIsUnwrapped
  <2>4. Document(meant.sent) \in Seq(Plain) /\ Len(Document(meant.sent)) = Len(meant.sent) + 5 /\ Len(meant.sent) \in Nat
    BY <1>1, DocumentForm
  <2> QED BY <1>2, <1>3, <1>6, <2>3, <2>4 DEF BodyIsBeginning
<1> QED BY <1>5, <1>6

\* The repair before the string, and in what follows it.
LEMMA CopyStands ==
  ASSUME RepairTyped, BodyIsBeginning, NEW pos \in [0..Len(meant.text) -> Nat], Spelled(meant.text, meant.sent, pos),
         BeforeText \/ AfterText \/ (CutShort /\ ~inString), CopyOutside
  PROVE  Standing(pos)'
<1>1. /\ JsonTypeOK /\ meant \in Messages /\ meant.text \in Seq(Plain) /\ Len(meant.text) \in Nat
      /\ at \in 1..Len(body) /\ ~inString /\ Len(body) \in Nat /\ Here \in Characters
  BY DEF RepairTyped, Messages, CopyOutside, More, JsonTypeOK, Here
<1>2. /\ repaired' \in Seq(Characters) /\ Read(repaired') = ReadStep(Read(repaired), Here) /\ at' = at + 1
      /\ meant' = meant /\ phase' = phase /\ body' = body /\ (inString' <=> Here = "quote")
  BY <1>1, EmitOne DEF CopyOutside
<1>3. /\ Len(meant.sent) \in Nat
      /\ at = 1 => Here = "open"
      /\ at = 2 => Here = "quote"
      /\ at = Len(meant.sent) + 4 => Here = "newline"
      /\ at = Len(meant.sent) + 5 => Here = "close"
  BY <1>1, BodyForm DEF Here
<1>4. <<>> \in Seq(Characters) /\ meant.text \in Seq(Characters)
  BY <1>1, PlainIsCharacters
<1>5. CASE at = 1 /\ Read(repaired) = Reader("start", <<>>)
  <2>0. ReadStep(Reader("start", <<>>), "open") = Reader("field", <<>>)
    BY <1>4, ReaderSteps
  <2>1. Read(repaired') = Reader("field", <<>>) /\ ~inString' /\ at' = 2
    BY <1>2, <1>3, <1>5, <2>0
  <2> QED BY <2>1 DEF Standing, BeforeText
<1>6. CASE at = 2 /\ Read(repaired) = Reader("field", <<>>)
  <2>0. ReadStep(Reader("field", <<>>), "quote") = Reader("string", <<>>)
    BY <1>4, ReaderSteps
  <2>1. Read(repaired') = Reader("string", <<>>) /\ inString' /\ at' = 3
    BY <1>2, <1>3, <1>6, <2>0
  <2>2. SubSeq(meant.text, 1, 0) = <<>> /\ 0 \in 0..Len(meant.text) /\ pos[0] + 3 = 3
    BY <1>1, SubSeqEmpty DEF Spelled
  <2>3. InText(pos)'
    BY <1>2, <2>1, <2>2 DEF InText
  <2> QED BY <2>3 DEF Standing
<1>7. CASE AfterText
  <2>1. CASE at = Len(meant.sent) + 4 /\ Read(repaired) = Reader("after", meant.text)
    <3>1. Read(repaired') = Reader("last", meant.text) /\ ~inString' /\ at' = Len(meant.sent) + 5
      BY <1>2, <1>3, <1>4, <2>1, ReaderSteps
    <3> QED BY <1>2, <1>7, <3>1 DEF Standing, AfterText
  <2>2. CASE at = Len(meant.sent) + 5 /\ Read(repaired) = Reader("last", meant.text)
    <3>1. Read(repaired') = Reader("end", meant.text) /\ ~inString' /\ at' = Len(meant.sent) + 6
      BY <1>2, <1>3, <1>4, <2>2, ReaderSteps
    <3> QED BY <1>2, <1>7, <3>1 DEF Standing, AfterText
  <2>3. CASE at = Len(meant.sent) + 6
    <3>1. Len(body) = Len(meant.sent) + 5
      BY <1>7 DEF AfterText, BodyIsBeginning
    <3> QED BY <1>1, <1>3, <2>3, <3>1
  <2> QED BY <1>7, <2>1, <2>2, <2>3 DEF AfterText
<1>8. CASE CutShort
  <2>1. Here = "newline"
    BY <1>1, <1>8 DEF CutShort, Blank, Here
  <2>2. PICK r \in Readers : r = Read(repaired)
    BY <1>1, ReadMore DEF JsonTypeOK
  <2>3. ReadStep(r, "newline").at # "end"
    BY DEF ReadStep, Blank, Readers
  <2>4. \A l \in (at + 1)..Len(body) : body[l] \in Blank
    <3> TAKE l \in (at + 1)..Len(body)
    <3>1. l \in at..Len(body)
      BY <1>1
    <3> QED BY <1>1, <1>8, <3>1 DEF CutShort
  <2>5. ~inString' /\ Read(repaired').at # "end" /\ \A l \in at'..Len(body') : body'[l] \in Blank
    BY <1>2, <2>1, <2>2, <2>3, <2>4
  <2>6. CutShort'
    BY <1>2, <1>8, <2>5 DEF CutShort
  <2> QED BY <2>6 DEF Standing
<1> QED BY <1>1, <1>5, <1>6, <1>7, <1>8 DEF BeforeText

\* The repair in the string takes the characters of the text one by one.
LEMMA StringStands ==
  ASSUME RepairTyped, BodyIsBeginning, ~Ambiguous(meant.sent), NEW pos \in [0..Len(meant.text) -> Nat], Spelled(meant.text, meant.sent, pos),
         InText(pos), Escape \/ Quote \/ EscapeControl \/ CopyInside
  PROVE  Standing(pos)'
<1>1. /\ JsonTypeOK /\ meant \in Messages /\ meant.text \in Seq(Plain) /\ meant.sent \in Seq(Plain)
      /\ at \in 1..Len(body) /\ inString /\ Len(body) \in Nat
  BY DEF RepairTyped, Messages, Escape, Quote, EscapeControl, CopyInside, More, JsonTypeOK
<1>2. PICK text \in Seq(Plain), sent \in Seq(Plain), T \in Nat, L \in Nat, n \in Nat :
        text = meant.text /\ sent = meant.sent /\ T = Len(text) /\ L = Len(sent) /\ n = Len(body)
  <2>1. PICK text \in Seq(Plain), sent \in Seq(Plain) : text = meant.text /\ sent = meant.sent
    BY <1>1
  <2>2. Len(text) \in Nat /\ Len(sent) \in Nat
    BY LenProperties
  <2> QED BY <1>1, <2>1, <2>2
<1>3. PICK k \in 0..T : at = pos[k] + 3 /\ Read(repaired) = Reader("string", SubSeq(text, 1, k))
  BY <1>2 DEF InText
<1>4. Spelled(text, sent, pos) /\ ~Ambiguous(sent) /\ pos \in [0..T -> Nat]
  BY <1>2
<1>5. "slash" \in Characters /\ "quote" \in Characters /\ "esc" \in Characters
  BY DEF Characters
<1>6. CASE k = T
  <2>1. pos[k] = L
    BY <1>2, <1>4, <1>6 DEF Spelled
  <2>2. meant.wrapping \notin Cuts /\ Here = "quote"
    <3>1. meant.wrapping \notin Cuts
      BY <1>1, <1>2, <1>3, <2>1 DEF BodyIsBeginning
    <3>2. at = L + 3
      BY <1>3, <2>1
    <3> QED BY <1>1, <1>2, <3>1, <3>2, BodyForm DEF Here
  <2>3. Quote /\ Terminates
    <3>1. Terminates
      BY <1>1, <1>2, <1>3, <2>1, <2>2, ClosingQuoteEnds
    <3> QED BY <2>2, <3>1 DEF Escape, EscapeControl, CopyInside, Blank
  <2>4. ~inString' /\ Emit(<<"quote">>, 1)
    BY <2>3 DEF Quote
  <2>5. Read(repaired') = ReadStep(Read(repaired), "quote") /\ at' = at + 1 /\ meant' = meant
    BY <1>1, <1>5, <2>4, EmitOne
  <2>6. SubSeq(text, 1, k) = text /\ text \in Seq(Characters)
    BY <1>2, <1>6, SubSeqFull, PlainIsCharacters
  <2>7. Read(repaired') = Reader("after", text)
    BY <1>3, <2>5, <2>6, ReaderSteps
  <2>8. at' = L + 4
    BY <1>3, <2>1, <2>5
  <2>9. AfterText'
    BY <1>2, <2>2, <2>4, <2>5, <2>7, <2>8 DEF AfterText
  <2> QED BY <2>9 DEF Standing
<1>7. CASE k # T
  <2>1. PICK j \in 1..T : j = k + 1 /\ j - 1 = k /\ k \in Nat /\ j \in 0..T
    BY <1>2, <1>7
  <2>2. PICK p \in Nat, q \in 1..L : p = pos[k] /\ q = pos[j] /\ p < q /\ Unit(text, sent, pos, j)
    BY <1>2, <1>4, <2>1 DEF Spelled
  <2>3. PICK v \in Seq(Characters), c \in Plain : v = SubSeq(text, 1, k) /\ c = text[j] /\ Append(v, c) = SubSeq(text, 1, j)
    <3>1. j \in 1..Len(text) /\ text[j] \in Plain
      BY <1>2, <2>1
    <3>2. SubSeq(text, 1, k) \in Seq(Characters) /\ Append(SubSeq(text, 1, k), text[j]) = SubSeq(text, 1, j)
      BY <2>1, <3>1, TextGrows
    <3> QED BY <3>1, <3>2
  <2>4. Read(repaired) = Reader("string", v)
    BY <1>3, <2>3
  <2>a. at = p + 3
    BY <1>3, <2>2
  <2>5. ASSUME inString', at' = q + 3, meant' = meant, Read(repaired') = Reader("string", Append(v, c))
        PROVE  Standing(pos)'
    <3>1. InText(pos)'
      BY <1>2, <2>1, <2>2, <2>3, <2>5 DEF InText
    <3> QED BY <3>1 DEF Standing
  <2>6. \A i \in 1..L : i + 2 \in 1..n => body[i + 2] = sent[i]
    BY <1>1, <1>2, BodyForm
  <2>7. CASE q = p + 1 /\ c # "slash" /\ sent[q] = c
    <3>1. at = q + 2 /\ at + 1 = q + 3 /\ Here = c
      <4>0. q = p + 1
        BY <2>7
      <4>1. at = q + 2 /\ at + 1 = q + 3
        BY <2>a, <4>0
      <4> QED BY <1>1, <1>2, <2>6, <2>7, <4>1 DEF Here
    <3>2. CASE c = "quote"
      <4>1. Quote
        BY <3>1, <3>2 DEF Escape, EscapeControl, CopyInside, Blank
      <4>2. q \in BareQuotes(sent)
        <5>1. j \in 1..Len(text) /\ text[j] = "quote" /\ sent[pos[j]] = "quote" /\ pos[j] = pos[j - 1] + 1 /\ q = pos[j]
          BY <1>2, <2>1, <2>2, <2>3, <2>7, <3>2
        <5>2. pos \in [0..Len(text) -> Nat]
          BY <1>2, <1>4
        <5> QED BY <1>4, <5>1, <5>2, QuoteIsBare
      <4>3. CASE Terminates
        <5>1. meant.wrapping \in Cuts /\ AllBlank(body, at)
          BY <1>1, <1>2, <3>1, <4>2, <4>3, BareQuoteEnds
        <5>2. ~inString' /\ Emit(<<"quote">>, 1)
          BY <4>1, <4>3 DEF Quote
        <5>3. Read(repaired') = ReadStep(Read(repaired), "quote") /\ at' = at + 1 /\ meant' = meant /\ body' = body
          BY <1>1, <1>5, <5>2, EmitOne
        <5>4. Read(repaired') = Reader("after", v)
          BY <2>4, <5>3, ReaderSteps
        <5>5. CutShort'
          BY <5>1, <5>2, <5>3, <5>4 DEF CutShort, AllBlank, Reader
        <5> QED BY <5>5 DEF Standing
      <4>4. CASE ~Terminates
        <5>1. inString' /\ Emit(<<"slash", "quote">>, 1)
          BY <4>1, <4>4 DEF Quote
        <5>2. Read(repaired') = ReadStep(ReadStep(Read(repaired), "slash"), "quote") /\ at' = at + 1 /\ meant' = meant
          BY <1>1, <1>5, <5>1, EmitTwo
        <5>3. Read(repaired') = Reader("string", Append(v, "quote"))
          BY <2>4, <5>2, ReaderSteps
        <5> QED BY <2>5, <3>1, <3>2, <5>1, <5>2, <5>3
      <4> QED BY <4>3, <4>4
    <3>3. CASE c = "newline"
      <4>1. EscapeControl
        BY <3>1, <3>3 DEF Escape, Quote, CopyInside, Blank
      <4>2. inString' /\ Emit(<<"slash", "esc">>, 1)
        BY <1>1, <4>1 DEF EscapeControl
      <4>3. Read(repaired') = ReadStep(ReadStep(Read(repaired), "slash"), "esc") /\ at' = at + 1 /\ meant' = meant
        BY <1>1, <1>5, <4>2, EmitTwo
      <4>4. Read(repaired') = Reader("string", Append(v, "newline"))
        BY <2>4, <4>3, ReaderSteps
      <4> QED BY <2>5, <3>1, <3>3, <4>2, <4>3, <4>4
    <3>4. CASE c \notin {"quote", "newline"}
      <4>1. CopyInside
        BY <2>7, <3>1, <3>4 DEF Escape, Quote, EscapeControl, Blank
      <4>2. inString' /\ Emit(<<c>>, 1) /\ c \in Characters
        BY <1>1, <3>1, <4>1 DEF CopyInside, Plain
      <4>3. Read(repaired') = ReadStep(Read(repaired), c) /\ at' = at + 1 /\ meant' = meant
        BY <1>1, <4>2, EmitOne
      <4>4. Read(repaired') = Reader("string", Append(v, c))
        BY <2>4, <2>7, <3>4, <4>3, ReaderSteps
      <4> QED BY <2>5, <3>1, <4>2, <4>3, <4>4
    <3> QED BY <3>2, <3>3, <3>4
  <2>8. CASE /\ q = p + 2 /\ sent[q - 1] = "slash"
             /\ <<c, sent[q]>> \in {<<"quote", "quote">>, <<"newline", "esc">>, <<"slash", "slash">>, <<"char", "char">>}
    <3>1. at = q + 1 /\ at + 2 = q + 3 /\ Here = "slash"
      <4>0. q = p + 2
        BY <2>8
      <4>1. at = q + 1 /\ at + 2 = q + 3 /\ q - 1 \in 1..L /\ (q - 1) + 2 = at
        BY <2>a, <4>0
      <4>2. PICK r : r = q - 1 /\ r \in 1..L /\ r + 2 = at
        BY <4>1
      <4> QED BY <1>1, <1>2, <2>6, <2>8, <4>1, <4>2 DEF Here
    <3>2. Escape
      BY <3>1 DEF Quote, EscapeControl, CopyInside, Blank
    <3>3. inString'
      BY <1>1, <3>2 DEF Escape
    <3>4. CASE at = n
      <4>1. Emit(<<"slash", "slash">>, 1)
        BY <1>2, <3>2, <3>4 DEF Escape
      <4>2. Read(repaired') = ReadStep(ReadStep(Read(repaired), "slash"), "slash") /\ at' = at + 1 /\ meant' = meant /\ body' = body
        BY <1>1, <1>5, <4>1, EmitTwo
      <4>3. Read(repaired') = Reader("string", Append(v, "slash"))
        BY <2>4, <4>2, ReaderSteps
      <4>4. meant.wrapping \in Cuts
        <5>1. n # L + 5
          BY <3>1, <3>4, <2>2
        <5> QED BY <1>2, <5>1 DEF BodyIsBeginning
      <4>5. at' > Len(body')
        BY <1>2, <3>4, <4>2
      <4>6. CutShort'
        BY <3>3, <4>2, <4>3, <4>4, <4>5 DEF CutShort, Reader
      <4> QED BY <4>6 DEF Standing
    <3>5. CASE at # n
      <4>1. body[at + 1] = sent[q]
        <5>1. at \in 1..n /\ n \in Nat /\ q \in 1..L /\ L \in Nat
          BY <1>1, <1>2
        <5>2. at = q + 1 /\ at # n
          BY <3>1, <3>5
        <5>3. at + 1 = q + 2 /\ q + 2 \in 1..n
          BY <5>1, <5>2
        <5> QED BY <2>6, <5>3
      <4>2. CASE sent[q] \in {"quote", "slash", "esc"}
        <5>1. PICK x \in {"quote", "slash", "esc"} : x = sent[q]
          BY <4>2
        <5>2. Emit(<<"slash", x>>, 2)
          BY <1>2, <3>1, <3>2, <3>5, <4>1, <5>1 DEF Escape
        <5>3. Read(repaired') = ReadStep(ReadStep(Read(repaired), "slash"), x) /\ at' = at + 2 /\ meant' = meant
          BY <1>1, <1>5, <5>2, EmitTwo
        <5>4. Read(repaired') = Reader("string", Append(v, c))
          <6>1. (x = "quote" /\ c = "quote") \/ (x = "slash" /\ c = "slash") \/ (x = "esc" /\ c = "newline")
            BY <2>8, <5>1
          <6> QED BY <2>4, <5>3, <6>1, ReaderSteps
        <5> QED BY <2>5, <3>1, <3>3, <5>3, <5>4
      <4>3. CASE sent[q] \notin {"quote", "slash", "esc"}
        <5>1. c = "char" /\ sent[q] = "char" /\ c \in Characters
          BY <2>8, <4>3 DEF Plain
        <5>2. Emit(<<c>>, 2)
          BY <1>2, <3>2, <3>5, <4>1, <4>3, <5>1 DEF Escape
        <5>3. Read(repaired') = ReadStep(Read(repaired), c) /\ at' = at + 2 /\ meant' = meant
          BY <1>1, <5>1, <5>2, EmitOne
        <5>4. Read(repaired') = Reader("string", Append(v, c))
          BY <2>4, <5>1, <5>3, ReaderSteps
        <5> QED BY <2>5, <3>1, <3>3, <5>3, <5>4
      <4> QED BY <4>2, <4>3
    <3> QED BY <3>4, <3>5
  <2>9. \/ q = p + 1 /\ c # "slash" /\ sent[q] = c
        \/ /\ q = p + 2 /\ sent[q - 1] = "slash"
           /\ <<c, sent[q]>> \in {<<"quote", "quote">>, <<"newline", "esc">>, <<"slash", "slash">>, <<"char", "char">>}
    BY <2>1, <2>2, <2>3 DEF Unit
  <2> QED BY <2>7, <2>8, <2>9
<1> QED BY <1>6, <1>7

LEMMA ReadableKept ==
  ASSUME meant' = meant
  PROVE  Readable' <=> Readable
<1>1. ObjectIsFound' <=> ObjectIsFound
  BY Zenon DEF ObjectIsFound
<1>2. Ambiguous(meant.sent)' <=> Ambiguous(meant.sent)
  OBVIOUS
<1> QED BY <1>1, <1>2 DEF Readable

LEMMA StandsKept ==
  ASSUME NEW pos, meant' = meant, body' = body, at' = at, inString' = inString, repaired' = repaired
  PROVE  Standing(pos) => Standing(pos)'
<1>1. BeforeText => BeforeText'
  BY DEF BeforeText
<1>2. InText(pos) => InText(pos)'
  BY DEF InText
<1>3. AfterText => AfterText'
  BY DEF AfterText
<1>4. CutShort => CutShort'
  BY DEF CutShort
<1> QED BY <1>1, <1>2, <1>3, <1>4 DEF Standing

LEMMA RepairInvStep ==
  ASSUME RepairInv, JsonNext \/ UNCHANGED jsonVars
  PROVE  RepairInv'
<1>1. RepairTyped /\ RepairTyped'
  BY TypedStep DEF RepairInv
<1>2. SUFFICES ASSUME phase' # "reply", Readable'
               PROVE  /\ BodyIsBeginning'
                      /\ \A pos \in [0..Len(meant'.text) -> Nat] : Spelled(meant'.text, meant'.sent, pos) => Standing(pos)'
  BY <1>1 DEF RepairInv
<1>3. meant' = meant
  BY DEF JsonNext, Unwrap, CopyOutside, Escape, Quote, EscapeControl, CopyInside, Finish, Emit, jsonVars
<1>4. Readable
  BY <1>2, <1>3, ReadableKept
<1>5. CASE Unwrap
  BY <1>4, <1>5, UnwrapStands DEF Standing
<1>6. CASE ~Unwrap
  <2>1. body' = body /\ phase # "reply"
    BY <1>2, <1>6 DEF JsonNext, CopyOutside, Escape, Quote, EscapeControl, CopyInside, Finish, Emit, More, jsonVars
  <2>2. BodyIsBeginning /\ \A pos \in [0..Len(meant.text) -> Nat] : Spelled(meant.text, meant.sent, pos) => Standing(pos)
    BY <1>4, <2>1 DEF RepairInv
  <2>3. BodyIsBeginning'
    BY <1>3, <2>1, <2>2 DEF BodyIsBeginning
  <2>4. ASSUME NEW pos \in [0..Len(meant.text) -> Nat], Spelled(meant.text, meant.sent, pos) PROVE Standing(pos)'
    <3>1. Standing(pos)
      BY <2>2, <2>4
    <3>2. CASE CopyOutside
      <4>1. ~inString
        BY <3>2 DEF CopyOutside
      <4>2. BeforeText \/ AfterText \/ (CutShort /\ ~inString)
        BY <3>1, <4>1 DEF Standing, InText
      <4> QED BY <1>1, <2>2, <2>4, <3>2, <4>2, CopyStands
    <3>3. CASE Escape \/ Quote \/ EscapeControl \/ CopyInside
      <4>1. inString /\ More
        BY <3>3 DEF Escape, Quote, EscapeControl, CopyInside
      <4>2. ~CutShort
        <5>1. at <= Len(body) /\ at \in Int /\ Len(body) \in Nat
          BY <1>1, <4>1 DEF More, RepairTyped, JsonTypeOK
        <5> QED BY <4>1, <5>1 DEF CutShort
      <4>3. InText(pos)
        BY <3>1, <4>1, <4>2 DEF Standing, BeforeText, AfterText
      <4> QED BY <1>1, <1>4, <2>2, <2>4, <3>3, <4>3, StringStands DEF Readable
    <3>4. CASE Finish \/ UNCHANGED jsonVars
      <4>1. body' = body /\ at' = at /\ inString' = inString /\ repaired' = repaired
        BY <3>4 DEF Finish, jsonVars
      <4> QED BY <1>3, <3>1, <4>1, StandsKept
    <3> QED BY <1>6, <3>2, <3>3, <3>4 DEF JsonNext
  <2> QED BY <1>3, <2>3, <2>4
<1> QED BY <1>5, <1>6

LEMMA RepairInvInit ==
  ASSUME JsonInit
  PROVE  RepairInv
<1>0. PICK t \in Texts, w \in Wrappings : \E s \in Written(t) : meant = [text |-> t, sent |-> s, wrapping |-> w]
  BY DEF JsonInit
<1>1. PICK s \in Written(t) : meant = [text |-> t, sent |-> s, wrapping |-> w]
  BY <1>0
<1>2. Characters \ {"fence"} = Plain
  BY DEF Plain
<1>3. t \in Seq(Plain) /\ w \in {"bare", "fenced", "opened", "prose"} \cup Cuts
  BY <1>2, TextsAssumption
<1>4. s \in Seq(Plain) /\ \E pos \in [0..Len(t) -> Nat] : Spelled(t, s, pos)
  BY <1>3, WrittenSpelled
<1>5. meant \in Messages
  BY <1>1, <1>3, <1>4 DEF Messages
<1>6. JsonTypeOK
  <2>1. phase = "reply" /\ body = <<>> /\ at = 1 /\ repaired = <<>> /\ inString = FALSE
    BY DEF JsonInit
  <2>2. <<>> \in Seq(Characters) /\ 1 \in 1..(Len(<<>>) + 1)
    OBVIOUS
  <2>3. inString \in BOOLEAN
    BY <2>1
  <2> QED BY <2>1, <2>2, <2>3 DEF JsonTypeOK
<1>7. RepairTyped
  BY <1>1, <1>4, <1>5, <1>6 DEF RepairTyped, JsonInit
<1> QED BY <1>7 DEF RepairInv, JsonInit

LEMMA RepairInvariant == JsonSpec => []RepairInv
<1>1. JsonInit => RepairInv
  BY RepairInvInit
<1>2. RepairInv /\ [JsonNext]_jsonVars => RepairInv'
  BY RepairInvStep
<1> QED BY <1>1, <1>2, PTL DEF JsonSpec

LEMMA RepairedIsRead ==
  ASSUME RepairInv
  PROVE  RepairIsFaithful
<1>1. RepairTyped /\ JsonTypeOK /\ meant \in Messages
  BY DEF RepairInv, RepairTyped
<1>2. PICK pos \in [0..Len(meant.text) -> Nat] : Spelled(meant.text, meant.sent, pos)
  BY <1>1 DEF RepairTyped
<1>3. ASSUME phase = "done", Readable PROVE BodyIsBeginning /\ Standing(pos) /\ at > Len(body)
  BY <1>1, <1>2, <1>3 DEF RepairInv, RepairTyped
<1>4. ASSUME phase = "done", meant.wrapping \notin Cuts, ObjectIsFound, ~Ambiguous(meant.sent)
      PROVE  Parsed(repaired) = [ok |-> TRUE, value |-> meant.text]
  <2>1. BodyIsBeginning /\ Standing(pos) /\ at > Len(body)
    BY <1>3, <1>4 DEF Readable
  <2>2. PICK L \in Nat, T \in Nat : L = Len(meant.sent) /\ T = Len(meant.text) /\ Len(body) = L + 5
    <3>1. Len(meant.sent) \in Nat /\ Len(meant.text) \in Nat
      BY <1>1 DEF Messages
    <3>2. Len(body) = Len(meant.sent) + 5
      BY <1>4, <2>1 DEF BodyIsBeginning
    <3> QED BY <3>1, <3>2
  <2>3. ~BeforeText /\ ~CutShort
    BY <1>4, <2>1, <2>2 DEF BeforeText, CutShort
  <2>4. ~InText(pos)
    <3>1. \A k \in 0..T : pos[k] \in 0..L
      <4> TAKE k \in 0..T
      <4>1. k = 0 \/ k \in 1..T
        OBVIOUS
      <4> QED BY <1>2, <2>2, <4>1 DEF Spelled
    <3>2. SUFFICES ASSUME NEW k \in 0..T, at = pos[k] + 3 PROVE FALSE
      BY <2>2 DEF InText
    <3>3. PICK p \in 0..L : at = p + 3
      BY <3>1, <3>2
    <3> QED BY <2>1, <2>2, <3>3
  <2>5. AfterText
    BY <2>1, <2>3, <2>4 DEF Standing
  <2>6. at \in Nat /\ at > L + 5
    BY <1>1, <2>1, <2>2 DEF JsonTypeOK
  <2>7. Read(repaired) = Reader("end", meant.text)
    BY <2>2, <2>5, <2>6 DEF AfterText
  <2> QED BY <2>7 DEF Parsed, Reader
<1>5. ASSUME phase = "done", meant.wrapping \in Cuts, ~Ambiguous(meant.sent) PROVE ~Parsed(repaired).ok
  <2>1. Standing(pos)
    BY <1>3, <1>5 DEF Readable
  <2>2. Read(repaired).at # "end"
    BY <1>5, <2>1 DEF Standing, BeforeText, InText, AfterText, CutShort, Reader
  <2>3. Parsed(repaired) = [ok |-> FALSE]
    BY <2>2 DEF Parsed
  <2> QED BY <2>3
<1> QED BY <1>1, <1>4, <1>5 DEF RepairIsFaithful, MeantIsRead, CutIsNotCompleted

\* The recovery gives back the text the model meant, whatever it spells and however
\* the document is wrapped, and completes no document that was cut off
\* (json-recovery.ts), for texts of any length: the exceptions are bare quotes before
\* a separator and those that hide where the object ends.
THEOREM RepairHolds == JsonSpec => []RepairIsFaithful
<1>1. RepairInv => RepairIsFaithful
  BY RepairedIsRead
<1> QED BY <1>1, RepairInvariant, PTL
=============================================================================
