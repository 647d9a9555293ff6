------------------------- MODULE SourceMonitorProofs -------------------------
(***************************************************************************)
(* Proofs about SourceMonitor for any number of passes, urls, hashes and   *)
(* deals, overlapping ones included: its types and the debounced expiry.   *)
(***************************************************************************)
EXTENDS SourceMonitor, SequenceTheorems, FiniteSetTheorems, TLAPS

\* A record with the stage and fields of a pass is a running pass.
LEMMA StepType ==
  ASSUME NEW stage \in {"compare", "record", "count", "expire", "recrawl",
                        "persist", "finish", "advance"},
         NEW src \in Source, NEW own \in Source, NEW seen \in Pages,
         NEW kind \in Kinds, NEW disp \in Disposition
  PROVE  LET p == Step(stage, src, own, seen, kind, disp)
         IN /\ p \in Pass
            /\ p.stage = stage
            /\ p.src = src
            /\ p.own = own
            /\ p.seen = seen
            /\ p.kind = kind
            /\ p.disp = disp
BY DEF Step, Pass

\* A lane at some stage has a full record.
LEMMA PassType ==
  ASSUME TypeOK, NEW l \in Lanes, pass[l] # Idle
  PROVE  /\ pass[l].src \in Source
         /\ pass[l].own \in Source
         /\ pass[l].seen \in Pages
         /\ pass[l].kind \in Kinds
         /\ pass[l].disp \in Disposition
BY DEF TypeOK, Pass

LEMMA NotIdle ==
  ASSUME NEW l \in Lanes, pass[l].stage # "idle"
  PROVE  pass[l] # Idle
BY DEF Idle

\* The written-back row stays within the reliability scale.
LEMMA WrittenBackType ==
  ASSUME NEW row \in Source, NEW disp \in Disposition, NEW url \in Urls \cup {NoUrl}
  PROVE  WrittenBack(row, disp, url) \in Source
<1>1. /\ row.rel \in 0..RelMax
      /\ row.resolved \in Urls \cup {NoUrl}
      /\ row = [rel |-> row.rel, resolved |-> row.resolved]
  BY DEF Source
<1>2. \A success \in BOOLEAN : ReliabilityAfter(row.rel, success) \in 0..RelMax
  BY <1>1, ReliabilityAssumption DEF ReliabilityAfter
<1>3. \A success \in BOOLEAN : CrawlOutcome(row, success, url) \in Source
  BY <1>1, <1>2 DEF CrawlOutcome, Source
<1> QED BY <1>3 DEF WrittenBack

\* Logging a change puts it at the head of the log and keeps the log short.
LEMMA LogChangeType ==
  ASSUME recent \in Seq(Kinds), Len(recent) <= Window, NEW kind \in Kinds, LogChange(kind)
  PROVE  recent' \in Seq(Kinds) /\ Len(recent') <= Window
<1> DEFINE long == <<kind>> \o recent
           n == IF Len(recent) < Window THEN Len(recent) + 1 ELSE Window
<1>1. <<kind>> \in Seq(Kinds) /\ Len(<<kind>>) = 1
  OBVIOUS
<1>2. long \in Seq(Kinds) /\ Len(long) = 1 + Len(recent)
  BY <1>1, ConcatProperties
<1>3. Len(recent) \in Nat /\ n \in 1..Len(long) /\ n <= Window
  BY <1>2, LenProperties DEF Window, Threshold
<1>4. SubSeq(long, 1, n) \in Seq(Kinds) /\ Len(SubSeq(long, 1, n)) = n
  <2> HIDE DEF long, n
  <2> QED BY <1>2, <1>3, SubSeqProperties
<1> QED BY <1>3, <1>4 DEF LogChange

-----------------------------------------------------------------------------
(* Type correctness.                                                        *)

\* A step that moves one lane and keeps every table typed keeps TypeOK.
LEMMA MoveType ==
  ASSUME TypeOK, NEW l \in Lanes, NEW next \in Pass, Moves(l, next),
         page' \in Pages, source' \in Source, due' \in BOOLEAN,
         DOMAIN deals' \subseteq Ids, deals' \in [DOMAIN deals' -> Deal],
         latest' \in DOMAIN deals' \cup {0},
         recent' \in Seq(Kinds), Len(recent') <= Window,
         Overtakes(l) \/ UNCHANGED overtaken,
         flips' \in 0..MaxFlips, faults' \in 0..MaxFaults
  PROVE  TypeOK'
BY DEF TypeOK, Moves, Overtakes

\* A fault counts against its bound.
LEMMA FaultType ==
  ASSUME TypeOK, Fault
  PROVE  faults' \in 0..MaxFaults
BY BoundsAssumption DEF TypeOK, Fault

LEMMA StartMonitorType ==
  ASSUME TypeOK, NEW m \in Monitors, StartMonitor(m)
  PROVE  TypeOK'
<1> DEFINE p == Step("compare", source, source, page, "unchanged", "neutral")
<1>1. source \in Source /\ page \in Pages /\ m \in Lanes
  BY DEF TypeOK, Lanes
<1>2. /\ p \in Pass /\ p.src \in Source /\ p.own \in Source /\ p.seen \in Pages
  BY <1>1, StepType DEF Kinds, Disposition
<1>3. \A kind \in Kinds, disp \in Disposition : Noting(p, kind, disp) \in Pass
  <2> HIDE DEF p
  <2> QED BY <1>2, StepType DEF Noting
<1>4. PICK next \in Pass : Moves(m, next)
  <2> HIDE DEF p
  <2> QED BY <1>2, <1>3 DEF StartMonitor, p, Kinds, Disposition
<1> QED BY <1>1, <1>4, MoveType DEF StartMonitor, TypeOK

LEMMA MonitorStepType ==
  ASSUME TypeOK, NEW m \in Monitors, MonitorStep(m)
  PROVE  TypeOK'
<1> DEFINE p == pass[m]
<1>1. m \in Lanes
  BY DEF Lanes
<1>2. p # Idle
  BY <1>1, NotIdle DEF MonitorStep, Compare, RecordChange, CountDisappearances, Expire,
                       AdvanceSchedule, Recrawl
<1>3. /\ p.src \in Source /\ p.own \in Source /\ p.seen \in Pages
      /\ p.kind \in Kinds /\ p.disp \in Disposition
  BY <1>1, <1>2, PassType
<1>4. \A stage \in {"count", "expire", "recrawl", "advance"} : Goto(p, stage) \in Pass
  <2> HIDE DEF p
  <2> QED BY <1>3, StepType DEF Goto
<1>5. CASE Compare(m)
  <2>1. \A kind \in Kinds, disp \in Disposition : Noting(p, kind, disp) \in Pass
    <3> HIDE DEF p
    <3> QED BY <1>3, StepType DEF Noting
  <2>2. PICK next \in Pass : Moves(m, next)
    <3> HIDE DEF p
    <3> QED BY <1>5, <2>1 DEF Compare, p, Kinds, Disposition
  <2> QED BY <1>1, <1>5, <2>2, MoveType DEF Compare, TypeOK
<1>6. CASE RecordChange(m)
  <2>1. PICK next \in Pass : Moves(m, next)
    <3> HIDE DEF p
    <3> QED BY <1>4, <1>6 DEF RecordChange, p
  <2>2. recent' \in Seq(Kinds) /\ Len(recent') <= Window
    BY <1>3, <1>6, LogChangeType DEF RecordChange, TypeOK
  <2> QED BY <1>1, <1>6, <2>1, <2>2, MoveType DEF RecordChange, TypeOK
<1>7. CASE CountDisappearances(m)
  <2>1. PICK next \in Pass : Moves(m, next)
    <3> HIDE DEF p
    <3> QED BY <1>4, <1>7 DEF CountDisappearances, p
  <2> QED BY <1>1, <1>7, <2>1, MoveType DEF CountDisappearances, TypeOK
<1>8. CASE Expire(m)
  <2>1. /\ DOMAIN deals' = DOMAIN deals
        /\ deals' \in [DOMAIN deals' -> Deal]
    BY <1>8 DEF Expire, TypeOK, Deal, Statuses, Marked, Row
  <2>2. Moves(m, Goto(p, "advance"))
    BY <1>8 DEF Expire
  <2> HIDE DEF p
  <2> QED BY <1>1, <1>4, <1>8, <2>1, <2>2, MoveType DEF Expire, TypeOK
<1>9. CASE AdvanceSchedule(m)
  <2>1. FinalUrl(p.seen) \in Urls \cup {NoUrl}
    BY <1>3 DEF FinalUrl, Pages
  <2>2. source' \in Source
    BY <1>3, <1>9, <2>1, WrittenBackType DEF AdvanceSchedule
  <2>3. Idle \in Pass /\ Moves(m, Idle)
    BY <1>9 DEF AdvanceSchedule, Pass
  <2> QED BY <1>1, <1>9, <2>2, <2>3, MoveType DEF AdvanceSchedule, TypeOK
<1>10. CASE Recrawl(m)
  <2>1. \A stage \in {"persist", "finish"}, disp \in Disposition :
          Crawling(p, source, stage, disp) \in Pass
    <3> HIDE DEF p
    <3> QED BY <1>3, StepType DEF Crawling, TypeOK
  <2>2. PICK next \in Pass : Moves(m, next)
    <3> HIDE DEF p
    <3> QED BY <1>10, <2>1 DEF Recrawl, Fetched, p, Disposition
  <2> QED BY <1>1, <1>10, <2>2, MoveType DEF Recrawl, TypeOK
<1> QED BY <1>5, <1>6, <1>7, <1>8, <1>9, <1>10 DEF MonitorStep

LEMMA CrawlType ==
  ASSUME TypeOK, NEW l \in Lanes, StartCrawl(l) \/ CrawlStep(l)
  PROVE  TypeOK'
<1> DEFINE p == pass[l]
<1>1. p.stage \in {"persist", "finish"} =>
        /\ p.src \in Source /\ p.own \in Source /\ p.seen \in Pages
        /\ p.kind \in Kinds /\ p.disp \in Disposition
  BY NotIdle, PassType
<1>2. CASE StartCrawl(l)
  <2> DEFINE q == Step("finish", source, source, page, "unchanged", "neutral")
  <2>1. /\ source \in Source /\ page \in Pages
        /\ q.src \in Source /\ q.kind \in Kinds
    BY StepType DEF TypeOK, Kinds, Disposition
  <2>2. \A stage \in {"persist", "finish"}, disp \in Disposition :
          Crawling(q, source, stage, disp) \in Pass
    <3> HIDE DEF q
    <3> QED BY <2>1, StepType DEF Crawling
  <2>3. PICK next \in Pass : Moves(l, next)
    <3> HIDE DEF q
    <3> QED BY <1>2, <2>2 DEF StartCrawl, Fetched, q, Disposition
  <2> QED BY <1>2, <2>3, MoveType DEF StartCrawl, TypeOK
<1>3. CASE Persist(l)
  <2>1. p.stage = "persist" /\ p.seen \in Pages
    BY <1>1, <1>3 DEF Persist
  <2>2. Finishing(p, "success") \in Pass /\ Moves(l, Finishing(p, "success"))
    <3> HIDE DEF p
    <3> QED BY <1>1, <1>3, <2>1, StepType DEF Persist, Finishing, p, Disposition
  <2>3. ASSUME NEW d \in Ids, Queue(d, p.seen)
        PROVE  /\ DOMAIN deals' \subseteq Ids
               /\ deals' \in [DOMAIN deals' -> Deal]
               /\ latest' \in DOMAIN deals' \cup {0}
    BY <2>1, <2>3 DEF Queue, TypeOK, Deal, Statuses, Row, Pages
  <2>4. /\ DOMAIN deals' \subseteq Ids
        /\ deals' \in [DOMAIN deals' -> Deal]
        /\ latest' \in DOMAIN deals' \cup {0}
    BY <1>3, <2>3 DEF Persist, PersistOffer, TypeOK
  <2> HIDE DEF p
  <2> QED BY <1>3, <2>2, <2>4, MoveType DEF Persist, TypeOK
<1>4. CASE FinishCrawl(l)
  <2>1. p.stage = "finish"
    BY <1>4 DEF FinishCrawl
  <2>2. FinalUrl(p.seen) \in Urls \cup {NoUrl}
    BY <1>1, <2>1 DEF FinalUrl, Pages
  <2>3. source' \in Source
    BY <1>1, <1>4, <2>1, <2>2, WrittenBackType DEF FinishCrawl
  <2>4. Idle \in Pass /\ Moves(l, Idle)
    BY <1>4 DEF FinishCrawl, Pass
  <2> QED BY <1>4, <2>3, <2>4, MoveType DEF FinishCrawl, TypeOK
<1> QED BY <1>2, <1>3, <1>4 DEF CrawlStep

LEMMA FailsType ==
  ASSUME TypeOK, NEW l \in Lanes, Fails(l)
  PROVE  TypeOK'
<1> DEFINE p == pass[l]
<1>1. /\ Fault
      /\ UNCHANGED <<page, source, due, deals, latest, flips>>
      /\ Overtakes(l) \/ UNCHANGED overtaken
      /\ p # Idle
  BY NotIdle DEF Fails, MonitorFails, RoutingFails, CrawlFails, PassEnds
<1>2. recent' \in Seq(Kinds) /\ Len(recent') <= Window
  <2>1. UNCHANGED recent \/ LogChange("error")
    BY DEF Fails, MonitorFails, RoutingFails, CrawlFails, PassEnds
  <2> QED BY <2>1, LogChangeType DEF TypeOK, Kinds
<1>3. PICK next \in Pass : Moves(l, next)
  <2>1. Settled(p, "failure") \in Pass /\ Finishing(p, "failure") \in Pass /\ Idle \in Pass
    <3>1. /\ p.src \in Source /\ p.own \in Source /\ p.seen \in Pages /\ p.kind \in Kinds
      BY <1>1, PassType
    <3> HIDE DEF p
    <3> QED BY <3>1, StepType DEF Settled, Finishing, Disposition, Pass
  <2> HIDE DEF p
  <2> QED BY <2>1 DEF Fails, MonitorFails, RoutingFails, CrawlFails, PassEnds, p
<1> QED BY <1>1, <1>2, <1>3, FaultType, MoveType DEF TypeOK

LEMMA NextType ==
  ASSUME TypeOK, [Next]_vars
  PROVE  TypeOK'
<1>1. CASE Elapse
  BY <1>1 DEF Elapse, TypeOK
<1>2. CASE PageChanges
  BY <1>2, BoundsAssumption DEF PageChanges, TypeOK
<1>3. ASSUME NEW d \in DOMAIN deals, NEW status \in {"published", "rejected"}, Review(d, status)
      PROVE  TypeOK'
  <2>1. Marked(deals[d], status) \in Deal
    BY DEF TypeOK, Deal, Statuses, Marked, Row
  <2> QED BY <1>3, <2>1 DEF Review, TypeOK
<1>4. CASE UNCHANGED vars
  BY <1>4 DEF vars, TypeOK
<1>5. ASSUME NEW c \in Crawlers, StartCrawl(c) PROVE TypeOK'
  BY <1>5, CrawlType DEF Lanes
<1> QED BY <1>1, <1>2, <1>3, <1>4, <1>5, StartMonitorType, MonitorStepType, CrawlType, FailsType
        DEF Next

\* The source as it was registered is well typed.
LEMMA TypeInit ==
  ASSUME Init
  PROVE  TypeOK
<1>1. RelMax \div 2 \in 0..RelMax
  BY ReliabilityAssumption
<1>2. recent \in Seq(Kinds) /\ Len(recent) <= Window
  BY DEF Init, Window, Threshold
<1> QED BY <1>1, <1>2, BoundsAssumption DEF Init, TypeOK, Source, Pass

\* Every table, pass and counter keeps its type and its bound.
THEOREM TypeCorrect == Spec => []TypeOK
<1>1. Init => TypeOK
  BY TypeInit
<1>2. TypeOK /\ [Next]_vars => TypeOK'
  BY NextType
<1> QED BY <1>1, <1>2, PTL DEF Spec

-----------------------------------------------------------------------------
(* The debounced expiry.                                                    *)

\* Two consecutive disappearances at the head of the log are its newest two rows.
LEMMA HeadDisappeared ==
  ASSUME recent \in Seq(Kinds), Disappearances(recent) >= Threshold
  PROVE  Len(recent) >= Threshold /\ \A i \in 1..Threshold : recent[i] = "disappeared"
<1> DEFINE run == {i \in 1..Len(recent) : \A j \in 1..i : recent[j] = "disappeared"}
<1>1. Len(recent) \in Nat
  BY LenProperties
<1>2. IsFiniteSet(run) /\ Cardinality(run) \in Nat
  <2>1. IsFiniteSet(1..Len(recent)) /\ run \subseteq 1..Len(recent)
    BY <1>1, FS_Interval
  <2> QED BY <2>1, FS_Subset, FS_CardinalityType
<1>3. 2 \in run
  <2>1. SUFFICES ASSUME 2 \notin run PROVE FALSE
    OBVIOUS
  <2>2. \A i \in run : i = 1
    <3>1. SUFFICES ASSUME NEW i \in run, i # 1 PROVE FALSE
      OBVIOUS
    <3>2. i \in Nat /\ i >= 2 /\ i <= Len(recent) /\ \A j \in 1..i : recent[j] = "disappeared"
      BY <1>1, <3>1
    <3>3. 2 \in 1..Len(recent) /\ \A j \in 1..2 : j \in 1..i
      BY <1>1, <3>2
    <3> QED BY <2>1, <3>2, <3>3
  <2>3. IsFiniteSet({1}) /\ Cardinality({1}) = 1
    BY FS_Singleton
  <2>4. Cardinality(run) <= 1
    <3> HIDE DEF run
    <3> QED BY <2>2, <2>3, FS_Subset
  <2> QED BY <1>2, <2>4 DEF Disappearances, Threshold
<1> QED BY <1>1, <1>3 DEF Threshold

\* A pass about to expire stands on a log as it counted it, or was overtaken.
HeadIsGone ==
  /\ Len(recent) >= Threshold
  /\ \A i \in 1..Threshold : recent[i] = "disappeared"

Decided == \A m \in Monitors : pass[m].stage = "expire" => m \in overtaken \/ HeadIsGone

DInv == TypeOK /\ Decided

\* The step of another lane leaves a pass its log, or overtakes it.
LEMMA OthersStep ==
  ASSUME DInv, NEW m \in Monitors, NEW l \in Lanes, l # m, pass'[m] = pass[m],
         pass'[m].stage = "expire",
         Overtakes(l) \/ UNCHANGED <<recent, overtaken>>
  PROVE  m \in overtaken' \/ HeadIsGone'
<1>1. m \in overtaken \/ HeadIsGone
  BY DEF DInv, Decided
<1>2. recent' = recent => (HeadIsGone <=> HeadIsGone')
  BY DEF HeadIsGone
<1>3. CASE Overtakes(l)
  BY <1>1, <1>2, <1>3 DEF Overtakes
<1>4. CASE UNCHANGED <<recent, overtaken>>
  BY <1>1, <1>2, <1>4
<1> QED BY <1>3, <1>4

\* A pass that is about to expire deals has just counted, or somebody logged since.
LEMMA DecidedStep ==
  ASSUME DInv, [Next]_vars
  PROVE  Decided'
<1> SUFFICES ASSUME NEW m \in Monitors, pass'[m].stage = "expire"
             PROVE  m \in overtaken' \/ HeadIsGone'
  BY DEF Decided
<1> m \in Lanes
  BY DEF Lanes
<1>1. \A l \in Lanes : \A next : Moves(l, next) =>
         /\ l = m => pass'[m] = next
         /\ l # m => pass'[m] = pass[m]
  BY DEF Moves, DInv, TypeOK
<1>2. ASSUME NEW n \in Monitors, StartMonitor(n) \/ MonitorStep(n)
      PROVE  m \in overtaken' \/ HeadIsGone'
  <2>1. CASE n # m
    <3>1. pass'[m] = pass[m]
      BY <1>1, <1>2, <2>1
         DEF StartMonitor, MonitorStep, Compare, RecordChange, CountDisappearances, Expire,
             AdvanceSchedule, Recrawl, Fetched, Lanes
    <3>2. Overtakes(n) \/ UNCHANGED <<recent, overtaken>>
      BY <1>2
         DEF StartMonitor, MonitorStep, Compare, RecordChange, CountDisappearances, Expire,
             AdvanceSchedule, Recrawl
    <3> QED BY <2>1, <3>1, <3>2, OthersStep DEF Lanes
  <2>2. CASE n = m /\ CountDisappearances(m)
    <3>1. Disappearances(recent) >= Threshold
      BY <1>1, <2>2 DEF CountDisappearances, Goto, Step
    <3>2. HeadIsGone
      BY <3>1, HeadDisappeared DEF HeadIsGone, DInv, TypeOK
    <3> QED BY <2>2, <3>2 DEF CountDisappearances, HeadIsGone
  <2>3. CASE n = m /\ ~CountDisappearances(m)
    BY <1>1, <1>2, <2>3
       DEF StartMonitor, MonitorStep, Compare, RecordChange, Expire, AdvanceSchedule, Recrawl,
           Fetched, Crawling, Noting, Goto, Step, Idle
  <2> QED BY <2>1, <2>2, <2>3
<1>3. ASSUME NEW l \in Lanes, \/ l \in Crawlers /\ StartCrawl(l)
                              \/ CrawlStep(l)
                              \/ Fails(l)
      PROVE  m \in overtaken' \/ HeadIsGone'
  <2>1. l # m
    BY <1>1, <1>3
       DEF StartCrawl, CrawlStep, Persist, FinishCrawl, Fails, MonitorFails, RoutingFails,
           CrawlFails, PassEnds, Fetched, Crawling, Settled, Finishing, Step, Idle
  <2>2. /\ pass'[m] = pass[m]
        /\ Overtakes(l) \/ UNCHANGED <<recent, overtaken>>
    BY <1>1, <1>3, <2>1
       DEF StartCrawl, CrawlStep, Persist, FinishCrawl, Fails, MonitorFails, RoutingFails,
           CrawlFails, PassEnds, Fetched
  <2> QED BY <2>1, <2>2, OthersStep
<1>4. CASE \/ Elapse \/ PageChanges \/ UNCHANGED vars
           \/ \E d \in DOMAIN deals : Review(d, "published") \/ Review(d, "rejected")
  <2>1. UNCHANGED <<recent, overtaken, pass>>
    BY <1>4 DEF Elapse, PageChanges, Review, vars
  <2> QED BY <2>1 DEF DInv, Decided, HeadIsGone
<1> QED BY <1>2, <1>3, <1>4 DEF Next, Lanes

\* Of an initial state and of every step.
LEMMA DebounceInvariant == Spec => []DInv
<1>1. Init => DInv
  BY TypeInit DEF Init, DInv, Decided, Idle, Lanes
<1>2. DInv /\ [Next]_vars => DInv'
  BY NextType, DecidedStep DEF DInv
<1> QED BY <1>1, <1>2, PTL DEF Spec

\* However many monitor passes overlap, a published deal is only expired while its
\* page disappeared on the two newest changes on record, or by a pass that another
\* one's change overtook between its count and its expiry.
THEOREM ExpiryIsDebounced == Spec => ExpiryDebounced
<1> DEFINE Named(d) ==
      deals[d].status = "published" /\ deals'[d].status = "expired" =>
        \/ \E m \in overtaken : pass[m].stage = "expire" /\ pass'[m].stage # "expire"
        \/ /\ Len(recent) >= Threshold
           /\ \A i \in 1..Threshold : recent[i] = "disappeared"
<1>1. DInv /\ [Next]_vars => [\A d \in DOMAIN deals : Named(d)]_vars
  <2> SUFFICES ASSUME DInv, [Next]_vars, NEW d \in DOMAIN deals,
                      deals[d].status = "published", deals'[d].status = "expired"
               PROVE  Named(d)
    OBVIOUS
  <2>1. PICK m \in Monitors : Expire(m)
    <3>1. ASSUME NEW x \in Ids, NEW seen, Queue(x, seen), x \notin DOMAIN deals PROVE FALSE
      BY <3>1 DEF Queue
    <3>2. ASSUME NEW x \in DOMAIN deals, NEW status \in {"published", "rejected"}, Review(x, status)
          PROVE FALSE
      BY <3>2 DEF Review, Marked, Row, DInv, TypeOK
    <3>3. \A seen : PersistOffer(seen) => FALSE
      BY <3>1 DEF PersistOffer
    <3> QED BY <3>2, <3>3
         DEF Next, MonitorStep, StartMonitor, Compare, RecordChange, CountDisappearances,
             AdvanceSchedule, Recrawl, StartCrawl, CrawlStep, Persist, FinishCrawl, Fails,
             MonitorFails, RoutingFails, CrawlFails, PassEnds, Elapse, PageChanges, vars
  <2>2. m \in overtaken \/ HeadIsGone
    BY <2>1 DEF Expire, DInv, Decided
  <2>3. pass[m].stage = "expire" /\ pass'[m].stage # "expire"
    BY <2>1 DEF Expire, Moves, Goto, Step, DInv, TypeOK, Lanes
  <2> QED BY <2>2, <2>3 DEF HeadIsGone
<1>2. Spec => []DInv
  BY DebounceInvariant
<1> QED BY <1>1, <1>2, PTL DEF Spec, ExpiryDebounced
=============================================================================
