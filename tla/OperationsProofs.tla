--------------------------- MODULE OperationsProofs ---------------------------
(***************************************************************************)
(* Proofs about the services around the core, for any number of tasks,     *)
(* keys, reviewers, processes, deployments, pages, alerts, calls and       *)
(* bundles: the worklists (CaptureDesk) and the queued budget (Settings)   *)
(* leave nothing half done without a trace, a process fetches politely     *)
(* (PoliteFetch), trouble is shown (Alerts), a call of the database        *)
(* succeeds only with its effect, and is called a duplicate only without   *)
(* it (DbRetry), and no torn bundle becomes visible (EvidenceStores).      *)
(* Then about sign-in, for any number of users, families, tokens and       *)
(* requests in flight: refresh sessions that were ended stay ended but for *)
(* the requests that overtook the end, and what nobody ended goes on       *)
(* (Sessions); and what a lock is worth (Lockout).                         *)
(***************************************************************************)
EXTENDS CaptureDesk, Settings, PoliteFetch, Alerts, DbRetry, EvidenceStores, Sessions, Lockout, FiniteSetTheorems, TLAPS

-----------------------------------------------------------------------------
(* CaptureDesk.                                                             *)

\* What a call in progress may rely on: the capture and the audit row it has
\* written, the candidate of the task it is about to close, and, for a promotion,
\* that what has joined the entry since it read it is contended.
CallSound(r) ==
  /\ calls[r].step \in {"audit", "insert", "close"} => calls[r].number \in bundles
  /\ calls[r].step \in {"insert", "close"} => calls[r].number \in audited
  /\ At(r, "close") => [number |-> calls[r].number, task |-> calls[r].task] \in candidates
  /\ At(r, "upsert") => aliases[calls[r].canonical] \subseteq calls[r].read \cup contended
  /\ At(r, "mark") => (\E c \in Canonical : calls[r].key \in aliases[c]) \/ calls[r].key \in contended

DeskInv == WorkIsComplete /\ \A r \in Reviewers : CallSound(r)

CaptureCall == [step: {"evidence", "audit", "insert", "close"}, task: Tasks, number: Numbers, closes: BOOLEAN]
PromotionCall == [step: {"upsert", "mark"}, key: Suggested, canonical: Canonical, read: SUBSET Suggested]

\* The step of a call says which kind of call it is.
LEMMA CallShape ==
  ASSUME CaptureTypeOK, NEW r \in Reviewers
  PROVE  /\ calls[r].step \in {"evidence", "audit", "insert", "close"} => calls[r] \in CaptureCall
         /\ calls[r].step \in {"upsert", "mark"} => calls[r] \in PromotionCall
         /\ At(r, "quiet") => calls[r] = Quiet
BY DEF CaptureTypeOK, CaptureCalls, CaptureCall, PromotionCall, Quiet, At

\* A call that moves on keeps its data.
LEMMA CallMoves ==
  /\ \A c \in CaptureCall, s \in {"evidence", "audit", "insert", "close"} :
       LET n == [c EXCEPT !.step = s]
       IN  n \in CaptureCall /\ n.step = s /\ n.number = c.number /\ n.task = c.task
  /\ \A c \in PromotionCall :
       LET n == [c EXCEPT !.step = "mark"]
       IN  n \in PromotionCall /\ n.step = "mark" /\ n.key = c.key
<1>1. ASSUME NEW c \in CaptureCall, NEW s \in {"evidence", "audit", "insert", "close"}
      PROVE  LET n == [c EXCEPT !.step = s]
             IN  n \in CaptureCall /\ n.step = s /\ n.number = c.number /\ n.task = c.task
  BY DEF CaptureCall
<1>2. ASSUME NEW c \in PromotionCall
      PROVE  LET n == [c EXCEPT !.step = "mark"]
             IN  n \in PromotionCall /\ n.step = "mark" /\ n.key = c.key
  BY DEF PromotionCall
<1> QED BY <1>1, <1>2

\* A step of one call leaves the others as they are.
LEMMA CallReplaced ==
  ASSUME CaptureTypeOK, NEW r \in Reviewers, NEW c \in CaptureCalls, Call(r, c)
  PROVE  calls' \in [Reviewers -> CaptureCalls] /\ calls'[r] = c /\ \A s \in Reviewers : s # r => calls'[s] = calls[s]
BY DEF CaptureTypeOK, Call

LEMMA DeskInit == CaptureInit => DeskInv
BY CandidatesAssumption DEF CaptureInit, DeskInv, WorkIsComplete, CaptureTypeOK, DoneTaskYielded, CaptureIsBacked, PromotedIsMapped,
                            CallSound, At, Quiet, NoTask, NoProposal, CaptureCalls, Numbers

\* What the pipeline queues reopens nothing.
LEMMA QueueingKeeps ==
  ASSUME DeskInv, (\E t \in Tasks : RouteToManualCapture(t)) \/ \E k \in Suggested : ProposeField(k)
  PROVE  DeskInv'
<1>1. ASSUME NEW t \in Tasks, RouteToManualCapture(t)
      PROVE  DeskInv'
  <2>1. tasks' \in [Tasks -> {NoTask, "open", "done"}] /\ \A u \in Tasks : tasks'[u] = "done" => tasks[u] = "done"
    BY <1>1 DEF RouteToManualCapture, DeskInv, WorkIsComplete, CaptureTypeOK
  <2> QED BY <1>1, <2>1 DEF RouteToManualCapture, vocabularyVars, DeskInv, WorkIsComplete, CaptureTypeOK, DoneTaskYielded,
                            CaptureIsBacked, PromotedIsMapped, CallSound, At
<1>2. ASSUME NEW k \in Suggested, ProposeField(k)
      PROVE  DeskInv'
  <2>1. proposals' \in [Suggested -> {NoProposal, "open", "promoted"}]
        /\ \A j \in Suggested : proposals'[j] = "promoted" => proposals[j] = "promoted"
    BY <1>2 DEF ProposeField, DeskInv, WorkIsComplete, CaptureTypeOK
  <2> QED BY <1>2, <2>1 DEF ProposeField, deskVars, DeskInv, WorkIsComplete, CaptureTypeOK, DoneTaskYielded,
                            CaptureIsBacked, PromotedIsMapped, CallSound, At
<1> QED BY <1>1, <1>2

\* A capture begins: nothing is written but an ad-hoc task.
LEMMA BeginKeeps ==
  ASSUME DeskInv, NEW r \in Reviewers, NEW t \in Tasks, BeginComplete(r, t) \/ BeginAdHoc(r, t)
  PROVE  DeskInv'
<1>0. CaptureTypeOK
  BY DEF DeskInv, WorkIsComplete
<1>1. minted + 1 \in Numbers /\ minted' = minted + 1 /\ minted' \in 0..MaxCandidates
  BY <1>0, CandidatesAssumption DEF BeginComplete, BeginAdHoc, CaptureTypeOK, Numbers
<1>2. PICK x \in BOOLEAN : Call(r, [step |-> "evidence", task |-> t, number |-> minted + 1, closes |-> x])
  BY DEF BeginComplete, BeginAdHoc
<1> DEFINE c == [step |-> "evidence", task |-> t, number |-> minted + 1, closes |-> x]
<1>3. c \in CaptureCalls /\ c.step = "evidence"
  BY <1>1 DEF CaptureCalls
<1>4. calls' \in [Reviewers -> CaptureCalls] /\ calls'[r].step = "evidence" /\ \A s \in Reviewers : s # r => calls'[s] = calls[s]
  BY <1>0, <1>2, <1>3, CallReplaced
<1>5. /\ tasks' \in [Tasks -> {NoTask, "open", "done"}] /\ adHoc' \subseteq Tasks
      /\ \A u \in Tasks : tasks'[u] = "done" /\ u \notin adHoc' => tasks[u] = "done" /\ u \notin adHoc
  BY <1>0 DEF BeginComplete, BeginAdHoc, CaptureTypeOK
<1>6. UNCHANGED <<bundles, audited, candidates, proposals, aliases, contended>>
  BY DEF BeginComplete, BeginAdHoc, vocabularyVars
<1>7. WorkIsComplete'
  BY <1>0, <1>1, <1>4, <1>5, <1>6 DEF DeskInv, WorkIsComplete, CaptureTypeOK, DoneTaskYielded, CaptureIsBacked, PromotedIsMapped
<1>8. \A s \in Reviewers : CallSound(s)'
  BY <1>4, <1>6 DEF DeskInv, CallSound, At
<1> QED BY <1>7, <1>8 DEF DeskInv

\* A capture goes on: bundle, audit row, candidate, task, in this order.
LEMMA CaptureKeeps ==
  ASSUME DeskInv, NEW r \in Reviewers, SaveBundle(r) \/ AuditCapture(r) \/ InsertCandidate(r) \/ CloseTask(r)
  PROVE  DeskInv'
<1>0. CaptureTypeOK
  BY DEF DeskInv, WorkIsComplete
<1>1. calls[r] \in CaptureCall /\ calls[r].number \in Numbers /\ calls[r].task \in Tasks
  <2>1. calls[r].step \in {"evidence", "audit", "insert", "close"}
    BY DEF SaveBundle, AuditCapture, InsertCandidate, CloseTask, At
  <2>2. calls[r] \in CaptureCall
    BY <1>0, <2>1, CallShape
  <2> QED BY <2>2 DEF CaptureCall
<1> DEFINE row == [number |-> calls[r].number, task |-> calls[r].task]
<1>2. /\ bundles \subseteq bundles' /\ audited \subseteq audited' /\ candidates \subseteq candidates'
      /\ bundles' \subseteq Numbers /\ audited' \subseteq Numbers /\ candidates' \subseteq [number: Numbers, task: Tasks]
      /\ UNCHANGED <<adHoc, minted, proposals, aliases, contended>>
  BY <1>0, <1>1 DEF SaveBundle, AuditCapture, InsertCandidate, CloseTask, vocabularyVars, CaptureTypeOK
<1>3. \/ Call(r, Quiet)
      \/ \E s \in {"audit", "insert", "close"} : Call(r, [calls[r] EXCEPT !.step = s])
  BY DEF SaveBundle, AuditCapture, InsertCandidate, CloseTask, Goto
<1>4. calls' \in [Reviewers -> CaptureCalls] /\ \A s \in Reviewers : s # r => calls'[s] = calls[s]
  <2>1. Quiet \in CaptureCalls /\ \A s \in {"audit", "insert", "close"} : [calls[r] EXCEPT !.step = s] \in CaptureCalls
    BY <1>1, CallMoves DEF CaptureCalls, CaptureCall
  <2> QED BY <1>0, <1>3, <2>1, CallReplaced
<1>5. \A s \in Reviewers \ {r} : CallSound(s)'
  BY <1>2, <1>4 DEF DeskInv, CallSound, At
<1>6. ASSUME NEW s \in {"audit", "insert", "close"}, Goto(r, s)
      PROVE  calls'[r].step = s /\ calls'[r].number = calls[r].number /\ calls'[r].task = calls[r].task
  BY <1>0, <1>1, <1>6, CallMoves DEF Goto, Call, CaptureTypeOK
<1>7. ASSUME Call(r, Quiet)
      PROVE  calls'[r].step = "quiet"
  BY <1>0, <1>7 DEF Call, CaptureTypeOK, Quiet
<1>8. CaptureIsBacked' /\ CallSound(r)'
  <2>1. CASE SaveBundle(r)
    BY <1>2, <1>6, <2>1 DEF SaveBundle, DeskInv, WorkIsComplete, CaptureIsBacked, CallSound, At
  <2>2. CASE AuditCapture(r)
    BY <1>2, <1>6, <2>2 DEF AuditCapture, DeskInv, WorkIsComplete, CaptureIsBacked, CallSound, At
  <2>3. CASE InsertCandidate(r)
    <3>1. calls[r].number \in bundles /\ calls[r].number \in audited /\ candidates' = candidates \cup {row}
          /\ UNCHANGED <<bundles, audited>>
      BY <2>3 DEF InsertCandidate, DeskInv, CallSound, At
    <3>2. CaptureIsBacked'
      BY <3>1 DEF DeskInv, WorkIsComplete, CaptureIsBacked
    <3>3. CallSound(r)'
      BY <1>6, <1>7, <2>3, <3>1 DEF InsertCandidate, CallSound, At
    <3> QED BY <3>2, <3>3
  <2>4. CASE CloseTask(r)
    BY <1>2, <1>7, <2>4 DEF CloseTask, DeskInv, WorkIsComplete, CaptureIsBacked, CallSound, At
  <2> QED BY <2>1, <2>2, <2>3, <2>4
<1>9. tasks' \in [Tasks -> {NoTask, "open", "done"}] /\ DoneTaskYielded'
  <2>1. CASE tasks' = tasks
    BY <1>0, <1>2, <2>1 DEF CaptureTypeOK, DeskInv, WorkIsComplete, DoneTaskYielded
  <2>2. CASE tasks' # tasks
    <3>1. CloseTask(r) /\ row \in candidates'
      BY <1>2, <2>2 DEF SaveBundle, AuditCapture, InsertCandidate, CloseTask, DeskInv, CallSound, At
    <3>2. tasks' = [tasks EXCEPT ![calls[r].task] = "done"]
      BY <3>1 DEF CloseTask
    <3> QED BY <1>0, <1>1, <1>2, <3>1, <3>2 DEF CaptureTypeOK, DeskInv, WorkIsComplete, DoneTaskYielded
  <2> QED BY <2>1, <2>2
<1>10. CaptureTypeOK' /\ PromotedIsMapped'
  BY <1>0, <1>2, <1>4, <1>9 DEF CaptureTypeOK, DeskInv, WorkIsComplete, PromotedIsMapped
<1> QED BY <1>5, <1>8, <1>9, <1>10 DEF DeskInv, WorkIsComplete

\* A promotion, or a call that ends anywhere.
LEMMA PromotionKeeps ==
  ASSUME DeskInv, NEW r \in Reviewers,
         \/ \E k \in Suggested, c \in Canonical : BeginPromotion(r, k, c)
         \/ UpsertEntry(r) \/ MarkProposal(r) \/ Abandon(r)
  PROVE  DeskInv'
<1>0. CaptureTypeOK
  BY DEF DeskInv, WorkIsComplete
<1>1. Quiet \in CaptureCalls /\ Quiet.step = "quiet"
  BY DEF CaptureCalls, Quiet
<1>2. CASE Abandon(r)
  <2>1. calls' \in [Reviewers -> CaptureCalls] /\ calls'[r].step = "quiet" /\ \A s \in Reviewers : s # r => calls'[s] = calls[s]
    BY <1>0, <1>1, <1>2, CallReplaced DEF Abandon
  <2> QED BY <1>0, <1>2, <2>1 DEF Abandon, deskVars, vocabularyVars, DeskInv, WorkIsComplete, CaptureTypeOK, DoneTaskYielded,
                                  CaptureIsBacked, PromotedIsMapped, CallSound, At
<1>3. ASSUME NEW k \in Suggested, NEW c \in Canonical, BeginPromotion(r, k, c)
      PROVE  DeskInv'
  <2> DEFINE n == [step |-> "upsert", key |-> k, canonical |-> c, read |-> aliases[c]]
  <2>1. n \in CaptureCalls /\ n.step = "upsert" /\ n.canonical = c /\ n.read = aliases[c]
    BY <1>0 DEF CaptureCalls, CaptureTypeOK
  <2> HIDE DEF n
  <2>2. calls' \in [Reviewers -> CaptureCalls] /\ calls'[r] = n /\ \A s \in Reviewers : s # r => calls'[s] = calls[s]
    BY <1>0, <1>3, <2>1, CallReplaced DEF BeginPromotion, n
  <2> QED BY <1>0, <1>3, <2>1, <2>2 DEF BeginPromotion, deskVars, vocabularyVars, DeskInv, WorkIsComplete, CaptureTypeOK,
                                        DoneTaskYielded, CaptureIsBacked, PromotedIsMapped, CallSound, At
<1>4. CASE UpsertEntry(r)
  <2> DEFINE c == calls[r].canonical
             k == calls[r].key
             entry == calls[r].read \cup {k}
  <2>1. calls[r] \in PromotionCall /\ At(r, "upsert")
    BY <1>0, <1>4, CallShape DEF UpsertEntry, At
  <2>2. c \in Canonical /\ k \in Suggested /\ entry \subseteq Suggested
    BY <2>1 DEF PromotionCall
  <2>3. /\ aliases' = [aliases EXCEPT ![c] = entry] /\ aliases \in [Canonical -> SUBSET Suggested]
        /\ contended' = IF SameEntry(r) = {} THEN contended ELSE contended \cup aliases'[c]
        /\ UNCHANGED <<tasks, adHoc, bundles, audited, candidates, minted, proposals>>
    BY <1>0, <1>4 DEF UpsertEntry, deskVars, CaptureTypeOK
  <2>4. aliases' \in [Canonical -> SUBSET Suggested] /\ aliases'[c] = entry /\ \A d \in Canonical : d # c => aliases'[d] = aliases[d]
    BY <2>2, <2>3
  <2>5. contended \subseteq contended' /\ contended' \subseteq Suggested
    BY <1>0, <2>2, <2>3, <2>4 DEF CaptureTypeOK
  <2>6. /\ calls' \in [Reviewers -> CaptureCalls] /\ calls'[r].step = "mark" /\ calls'[r].key = k
        /\ \A s \in Reviewers : s # r => calls'[s] = calls[s]
    <3> DEFINE n == [calls[r] EXCEPT !.step = "mark"]
    <3>1. n \in PromotionCall /\ n.step = "mark" /\ n.key = k
      BY <2>1, CallMoves
    <3>2. n \in CaptureCalls /\ Call(r, n)
      BY <1>4, <3>1 DEF CaptureCalls, PromotionCall, UpsertEntry, Goto
    <3> HIDE DEF n
    <3> QED BY <1>0, <3>1, <3>2, CallReplaced
  <2>7. aliases[c] \subseteq entry \cup contended
    BY <2>1 DEF DeskInv, CallSound
  <2>8. \A j \in Suggested : (\E d \in Canonical : j \in aliases[d]) \/ j \in contended
                               => (\E d \in Canonical : j \in aliases'[d]) \/ j \in contended'
    BY <2>2, <2>4, <2>5, <2>7
  <2>9. WorkIsComplete'
    BY <1>0, <2>3, <2>4, <2>5, <2>6, <2>8 DEF DeskInv, WorkIsComplete, CaptureTypeOK, DoneTaskYielded, CaptureIsBacked, PromotedIsMapped
  <2>10. CallSound(r)'
    BY <2>2, <2>4, <2>6 DEF CallSound, At
  <2>11. ASSUME NEW s \in Reviewers, s # r PROVE CallSound(s)'
    <3>1. CallSound(s) /\ calls'[s] = calls[s]
      BY <2>6, <2>11 DEF DeskInv
    <3>2. CASE At(s, "upsert")
      <4>1. calls[s] \in PromotionCall /\ calls[s].canonical \in Canonical
        BY <1>0, <3>2, CallShape DEF At, PromotionCall
      <4>2. CASE calls[s].canonical = c
        <5>1. s \in SameEntry(r)
          BY <2>11, <3>2, <4>2 DEF SameEntry
        <5> QED BY <2>3, <3>1, <3>2, <4>2, <5>1 DEF CallSound, At
      <4>3. CASE calls[s].canonical # c
        BY <2>4, <2>5, <3>1, <3>2, <4>1, <4>3 DEF CallSound, At
      <4> QED BY <4>2, <4>3
    <3>3. CASE At(s, "mark")
      <4>1. calls[s].key \in Suggested
        BY <1>0, <3>3, CallShape DEF At, PromotionCall
      <4> QED BY <2>8, <3>1, <3>3, <4>1 DEF CallSound, At
    <3>4. CASE ~At(s, "upsert") /\ ~At(s, "mark")
      BY <2>3, <3>1, <3>4 DEF CallSound, At
    <3> QED BY <3>2, <3>3, <3>4
  <2> QED BY <2>9, <2>10, <2>11 DEF DeskInv
<1>5. CASE MarkProposal(r)
  <2>1. calls[r] \in PromotionCall /\ calls[r].key \in Suggested
    BY <1>0, <1>5, CallShape DEF MarkProposal, At, PromotionCall
  <2>2. calls' \in [Reviewers -> CaptureCalls] /\ calls'[r].step = "quiet" /\ \A s \in Reviewers : s # r => calls'[s] = calls[s]
    BY <1>0, <1>1, <1>5, CallReplaced DEF MarkProposal
  <2>3. /\ proposals' \in [Suggested -> {NoProposal, "open", "promoted"}]
        /\ \A j \in Suggested : j # calls[r].key => proposals'[j] = proposals[j]
    BY <1>0, <1>5, <2>1 DEF MarkProposal, CaptureTypeOK
  <2>4. (\E c \in Canonical : calls[r].key \in aliases[c]) \/ calls[r].key \in contended
    BY <1>5 DEF MarkProposal, DeskInv, CallSound, At
  <2>5. UNCHANGED <<tasks, adHoc, bundles, audited, candidates, minted, aliases, contended>>
    BY <1>5 DEF MarkProposal, deskVars
  <2> QED BY <1>0, <2>2, <2>3, <2>4, <2>5 DEF DeskInv, WorkIsComplete, CaptureTypeOK, DoneTaskYielded, CaptureIsBacked,
                                              PromotedIsMapped, CallSound, At
<1> QED BY <1>2, <1>3, <1>4, <1>5

\* Whatever the reviewers do next to each other, and wherever a call dies: a task
\* that is done has its candidate, a candidate its capture and audit row, and a
\* promoted key its alias unless two promotions met on one entry.
THEOREM WorkStaysComplete == CaptureSpec => []WorkIsComplete
<1>1. DeskInv /\ [CaptureNext]_captureVars => DeskInv'
  <2>1. ASSUME DeskInv, UNCHANGED captureVars PROVE DeskInv'
    BY <2>1 DEF captureVars, DeskInv, WorkIsComplete, CaptureTypeOK, DoneTaskYielded, CaptureIsBacked, PromotedIsMapped, CallSound, At
  <2>2. ASSUME DeskInv, CaptureNext PROVE DeskInv'
    BY <2>2, QueueingKeeps, BeginKeeps, CaptureKeeps, PromotionKeeps DEF CaptureNext
  <2> QED BY <2>1, <2>2
<1>2. DeskInv => WorkIsComplete
  BY DEF DeskInv
<1> QED BY <1>1, <1>2, DeskInit, PTL DEF CaptureSpec

-----------------------------------------------------------------------------
(* Settings.                                                                *)

\* A process that consumes the queue read a row of another deployment.
ProcessSound(p) == process[p].step \in {"delete", "adopt"} => process[p].row.stamp # process[p].of

SettingsInv == QueuedBudgetKept /\ \A p \in Processes : ProcessSound(p)

Consuming == [step: {"delete", "adopt"}, of: Deployments, row: QueueRow]
Started == [step: {"get"}, of: Deployments]
Serving == [step: {"up"}, of: Deployments, budget: Serials \cup {FromConfig}]
Process == {Down} \cup Started \cup Consuming \cup Serving

\* The step of a process says what it holds.
LEMMA ProcessShape ==
  ASSUME SettingsTypeOK, NEW p \in Processes
  PROVE  /\ process[p] \in Process
         /\ process[p].step \in {"delete", "adopt"} => process[p] \in Consuming
         /\ process[p].step = "get" => process[p] \in Started
         /\ process[p].step = "up" => process[p] \in Serving
         /\ process[p].step \in {"delete", "adopt", "get", "up"} => process[p].of \in Deployments
BY DEF SettingsTypeOK, Process, Consuming, Started, Serving, Down

\* A step of one process leaves the others as they are.
LEMMA ProcessReplaced ==
  ASSUME SettingsTypeOK, NEW p \in Processes, NEW x \in Process, Step(p, x)
  PROVE  process' \in [Processes -> Process] /\ process'[p] = x /\ \A q \in Processes : q # p => process'[q] = process[q]
BY DEF SettingsTypeOK, Step, Process, Consuming, Started, Serving

\* What is queued is a row, and its serial a serial.
LEMMA PendingFits ==
  ASSUME SettingsTypeOK
  PROVE  Pending \subseteq Serials /\ (queue # NoQueue => queue \in QueueRow /\ Pending = {queue.serial})
BY DEF SettingsTypeOK, Pending, QueueRow, NoQueue, Serials

\* A value keeps its fate: what waits goes on waiting or is accounted for, and so
\* does what a process is about to adopt.
LEMMA FateKept ==
  ASSUME SettingsInv, numbered' = numbered,
         Pending \subseteq Pending' \cup dropped' \cup swept' \cup {n \in Serials : \E p \in Processes : process'[p].step = "adopt" /\ process'[p].row.serial = n},
         adopted \subseteq adopted', dropped \subseteq dropped', swept \subseteq swept', orphaned \subseteq orphaned',
         \A p \in Processes : process[p].step = "adopt" =>
           \/ process'[p] = process[p]
           \/ process[p].row.serial \in adopted' \cup orphaned'
  PROVE  QueuedHasFate'
BY DEF SettingsInv, QueuedBudgetKept, QueuedHasFate

LEMMA SettingsInitHolds == SettingsInit => SettingsInv
<1> SUFFICES ASSUME SettingsInit PROVE SettingsInv
  OBVIOUS
<1>1. ownAge \in BOOLEAN /\ ~ownAge
  BY DEF SettingsInit
<1>2. \A p \in Processes : process[p] = Down /\ Down.step = "down"
  BY DEF SettingsInit, Down
<1>3. SettingsTypeOK
  BY <1>1, <1>2, SettingsAssumption DEF SettingsInit, SettingsTypeOK, NoQueue, Deployments, Serials
<1>4. QueuedHasFate
  BY DEF SettingsInit, QueuedHasFate
<1> QED BY <1>1, <1>2, <1>3, <1>4 DEF SettingsInv, QueuedBudgetKept, NextDeploymentOnly, ProcessSound

\* The panel.
LEMMA PanelKeeps ==
  ASSUME SettingsInv, NEW p \in Processes, ClearQueue(p) \/ \E sound \in BOOLEAN : QueueBudget(p, sound)
  PROVE  SettingsInv'
<1>0. SettingsTypeOK /\ Pending \subseteq Serials
  BY PendingFits DEF SettingsInv, QueuedBudgetKept
<1>1. UNCHANGED <<deployment, process, adopted, swept, orphaned, ownAge>> /\ dropped' = dropped \cup Pending
  BY DEF ClearQueue, QueueBudget
<1>2. CASE ClearQueue(p)
  <2>1. numbered' = numbered /\ queue' = NoQueue
    BY <1>2 DEF ClearQueue
  <2>2. QueuedHasFate'
    BY <1>1, <2>1, FateKept
  <2> QED BY <1>0, <1>1, <2>1, <2>2 DEF SettingsInv, QueuedBudgetKept, SettingsTypeOK, NextDeploymentOnly, ProcessSound
<1>3. ASSUME NEW sound \in BOOLEAN, QueueBudget(p, sound)
      PROVE  SettingsInv'
  <2>1. numbered' = numbered + 1 /\ numbered' \in 0..MaxQueued /\ numbered' \in Serials /\ numbered \in 0..MaxQueued
    BY <1>0, <1>3, SettingsAssumption DEF QueueBudget, SettingsTypeOK, Serials
  <2>2. process[p].of \in Deployments /\ queue' = [serial |-> numbered', stamp |-> process[p].of, sound |-> sound]
    BY <1>0, <1>3, ProcessShape DEF QueueBudget, Up
  <2>3. queue' \in QueueRow /\ queue'.serial = numbered'
    BY <2>1, <2>2 DEF QueueRow
  <2>4. numbered' \in Pending'
    BY <2>1, <2>3 DEF Pending, Serials
  <2>5. ASSUME NEW n \in 1..numbered'
        PROVE  \/ n \in Pending' \cup adopted' \cup dropped' \cup swept' \cup orphaned'
               \/ \E q \in Processes : process'[q].step = "adopt" /\ process'[q].row.serial = n
    <3>1. n = numbered' \/ n \in 1..numbered
      BY <2>1, SettingsAssumption
    <3> QED BY <1>1, <2>4, <3>1 DEF SettingsInv, QueuedBudgetKept, QueuedHasFate
  <2>6. QueuedHasFate'
    BY <2>5 DEF QueuedHasFate
  <2> QED BY <1>0, <1>1, <2>1, <2>3, <2>6 DEF SettingsInv, QueuedBudgetKept, SettingsTypeOK, NextDeploymentOnly, ProcessSound
<1> QED BY <1>2, <1>3

\* The life of a process.
LEMMA LifeKeeps ==
  ASSUME SettingsInv, NEW p \in Processes, Start(p) \/ ReadQueue(p) \/ DeleteQueue(p) \/ Adopt(p) \/ Exit(p)
  PROVE  SettingsInv'
<1>0. SettingsTypeOK /\ Pending \subseteq Serials
  BY PendingFits DEF SettingsInv, QueuedBudgetKept
<1> DEFINE seen == process[p].row
<1>1. process[p].step \in {"delete", "adopt"} => seen \in QueueRow /\ seen.serial \in Serials /\ seen.stamp # process[p].of
  <2>1. ASSUME process[p] \in Consuming PROVE seen \in QueueRow /\ seen.serial \in Serials
    BY <2>1 DEF Consuming, QueueRow
  <2> QED BY <1>0, <2>1, ProcessShape DEF SettingsInv, ProcessSound
<1>2. ASSUME NEW x \in Process, Step(p, x), x.step = "adopt" => x.row.sound,
             x.step \in {"delete", "adopt"} => x.row.stamp # x.of,
             numbered' = numbered, deployment' = deployment, ownAge' = ownAge, queue' \in QueueRow \cup {NoQueue},
             adopted' \cup dropped' \cup swept' \cup orphaned' \subseteq Serials, QueuedHasFate'
      PROVE  SettingsInv'
  <2>1. process' \in [Processes -> Process] /\ process'[p] = x /\ \A q \in Processes : q # p => process'[q] = process[q]
    BY <1>0, <1>2, ProcessReplaced
  <2>2. \A q \in Processes : ProcessSound(q)' /\ (process'[q].step = "adopt" => process'[q].row.sound)
    BY <1>0, <1>2, <2>1 DEF SettingsInv, ProcessSound, SettingsTypeOK
  <2>3. SettingsTypeOK'
    BY <1>0, <1>2, <2>1, <2>2 DEF SettingsTypeOK, Process, Consuming, Started, Serving
  <2> QED BY <1>2, <2>2, <2>3 DEF SettingsInv, QueuedBudgetKept, NextDeploymentOnly
<1>3. CASE Start(p)
  <2> DEFINE x == [step |-> "get", of |-> deployment]
  <2>1. x \in Process /\ x.step = "get" /\ process[p] = Down /\ Down.step = "down"
    BY <1>0, <1>3 DEF SettingsTypeOK, Process, Started, Start, Down
  <2>2. Step(p, x) /\ UNCHANGED <<deployment, queue, numbered, adopted, dropped, swept, orphaned, ownAge>>
    BY <1>3 DEF Start
  <2>3. \A q \in Processes : q # p => process'[q] = process[q]
    BY <1>0, <2>1, <2>2, ProcessReplaced
  <2>4. QueuedHasFate'
    BY <2>1, <2>2, <2>3, FateKept DEF Pending
  <2> QED BY <1>0, <1>2, <2>1, <2>2, <2>4 DEF SettingsTypeOK
<1>4. CASE ReadQueue(p)
  <2> DEFINE take == [step |-> "delete", of |-> process[p].of, row |-> queue]
             keep == [step |-> "up", of |-> process[p].of, budget |-> FromConfig]
  <2>1. process[p].of \in Deployments /\ process[p].step = "get"
    BY <1>0, <1>4, ProcessShape DEF ReadQueue
  <2>2. UNCHANGED <<deployment, queue, numbered, adopted, dropped, swept, orphaned, ownAge>>
    BY <1>4 DEF ReadQueue
  <2>3. keep \in Process /\ keep.step = "up"
    BY <2>1 DEF Process, Serving
  <2>4. ForThisProcess(queue, p) =>
          /\ take \in Process /\ take.step = "delete" /\ take.row.stamp # take.of
    BY <1>0, <2>1, PendingFits DEF ForThisProcess, Process, Consuming
  <2>5. PICK x \in Process : Step(p, x) /\ x.step \in {"up", "delete"} /\ (x.step = "delete" => x.row.stamp # x.of)
    BY <1>4, <2>3, <2>4 DEF ReadQueue
  <2>6. \A q \in Processes : q # p => process'[q] = process[q]
    BY <1>0, <2>5, ProcessReplaced
  <2>7. QueuedHasFate'
    BY <2>1, <2>2, <2>6, FateKept DEF Pending
  <2> QED BY <1>0, <1>2, <2>2, <2>5, <2>7 DEF SettingsTypeOK
<1>5. CASE DeleteQueue(p)
  <2> DEFINE take == [process[p] EXCEPT !.step = "adopt"]
             keep == [step |-> "up", of |-> process[p].of, budget |-> FromConfig]
  <2>1. process[p] \in Consuming /\ process[p].of \in Deployments /\ process[p].step = "delete"
    BY <1>0, <1>5, ProcessShape DEF DeleteQueue
  <2>2. /\ UNCHANGED <<deployment, numbered, adopted, orphaned, ownAge>> /\ queue' = NoQueue
        /\ swept' = swept \cup (Pending \ {seen.serial})
        /\ dropped' = IF seen.sound THEN dropped ELSE dropped \cup {seen.serial}
    BY <1>5 DEF DeleteQueue
  <2>3. keep \in Process /\ keep.step = "up"
    BY <2>1 DEF Process, Serving
  <2>4. take \in Process /\ take.step = "adopt" /\ take.row = seen /\ take.of = process[p].of
    BY <2>1 DEF Process, Consuming
  <2>5. PICK x \in Process : /\ Step(p, x)
                             /\ seen.sound => x.step = "adopt" /\ x.row = seen /\ x.of = process[p].of
                             /\ ~seen.sound => x.step = "up"
    <3> HIDE DEF take, keep
    <3>1. Step(p, IF seen.sound THEN take ELSE keep)
      BY <1>5 DEF DeleteQueue, take, keep
    <3> QED BY <2>3, <2>4, <3>1
  <2>6. process'[p] = x /\ \A q \in Processes : q # p => process'[q] = process[q]
    BY <1>0, <2>5, ProcessReplaced
  <2>7. seen.serial \in dropped' \cup {n \in Serials : \E q \in Processes : process'[q].step = "adopt" /\ process'[q].row.serial = n}
    BY <1>1, <2>1, <2>2, <2>5, <2>6
  <2>8. QueuedHasFate'
    BY <1>0, <2>1, <2>2, <2>6, <2>7, FateKept
  <2>9. adopted' \cup dropped' \cup swept' \cup orphaned' \subseteq Serials
    BY <1>0, <1>1, <2>1, <2>2 DEF SettingsTypeOK
  <2> QED BY <1>1, <1>2, <2>1, <2>2, <2>5, <2>8, <2>9
<1>6. CASE Adopt(p)
  <2> DEFINE x == [step |-> "up", of |-> process[p].of, budget |-> seen.serial]
  <2>1. process[p].of \in Deployments /\ process[p].step = "adopt" /\ seen.serial \in Serials /\ seen.stamp # process[p].of
    BY <1>0, <1>1, <1>6, ProcessShape DEF Adopt
  <2>2. Step(p, x) /\ UNCHANGED <<deployment, queue, numbered, dropped, swept, orphaned>> /\ adopted' = adopted \cup {seen.serial}
        /\ ownAge' = (ownAge \/ seen.stamp = process[p].of)
    BY <1>6 DEF Adopt
  <2>3. x \in Process /\ x.step = "up"
    BY <2>1 DEF Process, Serving
  <2>4. \A q \in Processes : q # p => process'[q] = process[q]
    BY <1>0, <2>2, <2>3, ProcessReplaced
  <2>5. QueuedHasFate'
    BY <2>2, <2>4, FateKept DEF Pending
  <2>6. ownAge' = ownAge
    <3>1. (seen.stamp = process[p].of) = FALSE
      BY <2>1
    <3>2. ownAge \in BOOLEAN
      BY <1>0 DEF SettingsTypeOK
    <3> QED BY <2>2, <3>1, <3>2
  <2>7. adopted' \cup dropped' \cup swept' \cup orphaned' \subseteq Serials
    BY <1>0, <2>1, <2>2 DEF SettingsTypeOK
  <2> QED BY <1>0, <1>2, <2>2, <2>3, <2>5, <2>6, <2>7 DEF SettingsTypeOK
<1>7. CASE Exit(p)
  <2>1. /\ Step(p, Down) /\ UNCHANGED <<deployment, queue, numbered, adopted, dropped, swept, ownAge>>
        /\ orphaned' = IF process[p].step = "adopt" THEN orphaned \cup {seen.serial} ELSE orphaned
    BY <1>7 DEF Exit
  <2>2. Down \in Process /\ Down.step = "down"
    BY DEF Process, Down
  <2>3. \A q \in Processes : q # p => process'[q] = process[q]
    BY <1>0, <2>1, <2>2, ProcessReplaced
  <2>4. QueuedHasFate'
    BY <2>1, <2>3, FateKept DEF Pending
  <2>5. adopted' \cup dropped' \cup swept' \cup orphaned' \subseteq Serials
    BY <1>0, <1>1, <2>1 DEF SettingsTypeOK
  <2> QED BY <1>0, <1>2, <2>1, <2>2, <2>4, <2>5 DEF SettingsTypeOK
<1> QED BY <1>3, <1>4, <1>5, <1>6, <1>7

\* A budget that is queued waits, comes into force in another deployment than
\* its own, or meets one of the fates the property names, for any number of
\* processes that start, die and serve side by side.
THEOREM QueuedBudgetStays == SettingsSpec => []QueuedBudgetKept
<1>1. SettingsInv /\ [SettingsNext]_settingsVars => SettingsInv'
  <2>1. ASSUME SettingsInv, UNCHANGED settingsVars PROVE SettingsInv'
    BY <2>1 DEF settingsVars, SettingsInv, QueuedBudgetKept, SettingsTypeOK, NextDeploymentOnly, QueuedHasFate, ProcessSound, Pending
  <2>2. ASSUME SettingsInv, Deploy PROVE SettingsInv'
    <3>1. deployment' \in Deployments
      BY <2>2, SettingsAssumption DEF Deploy, SettingsInv, QueuedBudgetKept, SettingsTypeOK, Deployments
    <3> QED BY <2>2, <3>1 DEF Deploy, SettingsInv, QueuedBudgetKept, SettingsTypeOK, NextDeploymentOnly, QueuedHasFate,
                              ProcessSound, Pending
  <2>3. ASSUME SettingsInv, SettingsNext PROVE SettingsInv'
    BY <2>2, <2>3, PanelKeeps, LifeKeeps DEF SettingsNext
  <2> QED BY <2>1, <2>3
<1>2. SettingsInv => QueuedBudgetKept
  BY DEF SettingsInv
<1> QED BY <1>1, <1>2, SettingsInitHolds, PTL DEF SettingsSpec

-----------------------------------------------------------------------------
(* PoliteFetch.                                                             *)

\* The rules are asked, the host is waited for, the content is handed on.
Permitted(p) == p \in Disallowed => Origin[p] \in failedOpen

\* What the memory of the process means: it notes every page request, no outage is
\* remembered, every other answer for robots.txt is, and "no rules" only if there
\* were none to be had.
MemorySound ==
  /\ hitAt = lastHitAt
  /\ \A o \in Origins : lastHitAt[o] # Unset => lastHitAt[o] <= time
  /\ \A o \in Origins : robotsCache[o] # "deny" /\ (robotsCache[o] = "none" => o \in failedOpen)
  /\ \A o \in answered : robotsCache[o] # "unloaded"

\* What the job may rely on: the page passed the rules, and a sleeper wakes when
\* the host may be touched again.
JobSound ==
  /\ job.stage = "sleep" => lastHitAt[Origin[job.page]] # Unset
                            /\ job.wake = lastHitAt[Origin[job.page]] + MinInterval
  /\ RespectRobots /\ job.stage \in {"throttle", "sleep", "inner", "recheck"} => Permitted(job.page)

PoliteInv == PolitenessKept /\ MemorySound /\ JobSound

LEMMA JobShape ==
  ASSUME PoliteTypeOK
  PROVE  /\ job.stage \in {"robots", "throttle", "sleep", "inner", "recheck"} => job \in Job /\ job # Resting
         /\ job \in Job \cup {Resting} /\ Resting.stage = "rest"
         /\ job \in Job => /\ job.page \in Pages /\ job.final \in Pages
                           /\ Origin[job.page] \in Origins /\ Origin[job.final] \in Origins
BY DEF PoliteTypeOK, Job, Resting, Origins

LEMMA PoliteStarts == PoliteInit => PoliteInv
<1> SUFFICES ASSUME PoliteInit PROVE PoliteInv
  OBVIOUS
<1>1. PoliteTypeOK
  <2>1. 0 \in 0..LastMoment /\ (CHOOSE p \in Pages : TRUE) \in Pages
    BY PoliteAssumption
  <2> QED BY <2>1 DEF PoliteInit, PoliteTypeOK, Result, Weathers
<1>2. SpacedPerHost /\ DisallowedIsNotRead /\ RefusedForAReason /\ MemorySound /\ JobSound
  BY DEF PoliteInit, SpacedPerHost, DisallowedIsNotRead, RefusedForAReason, MemorySound, JobSound, Resting, Unset
<1> QED BY <1>1, <1>2 DEF PoliteInv, PolitenessKept

\* Consulting the rules: they are as remembered or as the server answers now.
LEMMA ConsultSound ==
  ASSUME PoliteInv, NEW p \in Pages, Consult(p)
  PROVE  /\ robotsCache' \in [Origins -> {"unloaded", "rules", "none", "deny"}]
         /\ \A o \in Origins : robotsCache'[o] # "deny" /\ (robotsCache'[o] = "none" => o \in failedOpen')
         /\ failedOpen \subseteq failedOpen'
         /\ answered' \subseteq Origins /\ \A o \in answered' : robotsCache'[o] # "unloaded"
         /\ SpacedPerHost'
         /\ Allows(Known(Origin[p]), p) => Permitted(p)'
         /\ ~Allows(Known(Origin[p]), p) => p \in Disallowed \/ Origin[p] \in failedClosed'
<1> DEFINE o == Origin[p]
<1>1. o \in Origins /\ robotsCache[o] \in {"unloaded", "rules", "none", "deny"} /\ weather[o] \in Weathers
      /\ robotsCache[o] # "deny" /\ (robotsCache[o] = "none" => o \in failedOpen)
  BY DEF PoliteInv, PolitenessKept, PoliteTypeOK, MemorySound, Origins
<1>2. /\ robotsCache' = [robotsCache EXCEPT ![o] = IF robotsCache[o] = "unloaded" THEN Keep(o) ELSE robotsCache[o]]
      /\ failedOpen' = IF robotsCache[o] = "unloaded" /\ weather[o] \in {"missing", "unreachable"}
                       THEN failedOpen \cup {o} ELSE failedOpen
      /\ failedClosed' = IF robotsCache[o] = "unloaded" /\ weather[o] = "failing"
                         THEN failedClosed \cup {o} ELSE failedClosed
  BY DEF Consult
<1>3. /\ weather[o] = "served" => LoadRobots(o) = "rules"
      /\ weather[o] = "failing" => LoadRobots(o) = "deny"
      /\ weather[o] \in {"missing", "unreachable"} => LoadRobots(o) = "none"
  BY DEF LoadRobots
<1>4. /\ robotsCache'[o] = IF robotsCache[o] = "unloaded" THEN Keep(o) ELSE robotsCache[o]
      /\ \A x \in Origins : x # o => robotsCache'[x] = robotsCache[x]
      /\ Keep(o) \in {"unloaded", "rules", "none"} /\ (Keep(o) = "none" => LoadRobots(o) = "none")
  BY <1>1, <1>2, <1>3 DEF PoliteInv, PolitenessKept, PoliteTypeOK, Keep, Weathers
<1>5. Known(o) = "none" => o \in failedOpen'
  BY <1>1, <1>2, <1>3 DEF Known, Weathers
<1>6. Known(o) \notin {"none", "rules"} => o \in failedClosed'
  BY <1>1, <1>2, <1>3 DEF Known, Weathers
<1>7. robotsCache' \in [Origins -> {"unloaded", "rules", "none", "deny"}]
  BY <1>1, <1>2, <1>4 DEF PoliteInv, PolitenessKept, PoliteTypeOK
<1>8. \A x \in Origins : robotsCache'[x] # "deny" /\ (robotsCache'[x] = "none" => x \in failedOpen')
  <2> SUFFICES ASSUME NEW x \in Origins PROVE robotsCache'[x] # "deny" /\ (robotsCache'[x] = "none" => x \in failedOpen')
    OBVIOUS
  <2>1. CASE x = o
    BY <1>1, <1>2, <1>3, <1>4, <2>1 DEF Weathers
  <2>2. CASE x # o
    BY <1>2, <1>4, <2>2 DEF PoliteInv, MemorySound
  <2> QED BY <2>1, <2>2
<1>9. answered' \subseteq Origins /\ \A x \in answered' : robotsCache'[x] # "unloaded"
  <2>1. \A x \in answered : x \in Origins /\ robotsCache[x] # "unloaded"
    BY DEF PoliteInv, PolitenessKept, PoliteTypeOK, MemorySound
  <2>2. \A x \in answered : robotsCache'[x] # "unloaded"
    BY <1>4, <2>1
  <2>3. robotsCache[o] = "unloaded" /\ weather[o] # "failing" => robotsCache'[o] # "unloaded"
    BY <1>1, <1>3, <1>4 DEF Keep, Weathers
  <2>4. answered' = IF robotsCache[o] = "unloaded" /\ weather[o] # "failing" THEN answered \cup {o} ELSE answered
    BY DEF Consult
  <2> QED BY <1>1, <2>1, <2>2, <2>3, <2>4
<1>10. SpacedPerHost'
  <2>1. robotsCache[o] = "unloaded" => o \notin answered
    BY DEF PoliteInv, MemorySound
  <2>2. ~crowded
    BY DEF PoliteInv, PolitenessKept, SpacedPerHost
  <2>3. crowded' = (crowded \/ (robotsCache[o] = "unloaded" /\ o \in answered))
    BY DEF Consult
  <2> QED BY <2>1, <2>2, <2>3, Zenon DEF SpacedPerHost
<1> QED BY <1>2, <1>5, <1>6, <1>7, <1>8, <1>9, <1>10 DEF Allows, Permitted

\* The two checks of the rules.
LEMMA CheckKeeps ==
  ASSUME PoliteInv, CheckRobots \/ Recheck
  PROVE  PoliteInv'
<1>0. PoliteTypeOK /\ job \in Job /\ UNCHANGED <<time, lastHitAt, weather, changes, hitAt>>
  BY JobShape DEF PoliteInv, PolitenessKept, CheckRobots, Recheck
<1>1. CASE CheckRobots
  <2>1. PICK p \in Pages : p = job.page
    BY <1>0, JobShape
  <2>2. Consult(p) /\ IF Allows(Known(Origin[p]), p)
                      THEN job' = [job EXCEPT !.stage = "throttle"] /\ UNCHANGED last
                      ELSE /\ last' = [outcome |-> "robots_disallowed", page |-> p, final |-> p]
                           /\ job' = Resting
    BY <1>1, <2>1 DEF CheckRobots, Return
  <2>3. /\ job' \in Job \cup {Resting} /\ last' \in Result
        /\ job' # Resting => job'.page = p /\ job'.stage = "throttle" /\ Allows(Known(Origin[p]), p)
    BY <1>0, <2>1, <2>2, JobShape DEF Job, Result, Resting, PoliteTypeOK
  <2>4. PoliteTypeOK' /\ MemorySound'
    BY <1>0, <2>2, <2>3, ConsultSound DEF PoliteTypeOK, PoliteInv, MemorySound
  <2>5. JobSound'
    BY <2>2, <2>3, ConsultSound DEF JobSound, Resting
  <2>6. DisallowedIsNotRead'
    BY <2>2, ConsultSound DEF PoliteInv, PolitenessKept, DisallowedIsNotRead
  <2>7. RefusedForAReason'
    <3>1. CASE job' = Resting
      <4>1. [job EXCEPT !.stage = "throttle"] # Resting
        BY <1>0 DEF Job, Resting
      <4>2. ~Allows(Known(Origin[p]), p) /\ last'.page = p
        BY <2>2, <3>1, <4>1
      <4>3. p \in Disallowed \/ Origin[p] \in failedClosed'
        BY <2>2, <4>2, ConsultSound
      <4> QED BY <4>2, <4>3 DEF RefusedForAReason
    <3>2. CASE job' # Resting
      BY <3>2 DEF RefusedForAReason
    <3> QED BY <3>1, <3>2
  <2> QED BY <2>2, <2>4, <2>5, <2>6, <2>7, ConsultSound DEF PoliteInv, PolitenessKept
<1>2. CASE Recheck
  <2>1. PICK p \in Pages, q \in Pages : p = job.final /\ q = job.page
    BY <1>0, JobShape
  <2>2. /\ Consult(p) /\ job' = Resting /\ (RespectRobots => Permitted(q))
        /\ last' = [outcome |-> IF Allows(Known(Origin[p]), p) THEN "ok" ELSE "robots_disallowed", page |-> q, final |-> p]
    BY <1>2, <2>1 DEF Recheck, Return, PoliteInv, JobSound
  <2>3. last' \in Result /\ job' \in Job \cup {Resting}
    BY <2>2 DEF Result
  <2>4. PoliteTypeOK' /\ MemorySound'
    BY <1>0, <2>2, <2>3, ConsultSound DEF PoliteTypeOK, PoliteInv, MemorySound
  <2>5. JobSound'
    BY <2>2 DEF JobSound, Resting
  <2>6. DisallowedIsNotRead'
    BY <2>2, ConsultSound DEF DisallowedIsNotRead, Permitted
  <2>7. RefusedForAReason'
    BY <2>2, ConsultSound DEF RefusedForAReason
  <2> QED BY <2>2, <2>4, <2>5, <2>6, <2>7, ConsultSound DEF PoliteInv, PolitenessKept
<1> QED BY <1>1, <1>2

\* Waiting for the host and touching it.
LEMMA TouchKeeps ==
  ASSUME PoliteInv, Throttle \/ Wake
  PROVE  PoliteInv'
<1>0. /\ PoliteTypeOK /\ SpacedPerHost /\ MemorySound /\ JobSound /\ DisallowedIsNotRead /\ RefusedForAReason
      /\ job \in Job /\ job.stage \in {"throttle", "sleep"}
      /\ UNCHANGED <<time, robotsCache, weather, changes, answered, failedOpen, failedClosed>>
  BY JobShape DEF PoliteInv, PolitenessKept, Throttle, Wake
<1>1. PICK p \in Pages, o \in Origins : p = job.page /\ o = Origin[p]
  BY <1>0, JobShape
<1>2. time \in 0..LastMoment /\ lastHitAt \in [Origins -> 0..LastMoment \cup {Unset}] /\ hitAt = lastHitAt
      /\ LastMoment \in Nat /\ MinInterval \in Nat
  BY <1>0, PoliteAssumption DEF PoliteTypeOK, MemorySound
<1>3. ASSUME lastHitAt' = [lastHitAt EXCEPT ![o] = time], Hit(o),
             lastHitAt[o] # Unset => time - lastHitAt[o] >= MinInterval
      PROVE  PoliteInv'
  <2>1. hitAt' = lastHitAt' /\ crowded' = crowded
    <3>1. ~(hitAt[o] # Unset /\ time - hitAt[o] < MinInterval)
      <4>1. lastHitAt[o] \in Int /\ time \in Int
        BY <1>2 DEF Unset
      <4> QED BY <1>2, <1>3, <4>1
    <3>2. crowded = FALSE
      BY <1>0 DEF SpacedPerHost
    <3> QED BY <1>2, <1>3, <3>1, <3>2 DEF Hit, SpacedPerHost
  <2>2. MemorySound'
    <3>1. \A x \in Origins : lastHitAt'[x] = IF x = o THEN time ELSE lastHitAt[x]
      BY <1>2, <1>3
    <3> QED BY <1>0, <1>2, <2>1, <3>1 DEF MemorySound
  <2>3. lastHitAt' \in [Origins -> 0..LastMoment \cup {Unset}]
    BY <1>2, <1>3
  <2>4. RespectRobots => Permitted(p)
    BY <1>0, <1>1 DEF JobSound
  <2>5. CASE job.kind = "fetch"
    <3>1. job' = [job EXCEPT !.stage = "inner"] /\ UNCHANGED last
      BY <1>3, <2>5 DEF Hit
    <3>2. job' \in Job /\ job'.stage = "inner" /\ job'.page = p /\ job' # Resting
      BY <1>0, <1>1, <3>1 DEF Job, Resting
    <3>3. PoliteTypeOK' /\ JobSound' /\ DisallowedIsNotRead' /\ RefusedForAReason'
      BY <1>0, <2>3, <2>4, <3>1, <3>2
         DEF PoliteTypeOK, JobSound, DisallowedIsNotRead, RefusedForAReason, Permitted
    <3> QED BY <1>0, <2>1, <2>2, <3>3 DEF PoliteInv, PolitenessKept, SpacedPerHost
  <2>6. CASE job.kind # "fetch"
    <3>1. job' = Resting /\ last' = [outcome |-> "ok", page |-> p, final |-> p]
      BY <1>1, <1>3, <2>6 DEF Hit, Return
    <3>2. last' \in Result
      BY <3>1 DEF Result
    <3>3. PoliteTypeOK' /\ JobSound' /\ DisallowedIsNotRead' /\ RefusedForAReason'
      BY <1>0, <2>3, <2>4, <3>1, <3>2
         DEF PoliteTypeOK, JobSound, DisallowedIsNotRead, RefusedForAReason, Permitted, Resting
    <3> QED BY <1>0, <2>1, <2>2, <3>3 DEF PoliteInv, PolitenessKept, SpacedPerHost
  <2> QED BY <2>5, <2>6
<1>4. CASE Wake
  <2>1. lastHitAt[o] # Unset /\ job.wake = lastHitAt[o] + MinInterval /\ time >= job.wake
    BY <1>0, <1>1, <1>4 DEF Wake, JobSound
  <2>2. time - lastHitAt[o] >= MinInterval
    <3>1. lastHitAt[o] \in Int /\ time \in Int
      BY <1>2 DEF Unset
    <3> QED BY <1>2, <2>1, <3>1
  <2> QED BY <1>1, <1>3, <1>4, <2>2 DEF Wake
<1>5. CASE Throttle /\ ~(Wait(o) > 0)
  <2>1. lastHitAt[o] # Unset => time - lastHitAt[o] >= MinInterval
    <3>1. lastHitAt[o] \in Int /\ time \in Int
      BY <1>2 DEF Unset
    <3> QED BY <1>2, <1>5, <3>1 DEF Wait
  <2> QED BY <1>1, <1>3, <1>5, <2>1 DEF Throttle
<1>6. CASE Throttle /\ Wait(o) > 0
  <2>1. lastHitAt[o] # Unset /\ lastHitAt[o] \in 0..LastMoment /\ lastHitAt[o] <= time
    BY <1>0, <1>2, <1>6 DEF Wait, MemorySound
  <2>2. PICK wake : wake = time + Wait(o)
    OBVIOUS
  <2>3. wake = lastHitAt[o] + MinInterval /\ wake \in Nat
    BY <1>2, <2>1, <2>2 DEF Wait
  <2>4. job' = [job EXCEPT !.stage = "sleep", !.wake = wake] /\ UNCHANGED <<lastHitAt, last, hitAt, crowded>>
    BY <1>1, <1>6, <2>2 DEF Throttle
  <2>5. job' \in Job /\ job'.stage = "sleep" /\ job'.page = p /\ job'.wake = wake /\ job' # Resting
    BY <1>0, <1>1, <2>3, <2>4 DEF Job, Resting
  <2>6. RespectRobots => Permitted(p)
    BY <1>0, <1>1 DEF JobSound
  <2>7. JobSound'
    BY <1>0, <1>1, <2>1, <2>3, <2>4, <2>5, <2>6 DEF JobSound, Permitted
  <2>8. PoliteTypeOK' /\ MemorySound' /\ DisallowedIsNotRead' /\ RefusedForAReason'
    BY <1>0, <2>4, <2>5 DEF PoliteTypeOK, MemorySound, DisallowedIsNotRead, RefusedForAReason
  <2> QED BY <1>0, <2>4, <2>7, <2>8 DEF PoliteInv, PolitenessKept, SpacedPerHost
<1> QED BY <1>4, <1>5, <1>6

\* The beginning of a job, and its wrapped fetcher.
LEMMA InnerKeeps ==
  ASSUME PoliteInv, \/ RetryInner \/ InnerFails
                    \/ \E p \in Pages : InnerReads(p) \/ \E kind \in {"fetch", "access"} : Begin(kind, p)
  PROVE  PoliteInv'
<1>0. /\ PoliteTypeOK /\ SpacedPerHost /\ MemorySound /\ JobSound /\ DisallowedIsNotRead /\ RefusedForAReason
      /\ UNCHANGED <<time, lastHitAt, robotsCache, weather, changes, hitAt, answered, crowded, failedOpen>>
  BY DEF PoliteInv, PolitenessKept, RetryInner, InnerFails, InnerReads, Begin
<1>1. /\ SpacedPerHost' /\ MemorySound'
      /\ job' \in Job \cup {Resting} /\ last' \in Result => PoliteTypeOK'
  BY <1>0 DEF SpacedPerHost, MemorySound, PoliteTypeOK
<1>2. ASSUME NEW p \in Pages, NEW kind \in {"fetch", "access"}, Begin(kind, p) PROVE PoliteInv'
  <2>1. PICK s \in {"robots", "throttle"} :
          /\ job' = [stage |-> s, kind |-> kind, page |-> p, final |-> p, wake |-> 0, attempt |-> 0]
          /\ RespectRobots => s = "robots"
    BY <1>2, PoliteAssumption DEF Begin
  <2>2. job' \in Job /\ job'.stage = s /\ job' # Resting /\ last' = last
    BY <1>2, <2>1, PoliteAssumption DEF Job, Resting, Begin
  <2>3. JobSound' /\ DisallowedIsNotRead' /\ RefusedForAReason'
    BY <1>0, <2>1, <2>2 DEF JobSound, DisallowedIsNotRead, RefusedForAReason
  <2> QED BY <1>0, <1>1, <2>2, <2>3 DEF PoliteInv, PolitenessKept, PoliteTypeOK
<1>3. CASE RetryInner
  <2>1. job \in Job /\ job.stage = "inner" /\ job.attempt < Retries /\ UNCHANGED last
    BY <1>0, <1>3, JobShape DEF RetryInner
  <2>2. PICK n : n = job.attempt + 1
    OBVIOUS
  <2>3. job' = [job EXCEPT !.attempt = n] /\ n \in 0..Retries
    BY <1>3, <2>1, <2>2, PoliteAssumption DEF RetryInner, Job
  <2>4. job' \in Job /\ job'.stage = "inner" /\ job'.page = job.page /\ job' # Resting
    BY <2>1, <2>3 DEF Job, Resting
  <2>5. JobSound' /\ DisallowedIsNotRead' /\ RefusedForAReason'
    BY <1>0, <2>1, <2>4 DEF JobSound, DisallowedIsNotRead, RefusedForAReason, Permitted
  <2> QED BY <1>0, <1>1, <2>1, <2>4, <2>5 DEF PoliteInv, PolitenessKept, PoliteTypeOK
<1>4. CASE InnerFails
  <2>1. job' = Resting /\ last' = [outcome |-> "error", page |-> job.page, final |-> job.page] /\ job.page \in Pages
    BY <1>0, <1>4, JobShape DEF InnerFails, Return
  <2>2. last' \in Result
    BY <2>1 DEF Result
  <2>3. JobSound' /\ DisallowedIsNotRead' /\ RefusedForAReason'
    BY <2>1 DEF JobSound, DisallowedIsNotRead, RefusedForAReason, Resting
  <2> QED BY <1>1, <2>1, <2>2, <2>3 DEF PoliteInv, PolitenessKept
<1>5. ASSUME NEW final \in Pages, InnerReads(final) PROVE PoliteInv'
  <2>1. job \in Job /\ job.stage = "inner" /\ UNCHANGED failedClosed
    BY <1>0, <1>5, JobShape DEF InnerReads
  <2>2. PICK p \in Pages : p = job.page /\ (RespectRobots => Permitted(p))
    BY <1>0, <2>1, JobShape DEF JobSound
  <2>3. CASE RespectRobots /\ final # p
    <3>1. job' = [job EXCEPT !.stage = "recheck", !.final = final] /\ UNCHANGED last
      BY <1>5, <2>2, <2>3 DEF InnerReads
    <3>2. job' \in Job /\ job'.stage = "recheck" /\ job'.page = p /\ job' # Resting
      BY <2>1, <2>2, <3>1 DEF Job, Resting
    <3>3. JobSound' /\ DisallowedIsNotRead' /\ RefusedForAReason'
      BY <1>0, <2>2, <3>1, <3>2 DEF JobSound, DisallowedIsNotRead, RefusedForAReason, Permitted
    <3> QED BY <1>0, <1>1, <3>1, <3>2, <3>3 DEF PoliteInv, PolitenessKept, PoliteTypeOK
  <2>4. CASE ~(RespectRobots /\ final # p)
    <3>1. job' = Resting /\ last' = [outcome |-> "ok", page |-> p, final |-> final]
      BY <1>5, <2>2, <2>4 DEF InnerReads, Return
    <3>2. last' \in Result
      BY <3>1 DEF Result
    <3>3. JobSound' /\ DisallowedIsNotRead' /\ RefusedForAReason'
      BY <1>0, <2>2, <2>4, <3>1 DEF JobSound, DisallowedIsNotRead, RefusedForAReason, Permitted, Resting
    <3> QED BY <1>1, <3>1, <3>2, <3>3 DEF PoliteInv, PolitenessKept
  <2> QED BY <2>3, <2>4
<1> QED BY <1>2, <1>3, <1>4, <1>5

\* Time and weather.
LEMMA EnvironmentKeeps ==
  ASSUME PoliteInv, \/ Elapse \/ UNCHANGED politeVars
                    \/ \E o \in Origins, w \in Weathers : ChangeWeather(o, w)
  PROVE  PoliteInv'
<1>1. /\ UNCHANGED <<lastHitAt, robotsCache, job, last, hitAt, answered, crowded, failedOpen, failedClosed>>
      /\ time' \in 0..LastMoment /\ time <= time' /\ weather' \in [Origins -> Weathers] /\ time \in 0..LastMoment
  BY PoliteAssumption DEF PoliteInv, PolitenessKept, PoliteTypeOK, Elapse, politeVars, ChangeWeather
<1>2. PoliteTypeOK' /\ SpacedPerHost' /\ DisallowedIsNotRead' /\ RefusedForAReason' /\ JobSound'
  BY <1>1 DEF PoliteInv, PolitenessKept, PoliteTypeOK, SpacedPerHost, DisallowedIsNotRead, RefusedForAReason,
              JobSound, Permitted
<1>3. MemorySound'
  <2>1. \A o \in Origins : lastHitAt[o] # Unset => lastHitAt[o] \in 0..LastMoment
    BY DEF PoliteInv, PolitenessKept, PoliteTypeOK
  <2> QED BY <1>1, <2>1, PoliteAssumption DEF PoliteInv, MemorySound
<1> QED BY <1>2, <1>3 DEF PoliteInv, PolitenessKept

\* One process spaces its page requests to a host, asks again for a robots.txt only
\* where the server answered 5xx, reads nothing its rules forbid unless they were
\* out of reach when it first asked, and refuses nothing for an outage that is over,
\* whatever the servers do in between.
THEOREM ProcessIsPolite == PoliteSpec => []PolitenessKept
<1>1. PoliteInv /\ [PoliteNext]_politeVars => PoliteInv'
  BY CheckKeeps, TouchKeeps, InnerKeeps, EnvironmentKeeps DEF PoliteNext
<1>2. PoliteInv => PolitenessKept
  BY DEF PoliteInv
<1> QED BY <1>1, <1>2, PoliteStarts, PTL DEF PoliteSpec

-----------------------------------------------------------------------------
(* Alerts.                                                                  *)

Listing == [reading: 1..(Len(Statuses) + 1), keys: SUBSET Keys, reliable: SUBSET Sources, found: SUBSET Sources]
AlertRow == [id: 1..MaxAlerts, key: Keys, status: {"open", "acknowledged", "resolved"}]

\* What a listing in progress has made of a source on its page that stayed low and of
\* one status: it was not taken for reliable, and found if its status was read.
Found(s) ==
  /\ s \in low /\ s \notin view.reliable
  /\ \A i \in 1..Len(Statuses) : i < view.reading /\ Statuses[i] = status[s] => s \in view.found

\* What lasts is on the page: such sources, and the day that is still running.
ListingSound ==
  /\ view \in Listing \cup {NoListing}
  /\ view # NoListing => /\ steady \subseteq view.keys
                         /\ \A s \in steady \cap Sources : Found(s)
                         /\ \A d \in steady \ Sources : d = day

AlertInv == AlertsTypeOK /\ RaisedIsOpen /\ ListingSound /\ IsFiniteSet(alerts)

\* A listing in progress is a record; no listing is not one of them.
LEMMA ListingShape ==
  ASSUME ListingSound, view # NoListing
  PROVE  /\ view \in Listing /\ view.reading \in 1..(Len(Statuses) + 1)
         /\ view.keys \subseteq Keys /\ view.reliable \subseteq Sources /\ view.found \subseteq Sources
BY DEF ListingSound, Listing

\* Nothing is raised or listed at first.
LEMMA AlertsStart == AlertsInit => AlertInv
<1> SUFFICES ASSUME AlertsInit PROVE AlertInv
  OBVIOUS
<1>1. AlertsTypeOK
  BY AlertsAssumption DEF AlertsInit, AlertsTypeOK
<1>2. RaisedIsOpen /\ ListingSound
  BY DEF AlertsInit, RaisedIsOpen, ListingSound
<1> QED BY <1>1, <1>2, FS_EmptySet DEF AlertsInit, AlertInv

\* Raising opens a row only where none of the key is open.
LEMMA RaiseSound ==
  ASSUME AlertInv, NEW key \in Keys, Raise(key)
  PROVE  /\ alerts' \subseteq AlertRow /\ raised' \subseteq Keys /\ IsFiniteSet(alerts')
         /\ \A q, r \in alerts' : q.key = r.key /\ q.status = "open" /\ r.status = "open" => q = r
         /\ RaisedIsOpen'
<1>0. AlertsTypeOK /\ RaisedIsOpen /\ IsFiniteSet(alerts) /\ alerts \subseteq AlertRow
  BY DEF AlertInv, AlertsTypeOK, AlertRow
<1>1. CASE UNCHANGED <<alerts, raised>>
  BY <1>0, <1>1 DEF AlertsTypeOK, RaisedIsOpen, OpenRow
<1>2. CASE alerts' = UpsertOpen(key) /\ raised' = raised \cup {key}
  <2>1. CASE OpenRow(key) # {}
    BY <1>0, <1>2, <2>1 DEF AlertsTypeOK, RaisedIsOpen, OpenRow, UpsertOpen
  <2>2. CASE OpenRow(key) = {}
    <3>1. alerts' = alerts \cup {NewAlert(key)}
      BY <1>2, <2>2 DEF UpsertOpen
    <3>2. Cardinality(alerts) + 1 \in 1..MaxAlerts
      BY <1>0, FS_CardinalityType, AlertsAssumption DEF Raise
    <3>3. NewAlert(key) \in AlertRow /\ NewAlert(key).key = key /\ NewAlert(key).status = "open"
      BY <3>2 DEF NewAlert, AlertRow
    <3>4. IsFiniteSet(alerts')
      BY <1>0, <3>1, FS_AddElement
    <3>5. \A q, r \in alerts' : q.key = r.key /\ q.status = "open" /\ r.status = "open" => q = r
      BY <1>0, <2>2, <3>1, <3>3 DEF AlertsTypeOK, OpenRow
    <3>6. RaisedIsOpen'
      BY <1>0, <1>2, <3>1, <3>3 DEF RaisedIsOpen, OpenRow
    <3> QED BY <1>0, <1>2, <3>1, <3>3, <3>4, <3>5, <3>6 DEF AlertsTypeOK
  <2> QED BY <2>1, <2>2
<1> QED BY <1>1, <1>2 DEF Raise

\* The crawl flags a source, then updates its row; a batch reaches its ceiling.
LEMMA RaisingKeeps ==
  ASSUME AlertInv, \/ BudgetReached
                   \/ \E s \in Sources : FlagSource(s) \/ \E ok \in BOOLEAN : UpdateSource(s, ok)
  PROVE  AlertInv'
<1>0. AlertsTypeOK /\ RaisedIsOpen /\ ListingSound /\ IsFiniteSet(alerts)
  BY DEF AlertInv
<1>1. CASE BudgetReached
  <2>1. day \in Keys /\ Raise(day) /\ UNCHANGED <<day, low, status, flagging, view, shown, steady>>
    BY <1>0, <1>1 DEF BudgetReached, AlertsTypeOK, Keys
  <2>2. AlertsTypeOK'
    BY <1>0, <2>1, RaiseSound DEF AlertsTypeOK, AlertRow, Keys, StatusSet
  <2> QED BY <1>0, <2>1, <2>2, RaiseSound DEF AlertInv, ListingSound, Found
<1>2. ASSUME NEW s \in Sources, FlagSource(s) PROVE AlertInv'
  <2>1. s \in Keys /\ Raise(s) /\ UNCHANGED <<day, low, status, view, shown, steady>> /\ flagging' \subseteq Sources
    BY <1>0, <1>2 DEF FlagSource, AlertsTypeOK, Keys
  <2>2. AlertsTypeOK'
    BY <1>0, <2>1, RaiseSound DEF AlertsTypeOK, AlertRow, Keys, StatusSet
  <2> QED BY <1>0, <2>1, <2>2, RaiseSound DEF AlertInv, ListingSound, Found
<1>3. ASSUME NEW s \in Sources, NEW ok \in BOOLEAN, UpdateSource(s, ok) PROVE AlertInv'
  <2>1. UNCHANGED <<day, status, alerts, raised, view, shown, steady>>
    BY <1>3 DEF UpdateSource
  <2>2. low \subseteq low' /\ low' \subseteq Sources /\ flagging' \subseteq Sources
    BY <1>0, <1>3 DEF UpdateSource, AlertsTypeOK
  <2>3. AlertsTypeOK' /\ RaisedIsOpen'
    BY <1>0, <2>1, <2>2 DEF AlertsTypeOK, RaisedIsOpen, OpenRow
  <2>4. ListingSound'
    BY <1>0, <2>1, <2>2 DEF ListingSound, Found
  <2> QED BY <1>0, <2>1, <2>3, <2>4 DEF AlertInv
<1> QED BY <1>1, <1>2, <1>3

\* A cause goes away, a source moves, a day ends.
LEMMA CausesKeep ==
  ASSUME AlertInv, \/ NewDay \/ UNCHANGED alertVars
                   \/ \E s \in Sources : Recover(s) \/ \E to \in StatusSet : ChangeStatus(s, to)
  PROVE  AlertInv'
<1>0. /\ AlertsTypeOK /\ RaisedIsOpen /\ ListingSound /\ IsFiniteSet(alerts)
      /\ UNCHANGED <<flagging, alerts, raised, view, shown>>
  BY DEF AlertInv, NewDay, Recover, ChangeStatus, alertVars
<1>1. RaisedIsOpen'
  BY <1>0 DEF RaisedIsOpen, OpenRow
<1>2. /\ day' \in 1..LastDay /\ low' \subseteq Sources /\ status' \in [Sources -> StatusSet]
      /\ steady' \subseteq steady
      /\ \A s \in steady' : (s \in low => s \in low') /\ status'[s] = status[s]
  <2>0. day \in 1..LastDay /\ low \subseteq Sources /\ status \in [Sources -> StatusSet]
    BY <1>0 DEF AlertsTypeOK
  <2>1. CASE NewDay
    <3>1. day' \in 1..LastDay /\ steady' = steady \ {day} /\ UNCHANGED <<low, status>>
      BY <2>0, <2>1, AlertsAssumption DEF NewDay
    <3> QED BY <2>0, <3>1
  <2>2. CASE UNCHANGED alertVars
    BY <2>0, <2>2 DEF alertVars
  <2>3. CASE \E s \in Sources : Recover(s)
    <3>1. PICK x \in Sources : low' = low \ {x} /\ steady' = steady \ {x} /\ UNCHANGED <<day, status>>
      BY <2>3 DEF Recover
    <3> QED BY <2>0, <3>1
  <2>4. CASE \E s \in Sources, to \in StatusSet : ChangeStatus(s, to)
    <3>1. PICK x \in Sources, to \in StatusSet :
            status' = [status EXCEPT ![x] = to] /\ steady' = steady \ {x} /\ UNCHANGED <<day, low>>
      BY <2>4 DEF ChangeStatus
    <3>2. status' \in [Sources -> StatusSet] /\ \A s \in steady' : status'[s] = status[s]
      BY <2>0, <3>1
    <3> QED BY <2>0, <3>1, <3>2
  <2> QED BY <2>1, <2>2, <2>3, <2>4
<1>5. day' = day \/ day \notin steady'
  BY DEF NewDay, Recover, ChangeStatus, alertVars
<1>3. AlertsTypeOK'
  BY <1>0, <1>2 DEF AlertsTypeOK, StatusSet, Keys
<1>4. ListingSound'
  BY <1>0, <1>2, <1>5 DEF ListingSound, Found
<1> QED BY <1>0, <1>1, <1>3, <1>4 DEF AlertInv

\* A person handles a row: no row opens, and the key of an open one starts afresh.
LEMMA HandleKeeps ==
  ASSUME AlertInv, NEW r \in alerts, NEW to \in {"acknowledged", "resolved"}, Handle(r, to)
  PROVE  AlertInv'
<1>0. /\ AlertsTypeOK /\ RaisedIsOpen /\ ListingSound /\ IsFiniteSet(alerts) /\ alerts \subseteq AlertRow
      /\ UNCHANGED <<day, low, status, flagging, view, shown, steady>>
  BY DEF AlertInv, AlertsTypeOK, AlertRow, Handle
<1>1. PICK n : n = [r EXCEPT !.status = to]
  OBVIOUS
<1>2. n \in AlertRow /\ n.status # "open" /\ alerts' = (alerts \ {r}) \cup {n}
  BY <1>0, <1>1 DEF AlertRow, Handle
<1>3. IsFiniteSet(alerts')
  BY <1>0, <1>2, FS_RemoveElement, FS_AddElement
<1>4. RaisedIsOpen'
  <2> SUFFICES ASSUME NEW key \in raised' PROVE \E x \in alerts' : x.key = key /\ x.status = "open"
    BY DEF RaisedIsOpen, OpenRow
  <2>1. key \in raised /\ (r.status = "open" => key # r.key)
    BY DEF Handle
  <2>2. PICK x \in alerts : x.key = key /\ x.status = "open"
    BY <1>0, <2>1 DEF RaisedIsOpen, OpenRow
  <2> QED BY <1>2, <2>1, <2>2
<1>5. raised' \subseteq Keys
  BY <1>0 DEF AlertsTypeOK, Handle
<1>6. AlertsTypeOK'
  BY <1>0, <1>2, <1>5 DEF AlertsTypeOK, AlertRow, Keys, StatusSet
<1> QED BY <1>0, <1>3, <1>4, <1>6 DEF AlertInv, ListingSound, Found

\* The view begins, reads one status, or ends.
LEMMA ListKeeps ==
  ASSUME AlertInv, BeginList \/ ReadStatus \/ EndList
  PROVE  AlertInv'
<1>0. /\ AlertsTypeOK /\ RaisedIsOpen /\ ListingSound /\ IsFiniteSet(alerts) /\ Len(Statuses) \in Nat
      /\ UNCHANGED <<day, low, status, flagging, alerts, raised>>
  BY AlertsAssumption DEF AlertInv, BeginList, ReadStatus, EndList
<1>1. RaisedIsOpen'
  BY <1>0 DEF RaisedIsOpen, OpenRow
<1>2. shown' \subseteq Keys /\ steady' \subseteq Keys => AlertsTypeOK'
  BY <1>0 DEF AlertsTypeOK, StatusSet, Keys
<1>3. CASE BeginList
  <2>1. OpenOnPage \subseteq Keys
    BY <1>0 DEF AlertsTypeOK, OpenOnPage, Page
  <2>2. /\ view' \in Listing /\ view'.reading = 1 /\ view'.reliable = {} /\ view'.keys = OpenOnPage
        /\ steady' = OpenOnPage \cap (low \cup {day}) /\ shown' = shown
    BY <1>0, <1>3, <2>1 DEF BeginList, Listing
  <2>3. \A s \in steady' \cap Sources : s \in low
    BY <1>0, <2>2, AlertsAssumption DEF AlertsTypeOK
  <2>4. \A d \in steady' \ Sources : d = day
    BY <1>0, <2>2 DEF AlertsTypeOK
  <2>5. ListingSound'
    BY <1>0, <2>2, <2>3, <2>4 DEF ListingSound, Found
  <2> QED BY <1>0, <1>1, <1>2, <2>1, <2>2, <2>5 DEF AlertInv, AlertsTypeOK
<1>4. CASE ReadStatus
  <2>1. /\ view \in Listing /\ view.reading \in 1..Len(Statuses) /\ UNCHANGED <<shown, steady>>
    BY <1>0, <1>4, ListingShape, AlertsAssumption DEF ReadStatus
  <2>2. PICK batch : batch = {s \in Sources : status[s] = Statuses[view.reading]}
    OBVIOUS
  <2>3. view' = [view EXCEPT !.reading = @ + 1, !.found = @ \cup batch,
                             !.reliable = (@ \ batch) \cup (batch \ low)]
    BY <1>4, <2>2 DEF ReadStatus
  <2>4. /\ view' \in Listing /\ view'.reading = view.reading + 1 /\ view'.found = view.found \cup batch /\ view'.keys = view.keys
        /\ view'.reliable = (view.reliable \ batch) \cup (batch \ low)
    <3>1. PICK f \in SUBSET Sources, g \in SUBSET Sources :
            f = view.found \cup batch /\ g = (view.reliable \ batch) \cup (batch \ low)
      BY <1>0, <1>4, <2>2, ListingShape, Zenon DEF ReadStatus
    <3>2. PICK n \in 1..(Len(Statuses) + 1) : n = view.reading + 1
      BY <1>0, <2>1
    <3>3. view' = [view EXCEPT !.reading = n, !.found = f, !.reliable = g]
      BY <2>3, <3>1, <3>2
    <3> QED BY <2>1, <3>1, <3>2, <3>3 DEF Listing
  <2>5. ASSUME NEW s \in steady \cap Sources
        PROVE  /\ s \in low /\ s \notin view'.reliable
               /\ \A i \in 1..Len(Statuses) : i < view'.reading /\ Statuses[i] = status[s] => s \in view'.found
    <3>1. s \in Sources /\ view # NoListing
      BY <1>0, <1>4, <2>5 DEF AlertsTypeOK, ReadStatus
    <3>2. s \in low /\ s \notin view.reliable
      BY <1>0, <2>5, <3>1 DEF ListingSound, Found
    <3>3. ASSUME NEW i \in 1..Len(Statuses), i < view'.reading, Statuses[i] = status[s] PROVE s \in view'.found
      <4>1. i < view.reading \/ i = view.reading
        BY <2>1, <2>4, <3>3
      <4> QED BY <1>0, <2>2, <2>4, <2>5, <3>1, <3>3, <4>1 DEF ListingSound, Found
    <3> QED BY <2>4, <3>2, <3>3
  <2>6. ListingSound'
    BY <1>0, <1>4, <2>1, <2>4, <2>5 DEF ListingSound, Found, ReadStatus
  <2> QED BY <1>0, <1>1, <1>2, <2>1, <2>6 DEF AlertInv, AlertsTypeOK
<1>5. CASE EndList
  <2>1. view' = NoListing /\ steady' = steady /\ shown' \subseteq view.keys /\ view # NoListing
    BY <1>5 DEF EndList
  <2>2. shown' \subseteq Keys
    BY <1>0, <2>1, ListingShape
  <2>3. ListingSound'
    BY <2>1 DEF ListingSound
  <2> QED BY <1>0, <1>1, <1>2, <2>1, <2>2, <2>3 DEF AlertInv, AlertsTypeOK
<1> QED BY <1>3, <1>4, <1>5

\* What lasted is shown: a source that stayed low and of one status was found with
\* that status, and was not reliable there; the day is still running.
LEMMA ListingShows ==
  ASSUME AlertInv, [AlertsNext]_alertVars, view # NoListing, view' = NoListing
  PROVE  steady \subseteq shown'
<1>1. EndList
  <2>1. ~ReadStatus
    <3> SUFFICES ASSUME ReadStatus PROVE FALSE
      OBVIOUS
    <3>1. view \in Listing /\ view.reading \in Nat
      BY ListingShape DEF AlertInv
    <3>2. view'.reading = view.reading + 1
      BY <3>1 DEF ReadStatus, Listing
    <3> QED BY <3>1, <3>2 DEF NoListing
  <2>2. view' # view
    OBVIOUS
  <2> QED BY <2>1, <2>2 DEF AlertsNext, alertVars, FlagSource, Recover, UpdateSource, ChangeStatus, Handle,
                            BudgetReached, NewDay, BeginList
<1> SUFFICES ASSUME NEW s \in steady PROVE s \in shown'
  OBVIOUS
<1>2. s \in view.keys /\ (s \in Sources => Found(s)) /\ (s \notin Sources => s = day) /\ day \in Nat
  BY DEF AlertInv, AlertsTypeOK, ListingSound
<1>3. CASE s \in Sources
  <2>1. PICK i \in 1..Len(Statuses) : Statuses[i] = status[s]
    BY <1>3, AlertsAssumption DEF AlertInv, AlertsTypeOK, StatusSet
  <2>2. i < view.reading
    <3>1. view.reading \in 1..(Len(Statuses) + 1) /\ Len(Statuses) \in Nat
      BY ListingShape, AlertsAssumption DEF AlertInv
    <3>2. view.reading \notin 1..Len(Statuses)
      BY <1>1, AlertsAssumption DEF EndList
    <3> QED BY <3>1, <3>2
  <2>3. s \in view.found /\ s \notin view.reliable
    BY <1>2, <1>3, <2>1, <2>2 DEF Found
  <2>4. ~Cleared(s)
    BY <1>3, <2>3 DEF Cleared
  <2> QED BY <1>1, <1>2, <2>4 DEF EndList
<1>4. CASE s \notin Sources
  <2>1. ~Cleared(s)
    BY <1>2, <1>4 DEF Cleared
  <2> QED BY <1>1, <1>2, <2>1 DEF EndList
<1> QED BY <1>3, <1>4

\* Trouble is shown: what a crawl or a batch raised again after a person handled
\* it has an open row, and a listing shows open every alert on its page that is open
\* and whose cause lasts (postgres-db.ts:1284, alerts.ts:38-115), for any sources,
\* statuses, days and pages.
THEOREM TroubleStaysShown == AlertsSpec => TroubleIsShown
<1>1. AlertInv /\ [AlertsNext]_alertVars => AlertInv'
  BY RaisingKeeps, CausesKeep, HandleKeeps, ListKeeps DEF AlertsNext
<1>2. AlertInv => AlertsTypeOK /\ RaisedIsOpen
  BY DEF AlertInv
<1>3. AlertInv /\ [AlertsNext]_alertVars => [view # NoListing /\ view' = NoListing => steady \subseteq shown']_alertVars
  BY ListingShows
<1> QED BY <1>1, <1>2, <1>3, AlertsStart, PTL DEF AlertsSpec, TroubleIsShown, LastingCauseShown

-----------------------------------------------------------------------------
(* DbRetry.                                                                 *)

Answers == {"ok", "transient", "unavailable", "violation"}

\* What a call has done by the attempt it is at: nothing before the first, one
\* increment at most per attempt after it.
Paced(c) ==
  /\ running[c] = Waiting => hits[c] = 0 /\ c \notin inserted
  /\ Attempting(c) => /\ hits[c] <= running[c].number
                      /\ running[c].number = 0 => c \notin inserted
RetryInv == RetryTypeOK /\ \A c \in Calls : Paced(c)

\* The stages of a call exclude one another.
LEMMA RetryStages ==
  ASSUME RetryTypeOK, NEW c \in Calls
  PROVE  /\ \/ running[c] = Waiting
            \/ Attempting(c) /\ running[c] \in [stage: {"attempt"}, number: 0..DbRetries]
            \/ \E x \in Answers : running[c] = Answered(x)
         /\ \A x \in Answers : Answered(x) # Waiting /\ Answered(x).stage = "answered" /\ Answered(x).answer = x
         /\ Waiting.stage = "waiting"
BY DEF RetryTypeOK, Waiting, Answered, Attempting, Answers

\* A retry is the next attempt or the answer.
LEMMA TryAgainType ==
  ASSUME RetryTypeOK, NEW c \in Calls, Attempting(c), TryAgain(c)
  PROVE  /\ running' \in [Calls -> {Waiting} \cup [stage: {"attempt"}, number: 0..DbRetries]
                                    \cup {Answered(x) : x \in Answers}]
         /\ \A d \in Calls : d # c => running'[d] = running[d]
         /\ \/ /\ running'[c].stage = "attempt" /\ running'[c].number = running[c].number + 1
               /\ running[c].number \in 0..DbRetries
            \/ running'[c] = Answered("transient")
<1>1. running[c] \in [stage: {"attempt"}, number: 0..DbRetries]
  BY RetryStages DEF Attempting, Answers
<1> DEFINE next == [running[c] EXCEPT !.number = @ + 1]
<1>2. ASSUME running[c].number < DbRetries
      PROVE  next \in [stage: {"attempt"}, number: 0..DbRetries] /\ next.number = running[c].number + 1
  BY <1>1, <1>2, RetryAssumption
<1>3. CASE running[c].number < DbRetries
  <2>1. running' = [running EXCEPT ![c] = next]
    BY <1>3 DEF TryAgain, Become
  <2> QED BY <1>1, <1>2, <1>3, <2>1 DEF RetryTypeOK, Answers
<1>4. CASE ~(running[c].number < DbRetries)
  <2>1. running' = [running EXCEPT ![c] = Answered("transient")]
    BY <1>4 DEF TryAgain, Become
  <2> QED BY <2>1 DEF RetryTypeOK, Answers
<1> QED BY <1>3, <1>4

\* One step of one call.
RetryStep(c) == Issue(c) \/ Succeed(c) \/ LoseAnswer(c) \/ NeverReach(c) \/ PoolTimesOut(c) \/ Violate(c)

\* A step of c: nothing of another call changes, rows and increments only grow.
LEMMA RetryLocal ==
  ASSUME RetryInv, NEW c \in Calls, RetryStep(c)
  PROVE  /\ \A d \in Calls : d # c => running'[d] = running[d] /\ hits'[d] = hits[d] /\ (d \in inserted' <=> d \in inserted)
         /\ inserted \subseteq inserted' /\ inserted' \subseteq inserted \cup {c}
         /\ hits' \in [Calls -> Nat] /\ hits[c] <= hits'[c] /\ hits'[c] <= hits[c] + 1
<1>0. RetryTypeOK /\ hits \in [Calls -> Nat]
  BY RetryAssumption DEF RetryInv, RetryTypeOK
<1>1. CASE Execute(c)
  <2>1. hits' \in [Calls -> Nat] /\ hits[c] <= hits'[c] /\ hits'[c] <= hits[c] + 1 /\ \A d \in Calls : d # c => hits'[d] = hits[d]
    BY <1>0, <1>1 DEF Execute
  <2>2. inserted' = inserted \cup {c} \/ inserted' = inserted
    BY <1>1 DEF Execute
  <2>3. \A d \in Calls : d # c => running'[d] = running[d]
    BY <1>0, TryAgainType DEF RetryStep, Issue, Succeed, LoseAnswer, NeverReach, PoolTimesOut, Violate, Become, RetryTypeOK
  <2> QED BY <2>1, <2>2, <2>3
<1>2. CASE UNCHANGED <<inserted, hits>>
  <2>1. \A d \in Calls : d # c => running'[d] = running[d]
    BY <1>0, TryAgainType DEF RetryStep, Issue, Succeed, LoseAnswer, NeverReach, PoolTimesOut, Violate, Become, RetryTypeOK
  <2> QED BY <1>0, <1>2, <2>1
<1> QED BY <1>1, <1>2 DEF RetryStep, Issue, Succeed, LoseAnswer, NeverReach, PoolTimesOut, Violate

\* The call that steps keeps its type and its pace.
LEMMA RetryStepInv ==
  ASSUME RetryInv, NEW c \in Calls, RetryStep(c)
  PROVE  RetryInv'
<1> DEFINE typed == {Waiting} \cup [stage: {"attempt"}, number: 0..DbRetries] \cup {Answered(x) : x \in Answers}
<1>0. /\ RetryTypeOK /\ Paced(c) /\ running \in [Calls -> typed]
      /\ hits \in [Calls -> 0..DbRetries + 1] /\ inserted \subseteq Calls /\ DbRetries \in Nat
  BY RetryAssumption DEF RetryInv, RetryTypeOK, Answers
<1>1. hits[c] \in Nat /\ hits'[c] \in Nat /\ hits' \in [Calls -> Nat] /\ hits'[c] <= hits[c] + 1 /\ \A d \in Calls : d # c => hits'[d] = hits[d]
  BY <1>0, RetryLocal
<1>2. inserted' \subseteq Calls
  BY <1>0, RetryLocal
<1>3. running' \in [Calls -> typed] /\ hits'[c] <= DbRetries + 1 /\ Paced(c)'
  <2>1. CASE Issue(c)
    <3>1. running' = [running EXCEPT ![c] = [stage |-> "attempt", number |-> 0]] /\ hits' = hits /\ inserted' = inserted /\ running[c] = Waiting
      BY <2>1 DEF Issue, Become
    <3>2. running'[c] = [stage |-> "attempt", number |-> 0] /\ [stage |-> "attempt", number |-> 0] \in typed
      BY <3>1, <1>0
    <3>3. hits[c] = 0 /\ c \notin inserted
      BY <3>1, <1>0 DEF Paced
    <3> QED BY <1>0, <3>1, <3>2, <3>3 DEF Paced, Attempting, Waiting
  <2>2. ASSUME NEW x \in Answers, Attempting(c), running' = [running EXCEPT ![c] = Answered(x)]
        PROVE  running' \in [Calls -> typed] /\ hits'[c] <= DbRetries + 1 /\ Paced(c)'
    <3>1. running'[c] = Answered(x) /\ Answered(x) \in typed /\ Answered(x).stage = "answered" /\ Answered(x) # Waiting
      BY <2>2, <1>0 DEF Answered, Waiting
    <3>2. running[c].number \in 0..DbRetries /\ hits[c] <= running[c].number
      BY <2>2, <1>0, RetryStages DEF Paced, Attempting
    <3> QED BY <1>0, <1>1, <2>2, <3>1, <3>2 DEF Paced, Attempting
  <2>3. ASSUME Attempting(c), TryAgain(c)
        PROVE  running' \in [Calls -> typed] /\ hits'[c] <= DbRetries + 1 /\ Paced(c)'
    <3>1. CASE running'[c] = Answered("transient")
      <4>1. running' = [running EXCEPT ![c] = Answered("transient")]
        BY <2>3, <3>1, <1>0, TryAgainType
      <4> QED BY <2>2, <2>3, <4>1 DEF Answers
    <3>2. CASE running'[c].stage = "attempt" /\ running'[c].number = running[c].number + 1 /\ running[c].number \in 0..DbRetries
      <4>1. running' \in [Calls -> typed]
        BY <2>3, <1>0, TryAgainType
      <4>2. hits[c] <= running[c].number
        BY <2>3, <1>0 DEF Paced
      <4> QED BY <1>0, <1>1, <3>2, <4>1, <4>2 DEF Paced, Attempting, Waiting
    <3> QED BY <2>3, <3>1, <3>2, <1>0, TryAgainType
  <2>4. CASE Succeed(c)
    BY <2>2, <2>4 DEF Succeed, Become, Answers
  <2>5. CASE LoseAnswer(c)
    BY <2>3, <2>5 DEF LoseAnswer
  <2>6. CASE NeverReach(c)
    BY <2>3, <2>6 DEF NeverReach
  <2>7. CASE PoolTimesOut(c)
    BY <2>2, <2>7 DEF PoolTimesOut, Become, Answers
  <2>8. CASE Violate(c)
    <3>1. \E x \in Answers : Attempting(c) /\ running' = [running EXCEPT ![c] = Answered(x)]
      BY <2>8 DEF Violate, Become, Answers
    <3> QED BY <3>1, <2>2
  <2> QED BY <2>1, <2>4, <2>5, <2>6, <2>7, <2>8 DEF RetryStep
<1>4. hits' \in [Calls -> 0..DbRetries + 1]
  BY <1>0, <1>1, <1>3
<1>5. \A d \in Calls : d # c => Paced(d)'
  <2> SUFFICES ASSUME NEW d \in Calls, d # c PROVE Paced(d)'
    OBVIOUS
  <2>1. Paced(d)
    BY DEF RetryInv
  <2> QED BY <2>1, RetryLocal DEF Paced, Attempting
<1> QED BY <1>2, <1>3, <1>4, <1>5 DEF RetryInv, RetryTypeOK, Answers

\* Every call keeps its type, and is attempted and counted no more often than
\* the retries allow, for any calls on any keys.
THEOREM RetriesBounded == RetrySpec => []RetryTypeOK
<1>1. RetryInit => RetryInv
  BY RetryAssumption DEF RetryInit, RetryInv, RetryTypeOK, Paced, Attempting, Waiting
<1>2. RetryInv /\ [RetryNext]_retryVars => RetryInv'
  <2>1. ASSUME RetryInv, UNCHANGED retryVars PROVE RetryInv'
    BY <2>1 DEF RetryInv, RetryTypeOK, Paced, Attempting, retryVars
  <2> QED BY <2>1, RetryStepInv DEF RetryNext, RetryStep
<1>3. RetryInv => RetryTypeOK
  BY DEF RetryInv
<1> QED BY <1>1, <1>2, <1>3, PTL DEF RetrySpec

\* What the answer of one call means.
Meant(c) ==
  /\ Says(c, "ok") => CASE KindOf[c] \in {"insert", "rotate"} -> c \in inserted
                        [] KindOf[c] = "upsert" -> c \in inserted \/ NaturalTaken(c)
                        [] OTHER -> hits[c] > 0
  /\ KindOf[c] = "insert" /\ Says(c, "violation") => c \notin inserted

LEMMA MeantIs == (\A c \in Calls : Meant(c)) <=> NoPhantomSuccess /\ DuplicateIsGenuine
BY DEF Meant, NoPhantomSuccess, DuplicateIsGenuine

\* A step of c keeps what every answer means.
LEMMA MeantStep ==
  ASSUME RetryInv, RetryInv', \A d \in Calls : Meant(d), NEW c \in Calls, RetryStep(c), NEW d \in Calls
  PROVE  Meant(d)'
<1>1. inserted \subseteq inserted'
  BY RetryLocal
<1>2. CASE d # c
  <2>1. running'[d] = running[d] /\ hits'[d] = hits[d] /\ (d \in inserted' <=> d \in inserted)
    BY <1>2, RetryLocal
  <2>2. NaturalTaken(d) => NaturalTaken(d)'
    BY <1>1 DEF NaturalTaken
  <2>3. Says(d, "ok")' <=> Says(d, "ok")
    BY <2>1 DEF Says
  <2>4. Says(d, "violation")' <=> Says(d, "violation")
    BY <2>1 DEF Says
  <2> QED BY <2>1, <2>2, <2>3, <2>4 DEF Meant
<1>3. CASE d = c
  <2>0. RetryTypeOK /\ KindOf[c] \in Kinds /\ Paced(c) /\ hits[c] \in Nat
    BY RetryAssumption DEF RetryInv, RetryTypeOK
  <2>1. CASE ~Says(c, "ok")' /\ ~Says(c, "violation")'
    BY <1>3, <2>1 DEF Meant
  <2>2. CASE Succeed(c)
    <3>1. running'[c] = Answered("ok")
      BY <2>0, <2>2 DEF Succeed, Become, RetryTypeOK
    <3>2. KindOf[c] = "count" => hits'[c] = hits[c] + 1
      BY <2>0, <2>2 DEF Succeed, Execute, RetryTypeOK
    <3>3. KindOf[c] \in {"insert", "rotate"} => c \in inserted'
      BY <2>2 DEF Succeed, Execute, Inserts
    <3>4. KindOf[c] = "upsert" => c \in inserted' \/ NaturalTaken(c)'
      BY <2>2 DEF Succeed, Execute, Inserts, NaturalTaken
    <3>5. Says(c, "ok")' /\ ~Says(c, "violation")'
      BY <3>1 DEF Says, Answered
    <3> QED BY <1>3, <2>0, <3>2, <3>3, <3>4, <3>5 DEF Meant, Kinds
  <2>3. CASE Violate(c) /\ CommittedEarlier(c)
    <3>1. running'[c] = Answered("ok") /\ inserted' = inserted
      BY <2>0, <2>3 DEF Violate, Become, RetryTypeOK
    <3>2. KindOf[c] = "insert" /\ c \in inserted
      BY <2>3 DEF Violate, Refused, CommittedEarlier, Marked, OwnKeyTaken
    <3>3. Says(c, "ok")' /\ ~Says(c, "violation")'
      BY <3>1 DEF Says, Answered
    <3> QED BY <1>3, <3>1, <3>2, <3>3 DEF Meant
  <2>4. CASE Violate(c) /\ ~CommittedEarlier(c)
    <3>1. running'[c] = Answered("violation") /\ inserted' = inserted /\ Attempting(c)
      BY <2>0, <2>4 DEF Violate, Become, RetryTypeOK
    <3>2. KindOf[c] = "insert" => c \notin inserted
      <4>1. running[c].number \in Nat /\ (running[c].number = 0 => c \notin inserted)
        BY <2>0, <3>1, RetryStages, RetryAssumption DEF Paced, Attempting
      <4> QED BY <2>4, <4>1 DEF CommittedEarlier, Marked, OwnKeyTaken
    <3>3. ~Says(c, "ok")' /\ Says(c, "violation")'
      BY <3>1 DEF Says, Answered
    <3> QED BY <1>3, <3>1, <3>2, <3>3 DEF Meant
  <2>5. CASE Issue(c)
    BY <1>3, <2>0, <2>1, <2>5 DEF Issue, Become, Says, RetryTypeOK
  <2>6. CASE PoolTimesOut(c)
    BY <1>3, <2>0, <2>1, <2>6 DEF PoolTimesOut, Become, Says, Answered, RetryTypeOK
  <2>7. CASE LoseAnswer(c) \/ NeverReach(c)
    <3>1. Attempting(c) /\ TryAgain(c)
      BY <2>7 DEF LoseAnswer, NeverReach
    <3>2. running'[c].stage = "attempt" \/ running'[c] = Answered("transient")
      BY <2>0, <3>1, TryAgainType
    <3> QED BY <2>1, <3>2 DEF Says, Answered
  <2> QED BY <2>2, <2>3, <2>4, <2>5, <2>6, <2>7 DEF RetryStep
<1> QED BY <1>2, <1>3

\* A write that is reported as done is there, and an insert that is reported as
\* a duplicate is not, though answers are lost and other clients take its keys.
THEOREM AnswersAreHonest == RetrySpec => [](NoPhantomSuccess /\ DuplicateIsGenuine)
<1> DEFINE Inv == RetryInv /\ \A c \in Calls : Meant(c)
<1>1. RetryInit => Inv
  BY RetryAssumption DEF RetryInit, RetryInv, RetryTypeOK, Paced, Attempting, Waiting, Meant, Says
<1>2. Inv /\ [RetryNext]_retryVars => Inv'
  <2>1. ASSUME Inv, UNCHANGED retryVars PROVE Inv'
    BY <2>1 DEF RetryInv, RetryTypeOK, Paced, Attempting, Meant, Says, NaturalTaken, retryVars
  <2>2. ASSUME Inv, NEW c \in Calls, RetryStep(c) PROVE Inv'
    <3>1. RetryInv'
      BY <2>2, RetryStepInv
    <3> QED BY <2>2, <3>1, MeantStep
  <2> QED BY <2>1, <2>2 DEF RetryNext, RetryStep
<1>3. Inv => NoPhantomSuccess /\ DuplicateIsGenuine
  BY MeantIs
<1> QED BY <1>1, <1>2, <1>3, PTL DEF RetrySpec

\* The retrier's promise as a whole: honest answers and bounded repetition.
THEOREM RetrierIsHonest == RetrySpec => []RetriesAreHonest
BY RetriesBounded, AnswersAreHonest, PTL DEF RetriesAreHonest

-----------------------------------------------------------------------------
(* EvidenceStores.                                                          *)

WholeIn(files, p) == p \in DOMAIN files /\ files[p] = "whole"

\* How far the save of a bundle has come, and what can be read of it.
Progress(b) ==
  /\ saving[b].stage \in {"writing", "failed"} => saving[b].pending \subseteq WrittenTogether
  /\ saving[b].stage = "writing" =>
       IF store = "bucket"
       THEN ~Readable(b) /\ \A p \in Bodies \ saving[b].pending : WholeIn(objects[b], p)
       ELSE ~Readable(b) /\ \A p \in Parts \ saving[b].pending : WholeIn(staged[b], p)
  /\ saving[b].stage = "saved" => Readable(b)
  /\ Readable(b) => Whole(objects[b])
EvidenceInv == EvidenceTypeOK /\ \A b \in Bundles \ damaged : Progress(b)

LEMMA PutType ==
  ASSUME NEW files \in Files, NEW p \in Parts, NEW c \in Contents
  PROVE  /\ Put(files, p, c) \in Files
         /\ DOMAIN Put(files, p, c) = DOMAIN files \cup {p}
         /\ \A q \in DOMAIN files \cup {p} : Put(files, p, c)[q] = IF q = p THEN c ELSE files[q]
<1>1. PICK S \in SUBSET Parts : files \in [S -> Contents]
  BY DEF Files
<1>2. Put(files, p, c) \in [S \cup {p} -> Contents] /\ S \cup {p} \in SUBSET Parts
  BY <1>1 DEF Put
<1> QED BY <1>1, <1>2 DEF Put, Files

LEMMA RemoveType ==
  ASSUME NEW files \in Files, NEW p
  PROVE  [q \in DOMAIN files \ {p} |-> files[q]] \in Files
<1>1. PICK S \in SUBSET Parts : files \in [S -> Contents]
  BY DEF Files
<1>2. [q \in DOMAIN files \ {p} |-> files[q]] \in [S \ {p} -> Contents] /\ S \ {p} \in SUBSET Parts
  BY <1>1
<1> QED BY <1>2 DEF Files

LEMMA NoFilesType == NoFiles \in Files /\ DOMAIN NoFiles = {}
BY DEF NoFiles, Files, Contents

Saves == [stage: {"writing", "failed", "saved"}, capture: [Bodies -> {"whole"}], pending: SUBSET Parts]

\* A save that is under way or over is a record of its stage, capture and pending writes.
LEMMA SaveType ==
  ASSUME EvidenceTypeOK, NEW b \in Bundles, saving[b].stage # "unsaved"
  PROVE  saving[b] \in Saves
BY DEF EvidenceTypeOK, Unsaved, Saves

\* A save in Saves is not unsaved.
LEMMA SavesBegan == \A s \in Saves : s # Unsaved /\ s.stage # "unsaved"
BY DEF Saves, Unsaved

\* What the store, the files and the saves have to do with the types.
LEMMA EvidenceTypeFacts ==
  ASSUME EvidenceTypeOK
  PROVE  /\ objects \in [Bundles -> Files] /\ staged \in [Bundles -> Files] /\ saving \in [Bundles -> {Unsaved} \cup Saves]
         /\ \A b \in Bundles : saving[b] = Unsaved => objects[b] = NoFiles
         /\ Bodies \subseteq Parts /\ "meta" \in Parts /\ Contents = {"empty", "whole"}
         /\ WrittenTogether \subseteq Parts
BY DEF EvidenceTypeOK, Saves, Parts, Contents, WrittenTogether

\* A step that updates the save, the objects and the staged files of one bundle keeps their types.
LEMMA BundleStep ==
  ASSUME EvidenceTypeOK, NEW b \in Bundles, NEW s \in Saves, saving' = [saving EXCEPT ![b] = s],
         objects' \in [Bundles -> Files], \A d \in Bundles : d # b => objects'[d] = objects[d],
         staged' \in [Bundles -> Files], store' = store, damaged' = damaged, read' = read
  PROVE  EvidenceTypeOK'
<1>1. saving' \in [Bundles -> {Unsaved} \cup Saves]
  BY EvidenceTypeFacts
<1>2. \A d \in Bundles : saving'[d] = Unsaved => d # b /\ saving'[d] = saving[d]
  BY EvidenceTypeFacts, SavesBegan
<1>3. \A d \in Bundles : saving'[d] = Unsaved => objects'[d] = NoFiles
  BY <1>2, EvidenceTypeFacts
<1> QED BY <1>1, <1>3 DEF EvidenceTypeOK, Saves, Unsaved, Parts

\* Each action keeps the types.
LEMMA EvidenceTypeStep ==
  ASSUME EvidenceTypeOK, [EvidenceNext]_evidenceVars
  PROVE  EvidenceTypeOK'
<1>0. /\ objects \in [Bundles -> Files] /\ staged \in [Bundles -> Files] /\ saving \in [Bundles -> {Unsaved} \cup Saves]
      /\ WrittenTogether \subseteq Parts /\ "meta" \in Parts
  BY EvidenceTypeFacts
<1>1. ASSUME UNCHANGED evidenceVars PROVE EvidenceTypeOK'
  BY <1>1 DEF evidenceVars, EvidenceTypeOK
<1>2. ASSUME NEW b \in Bundles, NEW capture \in [Bodies -> Contents], BeginSave(b, capture) PROVE EvidenceTypeOK'
  <2>1. capture \in [Bodies -> {"whole"}]
    BY <1>2 DEF BeginSave, CaptureComplete
  <2>2. Save("writing", capture, WrittenTogether) \in Saves
    BY <2>1, <1>0 DEF Save, Saves
  <2> QED BY <1>0, <1>2, <2>2, BundleStep DEF BeginSave
<1>3. ASSUME NEW b \in Bundles, NEW p \in Parts, LandPart(b, p) PROVE EvidenceTypeOK'
  <2>1. saving[b] \in Saves
    BY <1>3, SaveType DEF LandPart
  <2>2. ContentOf(b, p) \in Contents
    BY <2>1 DEF ContentOf, Saves, Contents, Parts
  <2>3. [saving[b] EXCEPT !.pending = @ \ {p}] \in Saves
    BY <2>1 DEF Saves
  <2>4. objects' \in [Bundles -> Files] /\ staged' \in [Bundles -> Files] /\ \A d \in Bundles : d # b => objects'[d] = objects[d]
    <3>1. Put(objects[b], p, ContentOf(b, p)) \in Files /\ Put(staged[b], p, ContentOf(b, p)) \in Files
      BY <1>0, <2>2, PutType
    <3> QED BY <1>0, <1>3, <3>1 DEF LandPart
  <2>5. saving' = [saving EXCEPT ![b] = [saving[b] EXCEPT !.pending = @ \ {p}]]
    BY <1>3 DEF LandPart
  <2> QED BY <1>3, <2>3, <2>4, <2>5, BundleStep DEF LandPart
<1>4. ASSUME NEW b \in Bundles, NEW p \in Parts, FailPart(b, p) PROVE EvidenceTypeOK'
  <2>1. saving[b] \in Saves
    BY <1>4, SaveType DEF FailPart
  <2>2. [saving[b] EXCEPT !.stage = "failed", !.pending = @ \ {p}] \in Saves
    BY <2>1 DEF Saves
  <2>3. saving' = [saving EXCEPT ![b] = [saving[b] EXCEPT !.stage = "failed", !.pending = @ \ {p}]]
    BY <1>4 DEF FailPart
  <2>4. staged' \in [Bundles -> Files]
    BY <1>0, <1>4, NoFilesType DEF FailPart
  <2> QED BY <1>0, <1>4, <2>2, <2>3, <2>4, BundleStep DEF FailPart
<1>5. ASSUME NEW b \in Bundles, Publish(b) PROVE EvidenceTypeOK'
  <2>1. saving[b] \in Saves
    BY <1>5, SaveType DEF Publish
  <2>2. PICK stage \in {"saved", "failed"} : saving' = [saving EXCEPT ![b].stage = stage]
    BY <1>5 DEF Publish
  <2>3. [saving[b] EXCEPT !.stage = stage] \in Saves
    BY <2>1 DEF Saves
  <2>4. Published(b) \in Files
    <3>1. Put(objects[b], "meta", "whole") \in Files
      BY <1>0, PutType DEF Contents
    <3> QED BY <1>0, <3>1 DEF Published
  <2>5. objects' \in [Bundles -> Files] /\ staged' \in [Bundles -> Files] /\ \A d \in Bundles : d # b => objects'[d] = objects[d]
    BY <1>0, <1>5, <2>4, NoFilesType DEF Publish
  <2>6. saving' = [saving EXCEPT ![b] = [saving[b] EXCEPT !.stage = stage]]
    BY <2>2
  <2> QED BY <1>5, <2>3, <2>5, <2>6, BundleStep DEF Publish
<1>6. ASSUME NEW b \in Bundles, PublishFails(b) PROVE EvidenceTypeOK'
  <2>1. saving[b] \in Saves
    BY <1>6, SaveType DEF PublishFails
  <2>2. [saving[b] EXCEPT !.stage = "failed"] \in Saves
    BY <2>1 DEF Saves
  <2>3. staged' \in [Bundles -> Files]
    BY <1>0, <1>6, NoFilesType DEF PublishFails
  <2>4. saving' = [saving EXCEPT ![b] = [saving[b] EXCEPT !.stage = "failed"]]
    BY <1>6 DEF PublishFails
  <2> QED BY <1>0, <1>6, <2>2, <2>3, <2>4, BundleStep DEF PublishFails
<1>7. ASSUME Die PROVE EvidenceTypeOK'
  <2>1. \A b \in Bundles : saving'[b] \in {Unsaved} \cup Saves /\ (saving'[b] = Unsaved => saving[b] = Unsaved)
    <3> SUFFICES ASSUME NEW b \in Bundles
                 PROVE  saving'[b] \in {Unsaved} \cup Saves /\ (saving'[b] = Unsaved => saving[b] = Unsaved)
      OBVIOUS
    <3>1. CASE saving[b].stage \in {"writing", "failed"}
      <4>1. saving[b] \in Saves
        BY <3>1, SaveType
      <4>2. saving'[b] = [saving[b] EXCEPT !.stage = "failed", !.pending = {}]
        BY <1>7, <3>1 DEF Die
      <4>3. saving'[b] \in Saves
        BY <4>1, <4>2 DEF Saves
      <4> QED BY <4>3, SavesBegan
    <3>2. CASE saving[b].stage \notin {"writing", "failed"}
      <4>1. saving'[b] = saving[b]
        BY <1>7, <3>2 DEF Die
      <4> QED BY <1>0, <4>1
    <3> QED BY <3>1, <3>2
  <2>2. saving' \in [Bundles -> {Unsaved} \cup Saves]
    BY <1>7, <2>1 DEF Die
  <2> QED BY <1>7, <2>1, <2>2 DEF Die, EvidenceTypeOK, Saves, Unsaved, Parts
<1>8. ASSUME NEW b \in Bundles, NEW p \in Bodies, LosePart(b, p) PROVE EvidenceTypeOK'
  <2>1. [q \in DOMAIN objects[b] \ {p} |-> objects[b][q]] \in Files
    BY <1>0, RemoveType
  <2>2. Put(objects[b], p, "empty") \in Files
    BY <1>0, EvidenceTypeFacts, PutType
  <2>3. objects' \in [Bundles -> Files]
    BY <1>0, <1>8, <2>1, <2>2 DEF LosePart
  <2>4. \A d \in Bundles : d # b => objects'[d] = objects[d]
    BY <1>0, <1>8 DEF LosePart
  <2>5. saving[b] # Unsaved
    BY <1>8, NoFilesType, EvidenceTypeFacts DEF LosePart
  <2>6. damaged' \subseteq Bundles /\ saving' = saving /\ store' = store /\ staged' = staged /\ read' = read
    BY <1>8 DEF LosePart, EvidenceTypeOK
  <2>7. \A d \in Bundles : saving'[d] = Unsaved => objects'[d] = NoFiles
    BY <2>4, <2>5, <2>6, EvidenceTypeFacts
  <2> QED BY <2>3, <2>6, <2>7 DEF EvidenceTypeOK, Unsaved, Parts
<1>9. ASSUME NEW b \in Bundles, Get(b) PROVE EvidenceTypeOK'
  BY <1>9 DEF Get, EvidenceTypeOK
<1> QED BY <1>1, <1>2, <1>3, <1>4, <1>5, <1>6, <1>7, <1>8, <1>9 DEF EvidenceNext

\* The stores, saves and answers have their types for any bundles and bodies.
THEOREM EvidenceTypeCorrect == EvidenceSpec => []EvidenceTypeOK
<1>1. EvidenceInit => EvidenceTypeOK
  BY NoFilesType DEF EvidenceInit, EvidenceTypeOK
<1> QED BY <1>1, EvidenceTypeStep, PTL DEF EvidenceSpec

\* What nothing touched is as far as it was.
LEMMA ProgressFrame ==
  ASSUME NEW d \in Bundles, Progress(d), store' = store, saving'[d] = saving[d],
         objects'[d] = objects[d], staged'[d] = staged[d]
  PROVE  Progress(d)'
BY DEF Progress, WrittenTogether, WholeIn, Readable, Whole

\* Content already whole stays so when a whole part is added.
LEMMA PutKeeps ==
  ASSUME NEW files \in Files, NEW p \in Parts
  PROVE  /\ WholeIn(Put(files, p, "whole"), p)
         /\ \A q : WholeIn(files, q) => WholeIn(Put(files, p, "whole"), q)
         /\ Whole(files) => Whole(Put(files, p, "whole"))
         /\ p # "meta" => ("meta" \in DOMAIN Put(files, p, "whole") <=> "meta" \in DOMAIN files)
<1> DEFINE put == Put(files, p, "whole")
<1>1. DOMAIN put = DOMAIN files \cup {p} /\ \A q \in DOMAIN put : put[q] = IF q = p THEN "whole" ELSE files[q]
  BY DEF Put
<1> HIDE DEF put
<1>2. WholeIn(put, p) /\ \A q : WholeIn(files, q) => WholeIn(put, q)
  BY <1>1 DEF WholeIn
<1>3. Whole(files) => Whole(put)
  BY <1>2 DEF Whole, WholeIn
<1> QED BY <1>1, <1>2, <1>3 DEF put

\* A part that lands brings its save one write closer, or joins a failed save's leavings.
LEMMA ProgressLand ==
  ASSUME EvidenceTypeOK, NEW b \in Bundles, Progress(b), NEW p \in Parts, LandPart(b, p)
  PROVE  Progress(b)'
<1>0. /\ objects \in [Bundles -> Files] /\ staged \in [Bundles -> Files] /\ saving \in [Bundles -> {Unsaved} \cup Saves]
      /\ saving[b] \in Saves /\ store' = store
  BY EvidenceTypeFacts, SaveType DEF LandPart
<1>1. saving'[b].stage = saving[b].stage /\ saving'[b].pending = saving[b].pending \ {p} /\ saving[b].stage \in {"writing", "failed"}
  BY <1>0 DEF LandPart, Saves
<1>2. p \in WrittenTogether /\ WrittenTogether' = WrittenTogether
  BY <1>0 DEF LandPart, Progress, WrittenTogether
<1>3. ContentOf(b, p) = "whole"
  BY <1>0 DEF ContentOf, Saves, Parts
<1>4. CASE store = "bucket"
  <2>1. objects'[b] = Put(objects[b], p, "whole") /\ p \in Bodies /\ p # "meta"
    BY <1>0, <1>2, <1>3, <1>4, EvidenceAssumption DEF LandPart, WrittenTogether
  <2>2. \A q \in Bodies \ saving'[b].pending : q = p \/ q \in Bodies \ saving[b].pending
    BY <1>1
  <2>3. objects[b] \in Files
    BY <1>0
  <2> QED BY <1>0, <1>1, <1>2, <1>4, <2>1, <2>2, <2>3, PutKeeps DEF Progress, Readable
<1>5. CASE store # "bucket"
  <2>1. staged'[b] = Put(staged[b], p, "whole") /\ objects'[b] = objects[b]
    BY <1>0, <1>3, <1>5 DEF LandPart
  <2>2. \A q \in Parts \ saving'[b].pending : q = p \/ q \in Parts \ saving[b].pending
    BY <1>1
  <2>3. staged[b] \in Files
    BY <1>0
  <2> QED BY <1>0, <1>1, <1>2, <1>5, <2>1, <2>2, <2>3, PutKeeps DEF Progress, Readable, Parts
<1> QED BY <1>4, <1>5

\* What is published is whole: every write of the save has landed.
LEMMA ProgressPublish ==
  ASSUME EvidenceTypeOK, NEW b \in Bundles, Progress(b), Publish(b)
  PROVE  Progress(b)'
<1>0. /\ objects \in [Bundles -> Files] /\ staged \in [Bundles -> Files] /\ saving \in [Bundles -> {Unsaved} \cup Saves]
      /\ saving[b] \in Saves /\ store' = store /\ saving[b].stage = "writing" /\ saving[b].pending = {}
  BY EvidenceTypeFacts, SaveType DEF Publish
<1>1. saving'[b].stage \in {"saved", "failed"} /\ saving'[b].pending = {}
  BY <1>0 DEF Publish, Saves
<1>2. objects'[b] = Published(b)
  BY <1>0 DEF Publish
<1>3. CASE store = "bucket"
  <2>1. Whole(objects[b])
    BY <1>0, <1>3 DEF Progress, WholeIn, Whole
  <2>2. objects'[b] = Put(objects[b], "meta", "whole") /\ objects[b] \in Files /\ "meta" \in Parts
    BY <1>0, <1>2, <1>3 DEF Published, Parts
  <2>3. Whole(objects'[b]) /\ WholeIn(objects'[b], "meta")
    BY <2>1, <2>2, PutKeeps
  <2> QED BY <1>1, <2>3 DEF Progress, Readable, WholeIn
<1>4. CASE store # "bucket"
  <2>1. objects'[b] = staged[b] /\ \A p \in Parts : WholeIn(staged[b], p)
    BY <1>0, <1>2, <1>4 DEF Published, Progress
  <2>2. Whole(staged[b]) /\ "meta" \in DOMAIN staged[b]
    BY <2>1 DEF Whole, WholeIn, Parts
  <2> QED BY <1>1, <2>1, <2>2 DEF Progress, Readable
<1> QED BY <1>3, <1>4

\* A save that stops, with what is readable as it was, has nothing more to keep.
LEMMA ProgressStops ==
  ASSUME NEW b \in Bundles, Progress(b), saving'[b].stage = "failed",
         saving'[b].pending \subseteq saving[b].pending, saving[b].stage \in {"writing", "failed"},
         objects'[b] = objects[b], store' = store
  PROVE  Progress(b)'
BY DEF Progress, WrittenTogether, Readable, Whole

LEMMA EvidenceStep ==
  ASSUME EvidenceInv, [EvidenceNext]_evidenceVars
  PROVE  EvidenceInv'
<1>0. /\ objects \in [Bundles -> Files] /\ staged \in [Bundles -> Files] /\ saving \in [Bundles -> {Unsaved} \cup Saves]
      /\ EvidenceTypeOK /\ EvidenceTypeOK'
  BY EvidenceTypeFacts, EvidenceTypeStep DEF EvidenceInv
<1> SUFFICES ASSUME NEW d \in Bundles, d \notin damaged' PROVE Progress(d)'
  BY <1>0 DEF EvidenceInv
<1>a. d \notin damaged => Progress(d)
  BY DEF EvidenceInv
<1>1. ASSUME UNCHANGED evidenceVars PROVE Progress(d)'
  BY <1>1, <1>a, ProgressFrame DEF evidenceVars
<1>2. ASSUME NEW b \in Bundles, NEW capture \in [Bodies -> Contents], BeginSave(b, capture) PROVE Progress(d)'
  <2>1. CASE d # b
    BY <1>0, <1>2, <1>a, <2>1, ProgressFrame DEF BeginSave
  <2>2. CASE d = b
    <3>1. objects'[b] = NoFiles /\ store' = store
      BY <1>2, EvidenceTypeFacts, <1>0 DEF BeginSave
    <3>2. saving'[b].stage = "writing" /\ saving'[b].pending = WrittenTogether
      BY <1>0, <1>2 DEF BeginSave, Save
    <3>3. ~Readable(b)' /\ WrittenTogether' = WrittenTogether
      BY <3>1, NoFilesType DEF Readable, WrittenTogether
    <3>4. store \in {"bucket", "directory"}
      BY <1>0 DEF EvidenceTypeOK
    <3> QED BY <2>2, <3>1, <3>2, <3>3, <3>4 DEF Progress, WrittenTogether
  <2> QED BY <2>1, <2>2
<1>3. ASSUME NEW b \in Bundles, NEW p \in Parts, LandPart(b, p) PROVE Progress(d)'
  <2>1. CASE d # b
    BY <1>0, <1>3, <1>a, <2>1, ProgressFrame DEF LandPart
  <2>2. CASE d = b
    BY <1>0, <1>3, <1>a, <2>2, ProgressLand DEF LandPart
  <2> QED BY <2>1, <2>2
<1>4. ASSUME NEW b \in Bundles, NEW p \in Parts, FailPart(b, p) PROVE Progress(d)'
  <2>1. CASE d # b
    BY <1>0, <1>4, <1>a, <2>1, ProgressFrame DEF FailPart
  <2>2. CASE d = b
    <3>1. saving[b] \in Saves
      BY <1>4, <1>0, SaveType DEF FailPart
    <3>2. saving'[b].stage = "failed" /\ saving'[b].pending \subseteq saving[b].pending
      BY <1>0, <1>4, <3>1 DEF FailPart, Saves
    <3> QED BY <1>4, <1>a, <2>2, <3>2, ProgressStops DEF FailPart
  <2> QED BY <2>1, <2>2
<1>5. ASSUME NEW b \in Bundles, Publish(b) PROVE Progress(d)'
  <2>1. CASE d # b
    BY <1>0, <1>5, <1>a, <2>1, ProgressFrame DEF Publish
  <2>2. CASE d = b
    BY <1>0, <1>5, <1>a, <2>2, ProgressPublish DEF Publish
  <2> QED BY <2>1, <2>2
<1>6. ASSUME NEW b \in Bundles, PublishFails(b) PROVE Progress(d)'
  <2>1. CASE d # b
    BY <1>0, <1>6, <1>a, <2>1, ProgressFrame DEF PublishFails
  <2>2. CASE d = b
    <3>1. saving[b] \in Saves
      BY <1>6, <1>0, SaveType DEF PublishFails
    <3>2. saving'[b].stage = "failed" /\ saving'[b].pending \subseteq saving[b].pending
      BY <1>0, <1>6, <3>1 DEF PublishFails, Saves
    <3> QED BY <1>6, <1>a, <2>2, <3>2, ProgressStops DEF PublishFails
  <2> QED BY <2>1, <2>2
<1>7. ASSUME Die PROVE Progress(d)'
  <2>1. CASE saving[d].stage \in {"writing", "failed"}
    <3>1. saving[d] \in Saves /\ saving'[d] = [saving[d] EXCEPT !.stage = "failed", !.pending = {}]
      BY <1>7, <1>0, <2>1, SaveType DEF Die
    <3>2. saving'[d].stage = "failed" /\ saving'[d].pending = {}
      BY <3>1 DEF Saves
    <3> QED BY <1>7, <1>a, <2>1, <3>2, ProgressStops DEF Die
  <2>2. CASE saving[d].stage \notin {"writing", "failed"}
    <3>1. saving'[d] = saving[d]
      BY <1>7, <2>2 DEF Die
    <3> QED BY <1>7, <1>a, <3>1, ProgressFrame DEF Die
  <2> QED BY <2>1, <2>2
<1>8. ASSUME NEW b \in Bundles, NEW p \in Bodies, LosePart(b, p) PROVE Progress(d)'
  <2>1. d # b /\ d \notin damaged
    BY <1>8 DEF LosePart
  <2> QED BY <1>0, <1>8, <1>a, <2>1, ProgressFrame DEF LosePart
<1>9. ASSUME NEW b \in Bundles, Get(b) PROVE Progress(d)'
  BY <1>9, <1>a, ProgressFrame DEF Get
<1> QED BY <1>1, <1>2, <1>3, <1>4, <1>5, <1>6, <1>7, <1>8, <1>9 DEF EvidenceNext

\* In both stores, whichever writes fail and whenever the process dies: what has
\* metadata has its bodies, and what save reported as saved can be read.
THEOREM BundlesAreWhole == EvidenceSpec => [](NoTornBundle /\ SavedIsReadable)
<1>1. EvidenceInit => EvidenceInv
  <2>1. EvidenceInit => EvidenceTypeOK
    BY NoFilesType DEF EvidenceInit, EvidenceTypeOK
  <2>2. ASSUME EvidenceInit, NEW b \in Bundles PROVE Progress(b)
    BY <2>2, NoFilesType DEF EvidenceInit, Progress, Unsaved, Readable
  <2> QED BY <2>1, <2>2 DEF EvidenceInv
<1>2. EvidenceInv => NoTornBundle /\ SavedIsReadable
  BY DEF EvidenceInv, Progress, NoTornBundle, SavedIsReadable
<1> QED BY <1>1, <1>2, EvidenceStep, PTL DEF EvidenceSpec

\* A bundle is handed out only when all of it was there, whatever a restore lost.
THEOREM OnlyWholeIsServed == EvidenceSpec => []ServedIsWhole
<1>1. EvidenceInit => ServedIsWhole
  BY DEF EvidenceInit, ServedIsWhole
<1>2. ServedIsWhole /\ [EvidenceNext]_evidenceVars => ServedIsWhole'
  <2>1. ASSUME ServedIsWhole, read' = read PROVE ServedIsWhole'
    BY <2>1 DEF ServedIsWhole, Whole
  <2>2. ASSUME NEW b \in Bundles, Get(b) PROVE ServedIsWhole'
    <3>1. read'.answer = (IF ~Readable(b) THEN "null" ELSE IF Whole(objects[b]) THEN "bundle" ELSE "error")
          /\ read'.files = objects[b]
      BY <2>2 DEF Get
    <3> QED BY <3>1 DEF ServedIsWhole, Whole
  <2> QED BY <2>1, <2>2 DEF EvidenceNext, evidenceVars, BeginSave, LandPart, FailPart, Publish, PublishFails, Die, LosePart
<1> QED BY <1>1, <1>2, PTL DEF EvidenceSpec

\* The stores' promise as a whole: evidence is whole or absent, for every reader.
THEOREM EvidenceStaysSound == EvidenceSpec => []EvidenceIsSound
BY EvidenceTypeCorrect, BundlesAreWhole, OnlyWholeIsServed, PTL DEF EvidenceIsSound

-----------------------------------------------------------------------------
(* Sessions: what holds of a token and of a request.                       *)

Refreshing == {"find", "user", "persist", "revoke"}
RefreshRequest == [stage: Refreshing, token: Tokens, now: Time, verdict: Verdicts, family: Families, stray: BOOLEAN]
IssueRequest == [stage: {"issue"}, family: Families, now: Time]

\* A stored token: its stamp lies before the end of its family unless it overtook
\* that end, and as long as nobody ended the family only rotations stamped it.
TokenSound(t) ==
  Stored(t) =>
    LET row == rows[t]  f == FamilyOf(t) IN
    /\ f \in opened
    /\ row.revoked # Never => row.revoked <= clock
    /\ ended[f] # Never => t \in strays \/ (row.revoked # Never /\ row.revoked <= ended[f])
    /\ row.revoked = Never => Owner[f] \in active \cup owed \/ t \in strays
    /\ ended[f] = Never /\ (row.revoked # Never \/ row.replaced # NoToken)
         => /\ row.revoked # Never /\ row.replaced # NoToken
            /\ since[t] # Never /\ since[t] <= row.revoked

\* What a request may rely on: a first token opens a family without rows, a
\* refresh holds a stored token; once the token was accepted, its successor is
\* covered, and after the user was found active he stays so or the family ends.
RequestSound(r) ==
  /\ req[r].stage = "issue" =>
       /\ req[r].family \in opened /\ ended[req[r].family] = Never
       /\ \A t \in Tokens : Stored(t) => FamilyOf(t) # req[r].family
  /\ req[r].stage \in Refreshing =>
       Stored(req[r].token) /\ FamilyOf(req[r].token) = req[r].family /\ req[r].now <= clock
  /\ req[r].stage \in {"user", "persist"} =>
       /\ req[r].stray = TRUE
       /\ req[r].verdict = "ok" => \/ ended[req[r].family] = Never \/ req[r].token \in strays
                                   \/ req[r].now <= ended[req[r].family]
  /\ req[r].stage = "persist" => Owner[req[r].family] \in active \cup owed \/ ended[req[r].family] # Never

\* No two requests open one family, and a family not yet opened was never ended.
OpenedOnce ==
  /\ \A r, q \in Requests : r # q /\ req[r].stage = "issue" /\ req[q].stage = "issue" => req[r].family # req[q].family
  /\ \A f \in Families : f \notin opened => ended[f] = Never

SessionInv ==
  /\ SessionsTypeOK /\ OpenedOnce /\ LineageLives
  /\ \A t \in Tokens : TokenSound(t)
  /\ \A r \in Requests : RequestSound(r)

-----------------------------------------------------------------------------
(* Sessions: shapes.                                                        *)

LEMMA RequestShape ==
  ASSUME SessionsTypeOK, NEW r \in Requests
  PROVE  /\ req[r].stage \in Refreshing => req[r] \in RefreshRequest
         /\ req[r].stage = "issue" => req[r] \in IssueRequest
         /\ req[r] \in RefreshRequest \cup IssueRequest \cup {Idle}
         /\ Idle.stage = "idle"
BY DEF SessionsTypeOK, Request, RefreshRequest, IssueRequest, Idle, Refreshing

\* No record of the table is the absent one.
LEMMA RowIsThere == \A row \in Row : row # NoRow
BY DEF Row, NoRow, Never

LEMMA RowShape ==
  ASSUME SessionsTypeOK, NEW t \in Tokens, Stored(t)
  PROVE  /\ rows[t] \in Row
         /\ FamilyOf(t) \in Families /\ rows[t].revoked \in Time \cup {Never} /\ rows[t].replaced \in Tokens \cup {NoToken}
<1>1. rows[t] \in Row
  BY DEF SessionsTypeOK, Stored
<1> QED BY <1>1 DEF Row, FamilyOf

LEMMA NewRowShape ==
  ASSUME NEW f \in Families, NEW when \in Time
  PROVE  LET n == NewRow(f, when)
         IN  n \in Row /\ n # NoRow /\ n.family = f /\ n.revoked = Never /\ n.replaced = NoToken
<1>1. when + Lifetime \in Nat
  BY SessionBounds DEF Time
<1>2. NewRow(f, when) \in Row
  BY <1>1 DEF NewRow, Row
<1> QED BY <1>2, RowIsThere DEF NewRow

\* Revoking stamps what is live of the families and nothing else.
LEMMA RevokedShape ==
  ASSUME SessionsTypeOK, NEW fs, NEW at \in Time
  PROVE  /\ Revoked(fs, at) \in [Tokens -> Row \cup {NoRow}]
         /\ \A t \in Tokens :
              LET n == Revoked(fs, at)[t] IN
              /\ n # NoRow <=> Stored(t)
              /\ Stored(t) => /\ n.family = FamilyOf(t) /\ n.replaced = rows[t].replaced
                              /\ n.revoked = IF Live(t) /\ FamilyOf(t) \in fs THEN at ELSE rows[t].revoked
<1> DEFINE n(t) == IF Live(t) /\ FamilyOf(t) \in fs THEN [rows[t] EXCEPT !.revoked = at] ELSE rows[t]
<1>1. ASSUME NEW t \in Tokens
      PROVE  /\ n(t) \in Row \cup {NoRow} /\ (n(t) # NoRow <=> Stored(t))
             /\ Stored(t) => /\ n(t).family = FamilyOf(t) /\ n(t).replaced = rows[t].replaced
                             /\ n(t).revoked = IF Live(t) /\ FamilyOf(t) \in fs THEN at ELSE rows[t].revoked
  <2>1. CASE Live(t) /\ FamilyOf(t) \in fs
    <3>1. rows[t] \in Row /\ Stored(t)
      BY <2>1, RowShape DEF Live
    <3>2. [rows[t] EXCEPT !.revoked = at] \in Row
      BY <3>1 DEF Row
    <3> QED BY <2>1, <3>1, <3>2, RowIsThere DEF Row, FamilyOf
  <2>2. CASE ~(Live(t) /\ FamilyOf(t) \in fs)
    BY <2>2 DEF SessionsTypeOK, Stored, FamilyOf
  <2> QED BY <2>1, <2>2
<1>2. \A t \in Tokens : Revoked(fs, at)[t] = n(t)
  BY DEF Revoked
<1>3. Revoked(fs, at) \in [Tokens -> Row \cup {NoRow}]
  BY <1>1 DEF Revoked
<1> HIDE DEF n
<1> QED BY <1>1, <1>2, <1>3

-----------------------------------------------------------------------------
(* Sessions: what any step keeps.                                           *)

\* No row goes away or changes family, and only a family with a row is ended, now.
RowsStay == \A t \in Tokens : Stored(t) => Stored(t)' /\ FamilyOf(t)' = FamilyOf(t)
EndsNow ==
  \A f \in Families :
    \/ ended'[f] = ended[f]
    \/ /\ ended[f] = Never /\ ended'[f] = clock
       /\ \E t \in Tokens : Stored(t) /\ FamilyOf(t) = f
Forward == RowsStay /\ EndsNow /\ strays \subseteq strays' /\ opened \subseteq opened' /\ clock <= clock'

\* A user leaves the books only by the revocation of all his families.
Leaves ==
  \A u \in Users : u \in active \cup owed =>
    \/ u \in active' \cup owed'
    \/ \A t \in Tokens : Stored(t) /\ Owner[FamilyOf(t)] = u => ended'[FamilyOf(t)] # Never

\* No row of family f appears.
NoneOf(f) == \A t \in Tokens : Stored(t)' => Stored(t) \/ FamilyOf(t)' # f

\* A request that waits keeps what it relies on.
LEMMA RequestKept ==
  ASSUME SessionInv, Forward, Leaves, clock' \in Time, ended' \in [Families -> Time \cup {Never}],
         NEW r \in Requests, req'[r] = req[r], req[r].stage = "issue" => NoneOf(req[r].family)
  PROVE  RequestSound(r)'
<1>0. SessionsTypeOK /\ RequestSound(r) /\ clock \in Time /\ Never \notin Time
  BY DEF SessionInv, SessionsTypeOK, Time, Never
<1>1. CASE req[r].stage = "issue"
  <2>1. req[r].family \in Families
    BY <1>0, <1>1, RequestShape DEF IssueRequest
  <2> QED BY <1>0, <1>1, <2>1 DEF RequestSound, Refreshing, Forward, RowsStay, EndsNow, NoneOf
<1>2. CASE req[r].stage \in Refreshing
  <2>1. req[r].family \in Families /\ req[r].token \in Tokens /\ req[r].now \in Time /\ Owner[req[r].family] \in Users
    BY <1>0, <1>2, RequestShape, OwnerAssumption DEF RefreshRequest
  <2>2. /\ Stored(req[r].token) /\ FamilyOf(req[r].token) = req[r].family /\ req[r].now <= clock
        /\ Stored(req[r].token)' /\ FamilyOf(req[r].token)' = req[r].family
    BY <1>0, <1>2, <2>1 DEF RequestSound, Forward, RowsStay
  <2>3. req[r].now <= clock'
    BY <1>0, <2>1, <2>2 DEF Forward, Time
  <2>4. ended[req[r].family] # Never => ended'[req[r].family] = ended[req[r].family]
    BY <2>1 DEF Forward, EndsNow
  <2>5. ended'[req[r].family] = ended[req[r].family] \/ req[r].now <= ended'[req[r].family]
    BY <2>1, <2>2 DEF Forward, EndsNow
  <2>6. req[r].stage = "persist" => Owner[req[r].family] \in active' \cup owed' \/ ended'[req[r].family] # Never
    BY <1>0, <2>1, <2>2, <2>4 DEF RequestSound, Leaves
  <2>7. req[r].stage \in {"user", "persist"} =>
          /\ req[r].stray = TRUE
          /\ req[r].verdict = "ok" => \/ ended'[req[r].family] = Never \/ req[r].token \in strays'
                                      \/ req[r].now <= ended'[req[r].family]
    BY <1>0, <2>5 DEF RequestSound, Forward
  <2>8. req'[r].stage # "issue"
    BY <1>2 DEF Refreshing
  <2> QED BY <2>2, <2>3, <2>6, <2>7, <2>8 DEF RequestSound
<1>3. CASE req[r].stage \notin Refreshing \cup {"issue"}
  BY <1>3 DEF RequestSound, Refreshing
<1> QED BY <1>1, <1>2, <1>3

\* A step that leaves rows, ends and strays alone keeps the tokens.
LEMMA TokensKept ==
  ASSUME SessionInv, UNCHANGED <<rows, ended, strays, since>>, opened \subseteq opened', clock <= clock', clock' \in Time,
         active \cup owed \subseteq active' \cup owed'
  PROVE  LineageLives' /\ \A t \in Tokens : TokenSound(t)'
<1>1. LineageLives'
  BY DEF SessionInv, LineageLives, Live, Stored, FamilyOf
<1>2. ASSUME NEW t \in Tokens PROVE TokenSound(t)'
  <2>1. TokenSound(t) /\ SessionsTypeOK /\ clock \in Time
    BY DEF SessionInv, SessionsTypeOK
  <2>2. CASE Stored(t)
    <3>1. rows[t].revoked \in Time \cup {Never}
      BY <2>1, <2>2, RowShape
    <3> QED BY <2>1, <2>2, <3>1 DEF TokenSound, Stored, FamilyOf, Time
  <2>3. CASE ~Stored(t)
    BY <2>3 DEF TokenSound, Stored
  <2> QED BY <2>2, <2>3
<1> QED BY <1>1, <1>2

-----------------------------------------------------------------------------
(* Sessions: steps that leave the table alone.                              *)

\* Whoever moves only in memory, or changes a status, keeps the invariant if the
\* requests it rewrites are sound.
LEMMA TableLeftAlone ==
  ASSUME SessionInv, UNCHANGED <<rows, issued, ended, strays, since>>,
         opened \subseteq opened', opened' \subseteq Families, clock <= clock', clock' \in Time,
         active \cup owed \subseteq active' \cup owed', active' \subseteq Users, owed' \subseteq Users,
         req' \in [Requests -> Request \cup {Idle}], OpenedOnce',
         \A r \in Requests : req'[r] = req[r] \/ RequestSound(r)'
  PROVE  SessionInv'
<1>1. SessionsTypeOK'
  BY DEF SessionInv, SessionsTypeOK, Stored
<1>2. LineageLives' /\ \A t \in Tokens : TokenSound(t)'
  BY TokensKept
<1>3. Forward /\ Leaves /\ \A f : NoneOf(f)
  BY DEF Forward, RowsStay, EndsNow, Leaves, NoneOf, Stored, FamilyOf
<1>4. ended' \in [Families -> Time \cup {Never}]
  BY DEF SessionInv, SessionsTypeOK
<1>5. \A r \in Requests : RequestSound(r)'
  BY <1>3, <1>4, RequestKept
<1> QED BY <1>1, <1>2, <1>5 DEF SessionInv

\* Disabling, enabling, the clock.
LEMMA StatusKeeps ==
  ASSUME SessionInv, Tick \/ \E u \in Users : SetDisabled(u) \/ Enable(u)
  PROVE  SessionInv'
<1>1. /\ UNCHANGED <<rows, issued, ended, strays, since, req, opened>>
      /\ clock' \in Time /\ clock <= clock'
      /\ active' \subseteq Users /\ owed' \subseteq Users /\ active \cup owed \subseteq active' \cup owed'
  <2>1. clock \in 0..LastTick /\ active \subseteq Users /\ owed \subseteq Users
    BY DEF SessionInv, SessionsTypeOK, Time
  <2>2. CASE Tick
    BY <2>1, <2>2, SessionBounds DEF Tick, history, Time
  <2>3. CASE \E u \in Users : SetDisabled(u) \/ Enable(u)
    BY <2>1, <2>3 DEF SetDisabled, Enable, history, Time
  <2> QED BY <2>2, <2>3
<1>2. OpenedOnce' /\ req' \in [Requests -> Request \cup {Idle}] /\ opened' \subseteq Families
  BY <1>1 DEF SessionInv, OpenedOnce, SessionsTypeOK
<1> QED BY <1>1, <1>2, TableLeftAlone

\* One request moves, the others wait, and no family is opened.
LEMMA RequestMoves ==
  ASSUME SessionInv, NEW r \in Requests, NEW x \in Request \cup {Idle}, req' = [req EXCEPT ![r] = x], x.stage # "issue",
         UNCHANGED <<clock, active, rows, issued, owed, history>>, RequestSound(r)'
  PROVE  SessionInv'
<1>1. req' \in [Requests -> Request \cup {Idle}] /\ req'[r] = x /\ \A q \in Requests : q # r => req'[q] = req[q]
  BY DEF SessionInv, SessionsTypeOK
<1>2. OpenedOnce'
  BY <1>1 DEF SessionInv, OpenedOnce, history
<1>3. clock' \in Time /\ clock <= clock' /\ opened' \subseteq Families /\ active' \subseteq Users /\ owed' \subseteq Users
  BY DEF SessionInv, SessionsTypeOK, Time, history
<1> QED BY <1>1, <1>2, <1>3, TableLeftAlone DEF history

LEMMA IdleIsSound ==
  ASSUME NEW r \in Requests, req'[r] = Idle
  PROVE  RequestSound(r)'
BY DEF RequestSound, Idle, Refreshing

LEMMA SignInKeeps ==
  ASSUME SessionInv, NEW r \in Requests, NEW f \in Families, SignIn(r, f)
  PROVE  SessionInv'
<1> DEFINE x == [stage |-> "issue", family |-> f, now |-> clock]
<1>0. SessionsTypeOK /\ clock \in Time
  BY DEF SessionInv, SessionsTypeOK
<1>1. x \in Request /\ x.stage = "issue" /\ x.family = f
  BY <1>0 DEF Request
<1> HIDE DEF x
<1>2. req' \in [Requests -> Request \cup {Idle}] /\ req'[r] = x /\ \A q \in Requests : q # r => req'[q] = req[q]
  BY <1>0, <1>1 DEF SignIn, x, SessionsTypeOK
<1>3. opened' = opened \cup {f} /\ UNCHANGED <<clock, active, rows, issued, owed, ended, strays, since>> /\ f \notin opened
  BY DEF SignIn
<1>4. ended[f] = Never /\ (\A t \in Tokens : Stored(t) => FamilyOf(t) # f)
      /\ \A q \in Requests : req[q].stage = "issue" => req[q].family # f
  BY <1>3 DEF SessionInv, OpenedOnce, TokenSound, RequestSound
<1>5. RequestSound(r)'
  BY <1>1, <1>2, <1>3, <1>4 DEF RequestSound, Refreshing, Stored, FamilyOf
<1>6. OpenedOnce'
  BY <1>1, <1>2, <1>3, <1>4 DEF SessionInv, OpenedOnce
<1>7. clock <= clock' /\ active' \subseteq Users /\ owed' \subseteq Users /\ opened' \subseteq Families /\ opened \subseteq opened'
  BY <1>0, <1>3 DEF SessionsTypeOK, Time
<1> QED BY <1>0, <1>2, <1>3, <1>5, <1>6, <1>7, TableLeftAlone

LEMMA PresentKeeps ==
  ASSUME SessionInv, NEW r \in Requests, NEW t \in Tokens, Present(r, t)
  PROVE  SessionInv'
<1> DEFINE x == [stage |-> "find", token |-> t, now |-> clock, verdict |-> "unknown", family |-> FamilyOf(t), stray |-> FALSE]
<1>0. SessionsTypeOK /\ clock \in Time /\ Stored(t) /\ FamilyOf(t) \in Families
  BY RowShape DEF SessionInv, SessionsTypeOK, Present
<1>1. x \in Request /\ x.stage = "find" /\ x.token = t /\ x.family = FamilyOf(t) /\ x.now = clock
  BY <1>0 DEF Request, Verdicts
<1> HIDE DEF x
<1>2. req' = [req EXCEPT ![r] = x] /\ UNCHANGED <<clock, active, rows, issued, owed, history>>
  BY DEF Present, x
<1>3. req'[r] = x
  BY <1>0, <1>2 DEF SessionsTypeOK
<1>4. RequestSound(r)'
  BY <1>0, <1>1, <1>2, <1>3 DEF RequestSound, Refreshing, Stored, FamilyOf, Time
<1> QED BY <1>1, <1>2, <1>4, RequestMoves

\* A token that is accepted is live, or was rotated within the grace window: what
\* is minted for it after the end of its family overtook that end.
LEMMA AcceptedOvertakes ==
  ASSUME SessionInv, NEW r \in Requests, req[r].stage = "find",
         Rotation(rows[req[r].token], req[r].now) \in {"ok", "concurrent"}
  PROVE  /\ Overtakes(r)
         /\ Rotation(rows[req[r].token], req[r].now) = "ok" =>
              ended[req[r].family] = Never \/ req[r].token \in strays
<1> DEFINE t == req[r].token
           f == req[r].family
<1>0. SessionsTypeOK
  BY DEF SessionInv
<1>1. t \in Tokens /\ f \in Families /\ req[r].now \in Time /\ Stored(t) /\ FamilyOf(t) = f /\ TokenSound(t)
  <2>1. req[r] \in RefreshRequest
    BY <1>0, RequestShape DEF Refreshing
  <2> QED BY <2>1 DEF SessionInv, RequestSound, Refreshing, RefreshRequest
<1>2. rows[t].revoked \in Time \cup {Never} /\ ended[f] \in Time \cup {Never}
  BY <1>0, <1>1, RowShape DEF SessionsTypeOK
<1>3. CASE ended[f] = Never
  BY <1>3 DEF Overtakes
<1>4. CASE t \in strays
  BY <1>4 DEF Overtakes
<1>5. CASE ended[f] # Never /\ t \notin strays
  <2>1. rows[t].revoked # Never /\ rows[t].revoked <= ended[f]
    BY <1>1, <1>5 DEF TokenSound
  <2>2. Rotation(rows[t], req[r].now) = "concurrent" /\ req[r].now - rows[t].revoked <= Grace
    BY <2>1 DEF Rotation
  <2>3. req[r].now <= ended[f] + Grace
    BY <1>1, <1>2, <1>5, <2>1, <2>2, SessionBounds DEF Time, Never
  <2> QED BY <2>2, <2>3 DEF Overtakes
<1> QED BY <1>3, <1>4, <1>5

LEMMA FindKeeps ==
  ASSUME SessionInv, NEW r \in Requests, FindByHash(r)
  PROVE  SessionInv'
<1> DEFINE t == req[r].token
           f == req[r].family
           verdict == Rotation(rows[t], req[r].now)
           revoke == [req[r] EXCEPT !.stage = "revoke", !.verdict = verdict]
           user == [req[r] EXCEPT !.stage = "user", !.verdict = verdict, !.stray = Overtakes(r)]
<1>0. SessionsTypeOK /\ req \in [Requests -> Request \cup {Idle}]
  BY DEF SessionInv, SessionsTypeOK
<1>1. req[r].stage = "find" /\ req[r] \in RefreshRequest /\ UNCHANGED <<clock, active, rows, issued, owed, history>>
  BY <1>0, RequestShape DEF FindByHash, Refreshing
<1>2. verdict \in Verdicts /\ Overtakes(r) \in BOOLEAN
  BY DEF Rotation, Verdicts, Overtakes
<1>3. Stored(t) /\ FamilyOf(t) = f /\ req[r].now <= clock
  BY <1>1 DEF SessionInv, RequestSound, Refreshing
<1>4. CASE Done(r)
  <2>1. req'[r] = Idle
    BY <1>0, <1>4 DEF Done
  <2> QED BY <1>1, <1>4, <2>1, IdleIsSound, RequestMoves DEF Done, Idle
<1>5. CASE req' = [req EXCEPT ![r] = revoke]
  <2>1. revoke \in Request /\ revoke.stage = "revoke" /\ revoke.token = t /\ revoke.family = f /\ revoke.now = req[r].now
    BY <1>1, <1>2 DEF RefreshRequest, Request, Refreshing
  <2> HIDE DEF revoke
  <2>2. req'[r] = revoke
    BY <1>0, <1>5
  <2>3. RequestSound(r)'
    BY <1>1, <1>3, <2>1, <2>2 DEF RequestSound, Refreshing, Stored, FamilyOf
  <2> QED BY <1>1, <1>5, <2>1, <2>3, RequestMoves
<1>6. CASE verdict \in {"ok", "concurrent"} /\ req' = [req EXCEPT ![r] = user]
  <2>1. Overtakes(r) /\ (verdict = "ok" => ended[f] = Never \/ t \in strays)
    BY <1>1, <1>6, AcceptedOvertakes
  <2>2. Overtakes(r) = TRUE
    BY <1>2, <2>1
  <2>3. /\ user \in Request /\ user.stage = "user" /\ user.token = t /\ user.family = f /\ user.now = req[r].now
        /\ user.verdict = verdict /\ user.stray = TRUE
    <3> HIDE DEF verdict
    <3> QED BY <1>1, <1>2, <2>2 DEF RefreshRequest, Request, Refreshing
  <2> HIDE DEF user, verdict
  <2>4. req'[r] = user
    BY <1>0, <1>6
  <2>5. RequestSound(r)'
    BY <1>1, <1>3, <2>1, <2>3, <2>4 DEF RequestSound, Refreshing, Stored, FamilyOf, history
  <2> QED BY <1>1, <1>6, <2>3, <2>5, RequestMoves
<1>7. \/ Done(r) \/ req' = [req EXCEPT ![r] = revoke]
      \/ verdict \in {"ok", "concurrent"} /\ req' = [req EXCEPT ![r] = user]
  BY <1>0 DEF FindByHash
<1> QED BY <1>4, <1>5, <1>6, <1>7

LEMMA LoadKeeps ==
  ASSUME SessionInv, NEW r \in Requests, LoadUser(r) \/ GiveUp(r)
  PROVE  SessionInv'
<1>0. SessionsTypeOK /\ req \in [Requests -> Request \cup {Idle}]
  BY DEF SessionInv, SessionsTypeOK
<1>1. CASE GiveUp(r)
  <2>1. req'[r] = Idle
    BY <1>0, <1>1 DEF GiveUp, Done
  <2>2. req' = [req EXCEPT ![r] = Idle] /\ UNCHANGED <<clock, active, rows, issued, owed, history>>
    BY <1>1 DEF GiveUp, Done
  <2>3. Idle \in Request \cup {Idle} /\ Idle.stage # "issue"
    BY DEF Idle
  <2> QED BY <2>1, <2>2, <2>3, IdleIsSound, RequestMoves
<1>2. CASE LoadUser(r)
  <2> DEFINE next == IF Owner[req[r].family] \in active THEN "persist" ELSE "revoke"
             x == [req[r] EXCEPT !.stage = next]
  <2>1. req[r].stage = "user" /\ req[r] \in RefreshRequest /\ UNCHANGED <<clock, active, rows, issued, owed, history>>
        /\ req' = [req EXCEPT ![r] = x]
    BY <1>0, <1>2, RequestShape DEF LoadUser, Go, Refreshing
  <2>2. next \in {"persist", "revoke"} /\ (next = "persist" => Owner[req[r].family] \in active)
    OBVIOUS
  <2> HIDE DEF next
  <2>3. /\ x \in Request /\ x.stage = next /\ x.token = req[r].token /\ x.family = req[r].family /\ x.now = req[r].now
        /\ x.verdict = req[r].verdict /\ x.stray = req[r].stray
    BY <2>1, <2>2 DEF RefreshRequest, Request, Refreshing
  <2> HIDE DEF x
  <2>4. req'[r] = x
    BY <1>0, <2>1
  <2>5. RequestSound(r)
    BY DEF SessionInv
  <2>6. RequestSound(r)'
    BY <2>1, <2>2, <2>3, <2>4, <2>5 DEF RequestSound, Refreshing, Stored, FamilyOf, history
  <2>7. x \in Request \cup {Idle} /\ x.stage # "issue"
    BY <2>2, <2>3
  <2> QED BY <2>1, <2>6, <2>7, RequestMoves
<1> QED BY <1>1, <1>2

-----------------------------------------------------------------------------
(* Sessions: steps that mint a token.                                       *)

\* A new live token of a family, and possibly the stamp on the one it replaces.
LEMMA MintKeeps ==
  ASSUME SessionInv, NEW r \in Requests, NEW f \in Families, NEW when \in Time, NEW n,
         n = issued + 1, issued < MaxTokens, issued' = n, Done(r), UNCHANGED <<clock, active, owed, opened, ended>>,
         rows' \in [Tokens -> Row \cup {NoRow}], since' \in [Tokens -> Time \cup {Never}],
         rows'[n] = NewRow(f, when), strays' \in {strays, strays \cup {n}},
         f \in opened, n \in strays' \/ (ended[f] = Never /\ Owner[f] \in active \cup owed),
         \A q \in Requests : q # r /\ req[q].stage = "issue" => req[q].family # f,
         \A t \in Tokens : t # n =>
           \/ rows'[t] = rows[t] /\ since'[t] = since[t]
           \/ Stored(t) /\ FamilyOf(t) = f /\ rows'[t] # NoRow /\ rows'[t].family = f /\ TokenSound(t)'
  PROVE  SessionInv'
<1>0. SessionsTypeOK /\ issued \in 0..MaxTokens /\ strays \subseteq Tokens /\ clock \in Time
  BY DEF SessionInv, SessionsTypeOK
<1>1. n \in Tokens /\ issued' \in 0..MaxTokens /\ ~Stored(n)
  BY <1>0, SessionBounds DEF Tokens, SessionsTypeOK
<1>2. rows'[n] # NoRow /\ rows'[n].family = f /\ rows'[n].revoked = Never /\ rows'[n].replaced = NoToken
  BY NewRowShape
<1>3. Stored(n)' /\ FamilyOf(n)' = f
  BY <1>2 DEF Stored, FamilyOf
<1>4. \A t \in Tokens : t # n => (Stored(t)' <=> Stored(t)) /\ (Stored(t) => FamilyOf(t)' = FamilyOf(t))
  BY DEF Stored, FamilyOf
<1>5. \A t \in Tokens : Stored(t)' <=> t <= issued'
  <2> TAKE t \in Tokens
  <2>1. t \in Int /\ (Stored(t) <=> t <= issued)
    BY <1>0 DEF SessionsTypeOK, Tokens
  <2> QED BY <1>0, <1>1, <1>3, <1>4, <2>1
<1>6. req' \in [Requests -> Request \cup {Idle}] /\ req'[r] = Idle /\ \A q \in Requests : q # r => req'[q] = req[q]
  BY <1>0 DEF Done, SessionsTypeOK
<1>7. SessionsTypeOK'
  BY <1>0, <1>1, <1>5, <1>6 DEF SessionsTypeOK
<1>8. OpenedOnce'
  <2>1. Idle.stage # "issue"
    BY DEF Idle
  <2> QED BY <1>6, <2>1 DEF SessionInv, OpenedOnce
<1>9. \A t \in Tokens : TokenSound(t)'
  <2> TAKE t \in Tokens
  <2>1. CASE t = n
    BY <1>2, <1>3, <2>1 DEF TokenSound, FamilyOf
  <2>2. CASE t # n /\ rows'[t] = rows[t] /\ since'[t] = since[t]
    BY <2>2 DEF SessionInv, TokenSound, Stored, FamilyOf
  <2> QED BY <2>1, <2>2
<1>10. LineageLives'
  <2> SUFFICES ASSUME NEW t \in Tokens, Stored(t)', ended'[FamilyOf(t)'] = Never
               PROVE  \E s \in Tokens : Live(s)' /\ FamilyOf(s)' = FamilyOf(t)'
    BY DEF LineageLives
  <2>1. CASE FamilyOf(t)' = f
    BY <1>1, <1>2, <1>3, <2>1 DEF Live
  <2>2. CASE FamilyOf(t)' # f
    <3>1. t # n /\ Stored(t) /\ FamilyOf(t)' = FamilyOf(t)
      BY <1>3, <1>4, <2>2
    <3>2. PICK s \in Tokens : Live(s) /\ FamilyOf(s) = FamilyOf(t)
      BY <3>1 DEF SessionInv, LineageLives
    <3>3. s # n /\ rows'[s] = rows[s]
      BY <1>1, <2>2, <3>1, <3>2 DEF Live
    <3> QED BY <3>1, <3>2, <3>3 DEF Live, Stored, FamilyOf
  <2> QED BY <2>1, <2>2
<1>11. Forward /\ Leaves
  <2>1. RowsStay
    BY <1>1, <1>4 DEF RowsStay
  <2> QED BY <1>0, <2>1 DEF Forward, EndsNow, Leaves, Time
<1>12. \A q \in Requests : RequestSound(q)'
  <2> TAKE q \in Requests
  <2>1. CASE q = r
    BY <1>6, <2>1, IdleIsSound
  <2>2. CASE q # r
    <3>1. req[q].stage = "issue" => NoneOf(req[q].family)
      BY <1>3, <1>4, <2>2 DEF NoneOf
    <3>2. clock' \in Time /\ ended' \in [Families -> Time \cup {Never}]
      BY <1>7 DEF SessionsTypeOK
    <3> QED BY <1>6, <1>11, <2>2, <3>1, <3>2, RequestKept
  <2> QED BY <2>1, <2>2
<1> QED BY <1>7, <1>8, <1>9, <1>10, <1>12 DEF SessionInv

LEMMA IssueKeeps ==
  ASSUME SessionInv, NEW r \in Requests, IssueFirst(r)
  PROVE  SessionInv'
<1> DEFINE f == req[r].family
           n == issued + 1
<1>0. SessionsTypeOK /\ issued \in 0..MaxTokens
  BY DEF SessionInv, SessionsTypeOK
<1>1. f \in Families /\ req[r].now \in Time /\ req[r].stage = "issue"
  BY <1>0, RequestShape DEF IssueFirst, IssueRequest
<1>2. n \in Tokens /\ issued < MaxTokens /\ issued' = n
  BY <1>0, SessionBounds DEF IssueFirst, Tokens
<1>3. rows' = [rows EXCEPT ![n] = NewRow(f, req[r].now)] /\ UNCHANGED <<clock, active, owed, opened, ended, since>> /\ Done(r)
      /\ strays' = IF Owner[f] \in active THEN strays ELSE strays \cup {n}
  BY <1>2 DEF IssueFirst
<1>4. /\ rows' \in [Tokens -> Row \cup {NoRow}] /\ rows'[n] = NewRow(f, req[r].now)
      /\ \A t \in Tokens : t # n => rows'[t] = rows[t]
      /\ since' \in [Tokens -> Time \cup {Never}]
  BY <1>0, <1>1, <1>2, <1>3, NewRowShape DEF SessionsTypeOK
<1>5. f \in opened /\ ended[f] = Never /\ \A q \in Requests : q # r /\ req[q].stage = "issue" => req[q].family # f
  BY <1>1 DEF SessionInv, RequestSound, OpenedOnce
<1> HIDE DEF n, f
<1>6. issued' = issued + 1 /\ n = issued + 1
  BY <1>2 DEF n
<1>7. strays' \in {strays, strays \cup {n}} /\ (n \in strays' \/ (ended[f] = Never /\ Owner[f] \in active \cup owed))
  BY <1>3, <1>5
<1> QED BY <1>1, <1>2, <1>3, <1>4, <1>5, <1>6, <1>7, MintKeeps

\* What a refresh is about to persist for, whichever verdict it has.
LEMMA SuccessorCovered ==
  ASSUME SessionInv, NEW r \in Requests, req[r].stage = "persist", Successor(r)
  PROVE  LET t == req[r].token  f == req[r].family  n == issued + 1 IN
         /\ f \in Families /\ req[r].now \in Time /\ req[r].now <= clock /\ t \in Tokens /\ n \in Tokens /\ t # n
         /\ Stored(t) /\ FamilyOf(t) = f /\ f \in opened
         /\ issued < MaxTokens /\ issued' = n /\ Done(r)
         /\ strays' \in {strays, strays \cup {n}}
         /\ n \in strays' \/ (ended[f] = Never /\ Owner[f] \in active \cup owed)
         /\ \A q \in Requests : q # r /\ req[q].stage = "issue" => req[q].family # f
         /\ req[r].verdict = "ok" => ended[f] = Never \/ t \in strays \/ req[r].now <= ended[f]
<1> DEFINE t == req[r].token
           f == req[r].family
           n == issued + 1
<1>0. SessionsTypeOK /\ issued \in 0..MaxTokens /\ RequestSound(r)
  BY DEF SessionInv, SessionsTypeOK
<1>1. f \in Families /\ req[r].now \in Time /\ t \in Tokens
  BY <1>0, RequestShape DEF Refreshing, RefreshRequest
<1>2. Stored(t) /\ FamilyOf(t) = f /\ req[r].now <= clock /\ f \in opened
  BY <1>0, <1>1 DEF RequestSound, Refreshing, SessionInv, TokenSound
<1>3. issued < MaxTokens /\ issued' = n /\ Done(r)
  BY DEF Successor
<1>4. n \in Tokens /\ t # n
  BY <1>0, <1>1, <1>2, <1>3, SessionBounds DEF Tokens, SessionsTypeOK
<1>5. req[r].stray = TRUE /\ (Owner[f] \in active \cup owed \/ ended[f] # Never)
      /\ (req[r].verdict = "ok" => ended[f] = Never \/ t \in strays \/ req[r].now <= ended[f])
  BY <1>0 DEF RequestSound
<1>6. strays' = IF ended[f] # Never \/ t \in strays THEN strays \cup {n} ELSE strays
  BY <1>3, <1>5 DEF Successor
<1>7. strays' \in {strays, strays \cup {n}} /\ (n \in strays' \/ (ended[f] = Never /\ Owner[f] \in active \cup owed))
  BY <1>5, <1>6
<1>8. \A q \in Requests : q # r /\ req[q].stage = "issue" => req[q].family # f
  BY <1>1, <1>2 DEF SessionInv, RequestSound
<1> HIDE DEF n, f, t
<1> QED BY <1>1, <1>2, <1>3, <1>4, <1>5, <1>7, <1>8 DEF n, f, t

LEMMA ConcurrentKeeps ==
  ASSUME SessionInv, NEW r \in Requests, IssueConcurrent(r)
  PROVE  SessionInv'
<1> DEFINE f == req[r].family
           n == issued + 1
<1>1. Successor(r) /\ req[r].stage = "persist" /\ UNCHANGED <<clock, active, owed, opened, ended, since>>
  BY DEF IssueConcurrent
<1>2. /\ f \in Families /\ req[r].now \in Time /\ n \in Tokens /\ f \in opened /\ issued < MaxTokens /\ issued' = n /\ Done(r)
      /\ strays' \in {strays, strays \cup {n}} /\ (n \in strays' \/ (ended[f] = Never /\ Owner[f] \in active \cup owed))
      /\ \A q \in Requests : q # r /\ req[q].stage = "issue" => req[q].family # f
  BY <1>1, SuccessorCovered
<1>3. rows' = [rows EXCEPT ![n] = NewRow(f, req[r].now)]
  BY <1>2 DEF IssueConcurrent
<1>4. /\ rows' \in [Tokens -> Row \cup {NoRow}] /\ rows'[n] = NewRow(f, req[r].now)
      /\ \A t \in Tokens : t # n => rows'[t] = rows[t]
      /\ since' \in [Tokens -> Time \cup {Never}]
  BY <1>1, <1>2, <1>3, NewRowShape DEF SessionInv, SessionsTypeOK
<1> HIDE DEF n, f
<1>5. n = issued + 1
  BY DEF n
<1> QED BY <1>1, <1>2, <1>4, <1>5, MintKeeps

LEMMA RotateKeeps ==
  ASSUME SessionInv, NEW r \in Requests, Rotate(r)
  PROVE  SessionInv'
<1> DEFINE f == req[r].family
           k == req[r].token
           n == issued + 1
           when == req[r].now
           stamped == [rows[k] EXCEPT !.revoked = when, !.replaced = n]
           first == IF since[k] = Never \/ when < since[k] THEN when ELSE since[k]
<1>0. SessionsTypeOK
  BY DEF SessionInv
<1>1. Successor(r) /\ req[r].stage = "persist" /\ req[r].verdict = "ok" /\ UNCHANGED <<clock, active, owed, opened, ended>>
  BY DEF Rotate
<1>2. /\ f \in Families /\ when \in Time /\ n \in Tokens /\ f \in opened /\ issued < MaxTokens /\ issued' = n /\ Done(r)
      /\ strays' \in {strays, strays \cup {n}} /\ (n \in strays' \/ (ended[f] = Never /\ Owner[f] \in active \cup owed))
      /\ \A q \in Requests : q # r /\ req[q].stage = "issue" => req[q].family # f
  BY <1>1, SuccessorCovered
<1>3. /\ k \in Tokens /\ k # n /\ Stored(k) /\ FamilyOf(k) = f /\ when <= clock
      /\ ended[f] = Never \/ k \in strays \/ when <= ended[f]
  BY <1>1, SuccessorCovered
<1>4. rows[k] \in Row /\ since[k] \in Time \cup {Never}
  BY <1>0, <1>3, RowShape DEF SessionsTypeOK
<1>5. /\ stamped \in Row /\ stamped # NoRow /\ stamped.family = f /\ stamped.revoked = when /\ stamped.replaced = n
  <2>1. stamped \in Row
    BY <1>2, <1>4 DEF Row
  <2> QED BY <1>3, <1>4, <2>1, RowIsThere DEF Row, FamilyOf
<1>6. first \in Time /\ first <= when
  BY <1>2, <1>4 DEF Time
<1> HIDE DEF first
<1>7. rows' = [rows EXCEPT ![k] = stamped, ![n] = NewRow(f, when)] /\ since' = [since EXCEPT ![k] = first]
  <2>1. rows' = [rows EXCEPT ![k].revoked = when, ![k].replaced = n, ![n] = NewRow(f, when)]
    BY <1>2 DEF Rotate
  <2>2. [rows EXCEPT ![k].revoked = when, ![k].replaced = n] = [rows EXCEPT ![k] = stamped]
    BY <1>0, <1>3, <1>4 DEF SessionsTypeOK, Row
  <2> QED BY <1>0, <1>2, <1>3, <2>1, <2>2 DEF Rotate, first, SessionsTypeOK
<1> HIDE DEF stamped
<1>8. /\ rows' \in [Tokens -> Row \cup {NoRow}] /\ rows'[n] = NewRow(f, when) /\ rows'[k] = stamped
      /\ \A t \in Tokens : t # n /\ t # k => rows'[t] = rows[t]
      /\ since' \in [Tokens -> Time \cup {Never}] /\ since'[k] = first
      /\ \A t \in Tokens : t # k => since'[t] = since[t]
  BY <1>0, <1>2, <1>3, <1>5, <1>6, <1>7, NewRowShape DEF SessionsTypeOK
<1>9. ASSUME NEW t \in Tokens, t = k
      PROVE  rows'[t] # NoRow /\ rows'[t].family = f /\ TokenSound(t)'
  <2>1. FamilyOf(t)' = f /\ rows'[t].revoked = when /\ rows'[t].replaced = n /\ rows'[t] # NoRow
    BY <1>5, <1>8, <1>9 DEF FamilyOf
  <2>2. when # Never /\ first # Never /\ n # NoToken
    BY <1>2, <1>6 DEF Time, Never, Tokens, NoToken
  <2>3. (t \in strays => t \in strays') /\ since'[t] = first
    BY <1>2, <1>8, <1>9
  <2>4. /\ rows'[t].revoked # Never /\ rows'[t].revoked <= clock' /\ rows'[t].replaced # NoToken
        /\ since'[t] # Never /\ since'[t] <= rows'[t].revoked
        /\ ended'[f] # Never => t \in strays' \/ rows'[t].revoked <= ended'[f]
        /\ f \in opened'
    BY <1>1, <1>2, <1>3, <1>6, <1>9, <2>1, <2>2, <2>3
  <2> HIDE DEF f, n, when, k
  <2> QED BY <2>1, <2>4 DEF TokenSound, FamilyOf
<1> HIDE DEF n, f, when, k
<1>10. n = issued + 1
  BY DEF n
<1>11. \A t \in Tokens : t # n =>
           \/ rows'[t] = rows[t] /\ since'[t] = since[t]
           \/ Stored(t) /\ FamilyOf(t) = f /\ rows'[t] # NoRow /\ rows'[t].family = f /\ TokenSound(t)'
  BY <1>3, <1>8, <1>9
<1> QED BY <1>1, <1>2, <1>8, <1>10, <1>11, MintKeeps

-----------------------------------------------------------------------------
(* Sessions: steps that end families.                                       *)

\* Families are revoked whole, and whoever leaves the books has all of his revoked.
LEMMA RevokeKeeps ==
  ASSUME SessionInv, NEW fs \in SUBSET Families, NEW at \in Time, at <= clock,
         \A f \in fs : \E t \in Tokens : Stored(t) /\ FamilyOf(t) = f,
         rows' = Revoked(fs, at), End(fs), UNCHANGED <<clock, active, issued, opened, strays, since>>,
         owed' \subseteq owed,
         \A t \in Tokens : Stored(t) /\ Owner[FamilyOf(t)] \in owed \ owed' => FamilyOf(t) \in fs,
         req' \in [Requests -> Request \cup {Idle}], \A r \in Requests : req'[r] = req[r] \/ req'[r] = Idle
  PROVE  SessionInv'
<1>0. SessionsTypeOK /\ clock \in Time /\ Never \notin Time /\ ended \in [Families -> Time \cup {Never}]
  BY DEF SessionInv, SessionsTypeOK, Time, Never
<1>1. /\ rows' \in [Tokens -> Row \cup {NoRow}]
      /\ \A t \in Tokens :
           /\ Stored(t)' <=> Stored(t)
           /\ Stored(t) => /\ FamilyOf(t)' = FamilyOf(t) /\ rows'[t].replaced = rows[t].replaced
                           /\ rows'[t].revoked = IF Live(t) /\ FamilyOf(t) \in fs THEN at ELSE rows[t].revoked
  <2>1. \A t \in Tokens : LET n == Revoked(fs, at)[t] IN
              /\ n # NoRow <=> Stored(t)
              /\ Stored(t) => /\ n.family = FamilyOf(t) /\ n.replaced = rows[t].replaced
                              /\ n.revoked = IF Live(t) /\ FamilyOf(t) \in fs THEN at ELSE rows[t].revoked
    BY <1>0, RevokedShape
  <2>2. \A t \in Tokens : (Stored(t)' <=> rows'[t] # NoRow) /\ FamilyOf(t)' = rows'[t].family
    BY DEF Stored, FamilyOf
  <2>3. rows' \in [Tokens -> Row \cup {NoRow}]
    BY <1>0, RevokedShape
  <2> QED BY <2>1, <2>2, <2>3
<1>2. /\ ended' \in [Families -> Time \cup {Never}]
      /\ \A f \in Families : ended'[f] = IF f \in fs /\ ended[f] = Never THEN clock ELSE ended[f]
  BY <1>0 DEF End
<1>3. SessionsTypeOK'
  BY <1>0, <1>1, <1>2 DEF SessionsTypeOK
<1>4. OpenedOnce'
  <2>1. Idle.stage # "issue"
    BY DEF Idle
  <2>2. \A f \in fs : f \in opened
    BY DEF SessionInv, TokenSound
  <2> QED BY <1>2, <2>1, <2>2 DEF SessionInv, OpenedOnce
<1>5. Forward
  <2>1. EndsNow
    BY <1>2 DEF EndsNow
  <2>2. RowsStay
    BY <1>1 DEF RowsStay
  <2> QED BY <1>0, <2>1, <2>2 DEF Forward, Time
<1>6. Leaves
  <2> SUFFICES ASSUME NEW u \in Users, u \in active \cup owed, u \notin active' \cup owed',
                      NEW t \in Tokens, Stored(t), Owner[FamilyOf(t)] = u
               PROVE  ended'[FamilyOf(t)] # Never
    BY DEF Leaves
  <2>1. FamilyOf(t) \in fs
    OBVIOUS
  <2> QED BY <1>0, <1>2, <2>1
<1>7. \A r \in Requests : RequestSound(r)'
  <2> TAKE r \in Requests
  <2>1. CASE req'[r] = Idle
    BY <2>1, IdleIsSound
  <2>2. CASE req'[r] = req[r]
    <3>1. req[r].stage = "issue" => NoneOf(req[r].family)
      BY <1>1 DEF NoneOf
    <3> QED BY <1>0, <1>2, <1>5, <1>6, <2>2, <3>1, RequestKept
  <2> QED BY <2>1, <2>2
<1>8. ASSUME NEW t \in Tokens PROVE TokenSound(t)'
  <2> SUFFICES ASSUME Stored(t)' PROVE TokenSound(t)'
    BY DEF TokenSound
  <2>0. Stored(t) /\ TokenSound(t) /\ FamilyOf(t) \in Families /\ rows[t].revoked \in Time \cup {Never}
    BY <1>0, <1>1, RowShape DEF SessionInv
  <2>1. /\ rows'[t].replaced = rows[t].replaced /\ FamilyOf(t)' = FamilyOf(t)
        /\ Live(t) <=> rows[t].revoked = Never
    BY <1>1, <2>0 DEF Live
  <2>2. CASE FamilyOf(t) \in fs
    <3>1. ended'[FamilyOf(t)] = (IF ended[FamilyOf(t)] = Never THEN clock ELSE ended[FamilyOf(t)])
          /\ ended'[FamilyOf(t)] # Never
      BY <1>0, <1>2, <2>0, <2>2
    <3>2. rows'[t].revoked = (IF rows[t].revoked = Never THEN at ELSE rows[t].revoked) /\ rows'[t].revoked # Never
      BY <1>0, <1>1, <2>0, <2>1, <2>2
    <3>3. rows'[t].revoked <= clock
      BY <2>0, <3>2 DEF TokenSound
    <3>4. t \in strays \/ rows'[t].revoked <= ended'[FamilyOf(t)]
      BY <2>0, <3>1, <3>2, <3>3 DEF TokenSound
    <3> QED BY <2>0, <2>1, <3>1, <3>2, <3>3, <3>4 DEF TokenSound
  <2>3. CASE FamilyOf(t) \notin fs
    <3>1. ended'[FamilyOf(t)] = ended[FamilyOf(t)] /\ rows'[t].revoked = rows[t].revoked
      BY <1>1, <1>2, <2>0, <2>3
    <3>2. Owner[FamilyOf(t)] \in active \cup owed => Owner[FamilyOf(t)] \in active' \cup owed'
      BY <2>0, <2>3
    <3> QED BY <2>0, <2>1, <3>1, <3>2 DEF TokenSound
  <2> QED BY <2>2, <2>3
<1>9. LineageLives'
  <2> SUFFICES ASSUME NEW t \in Tokens, Stored(t)', ended'[FamilyOf(t)'] = Never
               PROVE  \E s \in Tokens : Live(s)' /\ FamilyOf(s)' = FamilyOf(t)'
    BY DEF LineageLives
  <2>1. Stored(t) /\ FamilyOf(t)' = FamilyOf(t) /\ FamilyOf(t) \in Families
    BY <1>0, <1>1, RowShape
  <2>2. ended[FamilyOf(t)] = Never /\ FamilyOf(t) \notin fs
    BY <1>0, <1>2, <2>1
  <2>3. PICK s \in Tokens : Live(s) /\ FamilyOf(s) = FamilyOf(t)
    BY <2>1, <2>2 DEF SessionInv, LineageLives
  <2>4. Stored(s)' /\ FamilyOf(s)' = FamilyOf(t) /\ rows'[s].revoked = Never
    BY <1>1, <2>2, <2>3 DEF Live
  <2> QED BY <2>1, <2>4 DEF Live
<1> QED BY <1>3, <1>4, <1>7, <1>8, <1>9 DEF SessionInv

\* A replay or an inactive user, a logout, an administrator.
LEMMA EndKeeps ==
  ASSUME SessionInv, \/ \E r \in Requests : RevokeFamily(r)
                     \/ \E t \in Tokens : Logout(t)
                     \/ \E u \in Users : RevokeAllForUser(u)
  PROVE  SessionInv'
<1>0. SessionsTypeOK /\ clock \in Time /\ clock <= clock /\ req \in [Requests -> Request \cup {Idle}]
  BY DEF SessionInv, SessionsTypeOK, Time
<1>1. ASSUME NEW r \in Requests, RevokeFamily(r) PROVE SessionInv'
  <2>1. req[r].family \in Families /\ req[r].now \in Time /\ req[r].token \in Tokens
    BY <1>0, <1>1, RequestShape DEF RevokeFamily, Refreshing, RefreshRequest
  <2>2. Stored(req[r].token) /\ FamilyOf(req[r].token) = req[r].family /\ req[r].now <= clock
    BY <1>1 DEF SessionInv, RequestSound, RevokeFamily, Refreshing
  <2>3. PICK fs \in SUBSET Families : fs = {req[r].family}
    BY <2>1
  <2>4. /\ rows' = Revoked(fs, req[r].now) /\ End(fs) /\ owed' = owed
        /\ UNCHANGED <<clock, active, issued, opened, strays, since>>
    BY <1>1, <2>3 DEF RevokeFamily
  <2>5. req' \in [Requests -> Request \cup {Idle}] /\ \A q \in Requests : req'[q] = req[q] \/ req'[q] = Idle
    BY <1>0, <1>1 DEF RevokeFamily, Done
  <2>6. \A f \in fs : \E t \in Tokens : Stored(t) /\ FamilyOf(t) = f
    BY <2>1, <2>2, <2>3
  <2> QED BY <2>1, <2>2, <2>4, <2>5, <2>6, RevokeKeeps
<1>2. ASSUME NEW k \in Tokens, Logout(k) PROVE SessionInv'
  <2>1. Stored(k) /\ FamilyOf(k) \in Families
    BY <1>0, <1>2, RowShape DEF Logout
  <2>2. PICK fs \in SUBSET Families : fs = {FamilyOf(k)}
    BY <2>1
  <2>3. /\ rows' = Revoked(fs, clock) /\ End(fs) /\ owed' = owed /\ req' = req
        /\ UNCHANGED <<clock, active, issued, opened, strays, since>>
    BY <1>2, <2>2 DEF Logout
  <2>4. \A f \in fs : \E t \in Tokens : Stored(t) /\ FamilyOf(t) = f
    BY <2>1, <2>2
  <2> QED BY <1>0, <2>3, <2>4, RevokeKeeps
<1>3. ASSUME NEW u \in Users, RevokeAllForUser(u) PROVE SessionInv'
  <2>1. PICK fs \in SUBSET Families : fs = FamiliesOf(u)
    BY DEF FamiliesOf
  <2>2. /\ rows' = Revoked(fs, clock) /\ End(fs) /\ owed' = owed \ {u} /\ req' = req
        /\ UNCHANGED <<clock, active, issued, opened, strays, since>>
    BY <1>3, <2>1 DEF RevokeAllForUser
  <2>3. \A f \in fs : \E t \in Tokens : Stored(t) /\ FamilyOf(t) = f
    BY <2>1 DEF FamiliesOf
  <2>4. \A t \in Tokens : Stored(t) /\ Owner[FamilyOf(t)] \in owed \ owed' => FamilyOf(t) \in fs
    BY <1>0, <2>1, <2>2, RowShape DEF FamiliesOf
  <2> QED BY <1>0, <2>2, <2>3, <2>4, RevokeKeeps
<1> QED BY <1>1, <1>2, <1>3

-----------------------------------------------------------------------------
(* Sessions: the theorems.                                                  *)

LEMMA SessionsStart == SessionsInit => SessionInv
<1> SUFFICES ASSUME SessionsInit PROVE SessionInv
  OBVIOUS
<1>1. (\A t \in Tokens : ~Stored(t)) /\ \A r \in Requests : req[r] = Idle
  BY DEF SessionsInit, Stored
<1>2. SessionsTypeOK
  <2>1. \A t \in Tokens : ~(t <= issued)
    BY DEF SessionsInit, Tokens
  <2>2. 0 \in Time /\ 0 \in 0..MaxTokens
    BY SessionBounds DEF Time
  <2> QED BY <1>1, <2>1, <2>2 DEF SessionsInit, SessionsTypeOK
<1>3. OpenedOnce /\ LineageLives /\ \A t \in Tokens : TokenSound(t)
  BY <1>1 DEF SessionsInit, OpenedOnce, LineageLives, TokenSound, Idle
<1>4. \A r \in Requests : RequestSound(r)
  BY <1>1 DEF RequestSound, Idle, Refreshing
<1> QED BY <1>2, <1>3, <1>4 DEF SessionInv

LEMMA SessionsStep == SessionInv /\ [SessionsNext]_sessionVars => SessionInv'
<1> SUFFICES ASSUME SessionInv, [SessionsNext]_sessionVars PROVE SessionInv'
  OBVIOUS
<1>1. ASSUME NEW r \in Requests, RequestStep(r) PROVE SessionInv'
  BY <1>1, SignInKeeps, IssueKeeps, PresentKeeps, FindKeeps, LoadKeeps, RotateKeeps, ConcurrentKeeps, EndKeeps
     DEF RequestStep
<1>2. ASSUME NEW t \in Tokens, Logout(t) PROVE SessionInv'
  BY <1>2, EndKeeps
<1>3. ASSUME NEW u \in Users, UserStep(u) PROVE SessionInv'
  BY <1>3, StatusKeeps, EndKeeps DEF UserStep
<1>4. CASE Tick
  BY <1>4, StatusKeeps
<1>5. CASE UNCHANGED sessionVars
  BY <1>5 DEF sessionVars, SessionInv, SessionsTypeOK, OpenedOnce, LineageLives, TokenSound, RequestSound, Stored, Live, FamilyOf
<1> QED BY <1>1, <1>2, <1>3, <1>4, <1>5 DEF SessionsNext

LEMMA SessionsKeep == SessionsSpec => []SessionInv
BY SessionsStart, SessionsStep, PTL DEF SessionsSpec

\* What a logout, a replay or a disabled user ended stays ended, but for the
\* requests that had read before the end or came within the grace of it.
THEOREM EndedStays == SessionsSpec => []EndedStaysEnded
<1>1. SessionInv => EndedStaysEnded
  <2> SUFFICES ASSUME SessionInv PROVE EndedStaysEnded
    OBVIOUS
  <2>1. LogoutSticks
    BY DEF SessionInv, TokenSound, LogoutSticks, Live
  <2>2. DisabledStaysOut
    BY DEF SessionInv, TokenSound, DisabledStaysOut, Live
  <2> QED BY <2>1, <2>2 DEF SessionInv, EndedStaysEnded
<1> QED BY <1>1, SessionsKeep, PTL

\* Two tabs that refresh at once, or a rotation whose answer was lost, never sign
\* the user out: a family that nobody ended keeps a live token, and it is revoked
\* for a replay only when the token was rotated more than Grace before.
THEOREM TabsStay == SessionsSpec => TabsStayIn
<1> DEFINE Forgiven ==
       \A r \in Requests :
         req[r].stage = "find" /\ req'[r].stage = "revoke" /\ ended[req[r].family] = Never
           => since[req[r].token] # Never /\ req[r].now > since[req[r].token] + Grace
<1>1. SessionInv => LineageLives
  BY DEF SessionInv
<1>2. SessionInv /\ [SessionsNext]_sessionVars => Forgiven
  <2> SUFFICES ASSUME SessionInv, [SessionsNext]_sessionVars, NEW r \in Requests,
                      req[r].stage = "find", req'[r].stage = "revoke", ended[req[r].family] = Never
               PROVE  since[req[r].token] # Never /\ req[r].now > since[req[r].token] + Grace
    OBVIOUS
  <2>0. SessionsTypeOK /\ req \in [Requests -> Request \cup {Idle}]
    BY DEF SessionInv, SessionsTypeOK
  <2>1. /\ req[r].token \in Tokens /\ req[r].now \in Time /\ Stored(req[r].token)
        /\ FamilyOf(req[r].token) = req[r].family
    BY <2>0, RequestShape DEF SessionInv, RequestSound, Refreshing, RefreshRequest
  <2>2. Rotation(rows[req[r].token], req[r].now) = "reuse"
    <3>1. Idle.stage # "revoke"
      BY DEF Idle
    <3>2. req'[r] # req[r] /\ req'[r] # Idle
      BY <3>1
    <3>3. FindByHash(r)
      <4>1. ASSUME NEW q \in Requests, RequestStep(q) PROVE FindByHash(r)
        <5>1. CASE q # r
          <6>1. req'[r] = req[r]
            BY <2>0, <4>1, <5>1 DEF RequestStep, SignIn, IssueFirst, Present, FindByHash, LoadUser, Rotate,
               IssueConcurrent, RevokeFamily, GiveUp, Successor, Done, Go
          <6> QED BY <3>2, <6>1
        <5>2. CASE q = r
          <6>1. req[r] # Idle
            BY DEF Idle
          <6>2. ~GiveUp(r)
            BY <2>0, <3>2 DEF GiveUp, Done
          <6>3. ~(\E f \in Families : SignIn(r, f)) /\ ~IssueFirst(r) /\ ~(\E t \in Tokens : Present(r, t)) /\ ~LoadUser(r)
                /\ ~Rotate(r) /\ ~IssueConcurrent(r) /\ ~RevokeFamily(r)
            BY <6>1 DEF SignIn, IssueFirst, Present, LoadUser, Rotate, IssueConcurrent, RevokeFamily
          <6> QED BY <4>1, <5>2, <6>2, <6>3 DEF RequestStep
        <5> QED BY <5>1, <5>2
      <4>2. ~(\E t \in Tokens : Logout(t)) /\ ~(\E u \in Users : UserStep(u)) /\ ~Tick /\ ~UNCHANGED sessionVars
        BY <3>2 DEF Logout, UserStep, SetDisabled, RevokeAllForUser, Enable, Tick, sessionVars
      <4> QED BY <4>1, <4>2 DEF SessionsNext
    <3>4. req[r] \in RefreshRequest
      BY <2>0, RequestShape DEF Refreshing
    <3>5. req' # [req EXCEPT ![r] = Idle]
      BY <2>0, <3>2
    <3>6. \A v, w : req' # [req EXCEPT ![r].stage = "user", ![r].verdict = v, ![r].stray = w]
      BY <2>0, <3>4 DEF RefreshRequest
    <3> DEFINE v == Rotation(rows[req[r].token], req[r].now)
               w == Overtakes(r)
    <3>7. \/ req' = [req EXCEPT ![r] = Idle] \/ v = "reuse"
          \/ req' = [req EXCEPT ![r].stage = "user", ![r].verdict = v, ![r].stray = w]
      BY <3>3 DEF FindByHash, Done
    <3> HIDE DEF v, w
    <3>8. v = "reuse"
      BY <3>5, <3>6, <3>7
    <3> QED BY <3>8 DEF v
  <2>3. /\ rows[req[r].token].revoked \in Time \cup {Never}
        /\ rows[req[r].token] # NoRow /\ TokenSound(req[r].token)
        /\ since[req[r].token] \in Time \cup {Never}
    BY <2>0, <2>1, RowShape DEF SessionInv, Stored, SessionsTypeOK
  <2>4. /\ rows[req[r].token].revoked # Never /\ rows[req[r].token].replaced # NoToken
        /\ ~(req[r].now - rows[req[r].token].revoked <= Grace)
        /\ since[req[r].token] # Never /\ since[req[r].token] <= rows[req[r].token].revoked
    BY <2>1, <2>2, <2>3 DEF Rotation, TokenSound
  <2> QED BY <2>1, <2>3, <2>4, SessionBounds DEF Time
<1>3. SessionsSpec => [][Forgiven]_sessionVars
  BY <1>2, SessionsKeep, PTL DEF SessionsSpec
<1>4. SessionsSpec => []LineageLives
  BY <1>1, SessionsKeep, PTL
<1> QED BY <1>3, <1>4 DEF TabsStayIn, RacesForgiven

-----------------------------------------------------------------------------
(* Lockout: the lock against guessing.                                       *)

\* Sign-ins whose pending write erases the lock or sets it, and those that may still guess.
Erasers == {a \in Attempts : attempt[a].stage = "lock" /\ attempt[a].count < MaxFailed}
Lockers == {a \in Attempts : attempt[a].stage = "lock" /\ attempt[a].count >= MaxFailed}
Guessers == {a \in Attempts : attempt[a].stage \in {"verify", "count"}}

\* How many may guess before the lock is in force: once it is, only those already
\* past the check.
Open == IF Locked THEN Cardinality(Guessers) ELSE N - Cardinality(Erasers) - Cardinality(Lockers)

\* Twice what may be guessed after each of e erasures: every one lets in all who
\* do not erase themselves.
Reopened(e) == 2 * (N * e) - e * (e - 1)

Counted == 2 * (guesses + Open) + Reopened(Cardinality(Erasers)) <= 2 * (MaxFailed - 1) + N * (N + 1)

LockoutInv ==
  /\ LockoutTypeOK
  /\ guesses \in Nat /\ guesses <= failedCount
  /\ \A a \in Attempts : attempt[a].stage \in {"count", "lock"} => attempt[a].at <= now
  /\ failedCount >= MaxFailed => Counted

LEMMA SquareIsEnough ==
  ASSUME NEW n \in Nat, NEW e \in Nat, e <= n
  PROVE  2 * (n - e) + (2 * (n * e) - e * (e - 1)) <= n * (n + 1)
<1>1. PICK k \in Nat : k = n - e
  OBVIOUS
<1>2. k * k >= k
  OBVIOUS
<1>3. n = e + k
  BY <1>1
<1>4. n * (n + 1) = e * e + 2 * (e * k) + k * k + e + k
  BY <1>3
<1>5. n * e = e * e + e * k /\ e * (e - 1) = e * e - e
  BY <1>3
<1>6. PICK ee \in Nat, ek \in Nat, kk \in Nat : ee = e * e /\ ek = e * k /\ kk = k * k
  OBVIOUS
<1> QED BY <1>1, <1>2, <1>4, <1>5, <1>6

\* The three sets are finite and disjoint.
LEMMA AttemptsPart ==
  ASSUME NEW E \in SUBSET Attempts, NEW L \in SUBSET Attempts, NEW G \in SUBSET Attempts,
         E \cap L = {}, E \cap G = {}, L \cap G = {}
  PROVE  /\ IsFiniteSet(E) /\ IsFiniteSet(L) /\ IsFiniteSet(G) /\ N \in Nat
         /\ Cardinality(E) \in Nat /\ Cardinality(L) \in Nat /\ Cardinality(G) \in Nat
         /\ Cardinality(E) + Cardinality(L) + Cardinality(G) <= N
<1>1. IsFiniteSet(E) /\ IsFiniteSet(L) /\ IsFiniteSet(G) /\ IsFiniteSet(Attempts)
  BY LockoutAssumption, FS_Subset
<1>2. N \in Nat /\ Cardinality(E) \in Nat /\ Cardinality(L) \in Nat /\ Cardinality(G) \in Nat
  BY <1>1, FS_CardinalityType DEF N
<1>3. PICK U : U = E \cup L
  OBVIOUS
<1>4. Cardinality(U) = Cardinality(E) + Cardinality(L) /\ IsFiniteSet(U) /\ U \cap G = {}
  BY <1>1, <1>2, <1>3, FS_Union, FS_EmptySet
<1>5. Cardinality(U \cup G) = Cardinality(U) + Cardinality(G)
  <2>1. Cardinality(U \cup G) = Cardinality(U) + Cardinality(G) - Cardinality(U \cap G)
    BY <1>1, <1>4, FS_Union
  <2>2. Cardinality(U \cap G) = 0
    BY <1>4, FS_EmptySet
  <2> QED BY <1>2, <1>4, <2>1, <2>2
<1>6. U \cup G \in SUBSET Attempts
  BY <1>3
<1>7. Cardinality(U \cup G) <= Cardinality(Attempts)
  BY <1>1, <1>6, FS_Subset
<1> QED BY <1>1, <1>2, <1>4, <1>5, <1>7 DEF N

LEMMA PartsNow ==
  ASSUME LockoutTypeOK
  PROVE  /\ IsFiniteSet(Erasers) /\ IsFiniteSet(Lockers) /\ IsFiniteSet(Guessers) /\ N \in Nat
         /\ Cardinality(Erasers) \in Nat /\ Cardinality(Lockers) \in Nat /\ Cardinality(Guessers) \in Nat
         /\ Cardinality(Erasers) + Cardinality(Lockers) + Cardinality(Guessers) <= N
<1>1. /\ Erasers \in SUBSET Attempts /\ Lockers \in SUBSET Attempts /\ Guessers \in SUBSET Attempts
      /\ Erasers \cap Guessers = {} /\ Lockers \cap Guessers = {}
  BY DEF Erasers, Lockers, Guessers
<1>2. Erasers \cap Lockers = {}
  <2> SUFFICES ASSUME NEW a \in Erasers, a \in Lockers PROVE FALSE
    OBVIOUS
  <2>1. attempt[a] \in Attempt /\ attempt[a].stage = "lock" /\ attempt[a].count < MaxFailed /\ attempt[a].count >= MaxFailed
    BY DEF Erasers, Lockers, LockoutTypeOK
  <2>2. attempt[a].count \in Nat
    BY <2>1 DEF Attempt
  <2> QED BY <2>1, <2>2, LockoutAssumption
<1> QED BY <1>1, <1>2, AttemptsPart

\* What is open is no more than the sign-ins that do not erase.
OpenInBounds ==
         /\ Open \in Nat /\ Cardinality(Guessers) <= Open
         /\ Open + Cardinality(Erasers) <= N
         /\ ~Locked => Open = N - Cardinality(Erasers) - Cardinality(Lockers)
         /\ Open + Cardinality(Erasers) + Cardinality(Lockers) <= N

LEMMA OpenBounded == LockoutTypeOK => OpenInBounds
BY PartsNow DEF Open, OpenInBounds

LEMMA OpenStaysBounded == LockoutTypeOK' => OpenInBounds'
BY OpenBounded, PTL

\* Before the bound is used up it has room for every erasure.
HasRoom == LockoutTypeOK /\ guesses \in Nat /\ guesses + Open + Cardinality(Erasers) <= MaxFailed - 1 + N

LEMMA RoomIsEnough == HasRoom => Counted
<1> SUFFICES ASSUME HasRoom PROVE Counted
  OBVIOUS
<1>1. PICK e \in Nat, n \in Nat : e = Cardinality(Erasers) /\ n = N /\ e <= n
  BY PartsNow DEF HasRoom
<1>2. 2 * (n - e) + (2 * (n * e) - e * (e - 1)) <= n * (n + 1)
  BY <1>1, SquareIsEnough
<1>3. PICK r \in Int, b \in Int : r = 2 * (n * e) - e * (e - 1) /\ b = n * (n + 1)
  BY <1>1
<1> QED BY <1>1, <1>2, <1>3, OpenBounded, LockoutAssumption DEF Counted, Reopened, OpenInBounds, HasRoom

LEMMA RoomStaysEnough == HasRoom' => Counted'
BY RoomIsEnough, PTL

\* One sign-in moves, the others stay.
LEMMA OneMoves ==
  ASSUME LockoutTypeOK, NEW a \in Attempts, NEW x, Becomes(a, x)
  PROVE  /\ attempt'[a] = x /\ \A b \in Attempts \ {a} : attempt'[b] = attempt[b]
         /\ x \in Attempt => attempt' \in [Attempts -> Attempt]
BY DEF LockoutTypeOK, Becomes

LEMMA AttemptShape ==
  ASSUME LockoutTypeOK, NEW a \in Attempts
  PROVE  /\ attempt[a].stage \in {"idle", "verify", "login", "count", "lock"}
         /\ attempt[a].stage = "count" => attempt[a].at \in Nat
         /\ attempt[a].stage = "lock" => attempt[a].at \in Nat /\ attempt[a].count \in Nat
BY DEF LockoutTypeOK, Attempt

\* Checking the lock and verifying a password let nobody in who was not counted.
LEMMA LookKeeps ==
  ASSUME LockoutInv, NEW a \in Attempts, CheckLock(a) \/ \E right \in BOOLEAN : Verify(a, right)
  PROVE  LockoutInv'
<1>0. LockoutTypeOK /\ UNCHANGED <<now, failedCount, lockedUntil, guesses>>
  BY DEF LockoutInv, CheckLock, Verify
<1>1. PICK x : /\ Becomes(a, x) /\ x \in Attempt /\ x.stage \in {"verify", "login", "count"}
               /\ x.stage = "count" => x.at = now
               /\ attempt[a].stage \in {"idle", "verify"}
               /\ Locked => attempt[a].stage = "verify"
  BY <1>0 DEF CheckLock, Verify, Attempt, LockoutTypeOK, NotTrying
<1>2. attempt'[a] = x /\ (\A b \in Attempts \ {a} : attempt'[b] = attempt[b]) /\ attempt' \in [Attempts -> Attempt]
  BY <1>0, <1>1, OneMoves
<1>3. LockoutTypeOK'
  BY <1>0, <1>2 DEF LockoutTypeOK
<1>4. Erasers' = Erasers /\ Lockers' = Lockers /\ (Locked => Guessers' \subseteq Guessers) /\ Locked' = Locked
  BY <1>0, <1>1, <1>2 DEF Erasers, Lockers, Guessers, Locked
<1>5. Open' <= Open /\ Open' \in Nat /\ Open \in Nat
  <2>1. Open \in Nat /\ Open' \in Nat
    BY <1>0, <1>3, OpenBounded, OpenStaysBounded DEF OpenInBounds
  <2>2. CASE Locked
    <3>1. Cardinality(Guessers') <= Cardinality(Guessers)
      BY <1>0, <1>4, <2>2, PartsNow, FS_Subset
    <3> QED BY <1>4, <2>1, <2>2, <3>1 DEF Open
  <2>3. CASE ~Locked
    BY <1>4, <2>1, <2>3 DEF Open
  <2> QED BY <2>1, <2>2, <2>3
<1>6. Counted => Counted'
  <2>1. PICK r : r = Reopened(Cardinality(Erasers))
    OBVIOUS
  <2>2. r \in Int /\ N * (N + 1) \in Int
    BY <1>0, <2>1, PartsNow DEF Reopened
  <2>3. Reopened(Cardinality(Erasers))' = r /\ N' = N
    BY <1>4, <2>1 DEF Reopened, N
  <2> QED BY <1>0, <1>5, <2>1, <2>2, <2>3, LockoutAssumption DEF Counted, LockoutInv
<1>7. \A b \in Attempts : attempt'[b].stage \in {"count", "lock"} => attempt'[b].at <= now'
  BY <1>0, <1>1, <1>2 DEF LockoutInv, LockoutTypeOK
<1> QED BY <1>0, <1>3, <1>6, <1>7 DEF LockoutInv

\* A counted guess uses up one that was open.
LEMMA CountKeeps ==
  ASSUME LockoutInv, NEW a \in Attempts, RecordFailedLogin(a)
  PROVE  LockoutInv'
<1>0. LockoutTypeOK /\ attempt[a].stage = "count" /\ attempt[a].at \in Nat /\ UNCHANGED <<now, lockedUntil>>
  BY AttemptShape DEF LockoutInv, RecordFailedLogin
<1>1. PICK x : x = [stage |-> "lock", at |-> attempt[a].at, count |-> failedCount']
  OBVIOUS
<1>2. /\ Becomes(a, x) /\ x \in Attempt /\ x.stage = "lock" /\ x.count = failedCount + 1 /\ x.at = attempt[a].at
      /\ failedCount' = failedCount + 1 /\ guesses' = guesses + 1 /\ failedCount \in Nat /\ guesses \in Nat
  BY <1>0, <1>1 DEF RecordFailedLogin, LockoutInv, LockoutTypeOK, Attempt
<1>3. attempt'[a] = x /\ (\A b \in Attempts \ {a} : attempt'[b] = attempt[b]) /\ attempt' \in [Attempts -> Attempt]
  BY <1>0, <1>2, OneMoves
<1>4. LockoutTypeOK' /\ \A b \in Attempts : attempt'[b].stage \in {"count", "lock"} => attempt'[b].at <= now'
  BY <1>0, <1>2, <1>3 DEF LockoutInv, LockoutTypeOK
<1>5. ASSUME failedCount' >= MaxFailed PROVE Counted'
  <2>1. /\ Erasers' = Erasers /\ Lockers' = Lockers \cup {a} /\ a \notin Lockers
        /\ Guessers' = Guessers \ {a} /\ a \in Guessers /\ Locked' = Locked
    BY <1>0, <1>2, <1>3, <1>5, LockoutAssumption DEF Erasers, Lockers, Guessers, Locked
  <2>2. Cardinality(Lockers') = Cardinality(Lockers) + 1 /\ Cardinality(Guessers') = Cardinality(Guessers) - 1
    BY <1>0, <2>1, PartsNow, FS_AddElement, FS_RemoveElement
  <2>3. Open' = Open - 1
    BY <1>0, <2>1, <2>2, PartsNow DEF Open, N
  <2>4. N' = N /\ Reopened(Cardinality(Erasers))' = Reopened(Cardinality(Erasers))
    BY <2>1 DEF Reopened, N
  <2>5. CASE failedCount >= MaxFailed
    <3>1. Reopened(Cardinality(Erasers)) \in Int /\ N * (N + 1) \in Int /\ Open \in Int
      BY <1>0, PartsNow, OpenBounded DEF Reopened, OpenInBounds
    <3> QED BY <1>2, <2>3, <2>4, <2>5, <3>1, LockoutAssumption DEF Counted, LockoutInv
  <2>6. CASE failedCount < MaxFailed
    <3>1. guesses' <= MaxFailed
      BY <1>2, <2>6, LockoutAssumption DEF LockoutInv
    <3>2. Open' + Cardinality(Erasers') + Cardinality(Lockers') <= N' /\ Cardinality(Lockers') >= 1
      BY <1>0, <1>4, <2>2, OpenStaysBounded, PartsNow DEF OpenInBounds
    <3>3. HasRoom'
      BY <1>0, <1>2, <1>4, <2>1, <2>2, <2>3, <2>4, <3>1, <3>2, PartsNow, OpenBounded, LockoutAssumption
         DEF HasRoom, OpenInBounds
    <3> QED BY <3>3, RoomStaysEnough
  <2> QED BY <1>2, <2>5, <2>6, LockoutAssumption
<1>6. guesses' \in Nat /\ guesses' <= failedCount'
  BY <1>2 DEF LockoutInv
<1> QED BY <1>4, <1>5, <1>6 DEF LockoutInv

\* A write below the threshold lets the others in once more, a write above it
\* shuts them out or has already lapsed.
LEMMA WriteKeeps ==
  ASSUME LockoutInv, NEW a \in Attempts, SetLockedUntil(a)
  PROVE  LockoutInv'
<1>0. /\ LockoutTypeOK /\ attempt[a].stage = "lock" /\ attempt[a].at \in Nat /\ attempt[a].count \in Nat
      /\ attempt[a].at <= now /\ UNCHANGED <<now, failedCount>> /\ Becomes(a, NotTrying)
  BY AttemptShape DEF LockoutInv, SetLockedUntil
<1>1. /\ attempt'[a] = NotTrying /\ (\A b \in Attempts \ {a} : attempt'[b] = attempt[b])
      /\ attempt' \in [Attempts -> Attempt] /\ NotTrying.stage = "idle"
  BY <1>0, OneMoves DEF NotTrying, Attempt
<1>2. /\ lockedUntil' = IF attempt[a].count < MaxFailed THEN Null ELSE attempt[a].at + LockTicks
      /\ guesses' = IF lockedUntil' # Null /\ lockedUntil' <= now THEN 0 ELSE guesses
  BY DEF SetLockedUntil, LockoutPolicy
<1>3. lockedUntil' \in 0..LastInstant + LockTicks \cup {Null} /\ now \in 0..LastInstant
  BY <1>0, <1>2, LockoutAssumption DEF LockoutTypeOK
<1>4. LockoutTypeOK' /\ \A b \in Attempts : attempt'[b].stage \in {"count", "lock"} => attempt'[b].at <= now'
  BY <1>0, <1>1, <1>3 DEF LockoutInv, LockoutTypeOK
<1>5. guesses' \in Nat /\ guesses' <= failedCount' /\ failedCount \in Nat /\ guesses \in Nat
  BY <1>0, <1>2 DEF LockoutInv, LockoutTypeOK
<1>6. ASSUME failedCount >= MaxFailed PROVE Counted'
  <2>0. Counted /\ N' = N
    BY <1>6 DEF LockoutInv, N
  <2>1. Guessers' = Guessers
    BY <1>0, <1>1 DEF Guessers
  <2>2. CASE attempt[a].count < MaxFailed
    <3>1. Erasers' = Erasers \ {a} /\ a \in Erasers /\ Lockers' = Lockers /\ ~Locked' /\ guesses' = guesses
      BY <1>0, <1>1, <1>2, <2>2, LockoutAssumption DEF Erasers, Lockers, Locked, NotTrying
    <3>2. PICK e \in Nat, l \in Nat, n \in Nat, o \in Nat :
            /\ e = Cardinality(Erasers) /\ l = Cardinality(Lockers) /\ n = N /\ o = Open
      BY <1>0, PartsNow, OpenBounded DEF OpenInBounds
    <3>3. Cardinality(Erasers') = e - 1 /\ e >= 1
      <4>1. IsFiniteSet(Erasers) /\ Erasers # {}
        BY <1>0, <3>1, PartsNow
      <4>2. Cardinality(Erasers \ {a}) = Cardinality(Erasers) - 1
        BY <3>1, <4>1, FS_RemoveElement
      <4>3. Cardinality(Erasers) # 0
        BY <4>1, FS_EmptySet
      <4> QED BY <3>1, <3>2, <4>2, <4>3
    <3>4. Open' = n - (e - 1) - l
      BY <2>0, <3>1, <3>2, <3>3 DEF Open
    <3>5. 2 * (guesses + o) + (2 * (n * e) - e * (e - 1)) <= 2 * (MaxFailed - 1) + n * (n + 1)
      BY <2>0, <3>2 DEF Counted, Reopened
    <3>6. 2 * (n * (e - 1)) - (e - 1) * ((e - 1) - 1) = (2 * (n * e) - e * (e - 1)) - 2 * n + 2 * (e - 1)
      OBVIOUS
    <3>7. PICK r, b, q :
            /\ r = 2 * (n * e) - e * (e - 1) /\ b = n * (n + 1) /\ q = 2 * (n * (e - 1)) - (e - 1) * ((e - 1) - 1)
            /\ r \in Int /\ b \in Int /\ q \in Int
      <4>1. n * e \in Int /\ e * (e - 1) \in Int /\ n * (n + 1) \in Int
        OBVIOUS
      <4>2. n * (e - 1) \in Int /\ (e - 1) * ((e - 1) - 1) \in Int
        BY <3>2, <3>3
      <4> QED BY <4>1, <4>2
    <3>8. 2 * (guesses + (n - (e - 1) - l)) + q <= 2 * (MaxFailed - 1) + b
      BY <1>5, <3>5, <3>6, <3>7, LockoutAssumption
    <3> QED BY <2>0, <3>1, <3>2, <3>3, <3>4, <3>7, <3>8 DEF Counted, Reopened
  <2>3. CASE attempt[a].count >= MaxFailed
    <3>1. Erasers' = Erasers /\ lockedUntil' = attempt[a].at + LockTicks /\ lockedUntil' # Null
      BY <1>0, <1>1, <1>2, <2>3, LockoutAssumption DEF Erasers, Null
    <3>2. CASE lockedUntil' <= now
      <4>1. HasRoom'
        BY <1>2, <1>4, <3>1, <3>2, OpenStaysBounded, LockoutAssumption, <1>0, PartsNow, <2>0
           DEF HasRoom, OpenInBounds
      <4> QED BY <4>1, RoomStaysEnough
    <3>3. CASE ~(lockedUntil' <= now)
      <4>1. guesses' = guesses /\ Locked'
        BY <1>0, <1>2, <1>3, <3>1, <3>3 DEF Locked, Null
      <4>2. Open' <= Open /\ Open \in Nat /\ Open' \in Nat
        BY <1>0, <2>1, <4>1, OpenBounded, PartsNow DEF Open, OpenInBounds
      <4>3. Reopened(Cardinality(Erasers))' = Reopened(Cardinality(Erasers))
        BY <3>1, <2>0 DEF Reopened
      <4>4. Reopened(Cardinality(Erasers)) \in Int /\ N * (N + 1) \in Int
        BY <1>0, PartsNow DEF Reopened
      <4> QED BY <1>5, <2>0, <4>1, <4>2, <4>3, <4>4, LockoutAssumption DEF Counted
    <3> QED BY <3>2, <3>3
  <2> QED BY <1>0, <2>2, <2>3, LockoutAssumption
<1> QED BY <1>0, <1>4, <1>5, <1>6 DEF LockoutInv

\* A success forgets everything.
LEMMA LoginKeeps ==
  ASSUME LockoutInv, NEW a \in Attempts, RecordLogin(a)
  PROVE  LockoutInv'
<1>1. /\ LockoutTypeOK /\ failedCount' = 0 /\ lockedUntil' = Null /\ guesses' = 0 /\ UNCHANGED now
      /\ Becomes(a, NotTrying)
  BY DEF LockoutInv, RecordLogin
<1>2. /\ attempt'[a] = NotTrying /\ (\A b \in Attempts \ {a} : attempt'[b] = attempt[b])
      /\ attempt' \in [Attempts -> Attempt] /\ NotTrying.stage = "idle"
  BY <1>1, OneMoves DEF NotTrying, Attempt
<1>3. LockoutTypeOK' /\ \A b \in Attempts : attempt'[b].stage \in {"count", "lock"} => attempt'[b].at <= now'
  BY <1>1, <1>2 DEF LockoutInv, LockoutTypeOK
<1>4. guesses' \in Nat /\ guesses' <= failedCount'
  BY <1>1
<1>5. failedCount' >= MaxFailed => Counted'
  BY <1>1, LockoutAssumption
<1> QED BY <1>3, <1>4, <1>5 DEF LockoutInv

\* Time passes: a lock stays in force, or it lapses and the count starts afresh.
LEMMA TimeKeeps ==
  ASSUME LockoutInv, PassTime \/ UNCHANGED lockoutVars
  PROVE  LockoutInv'
<1>1. /\ LockoutTypeOK /\ UNCHANGED <<failedCount, lockedUntil, attempt>> /\ now \in 0..LastInstant
      /\ now' \in 0..LastInstant /\ now <= now' /\ now' <= now + 1 /\ guesses' \in {0, guesses} /\ guesses \in Nat
      /\ lockedUntil \in 0..LastInstant + LockTicks \cup {Null}
  BY LockoutAssumption DEF LockoutInv, LockoutTypeOK, PassTime, lockoutVars
<1>2. LockoutTypeOK' /\ \A b \in Attempts : attempt'[b].stage \in {"count", "lock"} => attempt'[b].at <= now'
  <2>1. \A b \in Attempts : attempt[b].stage \in {"count", "lock"} => attempt[b].at \in Nat
    BY <1>1, AttemptShape
  <2> QED BY <1>1, <2>1 DEF LockoutInv, LockoutTypeOK
<1>3. ASSUME failedCount >= MaxFailed PROVE Counted'
  <2>1. Counted /\ Erasers' = Erasers /\ Lockers' = Lockers /\ Guessers' = Guessers /\ N' = N
    BY <1>1, <1>3 DEF LockoutInv, Erasers, Lockers, Guessers, N
  <2>2. CASE guesses' = 0
    <3>1. HasRoom'
      BY <1>1, <1>2, <2>1, <2>2, OpenStaysBounded, LockoutAssumption, PartsNow DEF HasRoom, OpenInBounds
    <3> QED BY <3>1, RoomStaysEnough
  <2>3. CASE guesses' # 0
    <3>1. guesses' = guesses /\ Locked' = Locked
      BY <1>1, <2>3, LockoutAssumption DEF PassTime, lockoutVars, Locked, Null
    <3>2. Open' = Open /\ Reopened(Cardinality(Erasers))' = Reopened(Cardinality(Erasers))
      BY <2>1, <3>1 DEF Open, Reopened
    <3> QED BY <2>1, <3>1, <3>2 DEF Counted
  <2> QED BY <2>2, <2>3
<1>4. guesses' \in Nat /\ guesses' <= failedCount' /\ (failedCount' >= MaxFailed => Counted')
  <2>1. failedCount \in Nat /\ failedCount' = failedCount /\ guesses \in Nat /\ guesses <= failedCount
    BY <1>1 DEF LockoutInv, LockoutTypeOK
  <2> QED BY <1>1, <1>3, <2>1
<1> QED BY <1>2, <1>4 DEF LockoutInv

\* However many sign-ins of an account overlap, between a success (or the lapse
\* of a lock) and the lock in force no more wrong passwords are looked at than
\* one short of the threshold and what the sign-ins in flight can still erase.
THEOREM LockHolds == LockoutSpec => []LockIsWorthIt
<1>1. LockoutInit => LockoutInv
  BY LockoutAssumption DEF LockoutInit, LockoutInv, LockoutTypeOK, Attempt, NotTrying
<1>2. LockoutInv /\ [LockoutNext]_lockoutVars => LockoutInv'
  BY LookKeeps, CountKeeps, WriteKeeps, LoginKeeps, TimeKeeps DEF LockoutNext
<1>3. LockoutInv => LockIsWorthIt
  <2> SUFFICES ASSUME LockoutInv PROVE GuessesBounded
    BY DEF LockoutInv, LockIsWorthIt
  <2>1. guesses \in Nat /\ guesses <= failedCount /\ failedCount \in Nat /\ N \in Nat
    BY PartsNow DEF LockoutInv, LockoutTypeOK
  <2>2. PICK b \in Nat : b = N * (N + 1)
    BY <2>1
  <2>3. 2 * guesses <= 2 * (MaxFailed - 1) + b
    <3>1. CASE failedCount < MaxFailed
      BY <2>1, <3>1, LockoutAssumption
    <3>2. CASE failedCount >= MaxFailed
      <4>1. Reopened(Cardinality(Erasers)) >= 0 /\ Reopened(Cardinality(Erasers)) \in Int
        <5>1. PICK e \in Nat, n \in Nat : e = Cardinality(Erasers) /\ n = N /\ e <= n
          BY PartsNow DEF LockoutInv
        <5>2. n * e >= e * e /\ n * e \in Nat /\ e * (e - 1) = e * e - e
          BY <5>1
        <5> QED BY <5>1, <5>2 DEF Reopened
      <4> QED BY <2>1, <2>2, <3>2, <4>1, OpenBounded, LockoutAssumption DEF LockoutInv, Counted, OpenInBounds
    <3> QED BY <2>1, <3>1, <3>2, LockoutAssumption
  <2> QED BY <2>1, <2>2, <2>3, LockoutAssumption DEF GuessesBounded, MostGuesses
<1> QED BY <1>1, <1>2, <1>3, PTL DEF LockoutSpec
=============================================================================
