------------------------------ MODULE CaptureDesk ------------------------------
(***************************************************************************)
(* The worklists a reviewer empties: manual-capture tasks, which become    *)
(* candidates, and field proposals, which become aliases of the condition  *)
(* vocabulary.  Each call of the panel is a sequence of separate database  *)
(* calls; another reviewer works between any two of them, and a failing    *)
(* call or a dying process leaves what was written.                        *)
(***************************************************************************)
EXTENDS Integers, FiniteSets

CONSTANTS
  Tasks,          \* manual-capture tasks, the ad-hoc ones included
  Suggested,      \* keys the extractor has proposed
  Canonical,      \* keys of the condition vocabulary
  Reviewers,      \* calls in progress at once
  MaxCandidates   \* bounds what the calls may mint

ASSUME CandidatesAssumption == MaxCandidates \in Nat

VARIABLES
  tasks,        \* by task: NoTask, "open", "done"
  adHoc,        \* the tasks made for a capture with no page behind it
  bundles,      \* evidence rows, by candidate number
  audited,      \* review rows, by candidate number
  candidates,   \* the deals that were minted: [number, task]
  minted,       \* numbers given out
  proposals,    \* by suggested key: NoProposal, "open", "promoted"
  aliases,      \* by canonical key: its aliases
  calls,        \* by reviewer: the call in progress, or Quiet
  contended     \* history: suggested keys promoted while another call read the same entry

captureVars == <<tasks, adHoc, bundles, audited, candidates, minted, proposals, aliases, calls, contended>>

NoTask == "absent"
NoProposal == "absent"
Quiet == [step |-> "quiet"]

CaptureInit ==
  /\ tasks = [t \in Tasks |-> NoTask] /\ adHoc = {}
  /\ bundles = {} /\ audited = {} /\ candidates = {} /\ minted = 0
  /\ proposals = [k \in Suggested |-> NoProposal]
  /\ aliases = [c \in Canonical |-> {}]
  /\ calls = [r \in Reviewers |-> Quiet]
  /\ contended = {}

deskVars == <<tasks, adHoc, bundles, audited, candidates, minted>>
vocabularyVars == <<proposals, aliases, contended>>

-----------------------------------------------------------------------------
(* What the pipeline queues.                                                *)

\* A wall met by a crawl, a monitoring or a discovery.
RouteToManualCapture(t) ==
  /\ tasks[t] = NoTask
  /\ tasks' = [tasks EXCEPT ![t] = "open"]
  /\ UNCHANGED <<adHoc, bundles, audited, candidates, minted, calls, vocabularyVars>>

\* A condition that fits no key; a promoted proposal stays promoted.
ProposeField(k) ==
  /\ proposals[k] = NoProposal
  /\ proposals' = [proposals EXCEPT ![k] = "open"]
  /\ UNCHANGED <<deskVars, aliases, contended, calls>>

-----------------------------------------------------------------------------
(* Manual captures.                                                         *)

Call(r, c) == calls' = [calls EXCEPT ![r] = c]
At(r, step) == calls[r].step = step
Goto(r, step) == Call(r, [calls[r] EXCEPT !.step = step])

\* A task that is not open is refused with a conflict.
OpenTask(t) == tasks[t] = "open"

\* Mutant: the number of the previous candidate is used again.
CompleteAsBefore(r, t) ==
  /\ At(r, "quiet") /\ OpenTask(t)
  /\ minted < MaxCandidates
  /\ Call(r, [step |-> "evidence", task |-> t, number |-> minted, closes |-> TRUE])
  /\ minted' = minted + 1
  /\ UNCHANGED <<tasks, adHoc, bundles, audited, candidates, vocabularyVars>>

\* completeManualCapture reads the task, then checks the bundle and the fields.
BeginComplete(r, t) ==
  /\ At(r, "quiet") /\ OpenTask(t)
  /\ minted < MaxCandidates
  /\ Call(r, [step |-> "evidence", task |-> t, number |-> minted + 1, closes |-> TRUE])
  /\ minted' = minted + 1
  /\ UNCHANGED <<tasks, adHoc, bundles, audited, candidates, vocabularyVars>>

\* createManualCapture inserts its task as done before it has seen the input.
BeginAdHoc(r, t) ==
  /\ At(r, "quiet") /\ tasks[t] = NoTask
  /\ minted < MaxCandidates
  /\ tasks' = [tasks EXCEPT ![t] = "done"]
  /\ adHoc' = adHoc \cup {t}
  /\ Call(r, [step |-> "evidence", task |-> t, number |-> minted + 1, closes |-> FALSE])
  /\ minted' = minted + 1
  /\ UNCHANGED <<bundles, audited, candidates, vocabularyVars>>

\* Mutant: the bundle step closes the task as well.
SaveBundleAndClose(r) ==
  /\ At(r, "evidence")
  /\ bundles' = bundles \cup {calls[r].number}
  /\ tasks' = [tasks EXCEPT ![calls[r].task] = "done"]
  /\ Goto(r, "audit")
  /\ UNCHANGED <<adHoc, audited, candidates, minted, vocabularyVars>>

SaveBundle(r) ==
  /\ At(r, "evidence")
  /\ bundles' = bundles \cup {calls[r].number}
  /\ Goto(r, "audit")
  /\ UNCHANGED <<tasks, adHoc, audited, candidates, minted, vocabularyVars>>

\* Mutant: the deal is inserted where the audit row should be.
AuditLast(r) ==
  /\ At(r, "audit")
  /\ candidates' = candidates \cup {[number |-> calls[r].number, task |-> calls[r].task]}
  /\ Goto(r, "insert")
  /\ UNCHANGED <<tasks, adHoc, bundles, audited, minted, vocabularyVars>>

\* Logged before it is done.
AuditCapture(r) ==
  /\ At(r, "audit")
  /\ audited' = audited \cup {calls[r].number}
  /\ Goto(r, "insert")
  /\ UNCHANGED <<tasks, adHoc, bundles, candidates, minted, vocabularyVars>>

InsertCandidate(r) ==
  /\ At(r, "insert")
  /\ candidates' = candidates \cup {[number |-> calls[r].number, task |-> calls[r].task]}
  /\ IF calls[r].closes THEN Goto(r, "close") ELSE Call(r, Quiet)
  /\ UNCHANGED <<tasks, adHoc, bundles, audited, minted, vocabularyVars>>

CloseTask(r) ==
  /\ At(r, "close")
  /\ tasks' = [tasks EXCEPT ![calls[r].task] = "done"]
  /\ Call(r, Quiet)
  /\ UNCHANGED <<adHoc, bundles, audited, candidates, minted, vocabularyVars>>

-----------------------------------------------------------------------------
(* Promotion of a proposal.                                                 *)

\* getByKey twice: the proposal must be known, promoted already or not.
BeginPromotion(r, k, c) ==
  /\ At(r, "quiet") /\ proposals[k] # NoProposal
  /\ Call(r, [step |-> "upsert", key |-> k, canonical |-> c, read |-> aliases[c]])
  /\ UNCHANGED <<deskVars, vocabularyVars>>

\* Mutant: the entry is written with the new alias alone.
UpsertAlone(r) ==
  /\ At(r, "upsert")
  /\ aliases' = [aliases EXCEPT ![calls[r].canonical] = {calls[r].key}]
  /\ Goto(r, "mark")
  /\ contended' = contended
  /\ UNCHANGED <<deskVars, proposals>>

\* Whoever read this entry before now will write it without this alias.
SameEntry(r) == {s \in Reviewers \ {r} : At(s, "upsert") /\ calls[s].canonical = calls[r].canonical}

UpsertEntry(r) ==
  /\ At(r, "upsert")
  /\ aliases' = [aliases EXCEPT ![calls[r].canonical] = calls[r].read \cup {calls[r].key}]
  /\ Goto(r, "mark")
  /\ contended' = IF SameEntry(r) = {} THEN contended ELSE contended \cup aliases'[calls[r].canonical]
  /\ UNCHANGED <<deskVars, proposals>>

MarkProposal(r) ==
  /\ At(r, "mark")
  /\ proposals' = [proposals EXCEPT ![calls[r].key] = "promoted"]
  /\ Call(r, Quiet)
  /\ UNCHANGED <<deskVars, aliases, contended>>

\* A check refuses, a database call throws or the process dies: what is written stays.
Abandon(r) ==
  /\ ~At(r, "quiet")
  /\ Call(r, Quiet)
  /\ UNCHANGED <<deskVars, vocabularyVars>>

CaptureNext ==
  \/ \E t \in Tasks : RouteToManualCapture(t)
  \/ \E k \in Suggested : ProposeField(k)
  \/ \E r \in Reviewers :
       \/ \E t \in Tasks : BeginComplete(r, t) \/ BeginAdHoc(r, t)
       \/ SaveBundle(r) \/ AuditCapture(r) \/ InsertCandidate(r) \/ CloseTask(r)
       \/ \E k \in Suggested, c \in Canonical : BeginPromotion(r, k, c)
       \/ UpsertEntry(r) \/ MarkProposal(r) \/ Abandon(r)

CaptureSpec == CaptureInit /\ [][CaptureNext]_captureVars

-----------------------------------------------------------------------------
Numbers == 1..MaxCandidates

CaptureCalls ==
  {Quiet}
  \cup [step: {"evidence", "audit", "insert", "close"}, task: Tasks, number: Numbers, closes: BOOLEAN]
  \cup [step: {"upsert", "mark"}, key: Suggested, canonical: Canonical, read: SUBSET Suggested]

\* Every row and every call of the desk has its shape.
CaptureTypeOK ==
  /\ tasks \in [Tasks -> {NoTask, "open", "done"}]
  /\ adHoc \subseteq Tasks
  /\ bundles \subseteq Numbers /\ audited \subseteq Numbers
  /\ candidates \subseteq [number: Numbers, task: Tasks]
  /\ minted \in 0..MaxCandidates
  /\ proposals \in [Suggested -> {NoProposal, "open", "promoted"}]
  /\ aliases \in [Canonical -> SUBSET Suggested]
  /\ calls \in [Reviewers -> CaptureCalls]
  /\ contended \subseteq Suggested

\* A page that could not be read is not lost: a task that is done, whoever died
\* on the way, has a candidate, unless it was ad hoc (whose task is written done
\* before the input is checked and stays when it is refused).
DoneTaskYielded ==
  \A t \in Tasks : tasks[t] = "done" /\ t \notin adHoc => \E d \in candidates : d.task = t

\* Whatever is inserted in the queue by hand has its capture and its audit row.
CaptureIsBacked == \A d \in candidates : d.number \in bundles /\ d.number \in audited

\* A proposal that left the open list is an alias of some key, so the conditions
\* filed under it map from now on; it can be lost again only to a promotion that
\* had read the same entry before the alias was written.
PromotedIsMapped ==
  \A k \in Suggested : proposals[k] = "promoted" => (\E c \in Canonical : k \in aliases[c]) \/ k \in contended

\* No work of a reviewer is half done for ever: a task that is closed has its
\* candidate, a candidate its capture and its audit row, a promoted key its
\* alias, whoever else was at work and wherever a call died (review.ts:300-502).
WorkIsComplete == CaptureTypeOK /\ DoneTaskYielded /\ CaptureIsBacked /\ PromotedIsMapped
=============================================================================
