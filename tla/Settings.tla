------------------------------- MODULE Settings -------------------------------
(***************************************************************************)
(* The daily budget a person queues for the next deployment.  Every        *)
(* process that does real work (the server and each command) consumes the  *)
(* queue when it starts: it reads the row, deletes it and adopts its value *)
(* for its own life, in separate awaits; processes of one or of two        *)
(* deployments start and die next to each other.                           *)
(***************************************************************************)
EXTENDS Integers, FiniteSets

CONSTANTS
  Processes,        \* processes alive at once
  MaxQueued,        \* bounds how many values are queued
  LastDeployment    \* bounds the deployments

ASSUME SettingsAssumption == MaxQueued \in Nat /\ LastDeployment \in Nat \ {0}

VARIABLES
  deployment,   \* the deployment whose processes start now
  queue,        \* the settings row: NoQueue, or its serial number, stamp and soundness
  numbered,       \* serial numbers given to queued values
  process,      \* by process: Down, or its deployment, its step and its budget
  adopted,      \* history: serials some process took as its budget
  dropped,      \* history: serials a person cleared or replaced, or that were corrupt
  swept,        \* history: serials deleted by a process that had read an earlier row
  orphaned,     \* history: serials whose consumer died before it adopted them
  ownAge        \* history: was a value adopted by a process of its own deployment?

settingsVars == <<deployment, queue, numbered, process, adopted, dropped, swept, orphaned, ownAge>>

NoQueue == [serial |-> 0]
Down == [step |-> "down"]
FromConfig == 0      \* the budget of the configuration

SettingsInit ==
  /\ deployment = 1 /\ queue = NoQueue /\ numbered = 0
  /\ process = [p \in Processes |-> Down]
  /\ adopted = {} /\ dropped = {} /\ swept = {} /\ orphaned = {}
  /\ ownAge = FALSE

Up(p) == process[p].step = "up"
Step(p, x) == process' = [process EXCEPT ![p] = x]
Pending == {queue.serial} \ {0}

-----------------------------------------------------------------------------
(* The panel, served by a running process, which stamps its own deployment. *)

QueueBudget(p, sound) ==
  /\ Up(p) /\ numbered < MaxQueued
  /\ numbered' = numbered + 1
  /\ queue' = [serial |-> numbered', stamp |-> process[p].of, sound |-> sound]
  /\ dropped' = dropped \cup Pending
  /\ UNCHANGED <<deployment, process, adopted, swept, orphaned, ownAge>>

ClearQueue(p) ==
  /\ Up(p)
  /\ queue' = NoQueue
  /\ dropped' = dropped \cup Pending
  /\ UNCHANGED <<deployment, numbered, process, adopted, swept, orphaned, ownAge>>

-----------------------------------------------------------------------------
(* The life of a process.                                                   *)

Deploy ==
  /\ deployment < LastDeployment
  /\ deployment' = deployment + 1
  /\ UNCHANGED <<queue, numbered, process, adopted, dropped, swept, orphaned, ownAge>>

Start(p) ==
  /\ process[p] = Down
  /\ Step(p, [step |-> "get", of |-> deployment])
  /\ UNCHANGED <<deployment, queue, numbered, adopted, dropped, swept, orphaned, ownAge>>

\* Mutant: whatever is queued is consumed.
ForThisProcessAny(row, p) == row # NoQueue

\* A row of the process's own deployment waits for the next one.
ForThisProcess(row, p) == row # NoQueue /\ row.stamp # process[p].of

ReadQueue(p) ==
  /\ process[p].step = "get"
  /\ Step(p, IF ForThisProcess(queue, p)
             THEN [step |-> "delete", of |-> process[p].of, row |-> queue]
             ELSE [step |-> "up", of |-> process[p].of, budget |-> FromConfig])
  /\ UNCHANGED <<deployment, queue, numbered, adopted, dropped, swept, orphaned, ownAge>>

\* Mutant: the row is deleted and the budget of the configuration kept.
AdoptNothing(p) ==
  /\ process[p].step = "adopt"
  /\ Step(p, [step |-> "up", of |-> process[p].of, budget |-> FromConfig])
  /\ UNCHANGED <<deployment, queue, numbered, adopted, dropped, swept, orphaned, ownAge>>

\* Mutant: the value is not looked at.
DeleteUnparsed(p) ==
  LET read == process[p].row IN
  /\ process[p].step = "delete"
  /\ queue' = NoQueue
  /\ swept' = swept \cup (Pending \ {read.serial})
  /\ dropped' = dropped
  /\ Step(p, [process[p] EXCEPT !.step = "adopt"])
  /\ UNCHANGED <<deployment, numbered, adopted, orphaned, ownAge>>

\* The row that is there now goes, which need not be the one that was read;
\* a value that is no number is deleted and ignored.
DeleteQueue(p) ==
  LET read == process[p].row IN
  /\ process[p].step = "delete"
  /\ queue' = NoQueue
  /\ swept' = swept \cup (Pending \ {read.serial})
  /\ dropped' = IF read.sound THEN dropped ELSE dropped \cup {read.serial}
  /\ Step(p, IF read.sound THEN [process[p] EXCEPT !.step = "adopt"]
             ELSE [step |-> "up", of |-> process[p].of, budget |-> FromConfig])
  /\ UNCHANGED <<deployment, numbered, adopted, orphaned, ownAge>>

\* The effective budget, and the ceiling of the guard, for the life of this process.
Adopt(p) ==
  LET read == process[p].row IN
  /\ process[p].step = "adopt"
  /\ Step(p, [step |-> "up", of |-> process[p].of, budget |-> read.serial])
  /\ adopted' = adopted \cup {read.serial}
  /\ ownAge' = (ownAge \/ read.stamp = process[p].of)
  /\ UNCHANGED <<deployment, queue, numbered, dropped, swept, orphaned>>

\* A command ends, or a process dies between two awaits.
Exit(p) ==
  /\ process[p] # Down
  /\ Step(p, Down)
  /\ orphaned' = IF process[p].step = "adopt" THEN orphaned \cup {process[p].row.serial} ELSE orphaned
  /\ UNCHANGED <<deployment, queue, numbered, adopted, dropped, swept, ownAge>>

SettingsNext ==
  \/ Deploy
  \/ \E p \in Processes : \/ Start(p) \/ ReadQueue(p) \/ DeleteQueue(p) \/ Adopt(p) \/ Exit(p) \/ ClearQueue(p)
                          \/ \E sound \in BOOLEAN : QueueBudget(p, sound)

SettingsSpec == SettingsInit /\ [][SettingsNext]_settingsVars

-----------------------------------------------------------------------------
Serials == 1..MaxQueued
Deployments == 1..LastDeployment
QueueRow == [serial: Serials, stamp: Deployments, sound: BOOLEAN]

\* The row, the processes and their budgets have their types; a budget in force
\* is the configuration's or one that was sound.
SettingsTypeOK ==
  /\ deployment \in Deployments /\ numbered \in 0..MaxQueued
  /\ queue \in QueueRow \cup {NoQueue}
  /\ process \in [Processes -> {Down} \cup [step: {"get"}, of: Deployments]
       \cup [step: {"delete", "adopt"}, of: Deployments, row: QueueRow]
       \cup [step: {"up"}, of: Deployments, budget: Serials \cup {FromConfig}]]
  /\ \A p \in Processes : process[p].step = "adopt" => process[p].row.sound
  /\ adopted \cup dropped \cup swept \cup orphaned \subseteq Serials
  /\ ownAge \in BOOLEAN

\* A queued budget comes into force only in a deployment other than the one that
\* queued it, in whatever order processes of both start.
NextDeploymentOnly == ~ownAge

\* Every queued budget has a fate: it waits, a process adopts it (any that reads the
\* row before the first of them deletes it; those that start later keep the
\* configuration's), a person drops it, or it is lost in one of two windows: replaced
\* between the read and the delete of a start, or deleted by a process that dies
\* before it adopts.
QueuedHasFate ==
  \A n \in 1..numbered :
    \/ n \in Pending \cup adopted \cup dropped \cup swept \cup orphaned
    \/ \E p \in Processes : process[p].step = "adopt" /\ process[p].row.serial = n

\* A budget a person queued comes into force only in another deployment than his own,
\* in one process or in several, or its loss can be named (settings.ts:107-149).
QueuedBudgetKept == SettingsTypeOK /\ NextDeploymentOnly /\ QueuedHasFate
=============================================================================
