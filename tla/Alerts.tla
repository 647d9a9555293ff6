-------------------------------- MODULE Alerts --------------------------------
(***************************************************************************)
(* Alerts: raised by the crawl before the source's row is updated,         *)
(* persisted with one open row per key and sent on, both at best effort,   *)
(* handled by a person, and resolved for the view when their cause is      *)
(* gone.  The view reads the alerts and then the sources, one status at a  *)
(* time, while the pipeline and the reviewers go on.                       *)
(***************************************************************************)
EXTENDS Integers, FiniteSets, Sequences

CONSTANTS
  Sources,
  Statuses,      \* the statuses of a source, in the order the view reads them
  LastDay,       \* bounds the days
  MaxAlerts,     \* bounds the rows
  PageSize       \* rows in a listing, at most 500

ASSUME AlertsAssumption ==
  /\ LastDay \in Nat \ {0} /\ MaxAlerts \in Nat /\ PageSize \in Nat \ {0}
  /\ Statuses \in Seq(STRING)
  /\ \A s \in Sources : s \notin 1..LastDay   \* keys of sources and of days differ

VARIABLES
  day,
  low,           \* the sources whose stored reliability is below the threshold
  status,        \* by source
  flagging,      \* sources whose crawl has raised its alert and not updated its row
  alerts,        \* alert rows: [id, key, status], ids in the order of creation
  raised,        \* history: keys persisted since a person last handled their open row
  view,          \* the listing in progress: NoListing, or the open keys and the sources read so far
  shown,         \* the last listing: the keys it showed open
  steady         \* history: open keys on the page whose cause has lasted since the listing began

alertVars == <<day, low, status, flagging, alerts, raised, view, shown, steady>>

NoListing == [reading |-> 0]
Keys == Sources \cup (1..LastDay)     \* a source, or the UTC day of a budget alert
StatusSet == {Statuses[i] : i \in DOMAIN Statuses}

AlertsInit ==
  /\ day = 1 /\ low = {} /\ flagging = {}
  /\ status \in [Sources -> StatusSet]
  /\ alerts = {} /\ raised = {}
  /\ view = NoListing /\ shown = {} /\ steady = {}

-----------------------------------------------------------------------------
(* Raising.                                                                 *)

OpenRow(key) == {r \in alerts : r.key = key /\ r.status = "open"}
NewAlert(key) == [id |-> Cardinality(alerts) + 1, key |-> key, status |-> "open"]

\* Mutant: a repeat refreshes the row of its key, whatever became of that.
UpsertAny(key) == IF \E r \in alerts : r.key = key THEN alerts ELSE alerts \cup {NewAlert(key)}

\* Mutant: every alert is a row of its own.
UpsertNever(key) == alerts \cup {NewAlert(key)}

\* A repeat refreshes the open row, which stays where it was in the list; else a new row opens.
UpsertOpen(key) == IF OpenRow(key) # {} THEN alerts ELSE alerts \cup {NewAlert(key)}

\* Persisting may fail, and is swallowed as a failed delivery is.
Raise(key) ==
  /\ Cardinality(alerts) < MaxAlerts
  /\ \/ alerts' = UpsertOpen(key) /\ raised' = raised \cup {key}
     \/ UNCHANGED <<alerts, raised>>

\* The crawl or monitoring of a source ends low: alert first ...
FlagSource(s) ==
  /\ s \notin flagging
  /\ Raise(s)
  /\ flagging' = flagging \cup {s}
  /\ UNCHANGED <<day, low, status, view, shown, steady>>

\* ... then the row, unless that write fails.
UpdateSource(s, ok) ==
  /\ s \in flagging
  /\ flagging' = flagging \ {s}
  /\ low' = IF ok THEN low \cup {s} ELSE low
  /\ UNCHANGED <<day, status, alerts, raised, view, shown, steady>>

\* A batch stops at the ceiling of the day.
BudgetReached ==
  /\ Raise(day)
  /\ UNCHANGED <<day, low, status, flagging, view, shown, steady>>

-----------------------------------------------------------------------------
(* What makes the cause go away, or seem to.                                *)

Recover(s) ==
  /\ s \in low
  /\ low' = low \ {s}
  /\ steady' = steady \ {s}
  /\ UNCHANGED <<day, status, flagging, alerts, raised, view, shown>>

ChangeStatus(s, to) ==
  /\ status[s] # to
  /\ status' = [status EXCEPT ![s] = to]
  /\ steady' = steady \ {s}
  /\ UNCHANGED <<day, low, flagging, alerts, raised, view, shown>>

NewDay ==
  /\ day < LastDay
  /\ day' = day + 1
  /\ steady' = steady \ {day}
  /\ UNCHANGED <<low, status, flagging, alerts, raised, view, shown>>

\* acknowledge and resolve write the status, whatever it was.
Handle(r, to) ==
  /\ alerts' = (alerts \ {r}) \cup {[r EXCEPT !.status = to]}
  /\ raised' = IF r.status = "open" THEN raised \ {r.key} ELSE raised
  /\ UNCHANGED <<day, low, status, flagging, view, shown, steady>>

-----------------------------------------------------------------------------
(* listAlerts.                                                              *)

\* The newest rows by creation, handled ones among them.
Page == {r \in alerts : Cardinality({x \in alerts : x.id > r.id}) < PageSize}
OpenOnPage == {r.key : r \in {x \in Page : x.status = "open"}}

BeginList ==
  /\ view = NoListing
  /\ view' = [reading |-> 1, keys |-> OpenOnPage, reliable |-> {}, found |-> {}]
  /\ steady' = OpenOnPage \cap (low \cup {day})
  /\ UNCHANGED <<day, low, status, flagging, alerts, raised, shown>>

\* Mutant: only the active sources are read.
ReadActiveOnly ==
  /\ view # NoListing /\ view.reading \in DOMAIN Statuses
  /\ LET batch == {s \in Sources : status[s] = Statuses[view.reading] /\ view.reading = 1} IN
     view' = [view EXCEPT !.reading = @ + 1, !.found = @ \cup batch,
                          !.reliable = (@ \ batch) \cup (batch \ low)]
  /\ UNCHANGED <<day, low, status, flagging, alerts, raised, shown, steady>>

\* One listByStatus after the other; a source read twice counts as it was read last.
ReadStatus ==
  /\ view # NoListing /\ view.reading \in DOMAIN Statuses
  /\ LET batch == {s \in Sources : status[s] = Statuses[view.reading]} IN
     view' = [view EXCEPT !.reading = @ + 1, !.found = @ \cup batch,
                          !.reliable = (@ \ batch) \cup (batch \ low)]
  /\ UNCHANGED <<day, low, status, flagging, alerts, raised, shown, steady>>

\* A source that was found nowhere counts as gone; a budget alert lasts its day.
Cleared(key) == IF key \in Sources THEN key \notin view.found \/ key \in view.reliable ELSE key < day

EndList ==
  /\ view # NoListing /\ view.reading \notin DOMAIN Statuses
  /\ shown' = {k \in view.keys : ~Cleared(k)}
  /\ view' = NoListing
  /\ UNCHANGED <<day, low, status, flagging, alerts, raised, steady>>

AlertsNext ==
  \/ \E s \in Sources : \/ FlagSource(s) \/ Recover(s)
                        \/ \E ok \in BOOLEAN : UpdateSource(s, ok)
                        \/ \E to \in StatusSet : ChangeStatus(s, to)
  \/ \E r \in alerts, to \in {"acknowledged", "resolved"} : Handle(r, to)
  \/ BudgetReached \/ NewDay \/ BeginList \/ ReadStatus \/ EndList

AlertsSpec == AlertsInit /\ [][AlertsNext]_alertVars

-----------------------------------------------------------------------------
\* Alerts, sources and the listing have their types; a key has one open row.
AlertsTypeOK ==
  /\ day \in 1..LastDay /\ low \subseteq Sources /\ flagging \subseteq Sources
  /\ status \in [Sources -> StatusSet]
  /\ alerts \subseteq [id: 1..MaxAlerts, key: Keys, status: {"open", "acknowledged", "resolved"}]
  /\ raised \subseteq Keys /\ shown \subseteq Keys /\ steady \subseteq Keys
  /\ \A q, r \in alerts : q.key = r.key /\ q.status = "open" /\ r.status = "open" => q = r

\* A listing does not silence an alert whose cause lasts: an open alert on its page
\* is shown open when its source was low and kept its status while the listing was
\* read, whatever status that is, and when its day is still running.  Only a change
\* under way can hide it, until the next listing.  The page is the newest rows, and a
\* repeat leaves its row where it was: an open alert that newer ones have pushed off
\* the page is in no listing, however long its cause lasts (alerts.ts:41-42).
LastingCauseShown == [][view # NoListing /\ view' = NoListing => steady \subseteq shown']_alertVars

\* Trouble that returns after a person has handled it opens a new row: a key that
\* was persisted since its open row was last handled has an open row.
RaisedIsOpen == \A key \in raised : OpenRow(key) # {}

\* Trouble is shown: what returned after it was handled has an open row, and an open
\* row whose cause lasts is shown open in every listing that has it on its page
\* (postgres-db.ts:1284, alerts.ts:38-115).
TroubleIsShown == [](AlertsTypeOK /\ RaisedIsOpen) /\ LastingCauseShown
=============================================================================
