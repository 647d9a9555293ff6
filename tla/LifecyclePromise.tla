-------------------------- MODULE LifecyclePromise --------------------------
(***************************************************************************)
(* What the pipeline promises about a deal, without its tables, handlers   *)
(* and lanes.  Whoever decides on a deal has found it in the queue; until  *)
(* he is done he may write what he set out to write, whatever became of    *)
(* the deal meanwhile.  So a deal is never published without the approval  *)
(* of the very person who publishes it, and a decided deal that nobody is  *)
(* still working on stays as it is, but for the monitor that takes down    *)
(* what is published.                                                      *)
(***************************************************************************)
CONSTANTS
  Deals, Reviewers,
  Replays     \* may a write that was carried out be repeated?

VARIABLES
  status,     \* [Deals -> absent | queued | published | rejected | expired]
  approvals,  \* the <<deal, reviewer>> approvals ever logged
  open        \* <<deal, reviewer, word>>: who is at work on what, to do what

vars == <<status, approvals, open>>

Words == {"approve", "edit", "reject"}

\* The write that completes an operation.
Final == [w \in Words |-> CASE w = "approve" -> "published"
                            [] w = "edit"    -> "queued"
                            [] w = "reject"  -> "rejected"]

Init ==
  /\ status = [d \in Deals |-> "absent"]
  /\ approvals = {}
  /\ open = {}

Queue(d) ==
  /\ status[d] = "absent"
  /\ status' = [status EXCEPT ![d] = "queued"]
  /\ UNCHANGED <<approvals, open>>

Begin(d, r, w) ==
  /\ status[d] = "queued"
  /\ \A x \in open : x[2] # r
  /\ open' = open \cup {<<d, r, w>>}
  /\ UNCHANGED <<status, approvals>>

GiveUp(d, r, w) ==
  /\ <<d, r, w>> \in open
  /\ open' = open \ {<<d, r, w>>}
  /\ UNCHANGED <<status, approvals>>

Approve(d, r) ==
  /\ <<d, r, "approve">> \in open
  /\ approvals' = approvals \cup {<<d, r>>}
  /\ UNCHANGED <<status, open>>

\* The decision is carried out, for the first time or once more.
Complete(d, r, w) ==
  /\ <<d, r, w>> \in open
  /\ w = "approve" => <<d, r>> \in approvals
  /\ status' = [status EXCEPT ![d] = Final[w]]
  /\ \/ open' = open \ {<<d, r, w>>}
     \/ Replays /\ UNCHANGED open
  /\ UNCHANGED approvals

\* A rejection for a reason first writes the row back as it was found.
WriteBack(d, r) ==
  /\ <<d, r, "reject">> \in open
  /\ status' = [status EXCEPT ![d] = "queued"]
  /\ UNCHANGED <<approvals, open>>

\* One monitor pass expires any number of published deals at once.
Expire(S) ==
  /\ \A d \in S : status[d] = "published"
  /\ status' = [d \in Deals |-> IF d \in S THEN "expired" ELSE status[d]]
  /\ UNCHANGED <<approvals, open>>

Next ==
  \/ \E d \in Deals : Queue(d)
  \/ \E d \in Deals, r \in Reviewers :
       \/ \E w \in Words : Begin(d, r, w) \/ GiveUp(d, r, w) \/ Complete(d, r, w)
       \/ Approve(d, r)
       \/ WriteBack(d, r)
  \/ \E S \in SUBSET Deals : Expire(S)

Spec == Init /\ [][Next]_vars
=============================================================================
