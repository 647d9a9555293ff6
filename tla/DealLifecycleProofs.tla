------------------------ MODULE DealLifecycleProofs ------------------------
(***************************************************************************)
(* Proofs about DealLifecycle for any number of deals, captures, keys,     *)
(* reviewers and lanes, with or without retried updates: the audit trail,  *)
(* the offers the sink is done with, the refinement of LifecyclePromise,   *)
(* and that no twins queue.                                                *)
(***************************************************************************)
EXTENDS DealLifecycle, TLAPS

(* What is true of the row a request is about to write.  The invariants of  *)
(* the tables are not inductive without it: a handler that read the deal    *)
(* long ago writes its whole copy back, so the copy must already satisfy    *)
(* what the tables must satisfy once it has been logged.                    *)

\* The row's status and verifier are those its operation leaves behind.
RowDecided(r) ==
  LET row == req[r].row
  IN IF req[r].act = "approve"
     THEN row.status = "published" /\ row.by = r
     ELSE row.status \in Reviewable /\ row.by = NoOne

\* Its corrections are logged, but for the one this very request makes.
RowEditsLogged(r) ==
  \A x \in req[r].row.edits :
    \/ [deal |-> req[r].deal, action |-> "edit", by |-> x] \in reviews
    \/ x = r /\ AuditedAs(req[r].act) = "edit"

\* Past RecordReview the decision is in the log.
RowLogged(r) ==
  req[r].stage # "read" =>
    [deal |-> req[r].deal, action |-> AuditedAs(req[r].act), by |-> r] \in reviews

\* Every operation but a manual capture has read an existing row.
RowExists(r) ==
  /\ req[r].act # "capture" => req[r].deal \in DOMAIN deals
  /\ req[r].stage = "rewritten" => req[r].act = "rejectWithReason"

RequestSound(r) ==
  req[r] # Idle =>
    /\ r \in Reviewers
    /\ RowDecided(r)
    /\ RowEditsLogged(r)
    /\ RowLogged(r)
    /\ RowExists(r)

RequestsSound == \A r \in Callers : RequestSound(r)

IInv ==
  /\ TablesOK
  /\ AuditedDecision
  /\ HumanEditsAudited
  /\ EvidenceBacked
  /\ RequestsSound

-----------------------------------------------------------------------------
(* Tables and in-flight records.                                            *)

InFlight == [stage: {"read", "audited", "rewritten"}, act: Acts, deal: Deals, row: DealRow]
Running == [stage: {"lookup", "check", "insert"}, capture: Captures,
            todo: SUBSET Keys, key: Keys, found: Captures, force: BOOLEAN]

\* A request that is not idle is a full record, and so is a running lane.
LEMMA RequestInFlight ==
  ASSUME TablesOK, NEW r \in Callers
  PROVE  /\ req[r] # Idle => req[r] \in InFlight
         /\ req[r].stage \in {"read", "audited", "rewritten"} => req[r] # Idle
BY DEF TablesOK, Request, InFlight, Idle

\* A lane that is somewhere in its loop has a full record.
LEMMA LaneRunning ==
  ASSUME TablesOK, NEW l \in Lanes
  PROVE  /\ lane[l] # Idle => lane[l] \in Running
         /\ lane[l].stage \in {"lookup", "check", "insert"} => lane[l] # Idle
BY DEF TablesOK, Pass, Running, Idle

\* The empty database satisfies the invariant.
LEMMA InitIInv == Init => IInv
BY DEF Init, IInv, TablesOK, AuditedDecision, HumanEditsAudited, EvidenceBacked,
       RequestsSound, RequestSound, Request, Pass, Idle

\* A request stays sound while others add rows and log decisions.
LEMMA RequestUndisturbed ==
  ASSUME NEW x \in Callers, RequestSound(x), req'[x] = req[x],
         reviews \subseteq reviews', DOMAIN deals \subseteq DOMAIN deals'
  PROVE  RequestSound(x)'
BY DEF RequestSound, RowDecided, RowEditsLogged, RowLogged, RowExists

-----------------------------------------------------------------------------
(* Steps of the review API.                                                 *)

\* Reading a deal for a decision keeps the invariant.
LEMMA ReadForDecisionIInv ==
  ASSUME IInv, NEW r \in Callers, NEW act \in Acts \ {"capture"}, NEW d \in DOMAIN deals,
         ReadForDecision(r, act, d)
  PROVE  IInv'
<1> USE DEF IInv
<1>1. /\ r \in Reviewers
      /\ d \in Deals
      /\ deals[d] \in DealRow
      /\ deals[d].status \in Reviewable
      /\ deals[d].by = NoOne
  BY DEF ReadForDecision, MayDecide, TablesOK, AuditedDecision, Callers
<1>2. PICK row \in Written(act, r, deals[d]) :
        req' = [req EXCEPT ![r] = At("read", act, d, row)]
  BY DEF ReadForDecision
<1>3. /\ row \in DealRow
      /\ row.capture = deals[d].capture
      /\ row.edits \subseteq deals[d].edits \cup {r}
      /\ act # "edit" => row.edits = deals[d].edits
      /\ IF act = "approve" THEN row.status = "published" /\ row.by = r
                            ELSE row.status \in Reviewable /\ row.by = NoOne
  BY <1>1 DEF Written, Decided, Corrected, DealRow, DealStatus, Reviewable
<1>4. /\ req'[r] = At("read", act, d, row)
      /\ \A x \in Callers : x # r => req'[x] = req[x]
      /\ UNCHANGED <<deals, evidence, reviews, lane, covered, persisted>>
  BY <1>2 DEF ReadForDecision, TablesOK
<1>5. TablesOK'
  BY <1>1, <1>2, <1>3, <1>4 DEF TablesOK, Request, At
<1>6. AuditedDecision' /\ HumanEditsAudited'
  BY <1>4 DEF AuditedDecision, HumanEditsAudited
<1>7. EvidenceBacked'
  BY <1>3, <1>4 DEF EvidenceBacked, At
<1>8. RequestsSound'
  <2> SUFFICES ASSUME NEW x \in Callers PROVE RequestSound(x)'
    BY DEF RequestsSound
  <2>1. CASE x = r
    BY <1>1, <1>3, <1>4, <2>1
       DEF RequestSound, RowDecided, RowEditsLogged, RowLogged, RowExists,
           HumanEditsAudited, AuditedAs, At
  <2>2. CASE x # r
    BY <1>4, <2>2, RequestUndisturbed DEF RequestsSound
  <2> QED BY <2>1, <2>2
<1> QED BY <1>5, <1>6, <1>7, <1>8

\* Storing the screenshot of a manual capture keeps the invariant.
LEMMA StoreManualEvidenceIInv ==
  ASSUME IInv, "capture" \in Acts, NEW r \in Callers, NEW d \in Deals, NEW c \in Captures,
         StoreManualEvidence(r, d, c)
  PROVE  IInv'
<1> USE DEF IInv
<1>1. PICK page \in Page, k \in Keys, s \in Reviewable :
        /\ StoreEvidence(c, page)
        /\ req' = [req EXCEPT ![r] =
             At("read", "capture", d, NewRow(s, k, c, {r}))]
  BY DEF StoreManualEvidence
<1> DEFINE row == NewRow(s, k, c, {r})
<1>2. /\ r \in Reviewers
      /\ UNCHANGED <<deals, reviews, lane, covered, persisted>>
      /\ row \in DealRow
  BY DEF StoreManualEvidence, Callers, DealRow, DealStatus, NewRow
<1>3. /\ req'[r] = At("read", "capture", d, row)
      /\ \A x \in Callers : x # r => req'[x] = req[x]
      /\ req' \in [Callers -> Request]
  BY <1>1, <1>2 DEF TablesOK, Request, At
<1>4. /\ DOMAIN evidence \subseteq Captures
      /\ evidence \in [DOMAIN evidence -> Page]
  BY DEF TablesOK
<1>5. /\ DOMAIN evidence' = DOMAIN evidence \cup {c}
      /\ DOMAIN evidence' \subseteq Captures
      /\ evidence' \in [DOMAIN evidence' -> Page]
  BY <1>1, <1>4 DEF StoreEvidence, Put
<1>6. TablesOK'
  BY <1>2, <1>3, <1>5 DEF TablesOK
<1>7. AuditedDecision' /\ HumanEditsAudited'
  BY <1>2 DEF AuditedDecision, HumanEditsAudited
<1>8. EvidenceBacked'
  BY <1>2, <1>3, <1>5 DEF EvidenceBacked, At, NewRow
<1>9. RequestsSound'
  <2> SUFFICES ASSUME NEW x \in Callers PROVE RequestSound(x)'
    BY DEF RequestsSound
  <2>1. CASE x = r
    BY <1>2, <1>3, <2>1
       DEF RequestSound, RowDecided, RowEditsLogged, RowLogged, RowExists, AuditedAs, At, NewRow
  <2>2. CASE x # r
    BY <1>2, <1>3, <2>2, RequestUndisturbed DEF RequestsSound
  <2> QED BY <2>1, <2>2
<1> QED BY <1>6, <1>7, <1>8, <1>9

\* Appending the audit row and answering the reviewer keeps the invariant.
LEMMA RecordReviewIInv ==
  ASSUME IInv, NEW r \in Callers, RecordReview(r)
  PROVE  IInv'
<1> USE DEF IInv
<1> DEFINE entry == [deal |-> req[r].deal, action |-> AuditedAs(req[r].act), by |-> r]
<1>1. /\ req[r].stage = "read"
      /\ req[r] # Idle
      /\ req[r] \in InFlight
      /\ r \in Reviewers
  BY RequestInFlight DEF RecordReview, RequestsSound, RequestSound
<1>2. /\ reviews' = reviews \cup {entry}
      /\ UNCHANGED <<deals, evidence, lane, covered, persisted>>
  BY DEF RecordReview
<1>3. /\ req'[r] = Advance(req[r], "audited")
      /\ \A x \in Callers : x # r => req'[x] = req[x]
  BY DEF RecordReview, TablesOK
<1>4. /\ req'[r] \in InFlight
      /\ req'[r].stage = "audited"
      /\ req'[r].act = req[r].act
      /\ req'[r].deal = req[r].deal
      /\ req'[r].row = req[r].row
  BY <1>1, <1>3 DEF InFlight, Advance, At
<1>5. entry \in ReviewRow
  BY <1>1 DEF ReviewRow, InFlight, AuditedAs
<1>6. TablesOK'
  <2>1. req' \in [Callers -> Request]
    BY <1>1, <1>4 DEF TablesOK, RecordReview, Request, InFlight
  <2> QED BY <1>2, <1>5, <2>1 DEF TablesOK
<1>7. AuditedDecision' /\ HumanEditsAudited'
  BY <1>2 DEF AuditedDecision, HumanEditsAudited
<1>8. EvidenceBacked'
  BY <1>1, <1>2, <1>3, <1>4 DEF EvidenceBacked
<1>9. RequestsSound'
  <2> SUFFICES ASSUME NEW x \in Callers PROVE RequestSound(x)'
    BY DEF RequestsSound
  <2>1. CASE x = r
    BY <1>1, <1>2, <1>4, <2>1
       DEF RequestsSound, RequestSound, RowDecided, RowEditsLogged, RowLogged, RowExists
  <2>2. CASE x # r
    BY <1>2, <1>3, <2>2, RequestUndisturbed DEF RequestsSound
  <2> QED BY <2>1, <2>2
<1> QED BY <1>6, <1>7, <1>8, <1>9

\* The whole-row write: the audit row RecordReview left is what makes it safe.
LEMMA UpdateDealIInv ==
  ASSUME IInv, NEW r \in Callers, UpdateDeal(r)
  PROVE  IInv'
<1> USE DEF IInv
<1> DEFINE d == req[r].deal
           row == req[r].row
<1>1. /\ req[r].stage = "audited"
      /\ req[r].act \in {"approve", "edit", "rejectWithReason"}
      /\ UNCHANGED <<evidence, reviews, lane, persisted>>
  BY DEF UpdateDeal, Logged
<1>2. /\ req[r] # Idle
      /\ req[r] \in InFlight
      /\ RequestSound(r)
  BY <1>1, RequestInFlight DEF RequestsSound
<1>3. /\ d \in DOMAIN deals
      /\ d \in Deals
      /\ row \in DealRow
      /\ r \in Reviewers
      /\ row.capture \in DOMAIN evidence
  BY <1>1, <1>2 DEF RequestSound, RowExists, InFlight, EvidenceBacked
<1>4. ASSUME req' = [req EXCEPT ![r] = Idle], UNCHANGED <<deals, covered>>
      PROVE  IInv'
  <2>1. /\ req'[r] = Idle
        /\ \A x \in Callers : x # r => req'[x] = req[x]
    BY <1>4 DEF TablesOK
  <2>2. TablesOK'
    BY <1>1, <1>4 DEF TablesOK, Request
  <2>3. AuditedDecision' /\ HumanEditsAudited' /\ EvidenceBacked'
    BY <1>1, <1>4, <2>1 DEF AuditedDecision, HumanEditsAudited, EvidenceBacked
  <2>4. RequestsSound'
    BY <1>1, <1>4, <2>1, RequestUndisturbed DEF RequestsSound, RequestSound
  <2> QED BY <2>2, <2>3, <2>4
<1>5. ASSUME deals' = Put(deals, d, row), Cover(row.key, HashOf(row)),
             Answered(r, IF req[r].act = "rejectWithReason"
                         THEN Advance(req[r], "rewritten") ELSE Idle)
      PROVE  IInv'
  <2>1. /\ DOMAIN deals' = DOMAIN deals
        /\ deals' \in [DOMAIN deals' -> DealRow]
        /\ DOMAIN deals' \subseteq Deals
        /\ deals'[d] = row
        /\ \A x \in DOMAIN deals : x # d => deals'[x] = deals[x]
    <3>1. DOMAIN deals \subseteq Deals /\ deals \in [DOMAIN deals -> DealRow]
      BY DEF TablesOK
    <3> HIDE DEF row, d
    <3> QED BY <1>3, <1>5, <3>1 DEF Put
  <2>2. /\ req' \in [Callers -> Request]
        /\ \A x \in Callers : x # r => req'[x] = req[x]
        /\ \/ req'[r] = req[r]
           \/ req'[r] = Idle
           \/ /\ req[r].act = "rejectWithReason"
              /\ req'[r] = Advance(req[r], "rewritten")
    BY <1>2, <1>5 DEF Answered, TablesOK, Request, InFlight, Advance, At
  <2>3. covered' \subseteq Keys \X Hashes
    <3>1. row.key \in Keys /\ HashOf(row) \in Hashes
      BY <1>3 DEF TablesOK, HashOf, DealRow, Page
    <3> QED BY <1>5, <3>1 DEF Cover, TablesOK
  <2>4. TablesOK'
    BY <1>1, <2>1, <2>2, <2>3 DEF TablesOK
  <2>5. AuditedDecision'
    BY <1>1, <1>2, <1>3, <2>1
       DEF AuditedDecision, RequestSound, RowDecided, RowLogged, AuditedAs, Reviewable
  <2>6. HumanEditsAudited'
    <3>1. \A x \in row.edits : [deal |-> d, action |-> "edit", by |-> x] \in reviews
      BY <1>1, <1>2 DEF RequestSound, RowEditsLogged, RowLogged
    <3> QED BY <1>1, <1>3, <2>1, <3>1 DEF HumanEditsAudited
  <2>7. EvidenceBacked'
    BY <1>1, <1>2, <1>3, <2>1, <2>2 DEF EvidenceBacked, Advance, At
  <2>8. RequestsSound'
    <3> SUFFICES ASSUME NEW x \in Callers PROVE RequestSound(x)'
      BY DEF RequestsSound
    <3>1. CASE req'[x] = req[x]
      BY <1>1, <2>1, <3>1, RequestUndisturbed DEF RequestsSound
    <3>2. CASE req'[x] = Idle
      BY <3>2 DEF RequestSound
    <3>3. CASE x = r /\ req[r].act = "rejectWithReason" /\ req'[r] = Advance(req[r], "rewritten")
      BY <1>1, <1>2, <2>1, <3>3
         DEF RequestSound, RowDecided, RowEditsLogged, RowLogged, RowExists, Advance, At
    <3> QED BY <2>2, <3>1, <3>2, <3>3
  <2> QED BY <2>4, <2>5, <2>6, <2>7, <2>8
<1> QED BY <1>4, <1>5 DEF UpdateDeal

\* A rejection keeps the row's content and names the rejecting reviewer.
LEMMA UpdateStatusRejectedIInv ==
  ASSUME IInv, NEW r \in Callers, UpdateStatusRejected(r)
  PROVE  IInv'
<1> USE DEF IInv
<1> DEFINE d == req[r].deal
           row == Decided(deals[d], "rejected", r)
<1>1. /\ req[r].stage \in {"audited", "rewritten"}
      /\ req[r].act \in {"reject", "rejectWithReason"}
      /\ req[r] # Idle
      /\ req[r] \in InFlight
      /\ RequestSound(r)
  <2>1. /\ req[r].stage \in {"audited", "rewritten"}
        /\ req[r].stage = "audited" => req[r].act = "reject"
    BY DEF UpdateStatusRejected, Logged
  <2>2. req[r] # Idle /\ req[r] \in InFlight /\ RequestSound(r)
    BY <2>1, RequestInFlight DEF RequestsSound
  <2> QED BY <2>1, <2>2 DEF RequestSound, RowExists
<1>2. /\ UNCHANGED <<evidence, reviews, lane, covered, persisted>>
      /\ deals' = Put(deals, d, row)
      /\ Answered(r, Idle)
  BY DEF UpdateStatusRejected
<1>3. /\ d \in DOMAIN deals
      /\ r \in Reviewers
      /\ [deal |-> d, action |-> "reject", by |-> r] \in reviews
  BY <1>1 DEF RequestSound, RowExists, RowLogged, AuditedAs
<1>4. /\ row \in DealRow
      /\ row.status = "rejected"
      /\ row.by = r
      /\ row.edits = deals[d].edits
      /\ row.capture = deals[d].capture
  <2>1. deals[d] \in DealRow
    BY <1>3 DEF TablesOK
  <2> QED BY <1>3, <2>1 DEF DealRow, DealStatus, Decided
<1>5. /\ DOMAIN deals' = DOMAIN deals
      /\ deals' \in [DOMAIN deals' -> DealRow]
      /\ deals'[d] = row
      /\ \A x \in DOMAIN deals : x # d => deals'[x] = deals[x]
  <2>1. DOMAIN deals \subseteq Deals /\ deals \in [DOMAIN deals -> DealRow] /\ d \in Deals
    BY <1>3 DEF TablesOK
  <2> HIDE DEF row, d
  <2> QED BY <1>2, <1>3, <1>4, <2>1 DEF Put
<1>6. /\ req' \in [Callers -> Request]
      /\ \A x \in Callers : req'[x] = req[x] \/ req'[x] = Idle
  BY <1>2 DEF Answered, TablesOK, Request
<1> HIDE DEF row
<1>7. TablesOK'
  BY <1>2, <1>5, <1>6 DEF TablesOK
<1>8. AuditedDecision'
  BY <1>2, <1>3, <1>4, <1>5 DEF AuditedDecision, Reviewable
<1>9. HumanEditsAudited'
  BY <1>2, <1>3, <1>4, <1>5 DEF HumanEditsAudited
<1>10. EvidenceBacked'
  BY <1>2, <1>3, <1>4, <1>5, <1>6 DEF EvidenceBacked
<1>11. RequestsSound'
  BY <1>2, <1>5, <1>6, RequestUndisturbed DEF RequestsSound, RequestSound
<1> QED BY <1>7, <1>8, <1>9, <1>10, <1>11

\* Inserting a row that nobody decided yet, by a capture or by a lane.
LEMMA InsertSound ==
  ASSUME IInv, NEW d \in Deals, NEW row \in DealRow, InsertDeal(d, row),
         UNCHANGED <<evidence, reviews>>,
         row.status \in Reviewable, row.by = NoOne, row.capture \in DOMAIN evidence,
         \A x \in row.edits : [deal |-> d, action |-> "edit", by |-> x] \in reviews
  PROVE  /\ DOMAIN deals \subseteq DOMAIN deals'
         /\ DOMAIN deals' \subseteq Deals
         /\ deals' \in [DOMAIN deals' -> DealRow]
         /\ AuditedDecision' /\ HumanEditsAudited'
         /\ \A x \in DOMAIN deals' : deals'[x].capture \in DOMAIN evidence
<1> USE DEF IInv
<1>1. CASE deals' = deals
  BY <1>1 DEF TablesOK, AuditedDecision, HumanEditsAudited, EvidenceBacked
<1>2. CASE d \notin DOMAIN deals /\ deals' = Put(deals, d, row)
  <2>1. /\ DOMAIN deals' = DOMAIN deals \cup {d}
        /\ DOMAIN deals' \subseteq Deals
        /\ deals' \in [DOMAIN deals' -> DealRow]
        /\ deals'[d] = row
        /\ \A x \in DOMAIN deals : deals'[x] = deals[x]
    <3>1. DOMAIN deals \subseteq Deals /\ deals \in [DOMAIN deals -> DealRow]
      BY DEF TablesOK
    <3> QED BY <1>2, <3>1 DEF Put
  <2>2. AuditedDecision'
    BY <2>1 DEF AuditedDecision, Reviewable
  <2>3. HumanEditsAudited'
    BY <2>1 DEF HumanEditsAudited
  <2>4. \A x \in DOMAIN deals' : deals'[x].capture \in DOMAIN evidence
    BY <2>1 DEF EvidenceBacked
  <2> QED BY <2>1, <2>2, <2>3, <2>4
<1> QED BY <1>1, <1>2 DEF InsertDeal

\* The row of a manual capture enters the queue under its logged correction.
LEMMA InsertCapturedIInv ==
  ASSUME IInv, NEW r \in Callers, InsertCaptured(r)
  PROVE  IInv'
<1> USE DEF IInv
<1> DEFINE row == req[r].row
           d == req[r].deal
<1>1. /\ req[r].stage = "audited"
      /\ req[r].act = "capture"
      /\ InsertDeal(d, row)
      /\ UNCHANGED <<evidence, reviews, lane, persisted>>
      /\ req' = [req EXCEPT ![r] = Idle]
      /\ Cover(row.key, HashOf(row))
  BY DEF InsertCaptured, Logged
<1>2. /\ req[r] # Idle
      /\ req[r] \in InFlight
      /\ RequestSound(r)
  BY <1>1, RequestInFlight DEF RequestsSound
<1>3. /\ d \in Deals
      /\ row \in DealRow
      /\ row.status \in Reviewable
      /\ row.by = NoOne
      /\ row.capture \in DOMAIN evidence
  BY <1>1, <1>2 DEF RequestSound, RowDecided, InFlight, EvidenceBacked
<1>4. \A x \in row.edits : [deal |-> d, action |-> "edit", by |-> x] \in reviews
  BY <1>1, <1>2 DEF RequestSound, RowEditsLogged, RowLogged
<1>5. /\ DOMAIN deals \subseteq DOMAIN deals'
      /\ DOMAIN deals' \subseteq Deals
      /\ deals' \in [DOMAIN deals' -> DealRow]
      /\ AuditedDecision' /\ HumanEditsAudited'
      /\ \A x \in DOMAIN deals' : deals'[x].capture \in DOMAIN evidence
  <2> HIDE DEF d, row
  <2> QED BY <1>1, <1>3, <1>4, InsertSound
<1>6. /\ req'[r] = Idle
      /\ \A x \in Callers : x # r => req'[x] = req[x]
      /\ req' \in [Callers -> Request]
  BY <1>1 DEF TablesOK, Request
<1>7. covered' \subseteq Keys \X Hashes
  <2>1. row.key \in Keys /\ HashOf(row) \in Hashes
    BY <1>3 DEF TablesOK, HashOf, DealRow, Page
  <2> QED BY <1>1, <2>1 DEF Cover, TablesOK
<1>8. TablesOK'
  BY <1>1, <1>5, <1>6, <1>7 DEF TablesOK
<1>9. EvidenceBacked'
  BY <1>1, <1>5, <1>6 DEF EvidenceBacked
<1>10. RequestsSound'
  BY <1>1, <1>5, <1>6, RequestUndisturbed DEF RequestsSound, RequestSound
<1> QED BY <1>5, <1>8, <1>9, <1>10

\* A request that dies leaves the tables as they are.
LEMMA RequestFailsIInv ==
  ASSUME IInv, NEW r \in Callers, RequestFails(r)
  PROVE  IInv'
<1> USE DEF IInv
<1>1. /\ UNCHANGED <<deals, evidence, reviews, lane, covered, persisted>>
      /\ req'[r] = Idle
      /\ \A x \in Callers : x # r => req'[x] = req[x]
      /\ req' \in [Callers -> Request]
  BY DEF RequestFails, TablesOK, Request
<1>2. TablesOK'
  BY <1>1 DEF TablesOK
<1>3. AuditedDecision' /\ HumanEditsAudited' /\ EvidenceBacked'
  BY <1>1 DEF AuditedDecision, HumanEditsAudited, EvidenceBacked
<1>4. RequestsSound'
  BY <1>1, RequestUndisturbed DEF RequestsSound, RequestSound
<1> QED BY <1>2, <1>3, <1>4

-----------------------------------------------------------------------------
(* Steps of a lane and of the monitor.                                      *)

\* A lane step that writes no deal only has to keep the lane's own record typed.
LEMMA LaneOnly ==
  ASSUME IInv, NEW l \in Lanes,
         UNCHANGED <<deals, evidence, reviews, req>>,
         lane' \in [Lanes -> Pass],
         \A x \in Lanes : x # l => lane'[x] = lane[x],
         lane'[l] # Idle => lane'[l].capture \in DOMAIN evidence,
         covered' \subseteq Keys \X Hashes, persisted' \subseteq Keys \X Hashes
  PROVE  IInv'
<1> USE DEF IInv
<1>1. TablesOK'
  BY DEF TablesOK
<1>2. AuditedDecision' /\ HumanEditsAudited'
  BY DEF AuditedDecision, HumanEditsAudited
<1>3. EvidenceBacked'
  BY DEF EvidenceBacked
<1>4. RequestsSound'
  BY RequestUndisturbed DEF RequestsSound
<1> QED BY <1>1, <1>2, <1>3, <1>4

\* Going on with the next offer, or ending the pass, keeps the lane's record.
LEMMA NextOfferType ==
  ASSUME TablesOK, EvidenceBacked, NEW l \in Lanes, lane[l] # Idle, NEW k \in Keys, NextOffer(l, k)
  PROVE  /\ lane' \in [Lanes -> Pass]
         /\ \A x \in Lanes : x # l => lane'[x] = lane[x]
         /\ lane'[l] # Idle => lane'[l].capture \in DOMAIN evidence
         /\ persisted' \subseteq Keys \X Hashes
<1> DEFINE c == lane[l].capture
           rest == lane[l].todo \ {k}
<1>1. /\ lane[l] \in Running
      /\ c \in Captures
      /\ rest \subseteq Keys
      /\ c \in DOMAIN evidence
  BY LaneRunning DEF Running, EvidenceBacked
<1>2. persisted' \subseteq Keys \X Hashes
  <2>1. evidence[c].hash \in Hashes
    BY <1>1 DEF TablesOK, Page
  <2> QED BY <2>1 DEF NextOffer, TablesOK
<1>3. CASE lane' = [lane EXCEPT ![l] = Idle]
  BY <1>2, <1>3 DEF TablesOK, Pass
<1>4. ASSUME NEW n \in rest,
             lane' = [lane EXCEPT ![l] = Offer("lookup", @.capture, rest, n, @.capture, FALSE)]
      PROVE  /\ lane' \in [Lanes -> Pass]
             /\ \A x \in Lanes : x # l => lane'[x] = lane[x]
             /\ lane'[l] # Idle => lane'[l].capture \in DOMAIN evidence
  <2>1. Offer("lookup", c, rest, n, c, FALSE) \in Running
    BY <1>1, <1>4 DEF Running, Offer
  <2>2. /\ lane' = [lane EXCEPT ![l] = Offer("lookup", c, rest, n, c, FALSE)]
        /\ Offer("lookup", c, rest, n, c, FALSE).capture = c
    BY <1>4 DEF Offer
  <2> HIDE DEF c, rest
  <2> QED BY <1>1, <2>1, <2>2 DEF TablesOK, Pass, Running
<1> QED BY <1>2, <1>3, <1>4 DEF NextOffer

\* Capturing a page, the only way a crawl pass starts, keeps the invariant.
LEMMA CaptureEvidenceIInv ==
  ASSUME IInv, NEW l \in Lanes, NEW c \in Captures, CaptureEvidence(l, c)
  PROVE  IInv'
<1> USE DEF IInv
<1>1. PICK page \in Page, offers \in SUBSET Keys, k \in Keys :
        /\ StoreEvidence(c, page)
        /\ lane' = [lane EXCEPT ![l] = Offer("lookup", c, offers, k, c, FALSE)]
  BY DEF CaptureEvidence
<1>2. UNCHANGED <<deals, reviews, req, covered, persisted>>
  BY DEF CaptureEvidence
<1>3. /\ DOMAIN evidence' = DOMAIN evidence \cup {c}
      /\ DOMAIN evidence' \subseteq Captures
      /\ evidence' \in [DOMAIN evidence' -> Page]
  <2>1. DOMAIN evidence \subseteq Captures /\ evidence \in [DOMAIN evidence -> Page]
    BY DEF TablesOK
  <2> QED BY <1>1, <2>1 DEF StoreEvidence, Put
<1>4. /\ lane' \in [Lanes -> Pass]
      /\ \A x \in Lanes : x # l => lane'[x] = lane[x]
      /\ lane'[l].capture = c
  <2>1. /\ Offer("lookup", c, offers, k, c, FALSE) \in Running
        /\ Offer("lookup", c, offers, k, c, FALSE).capture = c
    BY DEF Running, Offer
  <2> QED BY <1>1, <2>1 DEF TablesOK, Pass, Running
<1>5. TablesOK'
  BY <1>2, <1>3, <1>4 DEF TablesOK
<1>6. AuditedDecision' /\ HumanEditsAudited'
  BY <1>2 DEF AuditedDecision, HumanEditsAudited
<1>7. EvidenceBacked'
  BY <1>2, <1>3, <1>4 DEF EvidenceBacked
<1>8. RequestsSound'
  BY <1>2, RequestUndisturbed DEF RequestsSound
<1> QED BY <1>5, <1>6, <1>7, <1>8

\* Looking up the active row of an offer keeps the invariant.
LEMMA FindByDedupeKeyIInv ==
  ASSUME IInv, NEW l \in Lanes, FindByDedupeKey(l)
  PROVE  IInv'
<1> USE DEF IInv
<1> DEFINE p == lane[l]
<1>1. /\ p # Idle
      /\ p \in Running
      /\ p.capture \in DOMAIN evidence
      /\ UNCHANGED <<deals, evidence, reviews, req, covered, persisted>>
  <2>1. p.stage = "lookup"
    BY DEF FindByDedupeKey
  <2> QED BY <2>1, LaneRunning DEF FindByDedupeKey, EvidenceBacked
<1>2. PICK stage \in {"insert", "check"}, found \in Captures :
        lane' = [lane EXCEPT ![l] = Offer(stage, p.capture, p.todo, p.key, found, FALSE)]
  <2>1. /\ p.capture \in Captures
        /\ \A d \in ByDedupeKey(p.key) : deals[d].capture \in Captures
    BY <1>1 DEF Running, ByDedupeKey, TablesOK, DealRow
  <2> QED BY <2>1 DEF FindByDedupeKey
<1>3. /\ lane' \in [Lanes -> Pass]
      /\ \A x \in Lanes : x # l => lane'[x] = lane[x]
      /\ lane'[l].capture = p.capture
  <2>1. /\ Offer(stage, p.capture, p.todo, p.key, found, FALSE) \in Running
        /\ Offer(stage, p.capture, p.todo, p.key, found, FALSE).capture = p.capture
    BY <1>1 DEF Running, Offer
  <2> HIDE DEF p
  <2> QED BY <1>2, <2>1 DEF TablesOK, Pass, Running
<1> QED BY <1>1, <1>3, LaneOnly DEF TablesOK

\* Deciding whether the offer is already queued keeps the invariant.
LEMMA CheckDuplicateIInv ==
  ASSUME IInv, NEW l \in Lanes, CheckDuplicate(l)
  PROVE  IInv'
<1> USE DEF IInv
<1> DEFINE p == lane[l]
<1>1. /\ p # Idle
      /\ p \in Running
      /\ p.capture \in DOMAIN evidence
      /\ UNCHANGED <<deals, evidence, reviews, req, covered>>
  <2>1. p.stage = "check"
    BY DEF CheckDuplicate
  <2> QED BY <2>1, LaneRunning DEF CheckDuplicate, EvidenceBacked
<1>2. ASSUME lane' = [lane EXCEPT ![l] =
                        Offer("insert", p.capture, p.todo, p.key, p.found, TRUE)],
             UNCHANGED persisted
      PROVE  IInv'
  <2>1. /\ Offer("insert", p.capture, p.todo, p.key, p.found, TRUE) \in Running
        /\ Offer("insert", p.capture, p.todo, p.key, p.found, TRUE).capture = p.capture
    BY <1>1 DEF Running, Offer
  <2>2. /\ lane' \in [Lanes -> Pass]
        /\ \A x \in Lanes : x # l => lane'[x] = lane[x]
        /\ lane'[l].capture = p.capture
    <3> HIDE DEF p
    <3> QED BY <1>2, <2>1 DEF TablesOK, Pass, Running
  <2> QED BY <1>1, <1>2, <2>2, LaneOnly DEF TablesOK
<1>3. ASSUME NextOffer(l, p.key)
      PROVE  IInv'
  BY <1>1, <1>3, NextOfferType, LaneOnly DEF TablesOK, Running
<1> QED BY <1>2, <1>3 DEF CheckDuplicate

\* Inserting a candidate keeps the invariant: its evidence was stored before.
LEMMA InsertCandidateIInv ==
  ASSUME IInv, NEW l \in Lanes, NEW d \in Deals, InsertCandidate(l, d)
  PROVE  IInv'
<1> USE DEF IInv
<1> DEFINE p == lane[l]
<1>1. /\ p # Idle
      /\ p \in Running
      /\ p.capture \in DOMAIN evidence
      /\ NextOffer(l, p.key)
      /\ Cover(p.key, evidence[p.capture].hash)
      /\ UNCHANGED <<evidence, reviews, req>>
  <2>1. p.stage = "insert"
    BY DEF InsertCandidate
  <2> QED BY <2>1, LaneRunning DEF InsertCandidate, EvidenceBacked
<1>2. PICK s \in Reviewable : InsertDeal(d, NewRow(s, p.key, p.capture, {}))
  BY DEF InsertCandidate, Reviewable
<1> DEFINE row == NewRow(s, p.key, p.capture, {})
<1>3. /\ row \in DealRow
      /\ row.status \in Reviewable
      /\ row.by = NoOne
      /\ row.edits = {}
      /\ row.capture = p.capture
  BY <1>1 DEF DealRow, DealStatus, NewRow, Running
<1>4. /\ DOMAIN deals \subseteq DOMAIN deals'
      /\ DOMAIN deals' \subseteq Deals
      /\ deals' \in [DOMAIN deals' -> DealRow]
      /\ AuditedDecision' /\ HumanEditsAudited'
      /\ \A x \in DOMAIN deals' : deals'[x].capture \in DOMAIN evidence
  <2> HIDE DEF row
  <2> QED BY <1>1, <1>2, <1>3, InsertSound DEF row
<1>5. /\ lane' \in [Lanes -> Pass]
      /\ \A x \in Lanes : x # l => lane'[x] = lane[x]
      /\ lane'[l] # Idle => lane'[l].capture \in DOMAIN evidence
      /\ persisted' \subseteq Keys \X Hashes
  BY <1>1, NextOfferType DEF Running
<1>6. covered' \subseteq Keys \X Hashes
  <2>1. p.key \in Keys /\ evidence[p.capture].hash \in Hashes
    BY <1>1 DEF TablesOK, Page, Running
  <2> QED BY <1>1, <2>1 DEF Cover, TablesOK
<1>7. TablesOK'
  BY <1>1, <1>4, <1>5, <1>6 DEF TablesOK
<1>8. EvidenceBacked'
  BY <1>1, <1>4, <1>5 DEF EvidenceBacked
<1>9. RequestsSound'
  BY <1>1, <1>4, RequestUndisturbed DEF RequestsSound
<1> QED BY <1>4, <1>7, <1>8, <1>9

\* A failed call that ends a crawl pass keeps the invariant.
LEMMA PassFailsIInv ==
  ASSUME IInv, NEW l \in Lanes, PassFails(l)
  PROVE  IInv'
<1>1. /\ UNCHANGED <<deals, evidence, reviews, req, covered, persisted>>
      /\ lane'[l] = Idle
      /\ \A x \in Lanes : x # l => lane'[x] = lane[x]
      /\ lane' \in [Lanes -> Pass]
  BY DEF PassFails, IInv, TablesOK, Pass
<1> QED BY <1>1, LaneOnly DEF IInv, TablesOK

\* Expiry keeps the approver, so the approval in the log still explains the row.
LEMMA ExpirePublishedIInv ==
  ASSUME IInv, NEW u \in Urls, ExpirePublished(u)
  PROVE  IInv'
<1> USE DEF IInv
<1>1. /\ UNCHANGED <<evidence, reviews, req, lane, covered, persisted>>
      /\ DOMAIN deals' = DOMAIN deals
      /\ \A d \in DOMAIN deals :
           \/ deals'[d] = deals[d]
           \/ /\ deals[d].status = "published"
              /\ deals'[d] = Decided(deals[d], "expired", deals[d].by)
      /\ deals' = [d \in DOMAIN deals |-> deals'[d]]
  BY DEF ExpirePublished
<1>2. \A d \in DOMAIN deals :
        /\ deals'[d] \in DealRow
        /\ deals'[d].edits = deals[d].edits
        /\ deals'[d].capture = deals[d].capture
        /\ deals'[d].by = deals[d].by
        /\ \/ deals'[d].status = deals[d].status
           \/ deals[d].status = "published" /\ deals'[d].status = "expired"
  <2> SUFFICES ASSUME NEW d \in DOMAIN deals
      PROVE  /\ deals'[d] \in DealRow
             /\ deals'[d].edits = deals[d].edits
             /\ deals'[d].capture = deals[d].capture
             /\ deals'[d].by = deals[d].by
             /\ \/ deals'[d].status = deals[d].status
                \/ deals[d].status = "published" /\ deals'[d].status = "expired"
    OBVIOUS
  <2>1. deals[d] \in DealRow
    BY DEF TablesOK
  <2> QED BY <1>1, <2>1 DEF DealRow, DealStatus, Decided
<1>3. TablesOK'
  <2>1. deals' \in [DOMAIN deals' -> DealRow]
    BY <1>1, <1>2
  <2> QED BY <1>1, <2>1 DEF TablesOK
<1>4. AuditedDecision' /\ HumanEditsAudited'
  BY <1>1, <1>2 DEF AuditedDecision, HumanEditsAudited, Reviewable
<1>5. EvidenceBacked'
  BY <1>1, <1>2 DEF EvidenceBacked
<1>6. RequestsSound'
  BY <1>1, RequestUndisturbed DEF RequestsSound
<1> QED BY <1>3, <1>4, <1>5, <1>6

\* A stuttering step keeps the invariant.
LEMMA StutterIInv ==
  ASSUME IInv, UNCHANGED vars
  PROVE  IInv'
<1> USE DEF IInv, vars
<1>1. TablesOK' /\ AuditedDecision' /\ HumanEditsAudited' /\ EvidenceBacked'
  BY DEF TablesOK, AuditedDecision, HumanEditsAudited, EvidenceBacked
<1>2. RequestsSound'
  BY RequestUndisturbed DEF RequestsSound
<1> QED BY <1>1, <1>2

\* IInv is inductive: every action of every process keeps it.
LEMMA NextIInv ==
  ASSUME IInv, [Next]_vars
  PROVE  IInv'
<1>1. ASSUME NEW r \in Callers, ReviewStep(r) PROVE IInv'
  BY <1>1, ReadForDecisionIInv, StoreManualEvidenceIInv, RecordReviewIInv, UpdateDealIInv,
     UpdateStatusRejectedIInv, InsertCapturedIInv, RequestFailsIInv DEF ReviewStep
<1>2. ASSUME NEW l \in Lanes, LaneStep(l) PROVE IInv'
  BY <1>2, CaptureEvidenceIInv, FindByDedupeKeyIInv, CheckDuplicateIInv,
     InsertCandidateIInv, PassFailsIInv DEF LaneStep
<1>3. ASSUME NEW u \in Urls, ExpirePublished(u) PROVE IInv'
  BY <1>3, ExpirePublishedIInv
<1>4. CASE UNCHANGED vars
  BY <1>4, StutterIInv
<1> QED BY <1>1, <1>2, <1>3, <1>4 DEF Next

-----------------------------------------------------------------------------
(* What holds for every number of reviewers, lanes, deals and pages.        *)

\* The invariant holds in every reachable state.
LEMMA InvariantIInv == Spec => []IInv
<1>1. Init => IInv
  BY InitIInv
<1>2. IInv /\ [Next]_vars => IInv'
  BY NextIInv
<1> QED BY <1>1, <1>2, PTL DEF Spec

\* The tables, requests and lanes always hold values of their types.
THEOREM TypeCorrect == Spec => []TypeOK
<1> DEFINE Inv == IInv /\ overtaken \subseteq Lanes /\ doubtful \subseteq Deals
<1>1. Init => Inv
  BY InitIInv DEF Init
<1>2. Inv /\ [Next]_vars => Inv'
  <2> SUFFICES ASSUME Inv, [Next]_vars PROVE Inv'
    OBVIOUS
  <2>1. IInv'
    BY NextIInv
  <2>2. DOMAIN deals \subseteq Deals /\ DOMAIN deals' \subseteq Deals
    BY <2>1 DEF IInv, TablesOK
  <2>3. CASE Noted
    BY <2>1, <2>2, <2>3 DEF Noted
  <2>4. CASE UNCHANGED vars
    BY <2>1, <2>4 DEF vars
  <2> QED BY <2>3, <2>4 DEF Next
<1>3. Inv => TypeOK
  BY DEF IInv, TypeOK
<1> QED BY <1>1, <1>2, <1>3, PTL DEF Spec

\* No deal is ever decided without the log row of the person it names: whatever
\* the interleaving of reviewers, lanes and expiry, and wherever handlers die.
THEOREM DecisionsAreAudited == Spec => []AuditedDecision
<1>1. IInv => AuditedDecision
  BY DEF IInv
<1> QED BY <1>1, InvariantIInv, PTL

\* No human_edited value is ever anonymous or missing from the log.
THEOREM EditsAreAudited == Spec => []HumanEditsAudited
<1>1. IInv => HumanEditsAudited
  BY DEF IInv
<1> QED BY <1>1, InvariantIInv, PTL

\* Every row, and every row about to be written, has its evidence on record.
THEOREM RowsAreEvidenceBacked == Spec => []EvidenceBacked
<1>1. IInv => EvidenceBacked
  BY DEF IInv
<1> QED BY <1>1, InvariantIInv, PTL

-----------------------------------------------------------------------------
(* The sink never drops new content.  Two facts about the history make the  *)
(* claim inductive: the content of every row has been covered, and so has   *)
(* the content of the row a lane found, even if that row has been rewritten *)
(* since the lane looked.                                                   *)

RowsCovered == \A d \in DOMAIN deals : <<deals[d].key, HashOf(deals[d])>> \in covered

LanesCovered ==
  \A l \in Lanes : lane[l].stage = "check" =>
    /\ lane[l].found \in DOMAIN evidence
    /\ <<lane[l].key, evidence[lane[l].found].hash>> \in covered

CInv == IInv /\ RowsCovered /\ LanesCovered /\ NoOfferDropped

\* Bundles are written once, and history is only added to.
Grows ==
  /\ \A c \in DOMAIN evidence : c \in DOMAIN evidence' /\ evidence'[c] = evidence[c]
  /\ covered \subseteq covered'

\* The rows keep their content, but for one that is covered as it is written.
LEMMA RowsStayCovered ==
  ASSUME CInv, Grows, IInv',
         \A d \in DOMAIN deals' :
           \/ d \in DOMAIN deals /\ deals'[d].key = deals[d].key /\ deals'[d].capture = deals[d].capture
           \/ <<deals'[d].key, evidence'[deals'[d].capture].hash>> \in covered'
  PROVE  RowsCovered'
BY DEF CInv, IInv, RowsCovered, Grows, HashOf, EvidenceBacked

\* A lane that did not move, or is not comparing, has nothing new to cover.
LEMMA LanesStayCovered ==
  ASSUME CInv, Grows, \A l \in Lanes : lane'[l] = lane[l] \/ lane'[l].stage # "check"
  PROVE  LanesCovered'
BY DEF CInv, LanesCovered, Grows

\* A step that only moves requests on.
LEMMA NothingCovered ==
  ASSUME CInv, IInv', UNCHANGED <<deals, evidence, lane, covered, persisted>>
  PROVE  CInv'
<1>1. Grows
  BY DEF Grows
<1>2. RowsCovered'
  BY <1>1, RowsStayCovered
<1>3. LanesCovered'
  <2>1. \A l \in Lanes : lane'[l] = lane[l]
    OBVIOUS
  <2> QED BY <1>1, <2>1, LanesStayCovered
<1> QED BY <1>2, <1>3 DEF CInv, NoOfferDropped

\* A request's write covers the content it writes.
LEMMA ReviewStepCInv ==
  ASSUME CInv, IInv', NEW r \in Callers, ReviewStep(r)
  PROVE  CInv'
<1> USE DEF CInv
<1>1. UNCHANGED <<lane, persisted>>
  BY DEF ReviewStep, ReadForDecision, StoreManualEvidence, RecordReview, UpdateDeal,
         UpdateStatusRejected, InsertCaptured, RequestFails
<1>2. ASSUME Grows, RowsCovered' PROVE CInv'
  <2>1. \A l \in Lanes : lane'[l] = lane[l]
    BY <1>1
  <2> QED BY <1>1, <1>2, <2>1, LanesStayCovered DEF NoOfferDropped, Grows
<1>3. ASSUME NEW d, NEW row, NEW id,
             deals' = Put(deals, d, row), Cover(row.key, HashOf(row)), UNCHANGED evidence
      PROVE  CInv'
  <2>1. Grows
    BY <1>3 DEF Grows, Cover
  <2>2. /\ deals'[d] = row
        /\ DOMAIN deals' = DOMAIN deals \cup {d}
        /\ \A x \in DOMAIN deals : x # d => deals'[x] = deals[x]
    BY <1>3 DEF Put
  <2>3. RowsCovered'
    BY <1>3, <2>1, <2>2, RowsStayCovered DEF Cover, HashOf
  <2> QED BY <1>2, <2>1, <2>3
<1>4. ASSUME NEW d \in Deals, NEW c \in Captures, StoreManualEvidence(r, d, c) PROVE CInv'
  <2>1. Grows
    BY <1>4 DEF StoreManualEvidence, Grows, StoreEvidence, Put
  <2>2. RowsCovered'
    BY <1>4, <2>1, RowsStayCovered DEF StoreManualEvidence
  <2> QED BY <1>2, <2>1, <2>2
<1>5. ASSUME UpdateDeal(r) PROVE CInv'
  BY <1>3, <1>5, NothingCovered DEF UpdateDeal
<1>6. ASSUME InsertCaptured(r) PROVE CInv'
  <2>1. CASE deals' = deals
    <3>1. Grows
      BY <1>6 DEF InsertCaptured, Cover, Grows
    <3> QED BY <1>2, <2>1, <3>1, RowsStayCovered
  <2>2. CASE deals' = Put(deals, req[r].deal, req[r].row)
    BY <1>3, <1>6, <2>2 DEF InsertCaptured
  <2> QED BY <1>6, <2>1, <2>2 DEF InsertCaptured, InsertDeal
<1>7. ASSUME UpdateStatusRejected(r) PROVE CInv'
  <2> DEFINE d == req[r].deal
             row == Decided(deals[d], "rejected", r)
  <2>1. /\ deals' = Put(deals, d, row)
        /\ UNCHANGED <<evidence, covered>>
        /\ row.key = deals[d].key
        /\ row.capture = deals[d].capture
    BY <1>7 DEF UpdateStatusRejected, Decided
  <2>2. d \in DOMAIN deals
    <3>1. /\ req[r].stage \in {"audited", "rewritten"}
          /\ req[r].stage = "audited" => req[r].act = "reject"
      BY <1>7 DEF UpdateStatusRejected, Logged
    <3>2. req[r] # Idle /\ RequestSound(r)
      BY <3>1, RequestInFlight DEF IInv, RequestsSound
    <3> QED BY <3>1, <3>2 DEF RequestSound, RowExists
  <2>3. Grows
    BY <2>1 DEF Grows
  <2>4. RowsCovered'
    <3>1. /\ deals'[d] = row
          /\ DOMAIN deals' = DOMAIN deals
          /\ \A x \in DOMAIN deals : x # d => deals'[x] = deals[x]
      BY <2>1, <2>2 DEF Put
    <3> HIDE DEF row, d
    <3> QED BY <2>1, <2>2, <2>3, <3>1, RowsStayCovered
  <2> QED BY <1>2, <2>3, <2>4
<1>8. ASSUME UNCHANGED <<deals, evidence, lane, covered, persisted>> PROVE CInv'
  BY <1>8, NothingCovered
<1> QED BY <1>4, <1>5, <1>6, <1>7, <1>8
        DEF ReviewStep, ReadForDecision, RecordReview, RequestFails

\* A lane is done with an offer only once its content is covered.
LEMMA LaneStepCInv ==
  ASSUME CInv, IInv', NEW l \in Lanes, LaneStep(l)
  PROVE  CInv'
<1> USE DEF CInv
<1> DEFINE p == lane[l]
<1>1. lane \in [Lanes -> Pass] /\ IInv /\ TablesOK
  BY DEF IInv, TablesOK
<1>2. ASSUME NextOffer(l, p.key), Grows, UNCHANGED evidence, RowsCovered',
             <<p.key, evidence[p.capture].hash>> \in covered'
      PROVE  CInv'
  <2>1. \A x \in Lanes : lane'[x] = lane[x] \/ lane'[x].stage # "check"
    <3>1. CASE lane' = [lane EXCEPT ![l] = Idle]
      BY <1>1, <3>1 DEF Idle
    <3>2. ASSUME NEW rest, NEW n, lane' = [lane EXCEPT ![l] =
                   Offer("lookup", @.capture, rest, n, @.capture, FALSE)]
          PROVE  \A x \in Lanes : lane'[x] = lane[x] \/ lane'[x].stage # "check"
      BY <1>1, <3>2 DEF Offer
    <3> QED BY <1>2, <3>1, <3>2 DEF NextOffer
  <2>2. NoOfferDropped'
    BY <1>2 DEF NextOffer, NoOfferDropped, Grows
  <2> QED BY <1>2, <2>1, <2>2, LanesStayCovered
<1>3. ASSUME Grows, UNCHANGED <<deals, persisted>>, LanesCovered' PROVE CInv'
  BY <1>3, RowsStayCovered DEF NoOfferDropped, Grows
<1>4. ASSUME NEW c \in Captures, CaptureEvidence(l, c) PROVE CInv'
  <2>1. Grows /\ UNCHANGED <<deals, persisted>>
    BY <1>4 DEF CaptureEvidence, Grows, StoreEvidence, Put
  <2>2. PICK offers \in SUBSET Keys, k \in Keys :
          lane' = [lane EXCEPT ![l] = Offer("lookup", c, offers, k, c, FALSE)]
    BY <1>4 DEF CaptureEvidence
  <2>3. \A x \in Lanes : lane'[x] = lane[x] \/ lane'[x].stage # "check"
    BY <1>1, <2>2 DEF Offer
  <2> QED BY <1>3, <2>1, <2>3, LanesStayCovered
<1>5. ASSUME FindByDedupeKey(l) PROVE CInv'
  <2>1. Grows /\ UNCHANGED <<deals, persisted, evidence, covered>>
    BY <1>5 DEF FindByDedupeKey, Grows
  <2>2. CASE lane' = [lane EXCEPT ![l] =
               Offer("insert", p.capture, p.todo, p.key, p.capture, FALSE)]
    <3>1. \A x \in Lanes : lane'[x] = lane[x] \/ lane'[x].stage # "check"
      BY <1>1, <2>2 DEF Offer
    <3> QED BY <1>3, <2>1, <3>1, LanesStayCovered
  <2>3. ASSUME NEW d \in ByDedupeKey(p.key),
               lane' = [lane EXCEPT ![l] =
                 Offer("check", p.capture, p.todo, p.key, deals[d].capture, FALSE)]
        PROVE  CInv'
    <3>1. /\ d \in DOMAIN deals
          /\ deals[d].key = p.key
          /\ deals[d].capture \in DOMAIN evidence
          /\ <<p.key, evidence[deals[d].capture].hash>> \in covered
      BY <2>3 DEF ByDedupeKey, RowsCovered, HashOf, IInv, EvidenceBacked
    <3>2. /\ lane'[l].key = p.key
          /\ lane'[l].found = deals[d].capture
          /\ \A x \in Lanes : x # l => lane'[x] = lane[x]
      BY <1>1, <2>3 DEF Offer
    <3>3. LanesCovered'
      BY <2>1, <3>1, <3>2 DEF LanesCovered
    <3> QED BY <1>3, <2>1, <3>3
  <2> QED BY <1>5, <2>2, <2>3 DEF FindByDedupeKey
<1>6. ASSUME CheckDuplicate(l) PROVE CInv'
  <2>1. Grows /\ UNCHANGED <<deals, evidence, covered>> /\ p.stage = "check"
    BY <1>6 DEF CheckDuplicate, Grows
  <2>2. CASE /\ lane' = [lane EXCEPT ![l] =
                            Offer("insert", p.capture, p.todo, p.key, p.found, TRUE)]
             /\ UNCHANGED persisted
    <3>1. \A x \in Lanes : lane'[x] = lane[x] \/ lane'[x].stage # "check"
      BY <1>1, <2>2 DEF Offer
    <3> QED BY <1>3, <2>1, <2>2, <3>1, LanesStayCovered
  <2>3. CASE /\ NextOffer(l, p.key)
             /\ QueuedWithHash(p.key, evidence[p.capture].hash) \/ ~ContentDiffers(p)
    <3>1. <<p.key, evidence[p.capture].hash>> \in covered
      <4>1. CASE QueuedWithHash(p.key, evidence[p.capture].hash)
        BY <4>1 DEF QueuedWithHash, RowsCovered
      <4>2. CASE ~ContentDiffers(p)
        BY <2>1, <4>2 DEF ContentDiffers, LanesCovered
      <4> QED BY <2>3, <4>1, <4>2
    <3> QED BY <1>2, <2>1, <2>3, <3>1, RowsStayCovered
  <2> QED BY <1>6, <2>2, <2>3 DEF CheckDuplicate
<1>7. ASSUME NEW d \in Deals, InsertCandidate(l, d) PROVE CInv'
  <2>1. PICK s \in Reviewable : InsertDeal(d, NewRow(s, p.key, p.capture, {}))
    BY <1>7 DEF InsertCandidate, Reviewable
  <2> DEFINE row == NewRow(s, p.key, p.capture, {})
  <2>2. /\ Grows
        /\ UNCHANGED evidence
        /\ <<p.key, evidence[p.capture].hash>> \in covered'
        /\ NextOffer(l, p.key)
        /\ row.key = p.key
        /\ row.capture = p.capture
    BY <1>7 DEF InsertCandidate, Cover, Grows, NewRow
  <2>3. RowsCovered'
    <3>1. CASE deals' = deals
      BY <2>2, <3>1, RowsStayCovered
    <3>2. CASE deals' = Put(deals, d, row)
      <4>1. /\ deals'[d] = row
            /\ DOMAIN deals' = DOMAIN deals \cup {d}
            /\ \A x \in DOMAIN deals : x # d => deals'[x] = deals[x]
        BY <3>2 DEF Put
      <4> HIDE DEF row
      <4> QED BY <2>2, <4>1, RowsStayCovered
    <3> QED BY <2>1, <3>1, <3>2 DEF InsertDeal
  <2> QED BY <1>2, <2>2, <2>3
<1>8. ASSUME PassFails(l) PROVE CInv'
  <2>1. Grows /\ UNCHANGED <<deals, persisted>>
    BY <1>8 DEF PassFails, Grows
  <2>2. \A x \in Lanes : lane'[x] = lane[x] \/ lane'[x].stage # "check"
    BY <1>1, <1>8 DEF PassFails, Idle
  <2> QED BY <1>3, <2>1, <2>2, LanesStayCovered
<1> QED BY <1>4, <1>5, <1>6, <1>7, <1>8 DEF LaneStep

\* Every step keeps every offer of the page covered.
LEMMA NextCInv ==
  ASSUME CInv, [Next]_vars
  PROVE  CInv'
<1>1. IInv'
  BY NextIInv DEF CInv
<1>2. ASSUME NEW u \in Urls, ExpirePublished(u) PROVE CInv'
  <2>1. /\ Grows
        /\ UNCHANGED <<lane, persisted>>
        /\ DOMAIN deals' = DOMAIN deals
        /\ \A d \in DOMAIN deals : deals'[d].key = deals[d].key /\ deals'[d].capture = deals[d].capture
    BY <1>2 DEF ExpirePublished, Grows, Decided
  <2> QED BY <1>1, <2>1, RowsStayCovered, LanesStayCovered DEF CInv, NoOfferDropped, Grows
<1>3. CASE UNCHANGED vars
  BY <1>1, <1>3, NothingCovered DEF vars
<1> QED BY <1>1, <1>2, <1>3, ReviewStepCInv, LaneStepCInv DEF Next

\* An offer a lane is done with is, or was, a row of its route with exactly the
\* content captured: no interleaving of edits, decisions and lanes drops one.
THEOREM NoOfferIsDropped == Spec => []NoOfferDropped
<1>1. Init => CInv
  BY InitIInv DEF Init, CInv, RowsCovered, LanesCovered, NoOfferDropped, Idle
<1>2. CInv /\ [Next]_vars => CInv'
  BY NextCInv
<1>3. CInv => NoOfferDropped
  BY DEF CInv
<1> QED BY <1>1, <1>2, <1>3, PTL DEF Spec

-----------------------------------------------------------------------------
(* The abstract life cycle is implemented, whoever works at the same time    *)
(* and whatever is repeated.  A request at work on a row it found waiting is *)
(* what the promise calls open; RowDecided and RowLogged say that all it can *)
(* still write is what it set out to, an approval only once logged.          *)

StatusMap == [d \in Deals |-> StatusOf(d)]

Approvals == {<<x.deal, x.by>> : x \in {y \in reviews : y.action = "approve"}}

Opens == {<<req[r].deal, r, AuditedAs(req[r].act)>> : r \in Deciding}

Working(r) == req[r] # Idle /\ req[r].act # "capture"

Mark(r) == <<req[r].deal, r, AuditedAs(req[r].act)>>

OthersAsWere(r) == \A x \in Callers : x # r => req'[x] = req[x]

\* What is open, request by request.
LEMMA OpensForm == \A z : z \in Opens <=> \E r \in Callers : Working(r) /\ z = Mark(r)
BY DEF Opens, Deciding, Working, Mark

\* A request that stays at the same work leaves what is open alone.
LEMMA OpensStay ==
  ASSUME NEW r \in Callers, OthersAsWere(r), Working(r)' <=> Working(r), Working(r) => Mark(r)' = Mark(r)
  PROVE  Opens' = Opens
<1>1. \A x \in Callers : (Working(x)' <=> Working(x)) /\ (Working(x) => Mark(x)' = Mark(x))
  BY DEF OthersAsWere, Working, Mark
<1>2. \A z : z \in Opens' <=> \E x \in Callers : Working(x)' /\ z = Mark(x)'
  BY DEF Opens, Deciding, Working, Mark
<1> QED BY <1>1, <1>2, OpensForm

\* A request that takes up a deal opens it, and nothing of his was open.
LEMMA OpensOpen ==
  ASSUME NEW r \in Callers, OthersAsWere(r), ~Working(r), Working(r)'
  PROVE  Opens' = Opens \cup {Mark(r)'} /\ \A z \in Opens : z[2] # r
<1>1. \A x \in Callers : x # r => (Working(x)' <=> Working(x)) /\ Mark(x)' = Mark(x)
  BY DEF OthersAsWere, Working, Mark
<1>2. \A z : z \in Opens' <=> \E x \in Callers : Working(x)' /\ z = Mark(x)'
  BY DEF Opens, Deciding, Working, Mark
<1>3. \A z \in Opens : z[2] # r
  BY OpensForm DEF Mark
<1>4. \A z : z \in Opens' <=> z \in Opens \/ z = Mark(r)'
  BY <1>1, <1>2, OpensForm
<1> QED BY <1>3, <1>4

\* A request that ends closes what it had open, and only that.
LEMMA OpensClose ==
  ASSUME NEW r \in Callers, OthersAsWere(r), Working(r), ~Working(r)'
  PROVE  Opens' = Opens \ {Mark(r)}
<1>1. \A x \in Callers : x # r => (Working(x)' <=> Working(x)) /\ Mark(x)' = Mark(x) /\ Mark(x) # Mark(r)
  BY DEF OthersAsWere, Working, Mark
<1>2. \A z : z \in Opens' <=> \E x \in Callers : Working(x)' /\ z = Mark(x)'
  BY DEF Opens, Deciding, Working, Mark
<1>3. \A z : z \in Opens' <=> z \in Opens /\ z # Mark(r)
  BY <1>1, <1>2, OpensForm
<1> QED BY <1>3

\* What leaves the status of every deal, the approvals and the work alone.
LEMMA PromiseStutters ==
  ASSUME StatusMap' = StatusMap, Approvals' = Approvals, Opens' = Opens
  PROVE  UNCHANGED Promise!vars
BY DEF Promise!vars, StatusMap, Approvals, Opens

\* One deal changes its status, the others keep theirs.
LEMMA StatusMoves ==
  ASSUME NEW d \in Deals, \A x \in Deals \ {d} : StatusOf(x)' = StatusOf(x)
  PROVE  StatusMap' = [StatusMap EXCEPT ![d] = StatusOf(d)']
BY DEF StatusMap

\* A row written over one that exists, or added.
LEMMA PutStatus ==
  ASSUME TablesOK, NEW d \in Deals, NEW row, deals' = Put(deals, d, row)
  PROVE  /\ StatusOf(d)' = IF row.status \in Reviewable THEN "queued" ELSE row.status
         /\ \A x \in Deals \ {d} : StatusOf(x)' = StatusOf(x)
BY DEF Put, StatusOf, TablesOK

\* A new row enters the queue or is dropped.
LEMMA InsertQueues ==
  ASSUME TablesOK, NEW d \in Deals, NEW row, row.status \in Reviewable, InsertDeal(d, row),
         Approvals' = Approvals, Opens' = Opens
  PROVE  [Promise!Next]_(Promise!vars)
<1>1. CASE deals' = deals
  <2>1. StatusMap' = StatusMap
    BY <1>1 DEF StatusMap, StatusOf
  <2> QED BY <2>1, PromiseStutters
<1>2. CASE d \notin DOMAIN deals /\ deals' = Put(deals, d, row)
  <2>1. StatusOf(d) = "absent" /\ StatusOf(d)' = "queued" /\ \A x \in Deals \ {d} : StatusOf(x)' = StatusOf(x)
    BY <1>2, PutStatus DEF StatusOf
  <2>2. StatusMap[d] = "absent" /\ StatusMap' = [StatusMap EXCEPT ![d] = "queued"]
    BY <2>1, StatusMoves DEF StatusMap
  <2>3. Promise!Queue(d)
    BY <2>2 DEF Promise!Queue, StatusMap, Approvals, Opens
  <2> QED BY <2>3 DEF Promise!Next
<1> QED BY <1>1, <1>2 DEF InsertDeal

\* Reading a deal for a decision begins work on it.
LEMMA ReadPromised ==
  ASSUME IInv, NEW r \in Callers, NEW d \in DOMAIN deals, NEW act \in Acts \ {"capture"}, ReadForDecision(r, act, d)
  PROVE  [Promise!Next]_(Promise!vars)
<1>1. PICK row : req' = [req EXCEPT ![r] = At("read", act, d, row)]
  BY DEF ReadForDecision
<1>2. /\ req \in [Callers -> Request] /\ d \in Deals /\ r \in Reviewers /\ req[r] = Idle
      /\ deals[d].status \in Reviewable /\ UNCHANGED <<deals, reviews>>
  BY DEF IInv, TablesOK, ReadForDecision, MayDecide, Callers
<1>3. OthersAsWere(r) /\ req'[r] = At("read", act, d, row)
  BY <1>1, <1>2 DEF OthersAsWere
<1>4. At("read", act, d, row).act = act /\ At("read", act, d, row).deal = d
      /\ At("read", act, d, row) # Idle
  <2>1. At("read", act, d, row).stage = "read" /\ Idle.stage = "idle"
    BY DEF At, Idle
  <2>2. At("read", act, d, row).act = act /\ At("read", act, d, row).deal = d
    BY DEF At
  <2> QED BY <2>1, <2>2
<1>5. ~Working(r) /\ Working(r)' /\ Mark(r)' = <<d, r, AuditedAs(act)>>
  BY <1>2, <1>3, <1>4 DEF Working, Mark, AuditedAs
<1>6. Opens' = Opens \cup {<<d, r, AuditedAs(act)>>} /\ \A z \in Opens : z[2] # r
  BY <1>3, <1>5, OpensOpen
<1>7. StatusMap[d] = "queued" /\ StatusMap' = StatusMap /\ Approvals' = Approvals
  BY <1>2 DEF StatusMap, StatusOf, Approvals
<1>8. PICK w \in Promise!Words : w = AuditedAs(act)
  BY DEF AuditedAs, Promise!Words
<1>9. Promise!Begin(d, r, w)
  BY <1>6, <1>7, <1>8 DEF Promise!Begin, StatusMap, Approvals, Opens
<1> QED BY <1>2, <1>9 DEF Promise!Next

\* A decision that is carried out, for the first time or once more.
LEMMA Completed ==
  ASSUME NEW d \in Deals, NEW r \in Reviewers, NEW w \in Promise!Words, <<d, r, w>> \in Opens,
         w = "approve" => <<d, r>> \in Approvals,
         StatusOf(d)' = Promise!Final[w], \A x \in Deals \ {d} : StatusOf(x)' = StatusOf(x),
         Opens' = Opens \ {<<d, r, w>>} \/ (LostAcks /\ Opens' = Opens), Approvals' = Approvals
  PROVE  [Promise!Next]_(Promise!vars)
<1>1. StatusMap' = [StatusMap EXCEPT ![d] = Promise!Final[w]]
  BY StatusMoves
<1>2. Promise!Complete(d, r, w)
  BY <1>1 DEF Promise!Complete, StatusMap, Approvals, Opens
<1> QED BY <1>2 DEF Promise!Next

\* A request that is given up.
LEMMA GivenUp ==
  ASSUME IInv, NEW r \in Callers, req[r] # Idle, req' = [req EXCEPT ![r] = Idle], UNCHANGED <<deals, reviews>>
  PROVE  [Promise!Next]_(Promise!vars)
<1>1. req[r] \in InFlight /\ RequestSound(r) /\ req \in [Callers -> Request]
  BY RequestInFlight DEF IInv, RequestsSound, TablesOK
<1>2. OthersAsWere(r) /\ req'[r] = Idle
  BY <1>1 DEF OthersAsWere
<1>3. StatusMap' = StatusMap /\ Approvals' = Approvals
  BY DEF StatusMap, StatusOf, Approvals
<1>4. CASE req[r].act = "capture"
  <2>1. ~Working(r) /\ ~Working(r)'
    BY <1>2, <1>4 DEF Working
  <2> QED BY <1>2, <1>3, <2>1, OpensStay, PromiseStutters
<1>5. CASE req[r].act # "capture"
  <2>1. Working(r) /\ ~Working(r)'
    BY <1>2, <1>5 DEF Working
  <2>2. PICK d \in Deals, w \in Promise!Words : d = req[r].deal /\ w = AuditedAs(req[r].act)
    BY <1>1 DEF InFlight, AuditedAs, Promise!Words
  <2>3. <<d, r, w>> \in Opens /\ Opens' = Opens \ {<<d, r, w>>}
    BY <1>2, <2>1, <2>2, OpensForm, OpensClose DEF Mark
  <2>4. Promise!GiveUp(d, r, w)
    BY <1>3, <2>3 DEF Promise!GiveUp, StatusMap, Approvals, Opens
  <2> QED BY <1>1, <2>4 DEF Promise!Next, RequestSound
<1> QED BY <1>4, <1>5

\* Logging an approval is the approval; logging anything else is no step.
LEMMA RecordPromised ==
  ASSUME IInv, NEW r \in Callers, RecordReview(r)
  PROVE  [Promise!Next]_(Promise!vars)
<1> DEFINE q == req[r]
<1>1. q # Idle /\ q \in InFlight /\ RequestSound(r) /\ req \in [Callers -> Request]
  BY RequestInFlight DEF RecordReview, IInv, RequestsSound, TablesOK
<1>2. /\ UNCHANGED deals /\ req' = [req EXCEPT ![r] = Advance(q, "audited")]
      /\ reviews' = reviews \cup {[deal |-> q.deal, action |-> AuditedAs(q.act), by |-> r]}
  BY DEF RecordReview
<1>3. OthersAsWere(r) /\ req'[r] # Idle /\ req'[r].act = q.act /\ req'[r].deal = q.deal
  <2>1. OthersAsWere(r) /\ req'[r] = Advance(q, "audited")
    BY <1>1, <1>2 DEF OthersAsWere
  <2>2. Advance(q, "audited").stage = "audited" /\ Idle.stage = "idle"
        /\ Advance(q, "audited").act = q.act /\ Advance(q, "audited").deal = q.deal
    BY DEF Advance, At, Idle
  <2> QED BY <2>1, <2>2
<1>4. Opens' = Opens
  BY <1>1, <1>3, OpensStay DEF Working, Mark
<1>5. StatusMap' = StatusMap
  BY <1>2 DEF StatusMap, StatusOf
<1>6. PICK d \in Deals : d = q.deal
  BY <1>1 DEF InFlight
<1>7. CASE q.act = "approve"
  <2>1. r \in Reviewers /\ <<d, r, "approve">> \in Opens
    <3>1. Working(r) /\ Mark(r) = <<d, r, "approve">> /\ r \in Reviewers
      BY <1>1, <1>6, <1>7 DEF Working, Mark, AuditedAs, RequestSound
    <3> QED BY <3>1, OpensForm
  <2>2. Approvals' = Approvals \cup {<<d, r>>}
    <3>1. reviews' = reviews \cup {[deal |-> d, action |-> "approve", by |-> r]}
      BY <1>2, <1>6, <1>7 DEF AuditedAs
    <3>2. PICK n : n = [deal |-> d, action |-> "approve", by |-> r]
      OBVIOUS
    <3>3. n.deal = d /\ n.action = "approve" /\ n.by = r /\ reviews' = reviews \cup {n}
      BY <3>1, <3>2
    <3>4. \A z : z \in Approvals' <=> z \in Approvals \cup {<<n.deal, n.by>>}
      <4>1. \A y : y \in reviews' /\ y.action = "approve" <=> (y \in reviews /\ y.action = "approve") \/ y = n
        BY <3>3
      <4>2. \A z : z \in Approvals' <=> \E y : y \in reviews' /\ y.action = "approve" /\ z = <<y.deal, y.by>>
        BY DEF Approvals
      <4>3. \A z : z \in Approvals <=> \E y : y \in reviews /\ y.action = "approve" /\ z = <<y.deal, y.by>>
        BY DEF Approvals
      <4> QED BY <4>1, <4>2, <4>3
    <3> QED BY <3>3, <3>4
  <2>3. Promise!Approve(d, r)
    BY <1>4, <1>5, <2>1, <2>2 DEF Promise!Approve, StatusMap, Approvals, Opens
  <2> QED BY <2>1, <2>3 DEF Promise!Next
<1>8. CASE q.act # "approve"
  <2>1. AuditedAs(q.act) # "approve"
    BY <1>8 DEF AuditedAs
  <2>2. Approvals' = Approvals
    BY <1>2, <2>1 DEF Approvals
  <2> QED BY <1>4, <1>5, <2>2, PromiseStutters
<1> QED BY <1>7, <1>8

\* The answer of a last write closes the work, or is lost and it stays open.
LEMMA AnsweredOpens ==
  ASSUME IInv, NEW r \in Callers, Working(r), Answered(r, Idle)
  PROVE  Opens' = Opens \ {Mark(r)} \/ (LostAcks /\ Opens' = Opens)
<1>1. req \in [Callers -> Request]
  BY DEF IInv, TablesOK
<1>2. CASE req' = [req EXCEPT ![r] = Idle]
  <2>1. OthersAsWere(r) /\ ~Working(r)'
    BY <1>1, <1>2 DEF OthersAsWere, Working
  <2> QED BY <2>1, OpensClose
<1>3. CASE LostAcks /\ UNCHANGED req
  BY <1>3 DEF Opens, Deciding
<1> QED BY <1>2, <1>3 DEF Answered

\* The whole-row write is the publication, the correction, or the write-back.
LEMMA UpdatePromised ==
  ASSUME IInv, NEW r \in Callers, UpdateDeal(r)
  PROVE  [Promise!Next]_(Promise!vars)
<1> DEFINE q == req[r]
<1>1. /\ q # Idle /\ q \in InFlight /\ RequestSound(r) /\ req \in [Callers -> Request] /\ TablesOK
      /\ q.stage = "audited" /\ q.act \in {"approve", "edit", "rejectWithReason"}
  BY RequestInFlight DEF UpdateDeal, Logged, IInv, RequestsSound, TablesOK
<1>2. UNCHANGED reviews /\ Approvals' = Approvals
  BY DEF UpdateDeal, Approvals
<1>3. CASE req' = [req EXCEPT ![r] = Idle] /\ UNCHANGED deals
  BY <1>1, <1>2, <1>3, GivenUp
<1>4. CASE /\ deals' = Put(deals, q.deal, q.row)
           /\ Answered(r, IF q.act = "rejectWithReason" THEN Advance(q, "rewritten") ELSE Idle)
  <2>1. PICK d \in Deals, row \in DealRow : d = q.deal /\ row = q.row
    BY <1>1 DEF InFlight
  <2>2. /\ r \in Reviewers /\ d \in DOMAIN deals /\ Working(r) /\ Mark(r) = <<d, r, AuditedAs(q.act)>>
        /\ q.act = "approve" => row.status = "published"
        /\ q.act # "approve" => row.status \in Reviewable
    BY <1>1, <2>1 DEF RequestSound, RowExists, RowDecided, Working, Mark
  <2>3. /\ StatusOf(d)' = IF row.status \in Reviewable THEN "queued" ELSE row.status
        /\ \A x \in Deals \ {d} : StatusOf(x)' = StatusOf(x)
    BY <1>1, <1>4, <2>1, PutStatus
  <2>4. <<d, r, AuditedAs(q.act)>> \in Opens
    BY <2>2, OpensForm
  <2>5. CASE q.act = "approve"
    <3>1. <<d, r>> \in Approvals
      BY <1>1, <2>1, <2>5 DEF RequestSound, RowLogged, AuditedAs, Approvals
    <3>2. AuditedAs(q.act) = "approve" /\ "approve" \in Promise!Words /\ Promise!Final["approve"] = "published"
      BY <2>5 DEF AuditedAs, Promise!Words, Promise!Final
    <3>3. StatusOf(d)' = "published"
      BY <2>2, <2>3, <2>5 DEF Reviewable
    <3>4. Opens' = Opens \ {<<d, r, "approve">>} \/ (LostAcks /\ Opens' = Opens)
      BY <1>4, <2>2, <2>5, <3>2, AnsweredOpens
    <3> QED BY <1>2, <2>2, <2>3, <2>4, <3>1, <3>2, <3>3, <3>4, Completed
  <2>6. CASE q.act = "edit"
    <3>1. AuditedAs(q.act) = "edit" /\ "edit" \in Promise!Words /\ Promise!Final["edit"] = "queued"
      BY <2>6 DEF AuditedAs, Promise!Words, Promise!Final
    <3>2. StatusOf(d)' = "queued"
      BY <2>2, <2>3, <2>6
    <3>3. Opens' = Opens \ {<<d, r, "edit">>} \/ (LostAcks /\ Opens' = Opens)
      BY <1>4, <2>2, <2>6, <3>1, AnsweredOpens
    <3> QED BY <1>2, <2>2, <2>3, <2>4, <3>1, <3>2, <3>3, Completed
  <2>7. CASE q.act = "rejectWithReason"
    <3>1. <<d, r, "reject">> \in Opens
      BY <2>4, <2>7 DEF AuditedAs
    <3>2. StatusMap' = [StatusMap EXCEPT ![d] = "queued"]
      BY <2>2, <2>3, <2>7, StatusMoves
    <3>3. OthersAsWere(r) /\ req'[r] \in {q, Advance(q, "rewritten")}
      BY <1>1, <1>4, <2>7 DEF Answered, OthersAsWere
    <3>4. req'[r] # Idle /\ req'[r].act = q.act /\ req'[r].deal = q.deal
      <4>1. Advance(q, "rewritten").stage = "rewritten" /\ Idle.stage = "idle"
            /\ Advance(q, "rewritten").act = q.act /\ Advance(q, "rewritten").deal = q.deal
        BY DEF Advance, At, Idle
      <4> QED BY <1>1, <3>3, <4>1
    <3>5. Opens' = Opens
      BY <1>1, <3>3, <3>4, OpensStay DEF Working, Mark
    <3>6. Promise!WriteBack(d, r)
      BY <1>2, <3>1, <3>2, <3>5 DEF Promise!WriteBack, StatusMap, Approvals, Opens
    <3> QED BY <2>2, <3>6 DEF Promise!Next
  <2> QED BY <1>1, <2>5, <2>6, <2>7
<1> QED BY <1>3, <1>4 DEF UpdateDeal

\* The status write of a rejection.
LEMMA RejectPromised ==
  ASSUME IInv, NEW r \in Callers, UpdateStatusRejected(r)
  PROVE  [Promise!Next]_(Promise!vars)
<1> DEFINE q == req[r]
<1>1. /\ q # Idle /\ q \in InFlight /\ RequestSound(r) /\ TablesOK
      /\ q.act \in {"reject", "rejectWithReason"}
  BY RequestInFlight DEF UpdateStatusRejected, Logged, IInv, RequestsSound, RequestSound, RowExists
<1>2. /\ deals' = Put(deals, q.deal, Decided(deals[q.deal], "rejected", r))
      /\ UNCHANGED reviews /\ Answered(r, Idle) /\ Approvals' = Approvals
  BY DEF UpdateStatusRejected, Approvals
<1>3. PICK d, row : d \in Deals /\ d = q.deal /\ row = Decided(deals[q.deal], "rejected", r)
  BY <1>1 DEF InFlight
<1>4. row.status = "rejected" /\ "rejected" \notin Reviewable
  BY <1>3 DEF Decided, Reviewable
<1>5. StatusOf(d)' = "rejected" /\ \A x \in Deals \ {d} : StatusOf(x)' = StatusOf(x)
  BY <1>1, <1>2, <1>3, <1>4, PutStatus
<1>6. r \in Reviewers /\ Working(r) /\ Mark(r) = <<d, r, "reject">>
  BY <1>1, <1>3 DEF RequestSound, Working, Mark, AuditedAs
<1>7. /\ <<d, r, "reject">> \in Opens
      /\ Opens' = Opens \ {<<d, r, "reject">>} \/ (LostAcks /\ Opens' = Opens)
  BY <1>2, <1>6, OpensForm, AnsweredOpens
<1>8. "reject" \in Promise!Words /\ Promise!Final["reject"] = "rejected"
  BY DEF Promise!Words, Promise!Final
<1> QED BY <1>2, <1>3, <1>5, <1>6, <1>7, <1>8, Completed

\* A manual capture: the evidence is nothing to the promise, the row queues.
LEMMA CapturePromised ==
  ASSUME IInv, NEW r \in Callers,
         InsertCaptured(r) \/ \E d \in Deals, c \in Captures : StoreManualEvidence(r, d, c)
  PROVE  [Promise!Next]_(Promise!vars)
<1>0. req \in [Callers -> Request] /\ TablesOK
  BY DEF IInv, TablesOK
<1>1. CASE InsertCaptured(r)
  <2>1. req[r] # Idle /\ req[r] \in InFlight /\ req[r].act = "capture" /\ RequestSound(r)
    BY <1>1, RequestInFlight DEF InsertCaptured, Logged, IInv, RequestsSound
  <2>2. /\ InsertDeal(req[r].deal, req[r].row) /\ UNCHANGED reviews /\ req' = [req EXCEPT ![r] = Idle]
        /\ Approvals' = Approvals
    BY <1>1 DEF InsertCaptured, Approvals
  <2>3. req[r].deal \in Deals /\ req[r].row.status \in Reviewable
    BY <2>1 DEF RequestSound, RowDecided, InFlight
  <2>4. OthersAsWere(r) /\ ~Working(r) /\ ~Working(r)'
    BY <1>0, <2>1, <2>2 DEF OthersAsWere, Working
  <2>5. Opens' = Opens
    BY <2>4, OpensStay
  <2> QED BY <1>0, <2>2, <2>3, <2>5, InsertQueues
<1>2. ASSUME NEW d \in Deals, NEW c \in Captures, StoreManualEvidence(r, d, c)
      PROVE  [Promise!Next]_(Promise!vars)
  <2>1. PICK row : req' = [req EXCEPT ![r] = At("read", "capture", d, row)]
    BY <1>2 DEF StoreManualEvidence
  <2>2. OthersAsWere(r) /\ ~Working(r) /\ ~Working(r)'
    BY <1>0, <1>2, <2>1 DEF OthersAsWere, Working, StoreManualEvidence, At
  <2>3. StatusMap' = StatusMap /\ Approvals' = Approvals
    BY <1>2 DEF StoreManualEvidence, StatusMap, StatusOf, Approvals
  <2> QED BY <2>2, <2>3, OpensStay, PromiseStutters
<1> QED BY <1>1, <1>2

\* Lanes add to the queue, and the monitor takes down what is published.
LEMMA OthersPromised ==
  ASSUME IInv, (\E l \in Lanes : LaneStep(l)) \/ \E u \in Urls : ExpirePublished(u)
  PROVE  [Promise!Next]_(Promise!vars)
<1>0. TablesOK /\ req' = req /\ UNCHANGED reviews
  BY DEF IInv, LaneStep, CaptureEvidence, FindByDedupeKey, CheckDuplicate, InsertCandidate, PassFails,
     ExpirePublished
<1>1. Approvals' = Approvals /\ Opens' = Opens
  BY <1>0 DEF Approvals, Opens, Deciding
<1>2. ASSUME NEW l \in Lanes, NEW d \in Deals, InsertCandidate(l, d)
      PROVE  [Promise!Next]_(Promise!vars)
  <2>1. PICK s \in Reviewable : InsertDeal(d, NewRow(s, lane[l].key, lane[l].capture, {}))
    BY <1>2 DEF InsertCandidate, Reviewable
  <2>2. NewRow(s, lane[l].key, lane[l].capture, {}).status \in Reviewable
    BY DEF NewRow
  <2> QED BY <1>0, <1>1, <2>1, <2>2, InsertQueues
<1>3. CASE UNCHANGED deals
  <2>1. StatusMap' = StatusMap
    BY <1>3 DEF StatusMap, StatusOf
  <2> QED BY <1>1, <2>1, PromiseStutters
<1>4. ASSUME NEW u \in Urls, ExpirePublished(u)
      PROVE  [Promise!Next]_(Promise!vars)
  <2> DEFINE S == {d \in DOMAIN deals : deals[d].status = "published" /\ evidence[deals[d].capture].url = u}
  <2>1. /\ DOMAIN deals' = DOMAIN deals
        /\ \A d \in DOMAIN deals : deals'[d].status = IF d \in S THEN "expired" ELSE deals[d].status
    BY <1>4 DEF ExpirePublished, Decided
  <2>2. /\ S \in SUBSET Deals
        /\ \A d \in Deals : StatusOf(d)' = IF d \in S THEN "expired" ELSE StatusOf(d)
        /\ \A d \in S : StatusOf(d) = "published"
    BY <1>0, <2>1 DEF StatusOf, Reviewable, TablesOK
  <2> HIDE DEF S
  <2>3. Promise!Expire(S)
    BY <1>1, <2>2 DEF Promise!Expire, Approvals, Opens
  <2> QED BY <2>2, <2>3 DEF Promise!Next
<1>5. UNCHANGED deals \/ (\E l \in Lanes, d \in Deals : InsertCandidate(l, d)) \/ \E u \in Urls : ExpirePublished(u)
  BY DEF LaneStep, CaptureEvidence, FindByDedupeKey, CheckDuplicate, PassFails
<1> QED BY <1>2, <1>3, <1>4, <1>5

LEMMA PromiseStep ==
  ASSUME IInv, [Next]_vars
  PROVE  [Promise!Next]_(Promise!vars)
<1>1. CASE UNCHANGED vars
  <2>1. StatusMap' = StatusMap /\ Approvals' = Approvals /\ Opens' = Opens
    BY <1>1 DEF vars, StatusMap, StatusOf, Approvals, Opens, Deciding
  <2> QED BY <2>1, PromiseStutters
<1>2. ASSUME NEW r \in Callers, ReviewStep(r)
      PROVE  [Promise!Next]_(Promise!vars)
  <2>1. CASE RequestFails(r)
    BY <2>1, GivenUp DEF RequestFails
  <2> QED BY <1>2, <2>1, ReadPromised, RecordPromised, UpdatePromised, RejectPromised, CapturePromised DEF ReviewStep
<1> QED BY <1>1, <1>2, OthersPromised DEF Next

\* Handlers, lanes and the monitor together implement the life cycle that was
\* promised, for any number of reviewers at once and whatever UPDATE is run
\* again: whoever changes what a deal is found it in the queue and makes it what
\* he set out to, a published one under his own logged approval; a decided deal
\* nobody is at work on stays decided, and only the monitor takes it down.
THEOREM PromiseIsKept == Spec => LifecycleKept
<1>1. Init => Promise!Init
  BY DEF Init, Promise!Init, StatusOf, Deciding
<1>2. IInv /\ [Next]_vars => [Promise!Next]_(Promise!vars)
  BY PromiseStep
<1> QED BY <1>1, <1>2, InvariantIInv, PTL DEF Spec, LifecycleKept, Promise!Spec

-----------------------------------------------------------------------------
(* No twins queue.  A row that waits, that nobody has corrected and that is   *)
(* not doubtful is only added by a lane nothing appeared behind: what such a  *)
(* lane saw missing is still missing when it inserts.  A write-back that does *)
(* not make its row doubtful carries the key and the capture the row has.     *)

Clear(d) == d \notin doubtful /\ deals[d].status \in Reviewable /\ deals[d].edits = {}

TwinFree ==
  \A d, x \in DOMAIN deals :
    Clear(d) /\ Clear(x) /\ deals[d].key = deals[x].key /\ HashOf(deals[d]) = HashOf(deals[x]) => d = x

\* No clear row reports what a lane is about to insert.
LaneClear(l) ==
  lane[l].stage = "insert" =>
    \A d \in DOMAIN deals :
      Clear(d) /\ deals[d].key = lane[l].key => HashOf(deals[d]) # evidence[lane[l].capture].hash

LanesClear == \A l \in Lanes \ overtaken : LaneClear(l)

\* A request's copy of a clear row is of its route and page, or is corrected.
CopyCurrent(r) ==
  LET row == req[r].row  d == req[r].deal IN
  /\ req[r].act \in {"edit", "capture"} => row.edits # {}
  /\ req[r].act # "capture" /\ Clear(d) /\ row.edits = {} =>
       row.key = deals[d].key /\ row.capture = deals[d].capture

CopiesCurrent == \A r \in Callers : req[r] # Idle => CopyCurrent(r)

TInv == IInv /\ TwinFree /\ LanesClear /\ CopiesCurrent

\* No row becomes clear, and the clear ones keep their key and capture.
NoneAdded ==
  \A d \in DOMAIN deals' :
    Clear(d)' => /\ d \in DOMAIN deals /\ Clear(d)
                 /\ deals'[d].key = deals[d].key /\ deals'[d].capture = deals[d].capture

BundlesStay == \A c \in DOMAIN evidence : c \in DOMAIN evidence' /\ evidence'[c] = evidence[c]

\* What the history records of a step.
LEMMA WhatIsNoted ==
  ASSUME Noted
  PROVE  /\ doubtful \subseteq doubtful'
         /\ \A d \in DOMAIN deals : BroughtBack(d) => d \in doubtful'
         /\ \A l \in Lanes \ overtaken' : lane[l].stage = "insert" /\ lane'[l] = lane[l] =>
              /\ l \notin overtaken
              /\ \A d \in DOMAIN deals' \ DOMAIN deals :
                   ~(/\ deals'[d].edits = {} /\ deals'[d].key = lane[l].key
                     /\ evidence[deals'[d].capture].hash = evidence[lane[l].capture].hash)
         /\ \A l \in overtaken : lane'[l] # lane[l] =>
              \A d \in DOMAIN deals' \ DOMAIN deals : deals'[d].edits = {} => d \in doubtful'
BY DEF Noted

\* Then there is no new twin, and a lane that waits finds what it found.
LEMMA NoNewTwin ==
  ASSUME IInv, TwinFree, NoneAdded, BundlesStay
  PROVE  TwinFree'
BY DEF IInv, EvidenceBacked, TwinFree, NoneAdded, BundlesStay, HashOf

LEMMA LaneStaysClear ==
  ASSUME IInv, LanesClear, NoneAdded, BundlesStay, Noted, NEW l \in Lanes \ overtaken', lane'[l] = lane[l]
  PROVE  LaneClear(l)'
<1> SUFFICES ASSUME lane[l].stage = "insert" PROVE LaneClear(l)'
  BY DEF LaneClear
<1>1. lane[l].capture \in DOMAIN evidence
  BY LaneRunning DEF IInv, EvidenceBacked
<1>2. LaneClear(l)
  BY WhatIsNoted DEF LanesClear
<1> QED BY <1>1, <1>2 DEF IInv, EvidenceBacked, LaneClear, NoneAdded, BundlesStay, HashOf

\* A copy that stays in flight stays current.
LEMMA CopyStays ==
  ASSUME IInv, CopiesCurrent, NoneAdded, DOMAIN deals \subseteq DOMAIN deals',
         NEW r \in Callers, req[r] # Idle,
         req'[r].act = req[r].act, req'[r].deal = req[r].deal, req'[r].row = req[r].row
  PROVE  CopyCurrent(r)'
<1>1. req[r].act # "capture" => req[r].deal \in DOMAIN deals
  BY DEF IInv, RequestsSound, RequestSound, RowExists
<1> QED BY <1>1 DEF CopiesCurrent, CopyCurrent, NoneAdded

\* Every request's copy is current after a step of one of them.
LEMMA CopiesStay ==
  ASSUME IInv, CopiesCurrent, NoneAdded, DOMAIN deals \subseteq DOMAIN deals', NEW r \in Callers, ReviewStep(r)
  PROVE  CopiesCurrent'
<1>0. req \in [Callers -> Request]
  BY DEF IInv, TablesOK
<1>1. CASE \E d \in DOMAIN deals, act \in Acts \ {"capture"} : ReadForDecision(r, act, d)
  <2>1. PICK d \in DOMAIN deals, act \in Acts \ {"capture"} : ReadForDecision(r, act, d)
    BY <1>1
  <2>2. PICK row \in Written(act, r, deals[d]) : req' = [req EXCEPT ![r] = At("read", act, d, row)]
    BY <2>1 DEF ReadForDecision
  <2>3. /\ act = "edit" => row.edits # {}
        /\ act # "edit" => row.key = deals[d].key /\ row.capture = deals[d].capture
    BY <2>2 DEF Written, Corrected, Decided
  <2>4. /\ req'[r].deal = d /\ req'[r].act = act /\ req'[r].row = row /\ UNCHANGED deals
        /\ \A x \in Callers : x # r => req'[x] = req[x]
    BY <1>0, <2>1, <2>2 DEF At, ReadForDecision
  <2>5. CopyCurrent(r)'
    BY <2>3, <2>4 DEF CopyCurrent
  <2> QED BY <2>4, <2>5, CopyStays DEF CopiesCurrent
<1>2. CASE \E d \in Deals, c \in Captures : StoreManualEvidence(r, d, c)
  <2>1. PICK d, s, k, c : req' = [req EXCEPT ![r] = At("read", "capture", d, NewRow(s, k, c, {r}))]
    BY <1>2 DEF StoreManualEvidence
  <2>2. req'[r].act = "capture" /\ req'[r].row.edits # {} /\ \A x \in Callers : x # r => req'[x] = req[x]
    BY <1>0, <2>1 DEF At, NewRow
  <2>3. CopyCurrent(r)'
    BY <2>2 DEF CopyCurrent
  <2> QED BY <2>2, <2>3, CopyStays DEF CopiesCurrent
<1>3. CASE RecordReview(r) \/ UpdateDeal(r) \/ UpdateStatusRejected(r) \/ InsertCaptured(r) \/ RequestFails(r)
  <2>1. \E y \in {Idle, req[r], Advance(req[r], "audited"), Advance(req[r], "rewritten")} : req' = [req EXCEPT ![r] = y]
    BY <1>0, <1>3 DEF RecordReview, UpdateDeal, UpdateStatusRejected, InsertCaptured, RequestFails, Answered
  <2>2. req[r] # Idle
    BY <1>0, <1>3, RequestInFlight
       DEF RecordReview, UpdateDeal, UpdateStatusRejected, InsertCaptured, RequestFails, Logged, IInv
  <2>3. \A x \in Callers : req'[x] # Idle =>
          req[x] # Idle /\ req'[x].act = req[x].act /\ req'[x].deal = req[x].deal /\ req'[x].row = req[x].row
    BY <1>0, <2>1, <2>2 DEF Advance, At
  <2> QED BY <2>3, CopyStays DEF CopiesCurrent
<1> QED BY <1>1, <1>2, <1>3 DEF ReviewStep

\* No step of the review API makes a row clear.
LEMMA ReviewAddsNone ==
  ASSUME IInv, CopiesCurrent, Noted, NEW r \in Callers, ReviewStep(r)
  PROVE  NoneAdded /\ DOMAIN deals \subseteq DOMAIN deals'
<1>0. TablesOK /\ RequestSound(r)
  BY DEF IInv, RequestsSound
<1>1. CASE UNCHANGED deals
  BY <1>1, WhatIsNoted DEF NoneAdded, Clear
<1>2. CASE deals' # deals
  <2>1. UpdateDeal(r) \/ UpdateStatusRejected(r) \/ InsertCaptured(r)
    BY <1>2 DEF ReviewStep, ReadForDecision, StoreManualEvidence, RecordReview, RequestFails
  <2>2. req[r] # Idle /\ req[r] \in InFlight
    BY <1>0, <2>1, RequestInFlight DEF UpdateDeal, UpdateStatusRejected, InsertCaptured, Logged, RequestSound
  <2>3. PICK d \in Deals, row \in DealRow : d = req[r].deal /\ row = req[r].row
    BY <2>2 DEF InFlight
  <2>4. CASE UpdateDeal(r)
    <3>1. deals' = Put(deals, d, row) /\ req[r].act \in {"approve", "edit", "rejectWithReason"}
      BY <1>2, <2>3, <2>4 DEF UpdateDeal
    <3>2. d \in DOMAIN deals /\ deals'[d] = row /\ DOMAIN deals' = DOMAIN deals
          /\ \A x \in DOMAIN deals : x # d => deals'[x] = deals[x]
      BY <1>0, <2>2, <2>3, <3>1 DEF Put, RequestSound, RowExists
    <3>3. ASSUME Clear(d)'
          PROVE  Clear(d) /\ row.key = deals[d].key /\ row.capture = deals[d].capture
      <4>1. d \notin doubtful' /\ row.status \in Reviewable /\ row.edits = {}
        BY <3>2, <3>3 DEF Clear
      <4>2. d \notin doubtful /\ ~BroughtBack(d)
        BY <3>2, <4>1, WhatIsNoted
      <4>3. CASE deals[d] = row
        BY <4>1, <4>2, <4>3 DEF Clear
      <4>4. CASE deals[d] # row
        <5>1. Clear(d)
          BY <3>2, <4>1, <4>2, <4>4 DEF BroughtBack, Clear
        <5> QED BY <2>2, <2>3, <3>1, <4>1, <5>1 DEF CopiesCurrent, CopyCurrent
      <4> QED BY <4>3, <4>4
    <3> QED BY <3>2, <3>3, WhatIsNoted DEF NoneAdded, Clear
  <2>5. CASE UpdateStatusRejected(r) \/ InsertCaptured(r)
    <3>1. PICK new : /\ deals' = Put(deals, d, new)
                     /\ new.status \notin Reviewable \/ new.edits # {}
      <4>1. CASE UpdateStatusRejected(r)
        BY <2>3, <4>1 DEF UpdateStatusRejected, Decided, Reviewable
      <4>2. CASE InsertCaptured(r)
        <5>1. req[r].act = "capture" /\ deals' = Put(deals, d, row)
          BY <1>2, <2>3, <4>2 DEF InsertCaptured, InsertDeal
        <5> QED BY <2>2, <2>3, <5>1 DEF CopiesCurrent, CopyCurrent
      <4> QED BY <2>5, <4>1, <4>2
    <3> QED BY <3>1, WhatIsNoted DEF NoneAdded, Clear, Put
  <2> QED BY <2>1, <2>4, <2>5
<1> QED BY <1>1, <1>2

LEMMA ReviewStepTwinFree ==
  ASSUME TInv, IInv', Noted, NEW r \in Callers, ReviewStep(r)
  PROVE  TInv'
<1>1. BundlesStay /\ lane' = lane
  BY DEF BundlesStay, ReviewStep, ReadForDecision, StoreManualEvidence, RecordReview,
     UpdateDeal, UpdateStatusRejected, InsertCaptured, RequestFails, StoreEvidence, Put
<1>2. NoneAdded /\ DOMAIN deals \subseteq DOMAIN deals'
  BY ReviewAddsNone DEF TInv
<1>3. TwinFree' /\ CopiesCurrent'
  BY <1>1, <1>2, NoNewTwin, CopiesStay DEF TInv
<1>4. LanesClear'
  BY <1>1, <1>2, LaneStaysClear DEF TInv, LanesClear
<1> QED BY <1>3, <1>4 DEF TInv

\* A lane that is done with an offer is at a lookup, or at its end.
LEMMA NextOfferStage ==
  ASSUME TablesOK, NEW l \in Lanes, NEW k, NextOffer(l, k)
  PROVE  lane'[l].stage # "insert" /\ \A m \in Lanes : m # l => lane'[m] = lane[m]
<1>1. CASE lane' = [lane EXCEPT ![l] = Idle]
  BY <1>1 DEF TablesOK, Idle
<1>2. ASSUME NEW todo, NEW n, lane' = [lane EXCEPT ![l] = Offer("lookup", @.capture, todo, n, @.capture, FALSE)]
      PROVE  lane'[l].stage # "insert" /\ \A m \in Lanes : m # l => lane'[m] = lane[m]
  BY <1>2 DEF TablesOK, Offer
<1> QED BY <1>1, <1>2 DEF NextOffer

\* A lane that has just come to insert saw the content missing from the queue.
LEMMA ArrivesClear ==
  ASSUME IInv, Noted, NEW l \in Lanes, LaneStep(l), UNCHANGED deals, lane'[l].stage = "insert"
  PROVE  LaneClear(l)'
<1>0. TablesOK /\ lane \in [Lanes -> Pass]
  BY DEF IInv, TablesOK
<1>1. FindByDedupeKey(l) \/ CheckDuplicate(l)
  <2>1. ASSUME NEW c \in Captures, CaptureEvidence(l, c) PROVE FALSE
    <3>1. PICK todo, k : lane' = [lane EXCEPT ![l] = Offer("lookup", c, todo, k, c, FALSE)]
      BY <2>1 DEF CaptureEvidence
    <3> QED BY <1>0, <3>1 DEF Offer
  <2>2. ~PassFails(l)
    BY <1>0 DEF PassFails, Idle
  <2>3. ASSUME NEW d \in Deals, InsertCandidate(l, d) PROVE FALSE
    BY <1>0, <2>3, NextOfferStage DEF InsertCandidate
  <2> QED BY <2>1, <2>2, <2>3 DEF LaneStep
<1>2. /\ lane'[l].key = lane[l].key /\ lane'[l].capture = lane[l].capture /\ UNCHANGED evidence
      /\ \A d \in DOMAIN deals :
           deals[d].status \in Reviewable /\ deals[d].key = lane[l].key =>
             HashOf(deals[d]) # evidence[lane[l].capture].hash
  <2>1. CASE FindByDedupeKey(l)
    <3>1. ASSUME NEW f, lane' = [lane EXCEPT ![l] = Offer("check", lane[l].capture, lane[l].todo, lane[l].key, f, FALSE)]
          PROVE  FALSE
      BY <1>0, <3>1 DEF Offer
    <3>2. /\ ByDedupeKey(lane[l].key) = {} /\ UNCHANGED evidence
          /\ lane' = [lane EXCEPT ![l] = Offer("insert", lane[l].capture, lane[l].todo, lane[l].key, lane[l].capture, FALSE)]
      BY <2>1, <3>1 DEF FindByDedupeKey
    <3>3. lane'[l].key = lane[l].key /\ lane'[l].capture = lane[l].capture
      BY <1>0, <3>2 DEF Offer
    <3> QED BY <3>2, <3>3 DEF ByDedupeKey, Reviewable
  <2>2. CASE CheckDuplicate(l)
    <3>1. ~NextOffer(l, lane[l].key)
      BY <1>0, NextOfferStage
    <3>2. /\ ~QueuedWithHash(lane[l].key, evidence[lane[l].capture].hash) /\ UNCHANGED evidence
          /\ lane' = [lane EXCEPT ![l] = Offer("insert", lane[l].capture, lane[l].todo, lane[l].key, lane[l].found, TRUE)]
      BY <2>2, <3>1 DEF CheckDuplicate
    <3>3. lane'[l].key = lane[l].key /\ lane'[l].capture = lane[l].capture
      BY <1>0, <3>2 DEF Offer
    <3> QED BY <3>2, <3>3 DEF QueuedWithHash
  <2> QED BY <1>1, <2>1, <2>2
<1> QED BY <1>2 DEF LaneClear, Clear, HashOf

\* The other lanes are where they were.
LEMMA OtherLanesStay ==
  ASSUME TablesOK, NEW l \in Lanes, LaneStep(l)
  PROVE  \A m \in Lanes : m # l => lane'[m] = lane[m]
<1>1. lane \in [Lanes -> Pass]
  BY DEF TablesOK
<1>2. ASSUME NEW k, NextOffer(l, k) PROVE \A m \in Lanes : m # l => lane'[m] = lane[m]
  BY <1>2, NextOfferStage
<1>3. CASE FindByDedupeKey(l) \/ PassFails(l) \/ \E c \in Captures : CaptureEvidence(l, c)
  BY <1>1, <1>3 DEF FindByDedupeKey, PassFails, CaptureEvidence
<1>4. CASE CheckDuplicate(l)
  BY <1>1, <1>2, <1>4 DEF CheckDuplicate
<1>5. CASE \E d \in Deals : InsertCandidate(l, d)
  BY <1>2, <1>5 DEF InsertCandidate
<1> QED BY <1>3, <1>4, <1>5 DEF LaneStep

\* The insert itself: clear only if nothing appeared behind the lane's check.
LEMMA InsertTwinFree ==
  ASSUME TInv, IInv', Noted, NEW l \in Lanes, NEW d \in Deals, InsertCandidate(l, d), deals' # deals
  PROVE  TInv'
<1> DEFINE k == lane[l].key
           c == lane[l].capture
<1>0. IInv /\ TablesOK /\ LaneStep(l)
  BY DEF TInv, IInv, LaneStep
<1>1. PICK row : /\ row.status \in Reviewable /\ row.key = k /\ row.capture = c /\ row.edits = {}
                 /\ InsertDeal(d, row)
  BY DEF InsertCandidate, NewRow, Reviewable
<1>2. /\ lane[l].stage = "insert" /\ lane'[l].stage # "insert" /\ UNCHANGED <<evidence, req>>
  BY <1>0, NextOfferStage DEF InsertCandidate
<1>3. /\ d \notin DOMAIN deals /\ DOMAIN deals' = DOMAIN deals \cup {d} /\ deals'[d] = row
      /\ \A x \in DOMAIN deals : deals'[x] = deals[x]
  BY <1>1 DEF InsertDeal, Put
<1>4. Clear(d)' => \A x \in DOMAIN deals : Clear(x) /\ deals[x].key = k => HashOf(deals[x]) # evidence[c].hash
  <2>1. Clear(d)' => l \notin overtaken
    BY <1>1, <1>2, <1>3, WhatIsNoted DEF Clear
  <2> QED BY <1>2, <2>1 DEF TInv, LanesClear, LaneClear
<1>5. \A x \in DOMAIN deals : Clear(x)' => Clear(x)
  BY <1>3, WhatIsNoted DEF Clear
<1>6. TwinFree'
  <2> SUFFICES ASSUME NEW x \in DOMAIN deals', NEW y \in DOMAIN deals',
                      Clear(x)', Clear(y)', deals'[x].key = deals'[y].key,
                      evidence[deals'[x].capture].hash = evidence[deals'[y].capture].hash
               PROVE  x = y
    BY <1>2 DEF TwinFree, HashOf
  <2>1. CASE x \in DOMAIN deals /\ y \in DOMAIN deals
    BY <1>3, <1>5, <2>1 DEF TInv, TwinFree, HashOf
  <2>2. CASE x = d /\ y \in DOMAIN deals
    BY <1>1, <1>3, <1>4, <1>5, <2>2 DEF HashOf
  <2>3. CASE x \in DOMAIN deals /\ y = d
    BY <1>1, <1>3, <1>4, <1>5, <2>3 DEF HashOf
  <2> QED BY <1>3, <2>1, <2>2, <2>3
<1>7. LanesClear'
  <2> SUFFICES ASSUME NEW m \in Lanes \ overtaken', lane'[m].stage = "insert", NEW x \in DOMAIN deals',
                      Clear(x)', deals'[x].key = lane'[m].key
               PROVE  evidence[deals'[x].capture].hash # evidence[lane'[m].capture].hash
    BY <1>2 DEF LanesClear, LaneClear, HashOf
  <2>1. lane'[m] = lane[m]
    BY <1>0, <1>2, OtherLanesStay
  <2>2. CASE x \in DOMAIN deals
    BY <1>3, <1>5, <2>1, <2>2, WhatIsNoted DEF TInv, LanesClear, LaneClear, HashOf
  <2>3. CASE x = d
    BY <1>1, <1>3, <2>1, <2>3, WhatIsNoted
  <2> QED BY <1>3, <2>2, <2>3
<1>8. CopiesCurrent'
  <2> SUFFICES ASSUME NEW r \in Callers, req[r] # Idle PROVE CopyCurrent(r)'
    BY <1>2 DEF CopiesCurrent
  <2>1. req[r].act # "capture" => req[r].deal \in DOMAIN deals
    BY <1>0 DEF IInv, RequestsSound, RequestSound, RowExists
  <2> QED BY <1>2, <1>3, <1>5, <2>1 DEF TInv, CopiesCurrent, CopyCurrent
<1> QED BY <1>6, <1>7, <1>8 DEF TInv

LEMMA LaneStepTwinFree ==
  ASSUME TInv, IInv', Noted, NEW l \in Lanes, LaneStep(l)
  PROVE  TInv'
<1>0. IInv /\ TablesOK /\ UNCHANGED req
  BY DEF TInv, IInv, LaneStep, CaptureEvidence, FindByDedupeKey, CheckDuplicate, InsertCandidate, PassFails
<1>1. BundlesStay
  BY DEF BundlesStay, LaneStep, CaptureEvidence, FindByDedupeKey, CheckDuplicate, InsertCandidate, PassFails,
     StoreEvidence, Put
<1>2. CASE UNCHANGED deals
  <2>1. NoneAdded
    BY <1>2, WhatIsNoted DEF NoneAdded, Clear
  <2>2. TwinFree'
    BY <1>0, <1>1, <2>1, NoNewTwin DEF TInv
  <2>3. CopiesCurrent'
    BY <1>0, <1>2, <2>1, CopyStays DEF TInv, CopiesCurrent
  <2>4. LanesClear'
    <3> SUFFICES ASSUME NEW m \in Lanes \ overtaken' PROVE LaneClear(m)'
      BY DEF LanesClear
    <3>1. CASE lane'[m] = lane[m]
      BY <1>0, <1>1, <2>1, <3>1, LaneStaysClear DEF TInv
    <3>2. CASE lane'[m] # lane[m]
      <4>1. m = l
        BY <1>0, <3>2, OtherLanesStay
      <4> QED BY <1>0, <1>2, <4>1, ArrivesClear DEF LaneClear
    <3> QED BY <3>1, <3>2
  <2> QED BY <2>2, <2>3, <2>4 DEF TInv
<1>3. UNCHANGED deals \/ \E d \in Deals : InsertCandidate(l, d)
  BY DEF LaneStep, CaptureEvidence, FindByDedupeKey, CheckDuplicate, PassFails
<1> QED BY <1>2, <1>3, InsertTwinFree

LEMMA ExpiryTwinFree ==
  ASSUME TInv, IInv', Noted, NEW u \in Urls, ExpirePublished(u)
  PROVE  TInv'
<1>1. UNCHANGED <<evidence, req, lane>> /\ DOMAIN deals' = DOMAIN deals
      /\ \A d \in DOMAIN deals :
           /\ deals'[d].key = deals[d].key /\ deals'[d].capture = deals[d].capture /\ deals'[d].edits = deals[d].edits
           /\ deals'[d].status = deals[d].status \/ deals'[d].status \notin Reviewable
  BY DEF ExpirePublished, Decided, Reviewable
<1>2. NoneAdded /\ BundlesStay /\ IInv
  BY <1>1, WhatIsNoted DEF NoneAdded, BundlesStay, Clear, TInv
<1>3. CopiesCurrent'
  BY <1>1, <1>2, CopyStays DEF TInv, CopiesCurrent
<1>4. TwinFree' /\ LanesClear'
  BY <1>1, <1>2, NoNewTwin, LaneStaysClear DEF TInv, LanesClear
<1> QED BY <1>3, <1>4 DEF TInv

\* However many lanes crawl and reviewers decide at once, and whatever is edited,
\* rejected, expired or written twice in between, no two waiting rows report the
\* same content of one route, but for rows a lane inserted after another lane had
\* inserted that content behind its check, and rows a stale write-back returned.
THEOREM NoTwinsQueue == Spec => []QueueHasNoTwin
<1>1. Init => TInv
  <2> SUFFICES ASSUME Init PROVE TInv
    OBVIOUS
  <2>1. TwinFree /\ LanesClear /\ CopiesCurrent
    BY DEF Init, TwinFree, LanesClear, LaneClear, CopiesCurrent, Idle
  <2> QED BY <2>1, InitIInv DEF TInv
<1>2. TInv /\ [Next]_vars => TInv'
  <2> SUFFICES ASSUME TInv, [Next]_vars PROVE TInv'
    OBVIOUS
  <2>1. IInv'
    BY NextIInv DEF TInv
  <2>2. CASE UNCHANGED vars
    BY <2>1, <2>2 DEF vars, TInv, TwinFree, LanesClear, LaneClear, CopiesCurrent, CopyCurrent, Clear, HashOf
  <2> QED BY <2>1, <2>2, ReviewStepTwinFree, LaneStepTwinFree, ExpiryTwinFree DEF Next
<1>3. TInv => QueueHasNoTwin
  BY DEF TInv, TwinFree, Clear, QueueHasNoTwin
<1> QED BY <1>1, <1>2, <1>3, PTL DEF Spec
=============================================================================
