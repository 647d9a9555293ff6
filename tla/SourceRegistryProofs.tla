------------------------ MODULE SourceRegistryProofs ------------------------
(***************************************************************************)
(* Proofs about SourceRegistry for any number of urls, sources, reviewers, *)
(* lane B runs and passes, and any of the operations: its types, the audit *)
(* of every decision, that nothing is crawled unapproved, and what an      *)
(* actor may do to a source whose status it has read: a rejection is only  *)
(* undone, and a known domain only proposed again, by somebody who had     *)
(* begun before the status changed.                                        *)
(***************************************************************************)
EXTENDS SourceRegistry, TLAPS

\* What makes a row, stored or about to be written, legitimate.  No code sets
\* `disabled`.
Backed(row) ==
  /\ row.status = "active" => Vouched(row.id)
  /\ row.status = "rejected" => Decided(row.id, "reject")
  /\ row.status # "disabled"

RowsBacked == \A u \in DOMAIN sources : Backed(sources[u])

\* A request writes the status of its operation, and only once it is logged.
RequestSound(r) ==
  /\ req[r].row.status = StatusAfter(req[r].act)
  /\ req[r].stage = "audited" => Decided(req[r].row.id, LoggedAs(req[r].act))
RequestsSound == \A r \in Reviewers : req[r] # Idle => RequestSound(r)

PassesSound == \A l \in Crawls \cup Monitors : pass[l] # Idle => Backed(pass[l].row)

IInv == TypeOK /\ RowsBacked /\ RequestsSound /\ PassesSound /\ CrawledIsApproved

-----------------------------------------------------------------------------
(* Types.                                                                   *)

\* Writing a typed row keeps the table typed.
LEMMA PutType ==
  ASSUME TypeOK, NEW u \in Urls, NEW row \in SourceRow, Put(u, row)
  PROVE  DOMAIN sources' \subseteq Urls /\ sources' \in [DOMAIN sources' -> SourceRow]
BY DEF TypeOK, Put

\* So do upsert and update.
LEMMA WriteType ==
  ASSUME TypeOK, NEW u \in Urls, NEW row \in SourceRow, Upsert(u, row) \/ Update(u, row)
  PROVE  DOMAIN sources' \subseteq Urls /\ sources' \in [DOMAIN sources' -> SourceRow]
<1>1. u \in DOMAIN sources => Row(sources[u].id, row.status) \in SourceRow
  BY DEF TypeOK, SourceRow, Row
<1> QED BY <1>1, PutType DEF Upsert, Update, TypeOK

\* A request, a run and a pass that is not idle is a full record.
LEMMA InFlight ==
  ASSUME TypeOK
  PROVE  /\ \A r \in Reviewers : req[r] # Idle =>
              /\ req[r].act \in Acts
              /\ req[r].url \in Urls
              /\ req[r].row \in SourceRow
              /\ req[r].stage \in {"read", "audited"}
         /\ \A p \in Proposers : run[p] # Idle =>
              /\ run[p].left \in 0..4
              /\ run[p].known \in SUBSET Domains
              /\ run[p].todo \in SUBSET Urls
         /\ \A l \in Crawls \cup Monitors : pass[l] # Idle =>
              pass[l].url \in Urls /\ pass[l].row \in SourceRow
         /\ \A r \in Reviewers : req[r].stage # "idle" => req[r] # Idle
         /\ \A p \in Proposers : run[p].stage # "idle" => run[p] # Idle
BY DEF TypeOK, Request, Proposing, Pass, Idle

\* What an actor has missed are urls.
LEMMA NotedType ==
  ASSUME TypeOK, NEW own, Noted(own)
  PROVE  since' \in [Actors -> SUBSET Urls]
<1>1. Changed \subseteq Urls
  BY DEF Changed
<1> QED BY <1>1 DEF Noted, TypeOK

\* A reviewer's step keeps every type.
LEMMA ReviewType ==
  ASSUME TypeOK, NEW r \in Reviewers, ReviewStep(r), since' \in [Actors -> SUBSET Urls]
  PROVE  TypeOK'
<1>1. ASSUME NEW u \in DOMAIN sources, NEW act \in {"approve", "reject"}, ReadForDecision(r, act, u)
      PROVE  TypeOK'
  <2>1. act \in Acts /\ u \in Urls /\ Row(sources[u].id, StatusAfter(act)) \in SourceRow
    BY <1>1 DEF ReadForDecision, TypeOK, Row, SourceRow, StatusAfter, Status
  <2>2. Decision(act, u, Row(sources[u].id, StatusAfter(act))) \in Request
    BY <2>1 DEF Decision, Request
  <2> QED BY <1>1, <2>2 DEF ReadForDecision, TypeOK
<1>2. ASSUME NEW u \in Urls, ReadForRegister(r, u) PROVE TypeOK'
  <2>1. \A id \in Ids : Decision("register", u, Row(id, "active")) \in Request
    BY <1>2 DEF ReadForRegister, Decision, Request, Row, SourceRow, Status
  <2> QED BY <1>2, <2>1 DEF ReadForRegister, TypeOK
<1>3. CASE RecordReview(r)
  <2>1. req[r].act \in Acts /\ req[r].url \in Urls /\ req[r].row \in SourceRow
    BY <1>3, InFlight DEF RecordReview
  <2>2. Logging(req[r]) \in Request
    BY <2>1 DEF Logging, Request
  <2>3. [source |-> req[r].row.id, action |-> LoggedAs(req[r].act)] \in ReviewRow
    BY <2>1 DEF ReviewRow, LoggedAs, SourceRow
  <2> QED BY <1>3, <2>2, <2>3 DEF RecordReview, TypeOK
<1>4. CASE Decide(r)
  <2>1. req[r].url \in Urls /\ req[r].row \in SourceRow
    BY <1>4, InFlight DEF Decide, Logged
  <2>2. DOMAIN sources' \subseteq Urls /\ sources' \in [DOMAIN sources' -> SourceRow]
    BY <1>4, <2>1, WriteType DEF Decide
  <2>3. takenOver' \subseteq [id: Ids, logged: Ids]
    BY <1>4, <2>1 DEF Decide, TypeOK, SourceRow
  <2> QED BY <1>4, <2>2, <2>3 DEF Decide, TypeOK, Request
<1>5. CASE RequestFails(r)
  BY <1>5 DEF RequestFails, TypeOK, Request
<1> QED BY <1>1, <1>2, <1>3, <1>4, <1>5 DEF ReviewStep

\* A lane B run's step keeps every type.
LEMMA ProposerType ==
  ASSUME TypeOK, NEW p \in Proposers, ProposerStep(p), since' \in [Actors -> SUBSET Urls]
  PROVE  TypeOK'
<1>1. CASE StartProposals(p)
  <2>1. \A todo \in SUBSET Urls : Running("known", 4, {}, todo) \in Proposing
    BY DEF Running, Proposing
  <2> QED BY <1>1, <2>1 DEF StartProposals, TypeOK
<1>2. CASE ReadKnown(p)
  <2>1. run[p].left \in 0..4 /\ run[p].known \in SUBSET Domains /\ run[p].todo \in SUBSET Urls
    BY <1>2, InFlight DEF ReadKnown
  <2> DEFINE known == run[p].known \cup
               {DomainOf[u] : u \in WithStatus(KnownOrder[5 - run[p].left])}
             novel == {u \in run[p].todo : DomainOf[u] \notin known}
  <2>2. known \in SUBSET Domains
    BY <2>1, DomainsAssumption DEF WithStatus, TypeOK
  <2>3. novel \in SUBSET Urls
    BY <2>1
  <2>4. run[p].left > 1 => Running("known", run[p].left - 1, known, run[p].todo) \in Proposing
    <3> HIDE DEF known, novel
    <3>1. run[p].left > 1 => run[p].left - 1 \in 0..4
      BY <2>1
    <3> QED BY <2>1, <2>2, <3>1 DEF Running, Proposing
  <2>5. Running("upsert", 0, known, novel) \in Proposing
    <3> HIDE DEF known, novel
    <3> QED BY <2>2, <2>3 DEF Running, Proposing
  <2>6. run' = [run EXCEPT ![p] =
          IF run[p].left > 1 THEN Running("known", run[p].left - 1, known, run[p].todo)
          ELSE IF novel = {} THEN Idle
          ELSE Running("upsert", 0, known, novel)]
    BY <1>2 DEF ReadKnown
  <2>7. Idle \in Proposing
    BY DEF Proposing
  <2>8. run' \in [Proposers -> Proposing]
    <3> HIDE DEF known, novel
    <3> QED BY <2>4, <2>5, <2>6, <2>7 DEF TypeOK
  <2> QED BY <1>2, <2>8 DEF ReadKnown, TypeOK
<1>3. ASSUME NEW u \in Urls, Propose(p, u) PROVE TypeOK'
  <2>1. run[p].known \in SUBSET Domains /\ run[p].todo \in SUBSET Urls
    BY <1>3, InFlight DEF Propose
  <2>2. \A id \in Ids : Row(id, "pending_approval") \in SourceRow
    BY DEF Row, SourceRow, Status
  <2>3. DOMAIN sources' \subseteq Urls /\ sources' \in [DOMAIN sources' -> SourceRow]
    BY <1>3, <2>2, WriteType DEF Propose
  <2>4. Running("upsert", 0, run[p].known, run[p].todo \ {u}) \in Proposing /\ Idle \in Proposing
    BY <2>1 DEF Running, Proposing
  <2>5. run' \in [Proposers -> Proposing]
    BY <1>3, <2>4 DEF Propose, TypeOK
  <2> QED BY <1>3, <2>3, <2>5 DEF Propose, TypeOK
<1>4. CASE ProposerFails(p)
  BY <1>4 DEF ProposerFails, TypeOK, Proposing
<1> QED BY <1>1, <1>2, <1>3, <1>4 DEF ProposerStep

\* An import and a pass's step keep every type.
LEMMA PassType ==
  ASSUME TypeOK, since' \in [Actors -> SUBSET Urls],
         \/ \E l \in Crawls \cup Monitors : PassStep(l)
         \/ \E m \in Monitors : Recrawl(m)
         \/ \E u \in Urls : ImportSeed(u)
  PROVE  TypeOK'
<1>1. ASSUME NEW u \in DOMAIN sources PROVE Working(u) \in Pass /\ sources[u].id \in Ids
  BY DEF Working, Pass, TypeOK, SourceRow
<1>2. ASSUME NEW u \in Urls, ImportSeed(u) PROVE TypeOK'
  <2>1. \A id \in Ids : Row(id, "active") \in SourceRow
    BY DEF Row, SourceRow, Status
  <2> QED BY <1>2, <2>1, WriteType DEF ImportSeed, TypeOK
<1>3. ASSUME NEW c \in Crawls, NEW u \in DOMAIN sources, StartCrawl(c, u) PROVE TypeOK'
  BY <1>1, <1>3 DEF StartCrawl, TypeOK
<1>4. ASSUME NEW m \in Monitors, NEW u \in DOMAIN sources, StartMonitor(m, u) PROVE TypeOK'
  BY <1>1, <1>4 DEF StartMonitor, TypeOK
<1>5. ASSUME NEW l \in Crawls \cup Monitors, WriteBack(l) PROVE TypeOK'
  BY <1>5, InFlight, WriteType DEF WriteBack, TypeOK, Pass
<1>6. ASSUME NEW l \in Crawls \cup Monitors, PassFails(l) PROVE TypeOK'
  BY <1>6 DEF PassFails, TypeOK, Pass
<1>7. ASSUME NEW m \in Monitors, Recrawl(m) PROVE TypeOK'
  <2>1. m \in Crawls \cup Monitors /\ Idle \in Pass
    BY DEF Pass
  <2>2. CASE pass[m].url \in DOMAIN sources /\ MayCrawl(sources[pass[m].url])
    BY <1>1, <1>7, <2>2 DEF Recrawl, TypeOK
  <2>3. CASE ~(pass[m].url \in DOMAIN sources /\ MayCrawl(sources[pass[m].url]))
    BY <1>7, <2>1, <2>3 DEF Recrawl, TypeOK
  <2> QED BY <2>2, <2>3
<1> QED BY <1>2, <1>3, <1>4, <1>5, <1>6, <1>7 DEF PassStep

LEMMA NextType ==
  ASSUME TypeOK, [Next]_vars
  PROVE  TypeOK'
<1>1. CASE UNCHANGED vars
  BY <1>1 DEF TypeOK, vars
<1>2. ASSUME Next PROVE since' \in [Actors -> SUBSET Urls]
  <2>1. ASSUME NEW m \in Monitors, since' = [since EXCEPT ![m] = {}]
        PROVE  since' \in [Actors -> SUBSET Urls]
    BY <2>1 DEF TypeOK
  <2> QED BY <1>2, <2>1, NotedType DEF Next
<1> QED BY <1>1, <1>2, ReviewType, ProposerType, PassType DEF Next

\* Every table, request, run and pass keeps its type.
THEOREM TypeCorrect == Spec => []TypeOK
<1>1. Init => TypeOK
  BY DEF Init, TypeOK, Request, Proposing, Pass
<1>2. TypeOK /\ [Next]_vars => TypeOK'
  BY NextType
<1> QED BY <1>1, <1>2, PTL DEF Spec

-----------------------------------------------------------------------------
(* Legitimacy.                                                              *)

\* What backs a row stays on the log and in the history.
LEMMA BackedStays ==
  ASSUME reviews \subseteq reviews', seeded \subseteq seeded', takenOver \subseteq takenOver',
         NEW row, Backed(row)
  PROVE  Backed(row)'
BY DEF Backed, Vouched, Approved, Decided

\* A row that backs itself may be written anywhere.
LEMMA PutBacked ==
  ASSUME TypeOK, RowsBacked, NEW u, NEW row, Put(u, row), Backed(row),
         UNCHANGED <<reviews, seeded, takenOver>>
  PROVE  RowsBacked'
BY DEF RowsBacked, Put, Backed, Vouched, Approved, Decided

\* sources.update: writing a backed row leaves every row backed.
LEMMA UpdateBacked ==
  ASSUME TypeOK, RowsBacked, NEW u, NEW row, Update(u, row), Backed(row),
         UNCHANGED <<reviews, seeded, takenOver>>
  PROVE  RowsBacked'
<1>1. CASE Put(u, row)
  BY <1>1, PutBacked
<1>2. CASE UNCHANGED sources
  BY <1>2 DEF RowsBacked, Backed, Vouched, Approved, Decided
<1> QED BY <1>1, <1>2 DEF Update

\* A reviewer's step keeps the invariant.
LEMMA ReviewIInv ==
  ASSUME IInv, NEW r \in Reviewers, ReviewStep(r), TypeOK'
  PROVE  IInv'
<1>2. /\ reviews \subseteq reviews' /\ takenOver \subseteq takenOver'
      /\ UNCHANGED <<run, pass, seeded, crawled>>
  BY DEF ReviewStep, ReadForDecision, ReadForRegister, RecordReview, Decide, RequestFails
<1>3. PassesSound' /\ CrawledIsApproved'
  <2>1. PassesSound'
    BY <1>2, BackedStays DEF IInv, PassesSound
  <2>2. \A id : Vouched(id) => Vouched(id)'
    BY <1>2 DEF Vouched, Approved, Decided
  <2>3. CrawledIsApproved'
    BY <1>2, <2>2 DEF IInv, CrawledIsApproved
  <2> QED BY <2>1, <2>3
<1>4. \A x \in Reviewers \ {r} : req'[x] = req[x]
  BY DEF ReviewStep, ReadForDecision, ReadForRegister, RecordReview, Decide, RequestFails,
         IInv, TypeOK
<1>5. \A x \in Reviewers \ {r} : req[x] # Idle => RequestSound(x)'
  BY <1>2, <1>4 DEF IInv, RequestsSound, RequestSound, Decided
<1>6. ASSUME req'[r] # Idle => RequestSound(r)' PROVE RequestsSound'
  BY <1>4, <1>5, <1>6 DEF RequestsSound
<1>7. ASSUME NEW u \in Urls, NEW act \in Acts, NEW id \in Ids, UNCHANGED <<sources, reviews, takenOver>>,
             req' = [req EXCEPT ![r] = Decision(act, u, Row(id, StatusAfter(act)))]
      PROVE  IInv'
  <2>1. RequestSound(r)'
    BY <1>7 DEF RequestSound, Decision, Row, IInv, TypeOK
  <2>2. RowsBacked'
    BY <1>2, <1>7, BackedStays DEF IInv, RowsBacked
  <2> QED BY <1>3, <1>6, <2>1, <2>2 DEF IInv
<1>8. ASSUME NEW u \in DOMAIN sources, NEW act \in {"approve", "reject"}, ReadForDecision(r, act, u)
      PROVE  IInv'
  BY <1>7, <1>8 DEF ReadForDecision, IInv, TypeOK, SourceRow
<1>9. ASSUME NEW u \in Urls, ReadForRegister(r, u) PROVE IInv'
  BY <1>7, <1>9 DEF ReadForRegister, StatusAfter
<1>10. CASE RecordReview(r)
  <2>1. RequestSound(r)'
    <3>1. PICK row, act : row = req[r].row /\ act = req[r].act
      OBVIOUS
    <3>2. row.status = StatusAfter(act) /\ act \in Acts
      BY <1>10, <3>1, InFlight DEF RecordReview, IInv, RequestsSound, RequestSound
    <3>3. req'[r].row = row /\ req'[r].act = act
      BY <1>10, <3>1 DEF RecordReview, Logging, IInv, TypeOK
    <3>4. Decided(row.id, LoggedAs(act))'
      BY <1>10, <3>1 DEF RecordReview, Decided
    <3> QED BY <3>2, <3>3, <3>4 DEF RequestSound
  <2>2. RowsBacked'
    BY <1>2, <1>10, BackedStays DEF RecordReview, IInv, RowsBacked
  <2> QED BY <1>3, <1>6, <2>1, <2>2 DEF IInv
<1>11. CASE Decide(r)
  <2>1. PICK u, row, act : u = req[r].url /\ row = req[r].row /\ act = req[r].act
    OBVIOUS
  <2>2. /\ u \in Urls /\ row \in SourceRow /\ act \in Acts
        /\ row.status = StatusAfter(act) /\ Decided(row.id, LoggedAs(act))
    BY <1>11, <2>1, InFlight DEF Decide, Logged, IInv, RequestsSound, RequestSound
  <2>3. RowsBacked'
    <3>1. CASE act # "register"
      <4>1. Update(u, row) /\ UNCHANGED <<reviews, seeded, takenOver>>
        BY <1>11, <2>1, <3>1 DEF Decide
      <4>2. Backed(row)
        BY <2>2 DEF Backed, Vouched, Approved, LoggedAs, StatusAfter
      <4> QED BY <4>1, <4>2, UpdateBacked DEF IInv
    <3>2. CASE act = "register"
      <4>1. Upsert(u, row) /\ UNCHANGED <<reviews, seeded>>
        BY <1>11, <2>1, <3>2 DEF Decide
      <4>2. row.status = "active" /\ Decided(row.id, "approve")
        BY <2>2, <3>2 DEF StatusAfter, LoggedAs
      <4>3. PICK id : /\ Put(u, Row(id, "active"))
                      /\ id = row.id \/ [id |-> id, logged |-> row.id] \in takenOver'
        <5>1. CASE u \in DOMAIN sources
          <6>1. Put(u, Row(sources[u].id, "active"))
            BY <4>1, <4>2, <5>1 DEF Upsert
          <6>2. sources[u].id = row.id \/ [id |-> sources[u].id, logged |-> row.id] \in takenOver'
            BY <1>11, <2>1, <3>2, <5>1 DEF Decide
          <6> QED BY <6>1, <6>2
        <5>2. CASE u \notin DOMAIN sources
          <6>1. Put(u, row) /\ row = Row(row.id, "active")
            BY <2>2, <4>1, <4>2, <5>2 DEF Upsert, Row, SourceRow
          <6> QED BY <6>1
        <5> QED BY <5>1, <5>2
      <4>4. Vouched(id)'
        <5>1. Decided(row.id, "approve")'
          BY <4>1, <4>2 DEF Decided
        <5>2. [id |-> id, logged |-> row.id].id = id /\ [id |-> id, logged |-> row.id].logged = row.id
          OBVIOUS
        <5> QED BY <4>3, <5>1, <5>2 DEF Vouched, Approved
      <4>5. Backed(Row(id, "active"))'
        BY <4>4 DEF Backed, Row
      <4> QED BY <1>2, <4>1, <4>3, <4>5, BackedStays DEF IInv, RowsBacked, Put
    <3> QED BY <3>1, <3>2
  <2>4. req'[r] = Idle
    BY <1>11 DEF Decide, IInv, TypeOK
  <2> QED BY <1>3, <1>6, <2>3, <2>4 DEF IInv
<1>12. CASE RequestFails(r)
  <2>1. req'[r] = Idle
    BY <1>12 DEF RequestFails, IInv, TypeOK
  <2>2. RowsBacked'
    BY <1>2, <1>12, BackedStays DEF RequestFails, IInv, RowsBacked
  <2> QED BY <1>3, <1>6, <2>1, <2>2 DEF IInv
<1> QED BY <1>8, <1>9, <1>10, <1>11, <1>12 DEF ReviewStep

\* A proposal only ever writes sources that wait for approval.
LEMMA ProposerIInv ==
  ASSUME IInv, NEW p \in Proposers, ProposerStep(p), TypeOK'
  PROVE  IInv'
<1>2. UNCHANGED <<reviews, req, pass, seeded, crawled, takenOver>>
  BY DEF ProposerStep, StartProposals, ReadKnown, Propose, ProposerFails
<1>3. RequestsSound' /\ PassesSound' /\ CrawledIsApproved'
  BY <1>2 DEF IInv, RequestsSound, RequestSound, PassesSound, CrawledIsApproved, Backed,
              Vouched, Approved, Decided
<1>4. ASSUME NEW u \in Urls, Propose(p, u) PROVE RowsBacked'
  <2>1. \A id : Backed(Row(id, "pending_approval"))
    BY DEF Backed, Row
  <2>2. PICK id : Upsert(u, Row(id, "pending_approval"))
    BY <1>4 DEF Propose
  <2>3. \E x : Put(u, Row(x, "pending_approval"))
    BY <2>2 DEF Upsert, Row
  <2> QED BY <1>2, <2>1, <2>3, PutBacked DEF IInv
<1>5. ASSUME UNCHANGED sources PROVE RowsBacked'
  BY <1>2, <1>5 DEF IInv, RowsBacked, Backed, Vouched, Approved, Decided
<1> QED BY <1>3, <1>4, <1>5 DEF ProposerStep, StartProposals, ReadKnown, ProposerFails, IInv

\* An import backs the row it writes; a pass carries a row that was backed when it
\* was read, and only crawls an active one.
LEMMA PassIInv ==
  ASSUME IInv, TypeOK',
         \/ \E l \in Crawls \cup Monitors : PassStep(l)
         \/ \E m \in Monitors : Recrawl(m)
         \/ \E u \in Urls : ImportSeed(u)
  PROVE  IInv'
<1>2. ASSUME NEW u \in Urls, ImportSeed(u) PROVE IInv'
  <2>1. PICK id \in Ids : /\ u \in DOMAIN sources => id = sources[u].id
                          /\ Upsert(u, Row(id, "active"))
                          /\ seeded' = seeded \cup {id}
    BY <1>2 DEF ImportSeed
  <2>2. Put(u, Row(id, "active"))
    BY <2>1 DEF Upsert, Row
  <2>3. Backed(Row(id, "active"))'
    BY <2>1 DEF Backed, Row, Vouched, Approved
  <2>4. reviews \subseteq reviews' /\ seeded \subseteq seeded' /\ UNCHANGED <<req, pass, crawled, reviews, takenOver>>
    BY <1>2, <2>1 DEF ImportSeed
  <2>5. RowsBacked'
    BY <2>2, <2>3, <2>4, BackedStays DEF IInv, RowsBacked, Put
  <2>6. RequestsSound' /\ PassesSound'
    BY <2>4, BackedStays DEF IInv, RequestsSound, RequestSound, PassesSound, Decided
  <2>7. CrawledIsApproved'
    BY <2>4 DEF IInv, CrawledIsApproved, Vouched, Approved, Decided
  <2> QED BY <2>5, <2>6, <2>7 DEF IInv
<1>3. ASSUME UNCHANGED <<reviews, req, seeded, takenOver>>, RowsBacked', PassesSound', CrawledIsApproved'
      PROVE  IInv'
  BY <1>3 DEF IInv, RequestsSound, RequestSound, Backed, Vouched, Approved, Decided
<1>4. \A u \in DOMAIN sources : Backed(Working(u).row) /\ (MayCrawl(sources[u]) => Vouched(sources[u].id))
  BY DEF IInv, RowsBacked, Backed, Working, MayCrawl, TypeOK, SourceRow, Status
<1>5. ASSUME NEW l \in Crawls \cup Monitors, NEW u \in DOMAIN sources,
             pass' = [pass EXCEPT ![l] = Working(u)],
             UNCHANGED <<sources, reviews, req, seeded, takenOver>>,
             \/ UNCHANGED crawled
             \/ MayCrawl(sources[u]) /\ crawled' = crawled \cup {sources[u].id}
      PROVE  IInv'
  <2>1. RowsBacked' /\ PassesSound'
    BY <1>4, <1>5 DEF IInv, TypeOK, RowsBacked, PassesSound, Backed, Vouched, Approved, Decided
  <2>2. CrawledIsApproved'
    BY <1>4, <1>5 DEF IInv, CrawledIsApproved, Vouched, Approved, Decided
  <2> QED BY <1>3, <1>5, <2>1, <2>2
<1>6. ASSUME NEW l \in Crawls \cup Monitors, pass' = [pass EXCEPT ![l] = Idle],
             UNCHANGED <<reviews, req, seeded, crawled, takenOver>>,
             UNCHANGED sources \/ (pass[l] # Idle /\ Update(pass[l].url, pass[l].row))
      PROVE  IInv'
  <2>1. PassesSound' /\ CrawledIsApproved'
    BY <1>6 DEF IInv, TypeOK, PassesSound, CrawledIsApproved, Backed, Vouched, Approved, Decided
  <2>2. CASE UNCHANGED sources
    BY <1>3, <1>6, <2>1, <2>2 DEF IInv, RowsBacked, Backed, Vouched, Approved, Decided
  <2>3. CASE pass[l] # Idle /\ Update(pass[l].url, pass[l].row)
    BY <1>3, <1>6, <2>1, <2>3, UpdateBacked DEF IInv, PassesSound
  <2> QED BY <1>6, <2>2, <2>3
<1>7. ASSUME NEW c \in Crawls, NEW u \in DOMAIN sources, StartCrawl(c, u) PROVE IInv'
  BY <1>5, <1>7 DEF StartCrawl
<1>8. ASSUME NEW m \in Monitors, NEW u \in DOMAIN sources, StartMonitor(m, u) PROVE IInv'
  BY <1>5, <1>8 DEF StartMonitor
<1>9. ASSUME NEW m \in Monitors, Recrawl(m) PROVE IInv'
  BY <1>5, <1>6, <1>9 DEF Recrawl
<1>10. ASSUME NEW l \in Crawls \cup Monitors, WriteBack(l) \/ PassFails(l) PROVE IInv'
  BY <1>6, <1>10 DEF WriteBack, PassFails
<1> QED BY <1>2, <1>7, <1>8, <1>9, <1>10 DEF PassStep

\* The invariant holds in every reachable state.
LEMMA InvariantIInv == Spec => []IInv
<1>1. Init => IInv
  BY DEF Init, IInv, TypeOK, RowsBacked, RequestsSound, PassesSound, CrawledIsApproved,
         Request, Proposing, Pass
<1>2. IInv /\ UNCHANGED vars => IInv'
  BY DEF IInv, TypeOK, RowsBacked, RequestsSound, RequestSound, PassesSound, CrawledIsApproved,
         Backed, Vouched, Approved, Decided, vars
<1>3. IInv /\ [Next]_vars => IInv'
  BY <1>2, NextType, ReviewIInv, ProposerIInv, PassIInv DEF Next, IInv
<1> QED BY <1>1, <1>3, PTL DEF Spec

\* Every active source is a seed, has its approval on the log or was taken over by a
\* registration that is on the log, and every rejected one has its rejection.
THEOREM DecisionsAreAudited == Spec => []DecisionAudited
<1>1. IInv => DecisionAudited
  BY DEF IInv, RowsBacked, Backed, DecisionAudited
<1>2. Spec => []IInv
  BY InvariantIInv
<1> QED BY <1>1, <1>2, PTL

\* No page is ever crawled before its source was approved or registered, however
\* early the pass read the row.
THEOREM NothingUnapprovedIsCrawled == Spec => []CrawledIsApproved
<1>1. IInv => CrawledIsApproved
  BY DEF IInv
<1>2. Spec => []IInv
  BY InvariantIInv
<1> QED BY <1>1, <1>2, PTL

-----------------------------------------------------------------------------
(* What an actor knows.  As long as nobody else changed the status of a url  *)
(* since an actor read it, the status is as the actor found it.              *)

\* A decision's source still waits, and what is registered was not rejected.
RequestFresh(r) ==
  req[r] # Idle /\ req[r].url \notin since[r] =>
    IF req[r].act = "register" THEN StatusOf(req[r].url) # "rejected"
    ELSE StatusOf(req[r].url) = "pending_approval"

\* The row a pass writes back has the status the source has.
PassFresh(l) ==
  pass[l] # Idle /\ pass[l].url \notin since[l] => StatusOf(pass[l].url) = pass[l].row.status

\* A run knows the domain of whatever has a status it has asked for; nothing it is
\* about to propose belongs to the domain of anything.
Asked(left) == {KnownOrder[i] : i \in 1..(4 - left)}
RunFresh(p) ==
  run[p] # Idle =>
    /\ \A u, v \in run[p].todo : DomainOf[u] = DomainOf[v] => u = v
    /\ run[p].stage = "known" =>
         /\ run[p].left \in 1..4
         /\ \A v \in Urls \ since[p] :
              StatusOf(v) \in Asked(run[p].left) => DomainOf[v] \in run[p].known
    /\ run[p].stage = "upsert" =>
         \A u \in run[p].todo, v \in Urls \ since[p] :
           StatusOf(v) # "none" => DomainOf[v] # DomainOf[u]

NothingStale ==
  /\ \A r \in Reviewers : RequestFresh(r)
  /\ \A p \in Proposers : RunFresh(p)
  /\ \A l \in Crawls \cup Monitors : PassFresh(l)

FInv == TypeOK /\ NothingStale

\* A write changes the status of one url only.
LEMMA WriteStatus ==
  ASSUME NEW u \in Urls, NEW row, NEW id, row = Row(id, row.status)
  PROVE  /\ Upsert(u, row) => StatusOf(u)' = row.status /\ \A v \in Urls \ {u} : StatusOf(v)' = StatusOf(v)
         /\ Update(u, row) =>
              /\ StatusOf(u)' = StatusOf(u) \/ StatusOf(u)' = row.status
              /\ \A v \in Urls \ {u} : StatusOf(v)' = StatusOf(v)
<1>1. ASSUME NEW x, x.status = row.status, Put(u, x)
      PROVE  StatusOf(u)' = row.status /\ \A v \in Urls \ {u} : StatusOf(v)' = StatusOf(v)
  BY <1>1 DEF Put, StatusOf
<1>2. Row(sources[u].id, row.status).status = row.status
  BY DEF Row
<1>3. UNCHANGED sources => \A v \in Urls : StatusOf(v)' = StatusOf(v)
  BY DEF StatusOf
<1> QED BY <1>1, <1>2, <1>3 DEF Upsert, Update

\* An actor that is busy after the step of others has missed what they changed.
LEMMA Missed ==
  ASSUME TypeOK, NEW own, Noted(own), NEW a \in Actors \ own, Busy(a)'
  PROVE  \A v \in Urls \ since'[a] : v \notin since[a] /\ StatusOf(v)' = StatusOf(v)
<1>1. since'[a] = since[a] \cup Changed
  BY DEF Noted
<1> QED BY <1>1 DEF Changed

\* An actor that is still busy after a step of its own has missed nothing more.
LEMMA OwnStep ==
  ASSUME TypeOK, NEW own, Noted(own), NEW a \in Actors \cap own, Busy(a)'
  PROVE  since'[a] = since[a]
BY DEF Noted

\* What the others have read stays as they know it, or they are told.
LEMMA OthersFresh ==
  ASSUME FInv, NEW own, Noted(own)
  PROVE  /\ \A r \in Reviewers \ own : req'[r] = req[r] => RequestFresh(r)'
         /\ \A p \in Proposers \ own : run'[p] = run[p] => RunFresh(p)'
         /\ \A l \in (Crawls \cup Monitors) \ own : pass'[l] = pass[l] => PassFresh(l)'
<1>1. ASSUME NEW r \in Reviewers \ own, req'[r] = req[r] PROVE RequestFresh(r)'
  <2> SUFFICES ASSUME req[r] # Idle, req[r].url \notin since'[r]
               PROVE  IF req[r].act = "register" THEN StatusOf(req[r].url)' # "rejected"
                      ELSE StatusOf(req[r].url)' = "pending_approval"
    <3> PICK u : u = req[r].url
      OBVIOUS
    <3>1. u = req'[r].url /\ (StatusOf(u)' = StatusOf(req[r].url)')
      BY <1>1
    <3> QED BY <1>1 DEF RequestFresh, StatusOf
  <2>1. PICK u \in Urls : u = req[r].url
    BY InFlight DEF FInv
  <2>2. r \in Actors \ own /\ Busy(r)'
    BY <1>1 DEF Actors, Busy
  <2>3. u \notin since[r] /\ StatusOf(u)' = StatusOf(u)
    BY <2>1, <2>2, Missed DEF FInv
  <2>4. IF req[r].act = "register" THEN StatusOf(u) # "rejected" ELSE StatusOf(u) = "pending_approval"
    BY <2>1, <2>3 DEF FInv, NothingStale, RequestFresh
  <2> QED BY <1>1, <2>1, <2>3, <2>4
<1>2. ASSUME NEW p \in Proposers \ own, run'[p] = run[p] PROVE RunFresh(p)'
  <2> SUFFICES ASSUME run[p] # Idle PROVE RunFresh(p)'
    BY <1>2 DEF RunFresh
  <2>1. p \in Actors \ own /\ Busy(p)'
    BY <1>2 DEF Actors, Busy
  <2>2. \A v \in Urls \ since'[p] : v \in Urls \ since[p] /\ StatusOf(v)' = StatusOf(v)
    BY <2>1, Missed DEF FInv
  <2>3. RunFresh(p)
    BY DEF FInv, NothingStale
  <2> QED BY <1>2, <2>2, <2>3 DEF RunFresh, Asked
<1>3. ASSUME NEW l \in (Crawls \cup Monitors) \ own, pass'[l] = pass[l] PROVE PassFresh(l)'
  <2>1. CASE pass[l] = Idle
    BY <1>3, <2>1 DEF PassFresh
  <2>2. CASE pass[l] # Idle /\ pass[l].url \in since'[l]
    BY <1>3, <2>2 DEF PassFresh
  <2>3. CASE pass[l] # Idle /\ pass[l].url \notin since'[l]
    <3>1. PICK u \in Urls : u = pass[l].url
      BY <2>3, InFlight DEF FInv
    <3>2. l \in Actors \ own /\ Busy(l)'
      BY <1>3, <2>3 DEF Actors, Busy
    <3>3. u \notin since[l] /\ StatusOf(u)' = StatusOf(u)
      BY <2>3, <3>1, <3>2, Missed DEF FInv
    <3>4. StatusOf(u) = pass[l].row.status
      BY <2>3, <3>1, <3>3 DEF FInv, NothingStale, PassFresh
    <3>5. u = pass'[l].url /\ StatusOf(u)' = pass'[l].row.status
      BY <1>3, <3>1, <3>3, <3>4
    <3> QED BY <3>5 DEF PassFresh, StatusOf
  <2> QED BY <2>1, <2>2, <2>3
<1> QED BY <1>1, <1>2, <1>3

\* A reviewer's request still stands on what it read.
LEMMA ReviewFresh ==
  ASSUME FInv, NEW r \in Reviewers, ReviewStep(r), Noted({r})
  PROVE  RequestFresh(r)'
<1>1. r \in Actors \cap {r} /\ TypeOK /\ req \in [Reviewers -> Request]
  BY DEF Actors, FInv, TypeOK
<1>2. ASSUME NEW u \in DOMAIN sources, NEW act \in {"approve", "reject"}, ReadForDecision(r, act, u)
      PROVE  RequestFresh(r)'
  <2>1. req'[r].act = act /\ req'[r].url = u /\ UNCHANGED sources
    BY <1>1, <1>2 DEF ReadForDecision, Decision
  <2>2. StatusOf(u)' = "pending_approval"
    BY <1>2, <2>1 DEF ReadForDecision, MayDecide, StatusOf
  <2> QED BY <2>1, <2>2 DEF RequestFresh, StatusOf
<1>3. ASSUME NEW u \in Urls, ReadForRegister(r, u) PROVE RequestFresh(r)'
  <2>1. req'[r].act = "register" /\ req'[r].url = u /\ UNCHANGED sources
    BY <1>1, <1>3 DEF ReadForRegister, Decision
  <2>2. StatusOf(u)' # "rejected"
    BY <1>3, <2>1 DEF ReadForRegister, MayRegister, StatusOf
  <2> QED BY <2>1, <2>2 DEF RequestFresh, StatusOf
<1>4. CASE RecordReview(r)
  <2>1. req[r] # Idle /\ UNCHANGED sources /\ req'[r].act = req[r].act /\ req'[r].url = req[r].url
    BY <1>1, <1>4, InFlight DEF RecordReview, Logging
  <2>2. Busy(r)'
    BY <1>1, <1>4 DEF RecordReview, Logging, Busy, Idle
  <2>3. since'[r] = since[r]
    BY <1>1, <2>2, OwnStep
  <2>4. RequestFresh(r)
    BY DEF FInv, NothingStale
  <2>5. PICK u, act : u = req[r].url /\ act = req[r].act
    OBVIOUS
  <2>6. StatusOf(u)' = StatusOf(u)
    BY <2>1 DEF StatusOf
  <2>7. u \notin since[r] => IF act = "register" THEN StatusOf(u) # "rejected" ELSE StatusOf(u) = "pending_approval"
    BY <2>1, <2>4, <2>5 DEF RequestFresh
  <2>8. u = req'[r].url /\ act = req'[r].act
    BY <2>1, <2>5
  <2> QED BY <2>3, <2>6, <2>7, <2>8 DEF RequestFresh, StatusOf
<1>5. CASE Decide(r) \/ RequestFails(r)
  <2>1. req'[r] = Idle
    BY <1>1, <1>5 DEF Decide, RequestFails
  <2> QED BY <2>1 DEF RequestFresh
<1> QED BY <1>2, <1>3, <1>4, <1>5 DEF ReviewStep

\* A pass holds the row as it is when it reads it.
LEMMA PassFreshOwn ==
  ASSUME FInv, NEW l \in Crawls \cup Monitors,
         PassStep(l) \/ (l \in Monitors /\ Recrawl(l))
  PROVE  PassFresh(l)'
<1>1. pass \in [Crawls \cup Monitors -> Pass]
  BY DEF FInv, TypeOK
<1>2. ASSUME NEW u \in DOMAIN sources, pass' = [pass EXCEPT ![l] = Working(u)], UNCHANGED sources
      PROVE  PassFresh(l)'
  <2>1. pass'[l].url = u /\ pass'[l].row = sources[u]
    BY <1>1, <1>2 DEF Working
  <2> QED BY <1>2, <2>1 DEF PassFresh, StatusOf
<1>3. ASSUME pass' = [pass EXCEPT ![l] = Idle] PROVE PassFresh(l)'
  <2>1. pass'[l] = Idle
    BY <1>1, <1>3
  <2> QED BY <2>1 DEF PassFresh
<1> QED BY <1>2, <1>3 DEF PassStep, StartCrawl, StartMonitor, WriteBack, PassFails, Recrawl

\* A run that has asked for all four statuses knows every domain that had one.
LEMMA ProposerFresh ==
  ASSUME FInv, NEW p \in Proposers, ProposerStep(p), Noted({p})
  PROVE  RunFresh(p)'
<1>0. p \in Actors \cap {p} /\ TypeOK /\ run \in [Proposers -> Proposing]
  BY DEF Actors, FInv, TypeOK
<1>00. run'[p] # Idle => since'[p] = since[p]
  BY <1>0, OwnStep DEF Busy
<1>1. CASE StartProposals(p)
  <2>1. PICK todo \in SUBSET Urls :
          /\ \A u, v \in todo : DomainOf[u] = DomainOf[v] => u = v
          /\ run' = [run EXCEPT ![p] = Running("known", 4, {}, todo)]
    BY <1>1 DEF StartProposals
  <2>2. run'[p].stage = "known" /\ run'[p].left = 4 /\ run'[p].todo = todo /\ run'[p].known = {}
    BY <1>0, <2>1 DEF Running
  <2>3. Asked(4) = {}
    BY DEF Asked
  <2> QED BY <2>1, <2>2, <2>3 DEF RunFresh
<1>2. CASE ReadKnown(p)
  <2>0. run[p] # Idle /\ run[p].stage = "known" /\ UNCHANGED sources
    BY <1>0, <1>2, InFlight DEF ReadKnown
  <2>1. PICK left, todo, asked : left = run[p].left /\ todo = run[p].todo /\ asked = run[p].known
    OBVIOUS
  <2>2. /\ \A u, v \in todo : DomainOf[u] = DomainOf[v] => u = v
        /\ left \in 1..4 /\ todo \subseteq Urls
        /\ \A v \in Urls \ since[p] : StatusOf(v) \in Asked(left) => DomainOf[v] \in asked
    BY <1>0, <2>0, <2>1, InFlight DEF FInv, NothingStale, RunFresh
  <2>3. PICK known : known = asked \cup {DomainOf[u] : u \in WithStatus(KnownOrder[5 - left])}
    OBVIOUS
  <2>4. PICK novel : novel = {u \in todo : DomainOf[u] \notin known}
    OBVIOUS
  <2>5. run' = [run EXCEPT ![p] = IF left > 1 THEN Running("known", left - 1, known, todo)
                                  ELSE IF novel = {} THEN Idle ELSE Running("upsert", 0, known, novel)]
    BY <1>2, <2>1, <2>3, <2>4 DEF ReadKnown
  <2>6. \A v \in Urls \ since[p] : StatusOf(v) \in Asked(left - 1) => DomainOf[v] \in known
    <3> SUFFICES ASSUME NEW v \in Urls \ since[p], StatusOf(v) \in Asked(left - 1)
                 PROVE  DomainOf[v] \in known
      OBVIOUS
    <3>1. PICK i \in 1..(4 - (left - 1)) : StatusOf(v) = KnownOrder[i]
      BY DEF Asked
    <3>2. i \in 1..(4 - left) \/ i = 5 - left
      BY <2>2, <3>1
    <3>3. CASE i \in 1..(4 - left)
      BY <2>2, <2>3, <3>1, <3>3 DEF Asked
    <3>4. CASE i = 5 - left
      <4>1. KnownOrder[i] # "none"
        BY <2>2, <3>4 DEF KnownOrder
      <4>2. v \in WithStatus(KnownOrder[5 - left])
        BY <3>1, <3>4, <4>1 DEF WithStatus, StatusOf
      <4> QED BY <2>3, <4>2
    <3> QED BY <3>2, <3>3, <3>4
  <2>7. \A v : StatusOf(v)' = StatusOf(v)
    BY <2>0 DEF StatusOf
  <2>8. CASE left > 1
    <3>1. run'[p].stage = "known" /\ run'[p].left = left - 1 /\ run'[p].todo = todo /\ run'[p].known = known
      BY <1>0, <2>5, <2>8 DEF Running
    <3>2. left - 1 \in 1..4 /\ since'[p] = since[p]
      <4>1. run'[p] # Idle
        BY <3>1 DEF Idle
      <4> QED BY <1>00, <2>2, <2>8, <4>1
    <3>3. Asked(left - 1)' = Asked(left - 1)
      BY DEF Asked
    <3>4. \A v \in Urls \ since'[p] :
            StatusOf(v)' \in Asked(left - 1) => DomainOf[v] \in known
      BY <2>6, <2>7, <3>2
    <3> QED BY <2>2, <3>1, <3>2, <3>4 DEF RunFresh, Asked
  <2>9. CASE left = 1 /\ run'[p] # Idle
    <3>1. run'[p].stage = "upsert" /\ run'[p].todo = novel
      BY <1>0, <2>5, <2>9 DEF Running
    <3>2. \A v \in Urls : StatusOf(v) # "none" => StatusOf(v) \in Asked(left - 1)
      <4>1. \A v \in Urls : StatusOf(v) # "none" => StatusOf(v) \in Status
        BY <1>0 DEF TypeOK, StatusOf, SourceRow
      <4>2. KnownOrder[1] = "active" /\ KnownOrder[2] = "pending_approval"
            /\ KnownOrder[3] = "disabled" /\ KnownOrder[4] = "rejected"
        BY DEF KnownOrder
      <4>3. Status \subseteq {KnownOrder[i] : i \in 1..4}
        <5>1. 1 \in 1..4 /\ 2 \in 1..4 /\ 3 \in 1..4 /\ 4 \in 1..4
          OBVIOUS
        <5> QED BY <4>2, <5>1 DEF Status
      <4>4. 1..(4 - (left - 1)) = 1..4
        BY <2>9
      <4> QED BY <4>1, <4>3, <4>4 DEF Asked
    <3>3. \A v \in Urls \ since'[p] : StatusOf(v)' # "none" => DomainOf[v] \in known
      BY <1>00, <2>6, <2>7, <2>9, <3>2
    <3> QED BY <2>2, <2>4, <3>1, <3>3 DEF RunFresh
  <2> QED BY <2>2, <2>8, <2>9 DEF RunFresh
<1>3. ASSUME NEW u \in Urls, Propose(p, u) PROVE RunFresh(p)'
  <2>0. run[p] # Idle /\ run[p].stage = "upsert" /\ u \in run[p].todo /\ run[p].todo \subseteq Urls
    BY <1>0, <1>3, InFlight DEF Propose
  <2>1. \A v \in Urls \ {u} : StatusOf(v)' = StatusOf(v)
    <3>1. PICK id \in Ids : Upsert(u, Row(id, "pending_approval"))
      BY <1>3 DEF Propose
    <3>2. PICK row : row = Row(id, "pending_approval")
      OBVIOUS
    <3>3. row.status = "pending_approval" /\ row = Row(id, row.status) /\ Upsert(u, row)
      BY <3>1, <3>2 DEF Row
    <3> QED BY <3>3, WriteStatus
  <2>2. /\ \A x, v \in run[p].todo : DomainOf[x] = DomainOf[v] => x = v
        /\ \A x \in run[p].todo, v \in Urls \ since[p] : StatusOf(v) # "none" => DomainOf[v] # DomainOf[x]
    BY <2>0 DEF FInv, NothingStale, RunFresh
  <2>3. run'[p] = Idle \/ run'[p] = Running("upsert", 0, run[p].known, run[p].todo \ {u})
    BY <1>0, <1>3 DEF Propose
  <2> SUFFICES ASSUME run'[p] # Idle PROVE RunFresh(p)'
    BY DEF RunFresh
  <2>4. run'[p].stage = "upsert" /\ run'[p].todo = run[p].todo \ {u} /\ since'[p] = since[p]
    BY <1>00, <2>3 DEF Running
  <2>5. \A x \in run'[p].todo, v \in Urls \ since'[p] : StatusOf(v)' # "none" => DomainOf[v] # DomainOf[x]
    BY <2>0, <2>1, <2>2, <2>4
  <2> QED BY <2>2, <2>4, <2>5 DEF RunFresh
<1>4. CASE ProposerFails(p)
  <2>1. run'[p] = Idle
    BY <1>0, <1>4 DEF ProposerFails
  <2> QED BY <2>1 DEF RunFresh
<1> QED BY <1>1, <1>2, <1>3, <1>4 DEF ProposerStep

\* Each actor's step leaves what the others are doing alone.
LEMMA OwnOnly ==
  ASSUME TypeOK
  PROVE  /\ \A r \in Reviewers : ReviewStep(r) =>
              /\ \A x \in Reviewers \ {r} : req'[x] = req[x]
              /\ UNCHANGED <<run, pass>>
         /\ \A p \in Proposers : ProposerStep(p) =>
              /\ \A x \in Proposers \ {p} : run'[x] = run[x]
              /\ UNCHANGED <<req, pass>>
         /\ \A l \in Crawls \cup Monitors : PassStep(l) \/ Recrawl(l) =>
              /\ \A x \in (Crawls \cup Monitors) \ {l} : pass'[x] = pass[x]
              /\ UNCHANGED <<req, run>>
<1>1. ASSUME NEW r \in Reviewers, ReviewStep(r)
      PROVE  (\A x \in Reviewers \ {r} : req'[x] = req[x]) /\ UNCHANGED <<run, pass>>
  BY <1>1 DEF TypeOK, ReviewStep, ReadForDecision, ReadForRegister, RecordReview, Decide, RequestFails
<1>2. ASSUME NEW p \in Proposers, ProposerStep(p)
      PROVE  (\A x \in Proposers \ {p} : run'[x] = run[x]) /\ UNCHANGED <<req, pass>>
  BY <1>2 DEF TypeOK, ProposerStep, StartProposals, ReadKnown, Propose, ProposerFails
<1>3. ASSUME NEW l \in Crawls \cup Monitors, PassStep(l) \/ Recrawl(l)
      PROVE  (\A x \in (Crawls \cup Monitors) \ {l} : pass'[x] = pass[x]) /\ UNCHANGED <<req, run>>
  BY <1>3 DEF TypeOK, PassStep, StartCrawl, StartMonitor, WriteBack, PassFails, Recrawl
<1> QED BY <1>1, <1>2, <1>3

\* What every actor has read stays as it knows it, or it is told, in every step.
LEMMA NextFresh ==
  ASSUME FInv, Next
  PROVE  NothingStale'
<1>0. TypeOK
  BY DEF FInv
<1>1. ASSUME NEW r \in Reviewers, ReviewStep(r), Noted({r}) PROVE NothingStale'
  <2>1. (\A x \in Reviewers \ {r} : req'[x] = req[x]) /\ UNCHANGED <<run, pass>>
    BY <1>0, <1>1, OwnOnly
  <2>2. /\ \A x \in Reviewers \ {r} : RequestFresh(x)'
        /\ \A p \in Proposers \ {r} : RunFresh(p)'
        /\ \A l \in (Crawls \cup Monitors) \ {r} : PassFresh(l)'
    BY <1>1, <2>1, OthersFresh
  <2>3. r \notin Proposers \cup Crawls \cup Monitors
    BY ActorsAssumption
  <2> QED BY <1>1, <2>2, <2>3, ReviewFresh DEF NothingStale
<1>2. ASSUME NEW p \in Proposers, ProposerStep(p), Noted({p}) PROVE NothingStale'
  <2>1. (\A x \in Proposers \ {p} : run'[x] = run[x]) /\ UNCHANGED <<req, pass>>
    BY <1>0, <1>2, OwnOnly
  <2>2. /\ \A r \in Reviewers \ {p} : RequestFresh(r)'
        /\ \A x \in Proposers \ {p} : RunFresh(x)'
        /\ \A l \in (Crawls \cup Monitors) \ {p} : PassFresh(l)'
    BY <1>2, <2>1, OthersFresh
  <2>3. p \notin Reviewers \cup Crawls \cup Monitors
    BY ActorsAssumption
  <2> QED BY <1>2, <2>2, <2>3, ProposerFresh DEF NothingStale
<1>3. ASSUME NEW l \in Crawls \cup Monitors, PassStep(l), Noted({l}) PROVE NothingStale'
  <2>1. (\A x \in (Crawls \cup Monitors) \ {l} : pass'[x] = pass[x]) /\ UNCHANGED <<req, run>>
    BY <1>0, <1>3, OwnOnly
  <2>2. /\ \A r \in Reviewers \ {l} : RequestFresh(r)'
        /\ \A p \in Proposers \ {l} : RunFresh(p)'
        /\ \A x \in (Crawls \cup Monitors) \ {l} : PassFresh(x)'
    BY <1>3, <2>1, OthersFresh
  <2>3. l \notin Reviewers \cup Proposers
    BY ActorsAssumption
  <2> QED BY <1>3, <2>2, <2>3, PassFreshOwn DEF NothingStale
<1>4. ASSUME NEW m \in Monitors, Recrawl(m), since' = [since EXCEPT ![m] = {}] PROVE NothingStale'
  <2>1. (\A x \in (Crawls \cup Monitors) \ {m} : pass'[x] = pass[x]) /\ UNCHANGED <<req, run>>
    BY <1>0, <1>4, OwnOnly
  <2>2. UNCHANGED sources
    BY <1>4 DEF Recrawl
  <2>3. \A a \in Actors \ {m} : since'[a] = since[a]
    BY <1>0, <1>4 DEF TypeOK
  <2>4. \A r \in Reviewers : RequestFresh(r)'
    BY <2>1, <2>2, <2>3, ActorsAssumption DEF FInv, NothingStale, RequestFresh, StatusOf, Actors
  <2>5. \A p \in Proposers : RunFresh(p)'
    BY <2>1, <2>2, <2>3, ActorsAssumption DEF FInv, NothingStale, RunFresh, StatusOf, Actors, Asked
  <2>6. \A x \in (Crawls \cup Monitors) \ {m} : PassFresh(x)'
    BY <2>1, <2>2, <2>3 DEF FInv, NothingStale, PassFresh, StatusOf, Actors
  <2>7. PassFresh(m)'
    BY <1>4, PassFreshOwn
  <2> QED BY <2>4, <2>5, <2>6, <2>7 DEF NothingStale
<1>5. ASSUME NEW u \in Urls, ImportSeed(u), Noted({}) PROVE NothingStale'
  <2>1. UNCHANGED <<req, run, pass>>
    BY <1>5 DEF ImportSeed
  <2>2. /\ \A r \in Reviewers \ {} : RequestFresh(r)'
        /\ \A p \in Proposers \ {} : RunFresh(p)'
        /\ \A l \in (Crawls \cup Monitors) \ {} : PassFresh(l)'
    BY <1>5, <2>1, OthersFresh
  <2> QED BY <2>2 DEF NothingStale
<1> QED BY <1>1, <1>2, <1>3, <1>4, <1>5 DEF Next

LEMMA InvariantFInv == Spec => []FInv
<1>1. Init => FInv
  <2>1. Init => TypeOK
    BY DEF Init, TypeOK, Request, Proposing, Pass
  <2>2. Init => NothingStale
    BY DEF Init, NothingStale, RequestFresh, RunFresh, PassFresh
  <2> QED BY <2>1, <2>2 DEF FInv
<1>2. FInv /\ UNCHANGED vars => FInv'
  <2>1. FInv /\ UNCHANGED vars => TypeOK'
    BY NextType DEF FInv
  <2>2. FInv /\ UNCHANGED vars => NothingStale'
    BY DEF FInv, NothingStale, RequestFresh, RunFresh, PassFresh, StatusOf, Asked, vars
  <2> QED BY <2>1, <2>2 DEF FInv
<1>3. FInv /\ [Next]_vars => FInv'
  BY <1>2, NextType, NextFresh DEF FInv
<1> QED BY <1>1, <1>3, PTL DEF Spec

\* Only a decision, a proposal, a write-back or an import changes a status.
LEMMA Writers ==
  ASSUME FInv, Next, NEW u \in Urls, StatusOf(u)' # StatusOf(u)
  PROVE  \/ \E r \in Reviewers : Decide(r) /\ req[r].url = u /\ Logged(r)
         \/ \E p \in Proposers : Propose(p, u)
         \/ \E l \in Crawls \cup Monitors : WriteBack(l) /\ pass[l].url = u
         \/ u \in Seeds /\ ImportSeed(u)
<1>0. \A id \in Ids, status \in Status :
        Row(id, status).status = status /\ Row(id, status) = Row(id, Row(id, status).status)
  BY DEF Row
<1>1. ~UNCHANGED sources
  BY DEF StatusOf
<1>2. ASSUME NEW r \in Reviewers, Decide(r) PROVE req[r].url = u /\ Logged(r)
  <2>1. Logged(r) /\ req[r] # Idle
    BY <1>2 DEF Decide, Logged, Idle
  <2>2. req[r].url \in Urls /\ req[r].row = Row(req[r].row.id, req[r].row.status)
    BY <2>1, InFlight DEF FInv, SourceRow, Row
  <2>3. Upsert(req[r].url, req[r].row) \/ Update(req[r].url, req[r].row)
    BY <1>2 DEF Decide
  <2>4. \A v \in Urls \ {req[r].url} : StatusOf(v)' = StatusOf(v)
    BY <2>2, <2>3, WriteStatus
  <2> QED BY <2>1, <2>4
<1>3. ASSUME NEW p \in Proposers, NEW v \in Urls, Propose(p, v) PROVE v = u
  <2>1. PICK id \in Ids : Upsert(v, Row(id, "pending_approval"))
    BY <1>3 DEF Propose
  <2>2. PICK row : row = Row(id, "pending_approval")
    OBVIOUS
  <2>3. Upsert(v, row) /\ row = Row(id, row.status)
    BY <2>1, <2>2 DEF Row
  <2> QED BY <2>3, WriteStatus
<1>4. ASSUME NEW l \in Crawls \cup Monitors, WriteBack(l) PROVE pass[l].url = u
  <2>1. pass[l] # Idle /\ Update(pass[l].url, pass[l].row)
    BY <1>4 DEF WriteBack
  <2>2. pass[l].url \in Urls /\ pass[l].row = Row(pass[l].row.id, pass[l].row.status)
    BY <2>1, InFlight DEF FInv, SourceRow, Row
  <2> QED BY <2>1, <2>2, WriteStatus
<1>5. ASSUME NEW v \in Urls, ImportSeed(v) PROVE v = u /\ u \in Seeds
  <2>1. PICK id \in Ids : v \in Seeds /\ Upsert(v, Row(id, "active"))
    BY <1>5 DEF ImportSeed
  <2>2. PICK row : row = Row(id, "active")
    OBVIOUS
  <2>3. Upsert(v, row) /\ row = Row(id, row.status)
    BY <2>1, <2>2 DEF Row
  <2> QED BY <2>1, <2>3, WriteStatus
<1>6. ASSUME NEW r \in Reviewers, ReviewStep(r) PROVE Decide(r)
  BY <1>1, <1>6 DEF ReviewStep, ReadForDecision, ReadForRegister, RecordReview, RequestFails
<1>7. ASSUME NEW p \in Proposers, ProposerStep(p) PROVE \E v \in Urls : Propose(p, v)
  BY <1>1, <1>7 DEF ProposerStep, StartProposals, ReadKnown, ProposerFails
<1>8. ASSUME NEW l \in Crawls \cup Monitors, PassStep(l) PROVE WriteBack(l)
  BY <1>1, <1>8 DEF PassStep, StartCrawl, StartMonitor, PassFails
<1>9. \A m \in Monitors : ~Recrawl(m)
  BY <1>1 DEF Recrawl
<1> QED BY <1>2, <1>3, <1>4, <1>5, <1>6, <1>7, <1>8, <1>9 DEF Next

\* A rejection is only undone by the seed list or by an actor that read before it was
\* made, however many requests, runs and passes overlap.
THEOREM RejectionStands == Spec => RejectionRespected
<1> DEFINE Undone(u) ==
      sources[u].status = "rejected" /\ StatusOf(u)' # "rejected" =>
        \/ u \in Seeds /\ Moved = {}
        \/ \E a \in Moved : u \in since[a]
<1>1. FInv /\ [Next]_vars => [\A u \in DOMAIN sources : Undone(u)]_vars
  <2> SUFFICES ASSUME FInv, Next, NEW u \in DOMAIN sources,
                      sources[u].status = "rejected", StatusOf(u)' # "rejected"
               PROVE  (u \in Seeds /\ Moved = {}) \/ \E a \in Moved : u \in since[a]
    OBVIOUS
  <2>0. u \in Urls /\ StatusOf(u) = "rejected" /\ TypeOK
    BY DEF FInv, TypeOK, StatusOf
  <2>1. ASSUME NEW r \in Reviewers, Decide(r), req[r].url = u, Logged(r)
        PROVE  r \in Moved /\ u \in since[r]
    <3>1. req[r] # Idle /\ req'[r] = Idle
      BY <2>0, <2>1 DEF Decide, Logged, TypeOK, Idle
    <3>2. r \in Moved
      BY <3>1 DEF Moved
    <3>3. RequestFresh(r)
      BY DEF FInv, NothingStale
    <3>4. u \notin since[r] => \/ req[r].act = "register" /\ StatusOf(u) # "rejected"
                             \/ StatusOf(u) = "pending_approval"
      BY <2>1, <3>1, <3>3 DEF RequestFresh
    <3> QED BY <2>0, <3>2, <3>4
  <2>2. ASSUME NEW p \in Proposers, Propose(p, u) PROVE p \in Moved /\ u \in since[p]
    <3>1. run[p] # Idle /\ run[p].stage = "upsert" /\ u \in run[p].todo
      BY <2>2 DEF Propose, Idle
    <3>2. run'[p] # run[p]
      <4>1. run'[p] = Idle \/ run'[p].todo = run[p].todo \ {u}
        BY <2>0, <2>2 DEF Propose, Running, TypeOK
      <4> QED BY <3>1, <4>1
    <3>3. RunFresh(p)
      BY DEF FInv, NothingStale
    <3>4. u \notin since[p] => StatusOf(u) = "none"
      BY <2>0, <3>1, <3>3 DEF RunFresh
    <3> QED BY <2>0, <3>2, <3>4 DEF Moved
  <2>3. ASSUME NEW l \in Crawls \cup Monitors, WriteBack(l), pass[l].url = u
        PROVE  l \in Moved /\ u \in since[l]
    <3>1. pass[l] # Idle /\ pass'[l] = Idle
      BY <2>0, <2>3 DEF WriteBack, TypeOK
    <3>2. pass[l].row = Row(pass[l].row.id, pass[l].row.status)
      BY <3>1, InFlight DEF FInv, SourceRow, Row
    <3>3. StatusOf(u)' = StatusOf(u) \/ StatusOf(u)' = pass[l].row.status
      BY <2>0, <2>3, <3>2, WriteStatus DEF WriteBack
    <3>4. PassFresh(l)
      BY DEF FInv, NothingStale
    <3>5. u \notin since[l] => StatusOf(u) = pass[l].row.status
      BY <2>3, <3>1, <3>4 DEF PassFresh
    <3> QED BY <2>0, <3>1, <3>3, <3>5 DEF Moved
  <2>4. ASSUME u \in Seeds, ImportSeed(u) PROVE u \in Seeds /\ Moved = {}
    BY <2>4 DEF ImportSeed, Moved
  <2> QED BY <2>0, <2>1, <2>2, <2>3, <2>4, Writers
<1>2. Spec => []FInv
  BY InvariantFInv
<1> QED BY <1>1, <1>2, PTL DEF Spec, RejectionRespected

\* Lane B proposes nothing whose domain the registry held when the run began to ask,
\* unless the source that bears it has changed its status since.
THEOREM NoKnownIsProposed == Spec => KnownIsNotProposed
<1> DEFINE Slipped(p, u, v) ==
      (/\ run'[p] # run[p] /\ StatusOf(u) # "pending_approval" /\ StatusOf(u)' = "pending_approval"
       /\ DomainOf[v] = DomainOf[u]) => v \in since[p]
<1>1. FInv /\ [Next]_vars =>
        [\A p \in Proposers, u \in Urls, v \in DOMAIN sources : Slipped(p, u, v)]_vars
  <2> SUFFICES ASSUME FInv, Next, NEW p \in Proposers, NEW u \in Urls, NEW v \in DOMAIN sources,
                      run'[p] # run[p], StatusOf(u)' # StatusOf(u), DomainOf[v] = DomainOf[u]
               PROVE  v \in since[p]
    OBVIOUS
  <2>0. TypeOK /\ v \in Urls /\ StatusOf(v) # "none"
    BY DEF FInv, TypeOK, StatusOf, SourceRow, Status
  <2>1. PICK x \in Proposers : Propose(x, u)
    <3>1. \A r \in Reviewers : ~Decide(r)
      BY DEF Decide
    <3>2. \A l \in Crawls \cup Monitors : ~WriteBack(l)
      BY DEF WriteBack
    <3>3. ~ImportSeed(u)
      BY DEF ImportSeed
    <3> QED BY <3>1, <3>2, <3>3, Writers
  <2>2. x = p
    BY <2>0, <2>1 DEF Propose, TypeOK
  <2>3. run[p] # Idle /\ run[p].stage = "upsert" /\ u \in run[p].todo
    BY <2>1, <2>2 DEF Propose, Idle
  <2>4. RunFresh(p)
    BY DEF FInv, NothingStale
  <2> QED BY <2>0, <2>3, <2>4 DEF RunFresh
<1>2. Spec => []FInv
  BY InvariantFInv
<1> QED BY <1>1, <1>2, PTL DEF Spec, KnownIsNotProposed
=============================================================================
