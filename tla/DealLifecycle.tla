--------------------------- MODULE DealLifecycle ---------------------------
(***************************************************************************)
(* The life of a deal record, from the crawl that captures it to the human *)
(* who publishes it and the monitor that expires it.                       *)
(*                                                                         *)
(* Three kinds of process share the tables `deals`, `evidence` and         *)
(* `reviews`: requests of the review API (ReviewUseCase), crawl lanes that *)
(* persist what they extracted (CandidateSink), and the monitor's expiry.  *)
(* Nothing locks a deal between the read a handler decides on and the      *)
(* write that carries the decision out, so every awaited database call is  *)
(* an action of its own and a handler may stop between any two of them.    *)
(*                                                                         *)
(* A row's editable content is abstracted to the set of reviewers whose    *)
(* corrections it carries (human_edited), its evidence to the page it was  *)
(* captured from and that page's content hash.  Confidence is abstracted:  *)
(* findByDedupeKey may return any of the rows it ranks.                    *)
(***************************************************************************)
EXTENDS FiniteSets

CONSTANTS
  Deals,      \* deal ids (randomUUID); bounds how many rows are ever inserted
  Captures,   \* evidence ids; bounds how many pages are ever captured
  Keys,       \* dedupe keys: service | provider | route | country | origin
  Urls,       \* final page URLs
  Hashes,     \* content hashes of a page's text
  Reviewers,  \* named callers of the review API
  Anonymous,  \* a caller whose approver string is blank
  Lanes,      \* crawl / discovery / ingest passes that may overlap
  Acts,       \* the review operations the callers use
  LostAcks,   \* may a committed UPDATE be retried because its answer was lost?
  NoOne       \* verified_by = null

ASSUME CallersAssumption ==
  /\ Anonymous \notin Reviewers
  /\ NoOne \notin Reviewers \cup {Anonymous}
ASSUME LostAcksAssumption == LostAcks \in BOOLEAN
ASSUME ActsAssumption ==
  Acts \subseteq {"approve", "edit", "reject", "rejectWithReason", "capture"}

VARIABLES
  deals,      \* table deals: id -> row
  evidence,   \* table evidence: id -> the page captured
  reviews,    \* table reviews: the append-only decision log
  req,        \* what each caller's request is doing
  lane,       \* what each crawl lane is doing
  covered,    \* history: the <<key, hash>> pairs some row has had
  persisted,  \* history: the <<key, hash>> pairs the sink is done with
  overtaken,  \* history: lanes since whose duplicate check another lane inserted
              \* the content they are about to insert
  doubtful    \* history: deals inserted by such a lane, or brought back into the
              \* queue by a copy older than a decision or a correction

vars == <<deals, evidence, reviews, req, lane, covered, persisted, overtaken, doubtful>>

Callers == Reviewers \cup {Anonymous}
Reviewable == {"candidate", "in_review"}
DealStatus == Reviewable \cup {"published", "rejected", "expired"}

DealRow == [status: DealStatus, key: Keys, capture: Captures,
            edits: SUBSET Reviewers, by: Reviewers \cup {NoOne}]
Page == [url: Urls, hash: Hashes]
ReviewRow == [deal: Deals, action: {"approve", "edit", "reject"}, by: Reviewers]

Idle == [stage |-> "idle"]
Request == {Idle} \cup [stage: {"read", "audited", "rewritten"},
                        act: Acts, deal: Deals, row: DealRow]
Pass == {Idle} \cup [stage: {"lookup", "check", "insert"}, capture: Captures,
                     todo: SUBSET Keys, key: Keys, found: Captures, force: BOOLEAN]

-----------------------------------------------------------------------------
(* Tables *)

Put(table, id, row) ==
  [x \in DOMAIN table \cup {id} |-> IF x = id THEN row ELSE table[x]]

\* The id is an existing or a reserved one: ids are random, never reused.
Reserved(d) == \E r \in Callers : req[r] # Idle /\ req[r].deal = d
Fresh(d) == d \notin DOMAIN deals /\ ~Reserved(d)

\* The unique index deals(dedupe_key, evidence_id).
Collides(d, row) ==
  \E x \in DOMAIN deals \ {d} : deals[x].key = row.key /\ deals[x].capture = row.capture

\* deals.insert: a row that collides, on the index or on its id, is dropped
\* without an error.
InsertDeal(d, row) ==
  deals' = IF d \in DOMAIN deals \/ Collides(d, row) THEN deals ELSE Put(deals, d, row)

\* Mutant: the bundle is not recorded.
SkipEvidence(c, page) == evidence' = evidence

\* evidence.insert: the bundle is on record before anything refers to it.
StoreEvidence(c, page) == evidence' = Put(evidence, c, page)

HashOf(row) == evidence[row.capture].hash
Cover(key, hash) == covered' = covered \cup {<<key, hash>>}

\* findByDedupeKey: the rows of a route that are not rejected.
ByDedupeKey(k) == {d \in DOMAIN deals : deals[d].key = k /\ deals[d].status # "rejected"}

\* Mutants: the hash is not compared; the queue is not looked at.
QueuedAnyHash(k, h) ==
  \E d \in DOMAIN deals : deals[d].key = k /\ deals[d].status \in Reviewable
NeverQueued(k, h) == FALSE

\* findActiveByDedupeKeyAndHash: such a row is still queued for this content.
QueuedWithHash(k, h) ==
  \E d \in DOMAIN deals : /\ deals[d].key = k
                          /\ deals[d].status \in Reviewable
                          /\ HashOf(deals[d]) = h

-----------------------------------------------------------------------------
Init ==
  /\ deals = [d \in {} |-> Idle]
  /\ evidence = [c \in {} |-> Idle]
  /\ reviews = {}
  /\ req = [r \in Callers |-> Idle]
  /\ lane = [l \in Lanes |-> Idle]
  /\ covered = {}
  /\ persisted = {}
  /\ overtaken = {}
  /\ doubtful = {}

-----------------------------------------------------------------------------
(* The review API.  A request reads the deal, decides, logs, then writes    *)
(* back the WHOLE row it read.                                              *)

NewRow(s, k, c, edits) ==
  [status |-> s, key |-> k, capture |-> c, edits |-> edits, by |-> NoOne]

Decided(row, status, by) ==
  [status |-> status, key |-> row.key, capture |-> row.capture, edits |-> row.edits, by |-> by]

\* A correction of country or route_type changes the row's dedupe key.
Corrected(row, r, k) ==
  [status |-> row.status, key |-> k, capture |-> row.capture,
   edits |-> row.edits \cup {r}, by |-> row.by]

\* The row each operation is going to write, computed from the row it read.
Written(act, r, row) ==
  IF act = "approve" THEN {Decided(row, "published", r)}
  ELSE IF act = "edit" THEN {Corrected(row, r, k) : k \in Keys}
  ELSE {row}

\* Where a request is: its stage, the operation, the deal and the row to write.
At(stage, act, d, row) == [stage |-> stage, act |-> act, deal |-> d, row |-> row]
Advance(q, stage) == At(stage, q.act, q.deal, q.row)

\* Mutants: no identity is asked for; a decided deal may be decided again.
MayDecideAnonymously(r, row) == row.status \in Reviewable
MayDecideAgain(r, row) == r # Anonymous

\* assertApprover, requireDeal and assertReviewable, on the row just read.
MayDecide(r, row) == r # Anonymous /\ row.status \in Reviewable

ReadForDecision(r, act, d) ==
  /\ req[r] = Idle
  /\ MayDecide(r, deals[d])
  /\ \E row \in Written(act, r, deals[d]) :
       req' = [req EXCEPT ![r] = At("read", act, d, row)]
  /\ UNCHANGED <<deals, evidence, reviews, lane, covered, persisted>>

\* mintCandidateFromCapture: the evidence bundle is stored before the row exists.
StoreManualEvidence(r, d, c) ==
  /\ req[r] = Idle
  /\ r # Anonymous
  /\ Fresh(d)
  /\ c \notin DOMAIN evidence
  /\ \E page \in Page, k \in Keys, s \in Reviewable :
       /\ StoreEvidence(c, page)
       /\ req' = [req EXCEPT ![r] = At("read", "capture", d, NewRow(s, k, c, {r}))]
  /\ UNCHANGED <<deals, reviews, lane, covered, persisted>>

\* Mutant: the operation's own name is logged.
AuditedAsIs(act) == act

\* The decision word the audit row carries.
AuditedAs(act) ==
  IF act = "approve" THEN "approve"
  ELSE IF act \in {"edit", "capture"} THEN "edit"
  ELSE "reject"

\* recordReview: log before act.
RecordReview(r) ==
  /\ req[r].stage = "read"
  /\ reviews' = reviews \cup
       {[deal |-> req[r].deal, action |-> AuditedAs(req[r].act), by |-> r]}
  /\ req' = [req EXCEPT ![r] = Advance(req[r], "audited")]
  /\ UNCHANGED <<deals, evidence, lane, covered, persisted>>

\* Mutant: the row may be written before the decision is logged.
LoggedOrNot(r) == req[r].stage \in {"read", "audited"}

\* Log before act: the audit row is durable before the deal is written.
Logged(r) == req[r].stage = "audited"

\* The answer of an UPDATE moves the request on, or is lost: then DbRetrier runs
\* the statement again, some time later.
Answered(r, next) ==
  \/ req' = [req EXCEPT ![r] = next]
  \/ LostAcks /\ UNCHANGED req

\* deals.update writes every column from the request's own copy, wherever the
\* row has got to since; the unique index may refuse an edited key.
UpdateDeal(r) ==
  LET d == req[r].deal
      row == req[r].row
  IN /\ Logged(r)
     /\ req[r].act \in {"approve", "edit", "rejectWithReason"}
     /\ IF Collides(d, row)
        THEN /\ req' = [req EXCEPT ![r] = Idle]
             /\ UNCHANGED <<deals, covered>>
        ELSE /\ deals' = Put(deals, d, row)
             /\ Cover(row.key, HashOf(row))
             /\ Answered(r, IF req[r].act = "rejectWithReason"
                            THEN Advance(req[r], "rewritten")
                            ELSE Idle)
     /\ UNCHANGED <<evidence, reviews, lane, persisted>>

\* deals.updateStatus(rejected): only status and verified_by, unconditionally.
UpdateStatusRejected(r) ==
  LET d == req[r].deal
  IN /\ \/ Logged(r) /\ req[r].act = "reject"
        \/ req[r].stage = "rewritten"
     /\ deals' = Put(deals, d, Decided(deals[d], "rejected", r))
     /\ Answered(r, Idle)
     /\ UNCHANGED <<evidence, reviews, lane, covered, persisted>>

InsertCaptured(r) ==
  LET row == req[r].row
  IN /\ Logged(r)
     /\ req[r].act = "capture"
     /\ InsertDeal(req[r].deal, row)
     /\ Cover(row.key, HashOf(row))
     /\ req' = [req EXCEPT ![r] = Idle]
     /\ UNCHANGED <<evidence, reviews, lane, persisted>>

\* A database error or a restart ends the request between two awaits.
RequestFails(r) ==
  /\ req[r] # Idle
  /\ req' = [req EXCEPT ![r] = Idle]
  /\ UNCHANGED <<deals, evidence, reviews, lane, covered, persisted>>

-----------------------------------------------------------------------------
(* A crawl lane: evidence first, then the sink, offer by offer.             *)

\* Where a lane is: the offer it works on, the offers left, and the capture of
\* the row it found for the offer's key.
Offer(stage, c, todo, k, found, force) ==
  [stage |-> stage, capture |-> c, todo |-> todo, key |-> k, found |-> found, force |-> force]

CaptureEvidence(l, c) ==
  /\ lane[l] = Idle
  /\ c \notin DOMAIN evidence
  /\ \E page \in Page, offers \in SUBSET Keys \ {{}} :
       /\ StoreEvidence(c, page)
       /\ \E k \in offers :
            lane' = [lane EXCEPT ![l] = Offer("lookup", c, offers, k, c, FALSE)]
  /\ UNCHANGED <<deals, reviews, req, covered, persisted>>

\* The lane is done with offer k: go on with another one, or end.
NextOffer(l, k) ==
  LET rest == lane[l].todo \ {k}
  IN /\ persisted' = persisted \cup {<<k, evidence[lane[l].capture].hash>>}
     /\ IF rest = {}
        THEN lane' = [lane EXCEPT ![l] = Idle]
        ELSE \E n \in rest :
               lane' = [lane EXCEPT ![l] =
                          Offer("lookup", @.capture, rest, n, @.capture, FALSE)]

FindByDedupeKey(l) ==
  LET p == lane[l]
      hits == ByDedupeKey(p.key)
  IN /\ p.stage = "lookup"
     /\ \/ /\ hits = {}
           /\ lane' = [lane EXCEPT ![l] =
                         Offer("insert", p.capture, p.todo, p.key, p.capture, FALSE)]
        \/ \E d \in hits :
             lane' = [lane EXCEPT ![l] =
                        Offer("check", p.capture, p.todo, p.key, deals[d].capture, FALSE)]
     /\ UNCHANGED <<deals, evidence, reviews, req, covered, persisted>>

\* contentDiffers, against the bundle of the row found (bundles never change).
ContentDiffers(p) ==
  p.found \notin DOMAIN evidence \/ evidence[p.found].hash # evidence[p.capture].hash

\* alreadyQueuedForThisCapture, then contentDiffers.
CheckDuplicate(l) ==
  LET p == lane[l]
      queued == QueuedWithHash(p.key, evidence[p.capture].hash)
  IN /\ p.stage = "check"
     /\ IF ~queued /\ ContentDiffers(p)
        THEN /\ lane' = [lane EXCEPT ![l] =
                           Offer("insert", p.capture, p.todo, p.key, p.found, TRUE)]
             /\ UNCHANGED persisted
        ELSE NextOffer(l, p.key)
     /\ UNCHANGED <<deals, evidence, reviews, req, covered>>

\* toDealRecord and deals.insert: a forced row always waits in_review.
InsertCandidate(l, d) ==
  LET p == lane[l]
  IN /\ p.stage = "insert"
     /\ Fresh(d)
     /\ \E s \in IF p.force THEN {"in_review"} ELSE Reviewable :
          InsertDeal(d, NewRow(s, p.key, p.capture, {}))
     /\ Cover(p.key, evidence[p.capture].hash)
     /\ NextOffer(l, p.key)
     /\ UNCHANGED <<evidence, reviews, req>>

\* An error or a restart ends the pass; what it inserted stays.
PassFails(l) ==
  /\ lane[l] # Idle
  /\ lane' = [lane EXCEPT ![l] = Idle]
  /\ UNCHANGED <<deals, evidence, reviews, req, covered, persisted>>

-----------------------------------------------------------------------------
\* expirePublishedBySourceUrl: one statement over the published rows of a page.
ExpirePublished(u) ==
  /\ \E d \in DOMAIN deals : deals[d].status = "published" /\ evidence[deals[d].capture].url = u
  /\ deals' = [d \in DOMAIN deals |->
       IF deals[d].status = "published" /\ evidence[deals[d].capture].url = u
       THEN Decided(deals[d], "expired", deals[d].by)
       ELSE deals[d]]
  /\ UNCHANGED <<evidence, reviews, req, lane, covered, persisted>>

-----------------------------------------------------------------------------
ReviewStep(r) ==
  \/ \E d \in DOMAIN deals, act \in Acts \ {"capture"} : ReadForDecision(r, act, d)
  \/ "capture" \in Acts /\ \E d \in Deals, c \in Captures : StoreManualEvidence(r, d, c)
  \/ RecordReview(r)
  \/ UpdateDeal(r)
  \/ UpdateStatusRejected(r)
  \/ InsertCaptured(r)
  \/ RequestFails(r)

LaneStep(l) ==
  \/ \E c \in Captures : CaptureEvidence(l, c)
  \/ FindByDedupeKey(l)
  \/ CheckDuplicate(l)
  \/ \E d \in Deals : InsertCandidate(l, d)
  \/ PassFails(l)

\* History: what was inserted or written back without knowing better.
BroughtBack(d) ==
  /\ deals'[d] # deals[d]
  /\ deals'[d].status \in Reviewable
  /\ deals[d].status \notin Reviewable \/ ~(deals[d].edits \subseteq deals'[d].edits)

Noted ==
  LET new == {d \in DOMAIN deals' \ DOMAIN deals : deals'[d].edits = {}}
      missed == IF \E l \in overtaken : lane'[l] # lane[l] THEN new ELSE {}
      appeared(l) == \E d \in new : /\ deals'[d].key = lane[l].key
                                   /\ evidence[deals'[d].capture].hash = evidence[lane[l].capture].hash
  IN /\ doubtful' = doubtful \cup missed \cup {d \in DOMAIN deals : BroughtBack(d)}
     /\ overtaken' = {l \in Lanes : /\ lane[l].stage = "insert" /\ lane'[l] = lane[l]
                                    /\ l \in overtaken \/ appeared(l)}

Next ==
  /\ \/ \E r \in Callers : ReviewStep(r)
     \/ \E l \in Lanes : LaneStep(l)
     \/ \E u \in Urls : ExpirePublished(u)
  /\ Noted

Spec == Init /\ [][Next]_vars

-----------------------------------------------------------------------------
(* What the review queue promises.                                          *)

TablesOK ==
  /\ DOMAIN deals \subseteq Deals
  /\ deals \in [DOMAIN deals -> DealRow]
  /\ DOMAIN evidence \subseteq Captures
  /\ evidence \in [DOMAIN evidence -> Page]
  /\ reviews \subseteq ReviewRow
  /\ req \in [Callers -> Request]
  /\ lane \in [Lanes -> Pass]
  /\ covered \subseteq Keys \X Hashes
  /\ persisted \subseteq Keys \X Hashes

\* The tables hold rows of their types, whatever stage each process is at.
TypeOK == TablesOK /\ overtaken \subseteq Lanes /\ doubtful \subseteq Deals

\* A deal is only ever decided with a trail: a published deal (and one that was
\* published and then expired) has in the log the approval of the very person
\* its verified_by names, a rejected one that person's rejection, and a deal
\* nobody decided names nobody.  It holds at every instant, so also when the
\* handler dies between two writes and when other handlers wrote in between.
AuditedDecision ==
  \A d \in DOMAIN deals :
    /\ deals[d].status \in {"published", "expired"} =>
         [deal |-> d, action |-> "approve", by |-> deals[d].by] \in reviews
    /\ deals[d].status = "rejected" =>
         [deal |-> d, action |-> "reject", by |-> deals[d].by] \in reviews
    /\ deals[d].status \in Reviewable => deals[d].by = NoOne

\* A value tagged human_edited is never anonymous or unlogged: for every
\* reviewer whose correction (or manual capture) a row carries, the log has an
\* edit of that row by that reviewer, whichever copy of the row was written last.
HumanEditsAudited ==
  \A d \in DOMAIN deals : \A r \in deals[d].edits :
    [deal |-> d, action |-> "edit", by |-> r] \in reviews

\* Evidence is required before a candidate: every row, and every row a request
\* or a lane is about to write, points at a bundle that is already on record.
EvidenceBacked ==
  /\ \A d \in DOMAIN deals : deals[d].capture \in DOMAIN evidence
  /\ \A r \in Callers : req[r] # Idle => req[r].row.capture \in DOMAIN evidence
  /\ \A l \in Lanes : lane[l] # Idle => lane[l].capture \in DOMAIN evidence

\* The sink never drops new content: an offer it is done with exists, or has
\* existed, as a row of that route with exactly the content that was captured.
\* Duplicates are skipped, but only against identical content, even while
\* reviewers edit keys, decide and reject under the lane's feet.
NoOfferDropped == persisted \subseteq covered

\* Re-crawls and flapping pages do not flood the queue: no two waiting rows that
\* nobody has touched report the same route with the same content, however many
\* lanes crawl and however many reviewers decide meanwhile.  Nothing holds the
\* queue between a lane's duplicate check and its insert, nor between a
\* reviewer's read and his write-back, so two kinds of row are exempt, and only
\* they: one that a lane inserted after another lane had inserted the same
\* content behind its check, and one that a stale write-back returned to the
\* queue from a decision, or to what it was before a correction.
QueueHasNoTwin ==
  \A d, x \in DOMAIN deals \ doubtful :
    (/\ deals[d].status \in Reviewable /\ deals[x].status \in Reviewable
     /\ deals[d].edits = {} /\ deals[x].edits = {}
     /\ deals[d].key = deals[x].key /\ HashOf(deals[d]) = HashOf(deals[x]))
    => d = x

\* A terminal deal is never decided again: it only leaves its status by the
\* monitor expiring what was published.
TerminalNeverRedecided ==
  [][\A d \in DOMAIN deals :
       deals[d].status \notin Reviewable =>
         \/ deals'[d].status = deals[d].status
         \/ deals[d].status = "published" /\ deals'[d].status = "expired"]_vars

-----------------------------------------------------------------------------
(* The promise this module keeps.                                           *)

StatusOf(d) ==
  IF d \notin DOMAIN deals THEN "absent"
  ELSE IF deals[d].status \in Reviewable THEN "queued"
  ELSE deals[d].status

\* The callers at work on a row they have read.
Deciding == {r \in Callers : req[r] # Idle /\ req[r].act # "capture"}

Promise == INSTANCE LifecyclePromise WITH
  Replays <- LostAcks,
  status <- [d \in Deals |-> StatusOf(d)],
  approvals <- {<<x.deal, x.by>> : x \in {y \in reviews : y.action = "approve"}},
  open <- {<<req[r].deal, r, AuditedAs(req[r].act)>> : r \in Deciding}

\* Only a reviewer who found a deal in the queue changes what it is, and only to
\* what he set out to make it, a published one never without his own approval on
\* the log; once nobody is at work on it, a decided deal is final but for the
\* monitor.  The tables, the handlers' writes in whatever order they land, the
\* lanes and the repeated UPDATEs implement that life cycle step by step.
LifecycleKept == Promise!Spec
=============================================================================
