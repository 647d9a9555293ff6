--------------------------- MODULE SourceRegistry ---------------------------
(***************************************************************************)
(* The source registry and the ways a source gets into it: discovery and   *)
(* ingestion (lane B) propose novel domains, reviewers approve, reject or  *)
(* register sources, and seed-import writes the seed list.  Crawl and      *)
(* monitor passes write back the whole row they read when they began.      *)
(*                                                                         *)
(* Of a source only its url, id and status are kept, of a decision only    *)
(* the source and what was decided.  A blank approver is refused before    *)
(* anything is read, and left out.  A handler may stop between any two of  *)
(* its awaited calls.                                                      *)
(***************************************************************************)
EXTENDS Naturals, Sequences, FiniteSets

CONSTANTS
  Urls,       \* source urls
  Domains,    \* registrable domains
  DomainOf,   \* [Urls -> Domains], the public suffix oracle
  Ids,        \* source ids (randomUUID); bounds how many rows are inserted
  Proposers,  \* lane B runs that may overlap
  Reviewers,  \* callers of the source-review API
  Acts,       \* the operations the reviewers use
  Crawls,     \* crawl passes that may overlap
  Monitors,   \* monitor passes that may overlap
  Seeds       \* urls of the seed list

ASSUME DomainsAssumption == DomainOf \in [Urls -> Domains]
ASSUME ActsAssumption == Acts \subseteq {"approve", "reject", "register"}
ASSUME SeedsAssumption == Seeds \subseteq Urls
ASSUME PassesAssumption == Crawls \cap Monitors = {}
ASSUME ActorsAssumption ==
  /\ Reviewers \cap Proposers = {}
  /\ (Reviewers \cup Proposers) \cap (Crawls \cup Monitors) = {}

VARIABLES
  sources,  \* table sources, by its natural key: url -> row
  reviews,  \* table source_reviews: the append-only decision log
  req,      \* what each reviewer's request is doing
  run,      \* what each lane B run is doing
  pass,     \* the row each crawl or monitor pass is going to write back
  seeded,   \* history: the ids seed-import has written
  crawled,  \* history: the ids whose page was crawled
  takenOver, \* history: registrations that met a row with another id than they logged
  since     \* history: whose status others changed since an actor began or last read

vars == <<sources, reviews, req, run, pass, seeded, crawled, takenOver, since>>

Status == {"active", "pending_approval", "disabled", "rejected"}
SourceRow == [id: Ids, status: Status]
ReviewRow == [source: Ids, action: {"approve", "reject"}]

Idle == [stage |-> "idle"]
Request == {Idle} \cup [stage: {"read", "audited"}, act: Acts, url: Urls, row: SourceRow]
Proposing == {Idle} \cup
  [stage: {"known", "upsert"}, left: 0..4, known: SUBSET Domains, todo: SUBSET Urls]
Pass == {Idle} \cup [stage: {"running"}, url: Urls, row: SourceRow]

Row(id, status) == [id |-> id, status |-> status]

Actors == Reviewers \cup Proposers \cup Crawls \cup Monitors

-----------------------------------------------------------------------------
(* The table.                                                               *)

Put(url, row) ==
  sources' = [u \in DOMAIN sources \cup {url} |-> IF u = url THEN row ELSE sources[u]]

\* sources.upsert: a row keeps its id, everything else is overwritten.
Upsert(url, row) ==
  Put(url, IF url \in DOMAIN sources THEN Row(sources[url].id, row.status) ELSE row)

\* sources.update: the row of that id, if there is one.
Update(url, row) ==
  IF url \in DOMAIN sources /\ sources[url].id = row.id THEN Put(url, row) ELSE UNCHANGED sources

Used == {sources[u].id : u \in DOMAIN sources} \cup {d.source : d \in reviews} \cup
        {req[r].row.id : r \in {x \in Reviewers : req[x] # Idle}}
Fresh(id) == id \notin Used

\* History: what the step of an actor does to what the others have read.
StatusOf(u) == IF u \in DOMAIN sources THEN sources[u].status ELSE "none"
Changed == {u \in Urls : StatusOf(u)' # StatusOf(u)}

Busy(a) ==
  \/ a \in Reviewers /\ req[a] # Idle
  \/ a \in Proposers /\ run[a] # Idle
  \/ a \in Crawls \cup Monitors /\ pass[a] # Idle

Noted(own) ==
  LET changed == Changed
  IN since' = [a \in Actors |->
       IF ~Busy(a)' THEN {} ELSE since[a] \cup (IF a \in own THEN {} ELSE changed)]

-----------------------------------------------------------------------------
Init ==
  /\ sources = [u \in {} |-> Idle]
  /\ reviews = {}
  /\ req = [r \in Reviewers |-> Idle]
  /\ run = [p \in Proposers |-> Idle]
  /\ pass = [l \in Crawls \cup Monitors |-> Idle]
  /\ seeded = {}
  /\ crawled = {}
  /\ takenOver = {}
  /\ since = [a \in Actors |-> {}]

-----------------------------------------------------------------------------
(* Reviewers.                                                               *)

Decision(act, url, row) == [stage |-> "read", act |-> act, url |-> url, row |-> row]
Logging(q) == [stage |-> "audited", act |-> q.act, url |-> q.url, row |-> q.row]

\* Mutant: a decided source may be decided again.
MayDecideAny(row) == TRUE

\* requirePending.
MayDecide(row) == row.status = "pending_approval"

StatusAfter(act) == IF act = "reject" THEN "rejected" ELSE "active"

\* approveSource and rejectSource, up to the audit row.
ReadForDecision(r, act, u) ==
  /\ req[r] = Idle
  /\ act \in Acts \ {"register"}
  /\ MayDecide(sources[u])
  /\ req' = [req EXCEPT ![r] = Decision(act, u, Row(sources[u].id, StatusAfter(act)))]
  /\ UNCHANGED <<sources, reviews, run, pass, seeded, crawled, takenOver>>

\* Mutant: what a human decided about the url is not asked.
RegisterAnyway(u) == TRUE

\* createSource never overrides what a human decided, or still has to.
MayRegister(u) ==
  u \in DOMAIN sources => sources[u].status \notin {"rejected", "pending_approval"}

\* createSource, up to the audit row: an existing row lends it its id.
ReadForRegister(r, u) ==
  /\ req[r] = Idle
  /\ "register" \in Acts
  /\ MayRegister(u)
  /\ \E id \in Ids :
       /\ IF u \in DOMAIN sources THEN id = sources[u].id ELSE Fresh(id)
       /\ req' = [req EXCEPT ![r] = Decision("register", u, Row(id, "active"))]
  /\ UNCHANGED <<sources, reviews, run, pass, seeded, crawled, takenOver>>

\* A registration is logged as an approval.
LoggedAs(act) == IF act = "reject" THEN "reject" ELSE "approve"

\* recordReview: log before act.
RecordReview(r) ==
  LET q == req[r]
  IN /\ q.stage = "read"
     /\ reviews' = reviews \cup
          {[source |-> q.row.id, action |-> LoggedAs(q.act)]}
     /\ req' = [req EXCEPT ![r] = Logging(q)]
     /\ UNCHANGED <<sources, run, pass, seeded, crawled, takenOver>>

\* Mutant: the source may change before its decision is logged.
LoggedOrNot(r) == req[r].stage \in {"read", "audited"}

Logged(r) == req[r].stage = "audited"

\* The write of the decision.
Decide(r) ==
  LET q == req[r]
  IN /\ Logged(r)
     /\ IF q.act = "register" THEN Upsert(q.url, q.row) ELSE Update(q.url, q.row)
     /\ takenOver' = IF q.act = "register" /\ q.url \in DOMAIN sources /\ sources[q.url].id # q.row.id
                     THEN takenOver \cup {[id |-> sources[q.url].id, logged |-> q.row.id]}
                     ELSE takenOver
     /\ req' = [req EXCEPT ![r] = Idle]
     /\ UNCHANGED <<reviews, run, pass, seeded, crawled>>

RequestFails(r) ==
  /\ req[r] # Idle
  /\ req' = [req EXCEPT ![r] = Idle]
  /\ UNCHANGED <<sources, reviews, run, pass, seeded, crawled, takenOver>>

-----------------------------------------------------------------------------
(* Lane B: propose novel domains.                                           *)

\* Mutant: sources that wait for approval are not asked for.
WithoutPending == <<"active", "disabled", "disabled", "rejected">>

\* knownDomains asks for one status after the other.
KnownOrder == <<"active", "pending_approval", "disabled", "rejected">>

Running(stage, left, known, todo) ==
  [stage |-> stage, left |-> left, known |-> known, todo |-> todo]

\* A run is done collecting: at most one url of each domain is proposed.
StartProposals(p) ==
  /\ run[p] = Idle
  /\ \E todo \in SUBSET Urls \ {{}} :
       /\ \A u, v \in todo : DomainOf[u] = DomainOf[v] => u = v
       /\ run' = [run EXCEPT ![p] = Running("known", 4, {}, todo)]
  /\ UNCHANGED <<sources, reviews, req, pass, seeded, crawled, takenOver>>

WithStatus(status) == {u \in DOMAIN sources : sources[u].status = status}

\* listByStatus, then, after the last one, the known proposals are dropped.
ReadKnown(p) ==
  LET q == run[p]
      known == q.known \cup {DomainOf[u] : u \in WithStatus(KnownOrder[5 - q.left])}
      novel == {u \in q.todo : DomainOf[u] \notin known}
  IN /\ q.stage = "known"
     /\ run' = [run EXCEPT ![p] =
          IF q.left > 1 THEN Running("known", q.left - 1, known, q.todo)
          ELSE IF novel = {} THEN Idle
          ELSE Running("upsert", 0, known, novel)]
     /\ UNCHANGED <<sources, reviews, req, pass, seeded, crawled, takenOver>>

Propose(p, u) ==
  LET q == run[p]
  IN /\ q.stage = "upsert"
     /\ u \in q.todo
     /\ \E id \in Ids :
          /\ IF u \in DOMAIN sources THEN id = sources[u].id ELSE Fresh(id)
          /\ Upsert(u, Row(id, "pending_approval"))
     /\ run' = [run EXCEPT ![p] =
          IF q.todo = {u} THEN Idle ELSE Running("upsert", 0, q.known, q.todo \ {u})]
     /\ UNCHANGED <<reviews, req, pass, seeded, crawled, takenOver>>

ProposerFails(p) ==
  /\ run[p] # Idle
  /\ run' = [run EXCEPT ![p] = Idle]
  /\ UNCHANGED <<sources, reviews, req, pass, seeded, crawled, takenOver>>

-----------------------------------------------------------------------------
(* The seed list and the passes.                                            *)

\* seed-import, url by url, whatever the row's status was.
ImportSeed(u) ==
  /\ u \in Seeds
  /\ \E id \in Ids :
       /\ IF u \in DOMAIN sources THEN id = sources[u].id ELSE Fresh(id)
       /\ Upsert(u, Row(id, "active"))
       /\ seeded' = seeded \cup {id}
  /\ UNCHANGED <<reviews, req, run, pass, crawled, takenOver>>

\* Mutant: a crawl does not ask for the status.
CrawlAny(row) == TRUE

\* A crawl refuses a source nobody approved, even one named by --source.
MayCrawl(row) == row.status \notin {"pending_approval", "rejected"}

Working(u) == [stage |-> "running", url |-> u, row |-> sources[u]]

StartCrawl(c, u) ==
  /\ pass[c] = Idle
  /\ MayCrawl(sources[u])
  /\ pass' = [pass EXCEPT ![c] = Working(u)]
  /\ crawled' = crawled \cup {sources[u].id}
  /\ UNCHANGED <<sources, reviews, req, run, seeded, takenOver>>

\* A monitor pass asks for no status: `monitor --source` names any source.
StartMonitor(m, u) ==
  /\ pass[m] = Idle
  /\ pass' = [pass EXCEPT ![m] = Working(u)]
  /\ UNCHANGED <<sources, reviews, req, run, seeded, crawled, takenOver>>

\* The page changed: the crawl reads the row again and owns the write-back.  It
\* refuses a source nobody approved, and then nothing is written back.
Recrawl(m) ==
  LET u == pass[m].url
  IN /\ pass[m] # Idle
     /\ IF u \in DOMAIN sources /\ MayCrawl(sources[u])
        THEN /\ pass' = [pass EXCEPT ![m] = Working(u)]
             /\ crawled' = crawled \cup {sources[u].id}
        ELSE /\ pass' = [pass EXCEPT ![m] = Idle]
             /\ UNCHANGED crawled
     /\ UNCHANGED <<sources, reviews, req, run, seeded, takenOver>>

\* sources.update writes every column of the row read at the start.
WriteBack(l) ==
  /\ pass[l] # Idle
  /\ Update(pass[l].url, pass[l].row)
  /\ pass' = [pass EXCEPT ![l] = Idle]
  /\ UNCHANGED <<reviews, req, run, seeded, crawled, takenOver>>

PassFails(l) ==
  /\ pass[l] # Idle
  /\ pass' = [pass EXCEPT ![l] = Idle]
  /\ UNCHANGED <<sources, reviews, req, run, seeded, crawled, takenOver>>

-----------------------------------------------------------------------------
ReviewStep(r) ==
  \/ \E u \in DOMAIN sources, act \in {"approve", "reject"} : ReadForDecision(r, act, u)
  \/ \E u \in Urls : ReadForRegister(r, u)
  \/ RecordReview(r)
  \/ Decide(r)
  \/ RequestFails(r)

ProposerStep(p) ==
  \/ StartProposals(p)
  \/ ReadKnown(p)
  \/ \E u \in Urls : Propose(p, u)
  \/ ProposerFails(p)

PassStep(l) ==
  \/ l \in Crawls /\ \E u \in DOMAIN sources : StartCrawl(l, u)
  \/ l \in Monitors /\ \E u \in DOMAIN sources : StartMonitor(l, u)
  \/ WriteBack(l)
  \/ PassFails(l)

Next ==
  \/ \E r \in Reviewers : ReviewStep(r) /\ Noted({r})
  \/ \E p \in Proposers : ProposerStep(p) /\ Noted({p})
  \/ \E l \in Crawls \cup Monitors : PassStep(l) /\ Noted({l})
  \/ \E m \in Monitors : Recrawl(m) /\ since' = [since EXCEPT ![m] = {}]
  \/ \E u \in Urls : ImportSeed(u) /\ Noted({})

Spec == Init /\ [][Next]_vars

-----------------------------------------------------------------------------
(* Properties.                                                              *)

TypeOK ==
  /\ DOMAIN sources \subseteq Urls
  /\ sources \in [DOMAIN sources -> SourceRow]
  /\ reviews \subseteq ReviewRow
  /\ req \in [Reviewers -> Request]
  /\ run \in [Proposers -> Proposing]
  /\ pass \in [Crawls \cup Monitors -> Pass]
  /\ seeded \subseteq Ids
  /\ crawled \subseteq Ids
  /\ takenOver \subseteq [id: Ids, logged: Ids]
  /\ since \in [Actors -> SUBSET Urls]

Decided(id, action) == [source |-> id, action |-> action] \in reviews
Approved(id) == id \in seeded \/ Decided(id, "approve")

\* A registration logs an approval under the id its look-up found or made up; when
\* lane B inserts the url before the registration writes, the row keeps lane B's id.
Vouched(id) ==
  \/ Approved(id)
  \/ \E t \in takenOver : t.id = id /\ Decided(t.logged, "approve")

\* A source is only ever active because it is on the seed list, because the log
\* holds somebody's approval of it, or because it was taken over by a registration
\* that is on the log, if under an id of its own; and only ever rejected with a
\* rejection of exactly that source on the log, whoever wrote its row last and
\* from which copy.
DecisionAudited ==
  \A u \in DOMAIN sources :
    /\ sources[u].status = "active" => Vouched(sources[u].id)
    /\ sources[u].status = "rejected" => Decided(sources[u].id, "reject")

\* No page is crawled before somebody approved its source or registered its url: not
\* by --source, not by the re-crawl inside a monitor pass, and not from a row read
\* too early.
CrawledIsApproved == \A id \in crawled : Vouched(id)

\* A rejection is only undone by the seed list or by somebody who had read before it
\* was made: a request, a lane B run or a pass that found the source rejected, by
\* whichever of its queries, never writes it back to another status.
Moved ==
  {r \in Reviewers : req'[r] # req[r]} \cup {p \in Proposers : run'[p] # run[p]} \cup
  {l \in Crawls \cup Monitors : pass'[l] # pass[l]}
RejectionRespected ==
  [][\A u \in DOMAIN sources :
       sources[u].status = "rejected" /\ StatusOf(u)' # "rejected" =>
         \/ u \in Seeds /\ Moved = {}
         \/ \E a \in Moved : u \in since[a]]_vars

\* A lane B run puts no url in the queue whose domain the registry held, in whatever
\* status, when the run began to ask, unless the source that bears it has changed its
\* status since: then it may have slipped through between two of the four queries.
KnownIsNotProposed ==
  [][\A p \in Proposers, u \in Urls, v \in DOMAIN sources :
       (/\ run'[p] # run[p] /\ StatusOf(u) # "pending_approval" /\ StatusOf(u)' = "pending_approval"
        /\ DomainOf[v] = DomainOf[u]) => v \in since[p]]_vars
=============================================================================
