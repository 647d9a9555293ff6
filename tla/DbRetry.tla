------------------------------- MODULE DbRetry -------------------------------
(***************************************************************************)
(* The retrier every Postgres call goes through.  A statement may commit   *)
(* and its acknowledgement be lost; retrying is bounded, and an insert     *)
(* marked non-idempotent that finds its own primary key on a retry counts  *)
(* as done.  Calls of several clients run against one table that has a     *)
(* primary key, drawn by the client, and another unique index.             *)
(***************************************************************************)
EXTENDS Integers, FiniteSets

CONSTANTS
  Calls,        \* calls, each named by the primary key it would insert
  KindOf,       \* call -> insert, upsert, rotate or count
  NaturalOf,    \* call -> its key in the other unique index
  DbRetries     \* retries of a transient error

Kinds == {"insert", "upsert", "rotate", "count"}
ASSUME RetryAssumption == DbRetries \in Nat /\ KindOf \in [Calls -> Kinds]

VARIABLES
  inserted,     \* the rows, by primary key
  hits,         \* by call: how often it incremented the counter
  running       \* by call: Waiting, the attempt under way, or its answer

retryVars == <<inserted, hits, running>>

Waiting == [stage |-> "waiting"]
Answered(answer) == [stage |-> "answered", answer |-> answer]

RetryInit ==
  /\ inserted = {}
  /\ hits = [c \in Calls |-> 0]
  /\ running = [c \in Calls |-> Waiting]

Become(c, x) == running' = [running EXCEPT ![c] = x]
Attempting(c) == running[c].stage = "attempt"
OwnKeyTaken(c) == c \in inserted
NaturalTaken(c) == \E d \in inserted \ {c} : NaturalOf[d] = NaturalOf[c]

Issue(c) ==
  /\ running[c] = Waiting
  /\ Become(c, [stage |-> "attempt", number |-> 0])
  /\ UNCHANGED <<inserted, hits>>

\* What the statement does when the server runs it.
Inserts(c) == KindOf[c] \in {"insert", "rotate"} \/ (KindOf[c] = "upsert" /\ ~NaturalTaken(c))
Refused(c) == KindOf[c] \in {"insert", "rotate"} /\ (OwnKeyTaken(c) \/ NaturalTaken(c))

Execute(c) ==
  /\ ~Refused(c)
  /\ inserted' = IF KindOf[c] # "count" /\ Inserts(c) THEN inserted \cup {c} ELSE inserted
  /\ hits' = IF KindOf[c] = "count" THEN [hits EXCEPT ![c] = @ + 1] ELSE hits

Succeed(c) ==
  /\ Attempting(c)
  /\ Execute(c)
  /\ Become(c, Answered("ok"))

\* Mutant: one attempt too many.
TryOnceMore(c) ==
  Become(c, IF running[c].number <= DbRetries THEN [running[c] EXCEPT !.number = @ + 1] ELSE Answered("transient"))

TryAgain(c) ==
  Become(c, IF running[c].number < DbRetries THEN [running[c] EXCEPT !.number = @ + 1] ELSE Answered("transient"))

\* A transient error, before or after the statement took effect.
LoseAnswer(c) ==
  /\ Attempting(c)
  /\ Execute(c)
  /\ TryAgain(c)

NeverReach(c) ==
  /\ Attempting(c)
  /\ TryAgain(c)
  /\ UNCHANGED <<inserted, hits>>

\* No connection within the timeout: not retried.
PoolTimesOut(c) ==
  /\ Attempting(c)
  /\ Become(c, Answered("unavailable"))
  /\ UNCHANGED <<inserted, hits>>

\* The calls marked non-idempotent.
Marked(c) == KindOf[c] \in {"insert", "count"}

\* Mutant: any unique violation of a retry is taken for the call's own row.
CommittedEarlierLoosely(c) == Marked(c) /\ running[c].number > 0

\* Mutant: a violation is a failure, whatever the attempt.
CommittedEarlierNever(c) == FALSE

\* Only the primary key, which the server checks first, and only on a retry.
CommittedEarlier(c) == Marked(c) /\ running[c].number > 0 /\ OwnKeyTaken(c)

Violate(c) ==
  /\ Attempting(c)
  /\ Refused(c)
  /\ Become(c, Answered(IF CommittedEarlier(c) THEN "ok" ELSE "violation"))
  /\ UNCHANGED <<inserted, hits>>

RetryNext == \E c \in Calls : Issue(c) \/ Succeed(c) \/ LoseAnswer(c) \/ NeverReach(c) \/ PoolTimesOut(c) \/ Violate(c)

RetrySpec == RetryInit /\ [][RetryNext]_retryVars

-----------------------------------------------------------------------------
Says(c, answer) == running[c].stage = "answered" /\ running[c].answer = answer

\* Rows, counts and calls have their types: an increment may be applied once per
\* attempt, and a call is attempted no more than allowed.
RetryTypeOK ==
  /\ inserted \subseteq Calls
  /\ hits \in [Calls -> 0..DbRetries + 1]
  /\ running \in [Calls -> {Waiting} \cup [stage: {"attempt"}, number: 0..DbRetries]
                           \cup {Answered(x) : x \in {"ok", "transient", "unavailable", "violation"}}]

\* No phantom success: what was reported as written is there, though another
\* client may have taken its natural key between two attempts.
NoPhantomSuccess ==
  \A c \in Calls : Says(c, "ok") =>
    CASE KindOf[c] \in {"insert", "rotate"} -> c \in inserted
      [] KindOf[c] = "upsert" -> c \in inserted \/ NaturalTaken(c)
      [] OTHER -> hits[c] > 0

\* An insert is reported as a duplicate only when it did not land; the rotation
\* of a refresh token is not protected so: it is marked idempotent and inserts.
DuplicateIsGenuine ==
  \A c \in Calls : KindOf[c] = "insert" /\ Says(c, "violation") => c \notin inserted

\* The retrier tells the truth: success only for what is there, a duplicate only
\* for what did not land, and no statement applied more often than attempted
\* (db-resilience.ts:119-146).
RetriesAreHonest == RetryTypeOK /\ NoPhantomSuccess /\ DuplicateIsGenuine
=============================================================================
