----------------------------- MODULE PoliteFetch -----------------------------
(***************************************************************************)
(* The politeness decorator of one process: robots.txt (when the operator  *)
(* asks for it), spacing per host, the wrapped fetcher with its retries,   *)
(* and the second robots check after a redirect.  A command fetches one    *)
(* page at a time; pacing and cache live and die with the process, so      *)
(* commands that overlap are not spaced against each other.  The requests  *)
(* for robots.txt itself pass the pacing by.                               *)
(***************************************************************************)
EXTENDS Integers, FiniteSets

CONSTANTS
  Pages,        \* urls
  Origin,       \* the origin of a url, which is its host here
  Disallowed,   \* the urls that robots.txt of their origin really forbids
  RespectRobots,
  MinInterval,  \* minIntervalMs, in ticks
  Retries,      \* retries of the wrapped fetcher after a transient error
  LastMoment,     \* bounds time
  MaxWeather    \* bounds how often the state of a robots.txt changes

ASSUME PoliteAssumption ==
  /\ Pages # {} /\ RespectRobots \in BOOLEAN
  /\ MinInterval \in Nat /\ Retries \in Nat /\ LastMoment \in Nat

VARIABLES
  time,
  lastHitAt,    \* by origin, Unset before the first hit
  robotsCache,  \* by origin: nothing yet, its rules, or none (allowed)
  weather,      \* how each robots.txt answers at present
  changes,      \* how often that has changed
  job,          \* the fetch or access check in progress
  last,         \* history: the result returned last
  hitAt,        \* history: when each host was really last touched
  answered,     \* history: origins that have answered for robots.txt other than by 5xx
  crowded,      \* history: was a host touched too early, or asked again what it had answered?
  failedOpen,   \* history: origins that had, or showed, no rules when they were asked
  failedClosed  \* history: origins that answered 5xx during the present job

politeVars == <<time, lastHitAt, robotsCache, weather, changes, job, last, hitAt, answered, crowded,
                failedOpen, failedClosed>>

Unset == -1
Origins == {Origin[p] : p \in Pages}
Weathers == {"served", "missing", "failing", "unreachable"}
Resting == [stage |-> "rest"]
Job == [stage: {"robots", "throttle", "sleep", "inner", "recheck"}, kind: {"fetch", "access"},
        page: Pages, final: Pages, wake: Nat, attempt: 0..Retries]
Result == [outcome: {"none", "ok", "robots_disallowed", "error"}, page: Pages, final: Pages]

PoliteInit ==
  /\ time = 0
  /\ lastHitAt = [o \in Origins |-> Unset]
  /\ robotsCache = [o \in Origins |-> "unloaded"]
  /\ weather = [o \in Origins |-> "served"]
  /\ changes = 0
  /\ job = Resting
  /\ last = [outcome |-> "none", page |-> CHOOSE p \in Pages : TRUE, final |-> CHOOSE p \in Pages : TRUE]
  /\ hitAt = [o \in Origins |-> Unset]
  /\ answered = {} /\ crowded = FALSE
  /\ failedOpen = {} /\ failedClosed = {}

Return(outcome, final) ==
  /\ last' = [outcome |-> outcome, page |-> job.page, final |-> final]
  /\ job' = Resting

-----------------------------------------------------------------------------
(* robots.txt.                                                              *)

\* Mutant: the answer is kept as it came.
LoadRobotsRaw(o) == weather[o]

\* loadRobots: other answers than rules mean none, except that a server error denies everything.
LoadRobots(o) ==
  CASE weather[o] = "served" -> "rules"
    [] weather[o] = "failing" -> "deny"
    [] OTHER -> "none"

\* Mutant: what a failing server implied is cached for the life of the process.
KeepAlways(o) == LoadRobots(o)

\* Mutant: that there are no rules is not remembered.
KeepRules(o) == IF LoadRobots(o) = "rules" THEN "rules" ELSE "unloaded"

\* Only a server error is not cached: an unreachable robots.txt is, as "none".
Keep(o) == IF LoadRobots(o) = "deny" THEN "unloaded" ELSE LoadRobots(o)

Known(o) == IF robotsCache[o] # "unloaded" THEN robotsCache[o] ELSE LoadRobots(o)

Allows(rules, p) == rules = "none" \/ (rules = "rules" /\ p \notin Disallowed)

\* isAllowed for the url or the final url of the job.  Rules that are not cached are
\* asked for at once: without the throttle, and lastHitAt does not learn of it.
Consult(p) ==
  LET o == Origin[p]  asks == robotsCache[o] = "unloaded" IN
  /\ robotsCache' = [robotsCache EXCEPT ![o] = IF @ = "unloaded" THEN Keep(o) ELSE @]
  /\ failedOpen' = IF asks /\ weather[o] \in {"missing", "unreachable"}
                   THEN failedOpen \cup {o} ELSE failedOpen
  /\ failedClosed' = IF asks /\ weather[o] = "failing" THEN failedClosed \cup {o} ELSE failedClosed
  /\ answered' = IF asks /\ weather[o] # "failing" THEN answered \cup {o} ELSE answered
  /\ crowded' = (crowded \/ (asks /\ o \in answered))

Begin(kind, p) ==
  /\ job = Resting
  /\ job' = [stage |-> IF RespectRobots THEN "robots" ELSE "throttle", kind |-> kind,
             page |-> p, final |-> p, wake |-> 0, attempt |-> 0]
  /\ failedClosed' = {}
  /\ UNCHANGED <<time, lastHitAt, robotsCache, weather, changes, last, hitAt, answered, crowded, failedOpen>>

CheckRobots ==
  /\ job.stage = "robots"
  /\ Consult(job.page)
  /\ IF Allows(Known(Origin[job.page]), job.page)
     THEN job' = [job EXCEPT !.stage = "throttle"] /\ UNCHANGED last
     ELSE Return("robots_disallowed", job.page)
  /\ UNCHANGED <<time, lastHitAt, weather, changes, hitAt>>

-----------------------------------------------------------------------------
(* Spacing.                                                                 *)

Wait(o) == IF lastHitAt[o] = Unset THEN 0 ELSE MinInterval - (time - lastHitAt[o])

\* The host is touched at this instant; an access check is over.
Hit(o) ==
  /\ hitAt' = [hitAt EXCEPT ![o] = time]
  /\ crowded' = (crowded \/ (hitAt[o] # Unset /\ time - hitAt[o] < MinInterval))
  /\ IF job.kind = "fetch" THEN job' = [job EXCEPT !.stage = "inner"] /\ UNCHANGED last
                           ELSE Return("ok", job.page)

Throttle ==
  LET o == Origin[job.page] IN
  /\ job.stage = "throttle"
  /\ IF Wait(o) > 0
     THEN /\ job' = [job EXCEPT !.stage = "sleep", !.wake = time + Wait(o)]
          /\ UNCHANGED <<lastHitAt, last, hitAt, crowded>>
     ELSE /\ lastHitAt' = [lastHitAt EXCEPT ![o] = time]
          /\ Hit(o)
  /\ UNCHANGED <<time, robotsCache, weather, changes, answered, failedOpen, failedClosed>>

\* Mutant: the sleeper does not note when it woke.
WakeUnnoted ==
  /\ job.stage = "sleep" /\ time >= job.wake
  /\ Hit(Origin[job.page])
  /\ UNCHANGED <<time, lastHitAt, robotsCache, weather, changes, answered, failedOpen, failedClosed>>

Wake ==
  /\ job.stage = "sleep" /\ time >= job.wake
  /\ lastHitAt' = [lastHitAt EXCEPT ![Origin[job.page]] = time]
  /\ Hit(Origin[job.page])
  /\ UNCHANGED <<time, robotsCache, weather, changes, answered, failedOpen, failedClosed>>

-----------------------------------------------------------------------------
(* The wrapped fetcher.                                                     *)

RetryInner ==
  /\ job.stage = "inner"
  /\ job.attempt < Retries
  /\ job' = [job EXCEPT !.attempt = @ + 1]
  /\ UNCHANGED <<time, lastHitAt, robotsCache, weather, changes, last, hitAt, answered, crowded, failedOpen, failedClosed>>

InnerFails ==
  /\ job.stage = "inner"
  /\ Return("error", job.page)
  /\ UNCHANGED <<time, lastHitAt, robotsCache, weather, changes, hitAt, answered, crowded, failedOpen, failedClosed>>

\* The page was read at its final url; a redirect's host is not spaced.
InnerReads(final) ==
  /\ job.stage = "inner"
  /\ IF RespectRobots /\ final # job.page
     THEN job' = [job EXCEPT !.stage = "recheck", !.final = final] /\ UNCHANGED last
     ELSE Return("ok", final)
  /\ UNCHANGED <<time, lastHitAt, robotsCache, weather, changes, hitAt, answered, crowded, failedOpen, failedClosed>>

\* Mutant: the origin was already checked, so is its redirect.
RecheckOriginOnly ==
  /\ job.stage = "recheck"
  /\ Consult(job.final)
  /\ Return(IF Origin[job.final] = Origin[job.page] \/ Allows(Known(Origin[job.final]), job.final)
            THEN "ok" ELSE "robots_disallowed", job.final)
  /\ UNCHANGED <<time, lastHitAt, weather, changes, hitAt>>

Recheck ==
  /\ job.stage = "recheck"
  /\ Consult(job.final)
  /\ Return(IF Allows(Known(Origin[job.final]), job.final) THEN "ok" ELSE "robots_disallowed", job.final)
  /\ UNCHANGED <<time, lastHitAt, weather, changes, hitAt>>

-----------------------------------------------------------------------------
(* The environment.                                                         *)

Elapse ==
  /\ time < LastMoment
  /\ time' = time + 1
  /\ UNCHANGED <<lastHitAt, robotsCache, weather, changes, job, last, hitAt, answered, crowded, failedOpen, failedClosed>>

ChangeWeather(o, w) ==
  /\ changes < MaxWeather
  /\ weather[o] # w
  /\ weather' = [weather EXCEPT ![o] = w]
  /\ changes' = changes + 1
  /\ UNCHANGED <<time, lastHitAt, robotsCache, job, last, hitAt, answered, crowded, failedOpen, failedClosed>>

PoliteNext ==
  \/ \E p \in Pages : \/ InnerReads(p)
                      \/ \E kind \in {"fetch", "access"} : Begin(kind, p)
  \/ CheckRobots \/ Throttle \/ Wake \/ RetryInner \/ InnerFails \/ Recheck
  \/ Elapse
  \/ \E o \in Origins, w \in Weathers : ChangeWeather(o, w)

PoliteSpec == PoliteInit /\ [][PoliteNext]_politeVars

-----------------------------------------------------------------------------
\* The job, its result and the process's memory have their types.
PoliteTypeOK ==
  /\ time \in 0..LastMoment
  /\ lastHitAt \in [Origins -> 0..LastMoment \cup {Unset}]
  /\ robotsCache \in [Origins -> {"unloaded", "rules", "none", "deny"}]
  /\ weather \in [Origins -> Weathers]
  /\ job \in Job \cup {Resting}
  /\ last \in Result
  /\ answered \subseteq Origins

\* Two page requests or access checks of one process to one host begin at least the
\* interval apart, though the second may sleep and a third compare itself with the
\* second: the promise of the per-domain rate limit, redirects and retries aside.
\* The requests for robots.txt are not spaced, neither from a page nor from each
\* other (polite-fetcher.ts:140-146): what bounds them is that a host that has
\* answered is not asked again, so only one that goes on answering 5xx is asked
\* before every page.
SpacedPerHost == ~crowded

\* With robots.txt respected, content is handed on only when the rules allow the
\* url that was asked for and the one the redirects led to, unless the rules of
\* its origin were missing or out of reach when this process first asked, which
\* it remembers as "no rules" from then on.
DisallowedIsNotRead ==
  RespectRobots /\ last.outcome = "ok" =>
    \A p \in {last.page, last.final} :
      p \in Disallowed => Origin[p] \in failedOpen

\* A page is refused because its rules forbid it or because the server of the
\* rules was failing during this very fetch: an outage that is over costs nothing.
RefusedForAReason ==
  last.outcome = "robots_disallowed" /\ job = Resting =>
    \E p \in {last.page, last.final} : p \in Disallowed \/ Origin[p] \in failedClosed

\* One process is polite to the letter of its rules and no further: pages spaced per
\* host, a robots.txt that was answered asked for once, forbidden pages unread, and
\* none refused for an outage that is over (polite-fetcher.ts:65-138).
PolitenessKept == PoliteTypeOK /\ SpacedPerHost /\ DisallowedIsNotRead /\ RefusedForAReason
=============================================================================
