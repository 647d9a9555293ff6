----------------------------- MODULE MCLaneRuns -----------------------------
(* The lanes, and what the extraction they pay for makes of a page and of a      *)
(* reply, side by side: a behaviour exercises one of them.                       *)
EXTENDS LaneRuns, RecordRules, JsonRecovery

VARIABLE part   \* the module of this behaviour

AllLanes == {"discover", "broad", "ingest"}

Price(amount, billing, months) == [amount |-> amount, billing |-> billing, months |-> months]
MCPrices == {Price(0, "monthly", 0), Price(999, "monthly", 0), Price(100001, "monthly", 0), Price(1199, "annual", 0), Price(1200000, "annual", 0), Price(1200, "prepaid", 0),
             Price(4919, "prepaid", 24), Price(500, "one_time", 0), Price(500, "unknown", 0)}
Condition(key, quote) == [key |-> key, label |-> key, source_quote |-> quote]
Lists == {<<>>, <<Condition("Intro-Period", "q1")>>, <<Condition("angebot", "q1"), Condition("!?", "q2")>>, <<Condition("student", "q1"), Condition("Student", "q2")>>}
Quotes == {{[field |-> f, quote |-> "price"] : f \in {"price", "eligibility", "validity"}},
           {[field |-> f, quote |-> "late"] : f \in {"price", "eligibility", "validity"}},
           {[field |-> "price", quote |-> "invented"]}}
Base == [price |-> Price(999, "monthly", 0), route_type |-> "bundle", headline |-> "h", eligibility |-> <<>>,
         validity |-> [start |-> 0, end |-> 0, conditions |-> <<>>], grounding |-> {[field |-> f, quote |-> "price"] : f \in {"price", "eligibility", "validity"}},
         confidence |-> 80, unmapped_conditions |-> FALSE, field_proposals |-> <<>>]
MCDrafts == {[Base EXCEPT !.price = p, !.confidence = c] : p \in MCPrices, c \in {70, 71}}
  \cup {[Base EXCEPT !.eligibility = l] : l \in Lists} \cup {[Base EXCEPT !.validity.conditions = l] : l \in Lists}
  \cup {[Base EXCEPT !.eligibility = l, !.validity.conditions = l, !.field_proposals = <<[suggested_key |-> "student", example_quote |-> "own"]>>] : l \in Lists}
  \cup {[Base EXCEPT !.route_type = r, !.grounding = g, !.validity.start = d[1], !.validity.end = d[2]] : r \in {"promo", "bundle"}, g \in Quotes, d \in {<<-1, -1>>, <<2, 1>>, <<1, 2>>}}
Page(http, signs, thin, password, long) == [http |-> http, signs |-> signs, thin |-> thin, password |-> password, long |-> long, quotes |-> {"price", "late"}]
MCReadings == {Page(200, s, t, p, FALSE) : s \in {{}, {"captcha"}, {"block", "gone"}, {"gone"}}, t \in BOOLEAN, p \in BOOLEAN}
  \cup {Page(403, s, TRUE, FALSE, FALSE) : s \in {{}, {"login"}, {"login", "captcha"}}}
  \cup {Page(h, {}, FALSE, FALSE, FALSE) : h \in {429, 503}} \cup {Page(200, {}, FALSE, FALSE, TRUE)}
MCNormal == [n \in {"intro_period", "Intro-Period", "angebot", "!?", "student", "Student", "other"} |->
   CASE n = "Intro-Period" -> "intro_period" [] n = "!?" -> "" [] n = "Student" -> "student" [] OTHER -> n]
Entry(key, names) == [key |-> key, label |-> key, aliases |-> names]
MCVocabularies == {<<>>, <<Entry("intro_period", {"angebot"})>>, <<Entry("intro_period", {"angebot"}), Entry("student", {"angebot"})>>}
MCPatches == {[price |-> Price(999, "monthly", 0)], [price |-> Price(1199, "annual", 0), true_cost_monthly |-> 1], [true_cost_monthly |-> 1], [headline |-> "edited"], [headline |-> "h", status |-> "published"]}

MCTexts == UNION {[1..n -> {"open", "quote", "slash", "char", "newline", "comma", "close"}] : n \in 0..3}

RulesIdle == /\ reading = Page(200, {}, FALSE, FALSE, FALSE) /\ entries = <<>>
             /\ outcome = Unread /\ draft = NoDraft /\ candidate = NoCandidate
JsonIdle == /\ meant = [text |-> <<>>, sent |-> <<>>, wrapping |-> "bare"]
            /\ phase = "reply" /\ body = <<>> /\ at = 1 /\ inString = FALSE /\ repaired = <<>>

MCInit == /\ part \in {"lanes", "rules", "replies"}
          /\ Init
          /\ part # "lanes" => run = [b \in Batches |-> NoRun("ingest")]
          /\ IF part = "rules" THEN RulesInit ELSE RulesIdle
          /\ IF part = "replies" THEN JsonInit ELSE JsonIdle

MCNext == /\ UNCHANGED part
          /\ \/ part = "lanes" /\ Next /\ UNCHANGED <<ruleVars, jsonVars>>
             \/ part = "rules" /\ RulesNext /\ UNCHANGED <<vars, jsonVars>>
             \/ part = "replies" /\ JsonNext /\ UNCHANGED <<vars, ruleVars>>

MCSpec == MCInit /\ [][MCNext]_<<part, vars, ruleVars, jsonVars>> /\ \A b \in Batches : WF_vars(BatchStep(b))
=============================================================================
