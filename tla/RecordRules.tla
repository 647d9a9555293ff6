------------------------------ MODULE RecordRules ------------------------------
(* One page from its classification to a corrected candidate: the classifier      *)
(* (page-classifier.ts), the extraction's pure rules (domain/rules) and the        *)
(* reviewer's patches. Money is in cents, confidence in hundredths, a day is a     *)
(* number.                                                                         *)
EXTENDS Integers, Sequences, FiniteSets, SequencesExt

CONSTANTS
  Readings,      \* pages as fetched: [http, signs, thin, password, long, quotes]
  Drafts,        \* deals as the model proposes them
  Vocabularies,  \* controlled vocabularies: sequences of [key, label, aliases]
  Patches,       \* reviewers' patches: records over some of Patchable
  Normal,        \* raw condition name -> its normal form, Nameless when nothing is left
  MaxPlausible   \* MAX_PLAUSIBLE_MONTHLY_EUR, in cents

Nameless == ""
NoTerm == 0
NoDate == 0
BadDate == -1
Other == "other"
MustReviewThreshold == 70
FailurePenalty == 20
GroundingPenalty == 15
KeyGroundedFields == {"price", "eligibility", "validity"}
Patchable == {"price", "true_cost_monthly", "country", "route_type", "headline", "eligibility", "validity", "included_items", "attributes"}

Prices == [amount: Nat, billing: STRING, months: Nat]
Conditions == [key: DOMAIN Normal, label: STRING, source_quote: STRING]
Entries == [key: DOMAIN Normal, label: STRING, aliases: SUBSET DOMAIN Normal]

\* What the boundary schemas let through (price.ts:13-30, condition.ts:14-33, deal-record.ts:32-76).
ExtractedDeals ==
  [price: Prices, route_type: STRING, headline: STRING, eligibility: Seq(Conditions),
   validity: [start: Int, end: Int, conditions: Seq(Conditions)],
   grounding: SUBSET [field: STRING, quote: STRING], confidence: 0..100, unmapped_conditions: BOOLEAN,
   field_proposals: Seq([suggested_key: STRING, example_quote: STRING])]

ASSUME RulesAssumption ==
  /\ MaxPlausible \in Nat
  /\ \A name \in DOMAIN Normal : Normal[name] \in STRING
  /\ \A page \in Readings : page.http \in Nat /\ {page.thin, page.password, page.long} \subseteq BOOLEAN
  /\ \A raw \in Drafts : raw \in ExtractedDeals /\ IsFiniteSet(raw.grounding)
  /\ \A vocab \in Vocabularies : vocab \in Seq(Entries)
  /\ \A patch \in Patches : /\ "price" \in DOMAIN patch => patch.price \in Prices
                            /\ "true_cost_monthly" \in DOMAIN patch => patch.true_cost_monthly \in Nat

VARIABLES
  reading, outcome,  \* the page and its classification: [outcome, signal]
  entries,           \* the vocabulary of the extraction
  draft,             \* what the model proposed
  candidate          \* the record in the queue

ruleVars == <<reading, outcome, entries, draft, candidate>>

Unread == [outcome |-> "none", signal |-> "none"]
NoDraft == [confidence |-> -1]
NoCandidate == [status |-> "none"]

RulesInit == /\ reading \in Readings /\ entries \in Vocabularies
             /\ outcome = Unread /\ draft = NoDraft /\ candidate = NoCandidate

-----------------------------------------------------------------------------
(* Classification of a fetched page. *)

Verdict(result, sign) == [outcome |-> result, signal |-> sign]

\* The classifier without its stale-content check.
ClassifyByCopy(page) ==
  IF page.http \in {401, 403} THEN IF "captcha" \in page.signs THEN Verdict("captcha", "none") ELSE Verdict("ok", "soft_block")
  ELSE IF page.http = 429 \/ page.http >= 500 THEN Verdict("error", "none")
  ELSE IF "captcha" \in page.signs THEN Verdict("captcha", "none")
  ELSE IF "block" \in page.signs THEN Verdict("ok", "soft_block")
  ELSE IF page.password /\ page.thin THEN Verdict("ok", "login_wall")
  ELSE Verdict("ok", "none")

\* The first check that applies decides.
ClassifyPage(page) ==
  IF page.http \in {401, 403} THEN
    IF "captcha" \in page.signs THEN Verdict("captcha", "none")
    ELSE Verdict("ok", IF page.password \/ "login" \in page.signs THEN "login_wall" ELSE "soft_block")
  ELSE IF page.http = 429 \/ page.http >= 500 THEN Verdict("error", "none")
  ELSE IF "captcha" \in page.signs THEN Verdict("captcha", "none")
  ELSE IF "block" \in page.signs THEN Verdict("ok", "soft_block")
  ELSE IF page.password /\ page.thin THEN Verdict("ok", "login_wall")
  ELSE IF page.thin /\ "gone" \in page.signs THEN Verdict("error", "none")
  ELSE Verdict("ok", "none")

Classify == /\ outcome = Unread /\ outcome' = ClassifyPage(reading)
            /\ UNCHANGED <<reading, entries, draft, candidate>>

-----------------------------------------------------------------------------
(* The derived cost. *)

Rounded(amount, months) == (2 * amount + months) \div (2 * months)

TrueCostMonthly(price) ==
  Rounded(price.amount, CASE price.billing = "annual" -> 12
                          [] price.billing = "prepaid" /\ price.months # NoTerm -> price.months
                          [] OTHER -> 1)

-----------------------------------------------------------------------------
(* Long-tail conditions against the vocabulary.*)

Named(entry, vocab) == {Normal[vocab[entry].key]} \cup {Normal[a] : a \in vocab[entry].aliases}

\* A map of the keys alone.
IndexKeys(vocab, name) ==
  LET bearers == {e \in 1..Len(vocab) : name = Normal[vocab[e].key]}
  IN IF bearers = {} THEN 0 ELSE CHOOSE e \in bearers : \A f \in bearers : f <= e

\* The index a map filled in order keeps: a later entry takes a name over.
BuildIndex(vocab, name) ==
  LET bearers == {e \in 1..Len(vocab) : name \in Named(e, vocab)}
  IN IF bearers = {} THEN 0 ELSE CHOOSE e \in bearers : \A f \in bearers : f <= e

SuggestedKey(condition) == IF Normal[condition.key] = Nameless THEN Other ELSE Normal[condition.key]

MapCondition(condition, vocab) ==
  LET entry == BuildIndex(vocab, Normal[condition.key])
  IN IF entry = 0 THEN [condition EXCEPT !.key = Other]
     ELSE [condition EXCEPT !.key = vocab[entry].key, !.label = vocab[entry].label]

\* Every unmapped condition proposes, whatever was proposed before.
ProposeAll(proposals) == proposals

DedupeProposals(proposals) ==
  FoldLeft(LAMBDA kept, p : IF \E i \in 1..Len(kept) : kept[i].suggested_key = p.suggested_key THEN kept ELSE Append(kept, p), <<>>, proposals)

\* The loop adds one for every condition the index does not know.
Proposals(conditions, vocab) ==
  FoldLeft(LAMBDA proposed, c : IF BuildIndex(vocab, Normal[c.key]) # 0 THEN proposed
                                ELSE Append(proposed, [suggested_key |-> SuggestedKey(c), example_quote |-> c.source_quote]),
           <<>>, conditions)

MapConditions(conditions, vocab) ==
  [conditions |-> [i \in 1..Len(conditions) |-> MapCondition(conditions[i], vocab)],
   unmapped |-> \E i \in 1..Len(conditions) : BuildIndex(vocab, Normal[conditions[i].key]) = 0,
   proposals |-> DedupeProposals(Proposals(conditions, vocab))]

-----------------------------------------------------------------------------
(* Sanity rules and scoring. *)

Failure(rule, field) == <<rule, field, "">>
If(broken, rule, field) == IF broken THEN {Failure(rule, field)} ELSE {}

\* The price rules of a checker that trusts the page to state its terms.
PriceInBand(price) ==
  If(TrueCostMonthly(price) > MaxPlausible, "price_within_band", "price.amount")
  \cup If(price.billing = "unknown", "billing_known", "price.billing")

\* The currency rule cannot fail while the boundary schema admits only EUR.
PriceFailures(price) ==
  If(TrueCostMonthly(price) > MaxPlausible, "price_within_band", "price.amount")
  \cup If(price.billing = "unknown", "billing_known", "price.billing")
  \cup If(price.billing = "prepaid" /\ price.months = NoTerm, "prepaid_term_needed", "price.prepaid_months")

Bears(conditions, key) == \E i \in 1..Len(conditions) : conditions[i].key = key

ValidatePromoPricing(deal) ==
  If(deal.route_type = "promo" \/ Bears(deal.eligibility, "intro_period") \/ Bears(deal.validity.conditions, "intro_period"),
     "promo_pricing_needs_review", "true_cost_monthly")

ValidateDates(validity) ==
  If(validity.start = BadDate, "valid_dates", "validity.start") \cup If(validity.end = BadDate, "valid_dates", "validity.end")
  \cup If(validity.start > NoDate /\ validity.end > NoDate /\ validity.start > validity.end, "valid_date_order", "validity")

Grounded(deal) == {g.field : g \in deal.grounding}

ValidateGrounding(deal, quotes) ==
  {Failure("grounding_present", field) : field \in KeyGroundedFields \ Grounded(deal)}
  \cup {<<"grounding_quote_in_source", g.field, g.quote>> : g \in {h \in deal.grounding : h.quote \notin quotes}}

ValidateRecord(deal, quotes) ==
  PriceFailures(deal.price) \cup ValidatePromoPricing(deal) \cup ValidateDates(deal.validity) \cup ValidateGrounding(deal, quotes)

Clamped(value) == IF value < 0 THEN 0 ELSE value

\* The penalty without the clamp.
AdjustFreely(deal, failed) == deal.confidence - FailurePenalty * failed

AdjustConfidence(deal, failed) ==
  Clamped(deal.confidence - FailurePenalty * failed - GroundingPenalty * Cardinality(KeyGroundedFields \ Grounded(deal)))

MustReview(adjusted, failed) == adjusted <= MustReviewThreshold \/ failed > 0

\* The quotes the model could see: a long page is cut at the input cap.
BoundExtractionInput(page) == IF page.long THEN page.quotes \ {"late"} ELSE page.quotes

\* The deal the rules judge: conditions mapped, proposals merged.
Canonicalised(deal, vocab) ==
  LET eligibility == MapConditions(deal.eligibility, vocab)
      validity == MapConditions(deal.validity.conditions, vocab)
  IN [deal EXCEPT !.eligibility = eligibility.conditions, !.validity.conditions = validity.conditions,
                  !.unmapped_conditions = @ \/ eligibility.unmapped \/ validity.unmapped,
                  !.field_proposals = DedupeProposals(@ \o eligibility.proposals \o validity.proposals)]

\* The failures of a page that is taken for whole.
FailuresOfText(deal, page) == ValidateRecord(deal, BoundExtractionInput(page))

Failures(deal, page) ==
  ValidateRecord(deal, BoundExtractionInput(page)) \cup If(page.long, "extraction_input_truncated", "")

\* A candidate's review status goes by the failures; its confidence is the lowered one.
ProcessDeal(raw, page, vocab) ==
  LET deal == Canonicalised(raw, vocab)
      failed == Cardinality(Failures(deal, page))
      adjusted == AdjustConfidence(deal, failed)
  IN [deal |-> [deal EXCEPT !.confidence = adjusted], cost |-> TrueCostMonthly(deal.price), review |-> MustReview(adjusted, failed)]

ToDealRecord(extracted) ==
  [deal |-> extracted.deal, true_cost_monthly |-> extracted.cost, human_edited |-> {},
   status |-> IF extracted.review THEN "in_review" ELSE "candidate"]

Extract ==
  /\ outcome.outcome = "ok" /\ candidate = NoCandidate
  /\ \E raw \in Drafts :
       /\ draft' = raw
       /\ candidate' = ToDealRecord(ProcessDeal(raw, reading, entries))
  /\ UNCHANGED <<reading, outcome, entries>>

-----------------------------------------------------------------------------
(* A reviewer's patch. *)

Value(record, field) == IF field = "true_cost_monthly" THEN record.true_cost_monthly ELSE record.deal[field]

Changed(record, patch) == {field \in DOMAIN patch : patch[field] # Value(record, field)}

Merged(record, patch) ==
  LET changed == Changed(record, patch) IN
  [record EXCEPT !.deal = [field \in DOMAIN record.deal |-> IF field \in changed THEN patch[field] ELSE record.deal[field]],
                 !.true_cost_monthly = IF "true_cost_monthly" \in changed THEN patch.true_cost_monthly ELSE @]

\* A patch that leaves the derived cost to the reviewer.
ApplyAsGiven(record, patch) == [record |-> Merged(record, patch), changed |-> Changed(record, patch)]

\* A new price settles the cost: an override sent along is dropped, and not listed.
ApplyCandidatePatch(record, patch) ==
  LET merged == Merged(record, patch)  changed == Changed(record, patch) IN
  IF "price" \in changed
    THEN [record |-> [merged EXCEPT !.true_cost_monthly = TrueCostMonthly(merged.deal.price)], changed |-> changed \ {"true_cost_monthly"}]
    ELSE [record |-> merged, changed |-> changed]

\* The trail of the last patch alone.
EditTraced(record, patch) ==
  LET applied == ApplyCandidatePatch(record, patch) IN [applied.record EXCEPT !.human_edited = applied.changed]

Edited(record, patch) ==
  LET applied == ApplyCandidatePatch(record, patch) IN [applied.record EXCEPT !.human_edited = @ \cup applied.changed]

EditCandidate ==
  /\ candidate # NoCandidate
  /\ \E patch \in Patches :
       /\ DOMAIN patch \subseteq Patchable
       /\ Changed(candidate, patch) # {}
       /\ candidate' = Edited(candidate, patch)
  /\ UNCHANGED <<reading, outcome, entries, draft>>

RulesNext == Classify \/ Extract \/ EditCandidate
RulesSpec == RulesInit /\ [][RulesNext]_ruleVars

-----------------------------------------------------------------------------

RulesTypeOK ==
  /\ reading \in Readings /\ entries \in Vocabularies
  /\ outcome \in [outcome : {"none", "ok", "captcha", "error"}, signal : {"none", "login_wall", "soft_block"}]
  /\ draft \in Drafts \cup {NoDraft}
  /\ \/ candidate = NoCandidate
     \/ /\ candidate.status \in {"candidate", "in_review"}
        /\ candidate.human_edited \subseteq Patchable
        /\ candidate.true_cost_monthly \in Nat
        /\ candidate.deal.confidence \in 0..100

\* What is paid over enough whole terms of the price, for as many months.
PaidOver(price) == CASE price.billing = "annual" -> [cents |-> price.amount, months |-> 12]
                 [] price.billing = "prepaid" -> [cents |-> price.amount, months |-> price.months]
                 [] OTHER -> [cents |-> price.amount, months |-> 1]

Distance(a, b) == IF a < b THEN b - a ELSE a - b

\* What a draft has to be to need no review.  A name that a later entry of the
\* vocabulary took over no longer speaks of an introductory price.
Clean(raw, page, vocab) ==
  LET price == raw.price  paid == PaidOver(price)
      cost == TrueCostMonthly(price)
      named == {Normal[raw.eligibility[i].key] : i \in 1..Len(raw.eligibility)}
               \cup {Normal[raw.validity.conditions[i].key] : i \in 1..Len(raw.validity.conditions)}
      intro == {e \in 1..Len(vocab) : vocab[e].key = "intro_period"}
  IN /\ price.billing # "unknown" /\ paid.months > 0
     /\ 2 * Distance(cost * paid.months, paid.cents) <= paid.months /\ cost <= MaxPlausible
     /\ raw.route_type # "promo"
     /\ \A e \in intro : named \cap Named(e, vocab) \subseteq UNION {Named(f, vocab) : f \in (e + 1)..Len(vocab)}
     /\ ~page.long /\ KeyGroundedFields \subseteq Grounded(raw) /\ {g.quote : g \in raw.grounding} \subseteq page.quotes
     /\ raw.confidence > MustReviewThreshold

(* A candidate that enters the queue without the must-review mark ranks at what *)
(* it costs a month, to half a cent, within the plausible band, and came from a *)
(* whole page that holds every one of its quotes: whatever would understate the *)
(* cost has marked it (validate-record.ts:40-186, extract.ts:231-246).  So has  *)
(* an introductory price under every name of the vocabulary's intro_period      *)
(* entry, but for a name that a later entry bears too: the index files the      *)
(* condition under that one (vocab-mapping.ts:76-85), and nothing marks the     *)
(* deal, whose cost may then be understated.                                    *)
CleanIsSound == candidate.status = "candidate" => Clean(draft, reading, entries)

(* However often a candidate is corrected, its ranking cost is the one its      *)
(* price gives, unless a reviewer overrode it and the trail says so             *)
(* (candidate-patch.ts:117-127).                                                *)
CostFollowsPrice ==
  candidate # NoCandidate /\ candidate.true_cost_monthly # TrueCostMonthly(candidate.deal.price)
    => "true_cost_monthly" \in candidate.human_edited

(* No correction loses its mark: a field that differs from what the extraction  *)
(* queued is named in human_edited, the cost under its own name or the price's  *)
(* (review.ts:271-285).                                                         *)
EditsAreNamed ==
  candidate # NoCandidate =>
    LET queued == ToDealRecord(ProcessDeal(draft, reading, entries)) IN
    /\ \A field \in DOMAIN candidate.deal : candidate.deal[field] # queued.deal[field] => field \in candidate.human_edited
    /\ candidate.true_cost_monthly # queued.true_cost_monthly => candidate.human_edited \cap {"price", "true_cost_monthly"} # {}

Listed(proposals, key) == Cardinality({i \in 1..Len(proposals) : proposals[i].suggested_key = key})

\* Every condition of a draft is filed under one of its bearers, or as other, flagged and proposed once.
Filed(deal, raw, vocab) ==
  \A i \in 1..Len(raw.eligibility) :
    LET condition == raw.eligibility[i]  filed == deal.eligibility[i]
        bearers == {vocab[e].key : e \in {f \in 1..Len(vocab) : Normal[condition.key] \in Named(f, vocab)}}
    IN /\ filed.source_quote = condition.source_quote
       /\ IF bearers = {}
            THEN filed.key = Other /\ deal.unmapped_conditions /\ Listed(deal.field_proposals, SuggestedKey(condition)) = 1
            ELSE filed.key \in bearers

(* A condition the vocabulary knows under any of its names is filed under a key *)
(* that bears the name; every other one keeps its quote, is filed as other, is  *)
(* flagged, and has exactly one proposal a reviewer can promote                 *)
(* (vocab-mapping.ts:42-85, extract.ts:214-236).                                *)
ConditionsFiled == candidate # NoCandidate /\ candidate.human_edited = {} => Filed(candidate.deal, draft, entries)

(* A page read without a low-trust signal shows none of the signs of a          *)
(* challenge, a wall or an offer that is gone, unless a full body outweighs a   *)
(* word of it; and a challenge is never read at all                             *)
(* (page-classifier.ts:86-124).                                                 *)
UnmarkedIsContent ==
  outcome.outcome = "ok" =>
    /\ "captcha" \notin reading.signs
    /\ outcome.signal = "none" => /\ reading.http \notin {401, 403, 429} /\ reading.http < 500 /\ "block" \notin reading.signs
                                  /\ reading.thin => ~reading.password /\ "gone" \notin reading.signs

(* Every correction leaves its trace: the cost that ranks a deal follows its    *)
(* price, and what a reviewer changed, the cost included, is named on the record *)
(* in whatever order the patches came (review.ts:271-285).                      *)
CorrectionsAreTraced == CostFollowsPrice /\ EditsAreNamed

(* From the page to the queue nothing is taken for what it is not: the signs of *)
(* a challenge, wall or withdrawn offer for an offer, or a condition for one    *)
(* the vocabulary knows under another name (page-classifier.ts, extract.ts).    *)
ReadingIsFaithful == RulesTypeOK /\ UnmarkedIsContent /\ ConditionsFiled
=============================================================================
