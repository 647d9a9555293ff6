-------------------------- MODULE MCDealLifecycle --------------------------
(* Finite instances of DealLifecycle and the symmetries of its ids.         *)
EXTENDS DealLifecycle, TLC

AllActs == {"approve", "edit", "reject", "rejectWithReason", "capture"}
CrawlActs == {"approve", "edit", "reject"}

Ids == Permutations(Deals) \cup Permutations(Captures)
       \cup Permutations(Keys) \cup Permutations(Hashes) \cup Permutations(Reviewers)
=============================================================================
