-------------------------- MODULE MCSourceRegistry --------------------------
(* Finite instances of SourceRegistry and the symmetries of its ids.        *)
EXTENDS SourceRegistry, TLC

CONSTANTS u1, u2, g1

\* u1 and u2 belong to one domain.
OneUrl == {u1}
TwoUrls == {u1, u2}
OneDomain == [u \in Urls |-> g1]

AllActs == {"approve", "reject", "register"}

IdSymmetry == Permutations(Ids) \cup Permutations(Reviewers) \cup Permutations(Proposers)
=============================================================================
