--------------------------- MODULE MCSourceMonitor ---------------------------
(* Finite instances of SourceMonitor.                                       *)
EXTENDS SourceMonitor

OneIds == 1..1
TwoIds == 1..2

\* The page is there, at its configured url, when the source is registered.
Served == page.outcome = "ok" /\ page.url = Home
ServedInit == Init /\ Served
ServedSpec == ServedInit /\ [][Next]_vars /\ Fairness
=============================================================================
