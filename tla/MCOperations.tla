----------------------------- MODULE MCOperations -----------------------------
(* The operational modules side by side: a behaviour exercises one of them. *)
EXTENDS Sessions, Lockout, PoliteFetch, CaptureDesk, EvidenceStores, DbRetry, Settings, Alerts, TLC

VARIABLE part   \* the module of this behaviour

operationsVars == <<part, sessionVars, lockoutVars, politeVars, captureVars, evidenceVars,
                    retryVars, settingsVars, alertVars>>

CONSTANTS u1, f1

OneUser == {u1}
OneFamily == {f1}
OwnedByOne == [f \in Families |-> u1]
InFlight == Permutations(Requests)

MCOrigin == [p \in Pages |-> IF p = "b1" THEN "b" ELSE "a"]
MCKindOf == [c \in Calls |-> CASE c \in {"i1", "i2"} -> "insert" [] c = "u" -> "upsert"
                               [] c = "r" -> "rotate" [] OTHER -> "count"]
MCNaturalOf == [c \in Calls |-> IF c \in {"r", "n"} THEN c ELSE "x"]
MCStatuses == <<"active", "disabled">>

\* The tasks and the vocabulary of the desk share the reviewers and nothing else.
OperationParts == {"sessions", "lockout", "fetch", "tasks", "vocabulary", "evidence", "retry", "settings", "alerts"}

MCInit == /\ part \in OperationParts
          /\ SessionsInit /\ LockoutInit /\ PoliteInit /\ CaptureInit
          /\ EvidenceInit /\ RetryInit /\ SettingsInit /\ AlertsInit
          /\ part # "evidence" => store = "bucket"
          /\ part # "alerts" => status = [s \in Sources |-> "active"]

Untouched(parts) ==
  /\ "sessions" \in parts => UNCHANGED sessionVars
  /\ "lockout" \in parts => UNCHANGED lockoutVars
  /\ "fetch" \in parts => UNCHANGED politeVars
  /\ {"tasks", "vocabulary"} \subseteq parts => UNCHANGED captureVars
  /\ "evidence" \in parts => UNCHANGED evidenceVars
  /\ "retry" \in parts => UNCHANGED retryVars
  /\ "settings" \in parts => UNCHANGED settingsVars
  /\ "alerts" \in parts => UNCHANGED alertVars

MCNext == /\ UNCHANGED part
          /\ Untouched(OperationParts \ {part})
          /\ \/ part = "sessions" /\ SessionsNext
             \/ part = "lockout" /\ LockoutNext
             \/ part = "fetch" /\ PoliteNext
             \/ part = "tasks" /\ CaptureNext /\ UNCHANGED vocabularyVars
             \/ part = "vocabulary" /\ CaptureNext /\ UNCHANGED deskVars
             \/ part = "evidence" /\ EvidenceNext
             \/ part = "retry" /\ RetryNext
             \/ part = "settings" /\ SettingsNext
             \/ part = "alerts" /\ AlertsNext

MCSpec == MCInit /\ [][MCNext]_operationsVars
=============================================================================
