---------------------------- MODULE EvidenceStores ----------------------------
(***************************************************************************)
(* A bundle of evidence in the two stores.  The bucket (S3) writes three   *)
(* bodies and then the metadata, conditionally; the directory (local-fs)   *)
(* writes four files aside and renames them into place.  Writes fail one   *)
(* by one, answers are lost, the process dies, and a restore may bring     *)
(* back less than there was.                                               *)
(***************************************************************************)
EXTENDS Integers, FiniteSets

CONSTANTS
  Bundles,    \* bundle ids; each save draws a fresh one
  Bodies      \* screenshot, html and terms

ASSUME EvidenceAssumption == "meta" \notin Bodies

VARIABLES
  store,      \* "bucket" or "directory"
  objects,    \* by bundle: what can be read under its final name, part -> content
  staged,     \* by bundle: the files of its staging directory
  saving,     \* by bundle: the progress of its save
  damaged,    \* bundles a restore has touched
  read        \* the last answer of get

evidenceVars == <<store, objects, staged, saving, damaged, read>>

Parts == Bodies \cup {"meta"}
Contents == {"empty", "whole"}
Files == UNION {[S -> Contents] : S \in SUBSET Parts}
NoFiles == [p \in {} |-> "whole"]
Unsaved == [stage |-> "unsaved"]
Save(stage, capture, pending) == [stage |-> stage, capture |-> capture, pending |-> pending]

EvidenceInit ==
  /\ store \in {"bucket", "directory"}
  /\ objects = [b \in Bundles |-> NoFiles]
  /\ staged = [b \in Bundles |-> NoFiles]
  /\ saving = [b \in Bundles |-> Unsaved]
  /\ damaged = {}
  /\ read = [answer |-> "none"]

Put(files, p, c) == [q \in DOMAIN files \cup {p} |-> IF q = p THEN c ELSE files[q]]
Whole(files) == \A p \in Bodies : p \in DOMAIN files /\ files[p] = "whole"
Readable(b) == "meta" \in DOMAIN objects[b]

-----------------------------------------------------------------------------
(* save                                                                     *)

\* Mutant: nothing looks at the capture.
AnyCapture(capture) == TRUE

\* assertCaptureComplete, before any write.
CaptureComplete(capture) == \A p \in Bodies : capture[p] = "whole"

\* Mutant: the metadata goes out with the bodies.
WrittenAllTogether == Parts

\* What Promise.all writes; the directory stages its metadata too.
WrittenTogether == IF store = "directory" THEN Parts ELSE Bodies

BeginSave(b, capture) ==
  /\ saving[b] = Unsaved
  /\ CaptureComplete(capture)
  /\ saving' = [saving EXCEPT ![b] = Save("writing", capture, WrittenTogether)]
  /\ UNCHANGED <<store, objects, staged, damaged, read>>

ContentOf(b, p) == IF p = "meta" THEN "whole" ELSE saving[b].capture[p]

\* One write lands: under its final name in the bucket, aside in the directory.
\* Writes that were under way when another one failed still land, though save has thrown.
LandPart(b, p) ==
  /\ saving[b].stage \in {"writing", "failed"} /\ p \in saving[b].pending
  /\ saving' = [saving EXCEPT ![b].pending = @ \ {p}]
  /\ IF store = "bucket"
     THEN objects' = [objects EXCEPT ![b] = Put(@, p, ContentOf(b, p))] /\ UNCHANGED staged
     ELSE staged' = [staged EXCEPT ![b] = Put(@, p, ContentOf(b, p))] /\ UNCHANGED objects
  /\ UNCHANGED <<store, damaged, read>>

\* One write fails and save throws; the directory removes what it staged, if it can.
FailPart(b, p) ==
  /\ saving[b].stage = "writing" /\ p \in saving[b].pending
  /\ saving' = [saving EXCEPT ![b].stage = "failed", ![b].pending = @ \ {p}]
  /\ staged' \in {staged, [staged EXCEPT ![b] = NoFiles]}
  /\ UNCHANGED <<store, objects, damaged, read>>

Published(b) == IF store = "bucket" THEN Put(objects[b], "meta", "whole") ELSE staged[b]

\* The metadata is put, or the staging directory renamed; what was done may be reported as failed.
Publish(b) ==
  /\ saving[b].stage = "writing" /\ saving[b].pending = {}
  /\ objects' = [objects EXCEPT ![b] = Published(b)]
  /\ staged' = [staged EXCEPT ![b] = NoFiles]
  /\ \E stage \in {"saved", "failed"} :
       /\ stage = "failed" => store = "bucket"
       /\ saving' = [saving EXCEPT ![b].stage = stage]
  /\ UNCHANGED <<store, damaged, read>>

\* Mutant: an error while publishing is swallowed.
PublishShrugs(b) ==
  /\ saving[b].stage = "writing" /\ saving[b].pending = {}
  /\ saving' = [saving EXCEPT ![b].stage = "saved"]
  /\ UNCHANGED <<store, objects, staged, damaged, read>>

PublishFails(b) ==
  /\ saving[b].stage = "writing" /\ saving[b].pending = {}
  /\ saving' = [saving EXCEPT ![b].stage = "failed"]
  /\ staged' \in {staged, [staged EXCEPT ![b] = NoFiles]}
  /\ UNCHANGED <<store, objects, damaged, read>>

\* The process dies; what it wrote stays.
Die ==
  /\ \E b \in Bundles : saving[b].stage = "writing"
  /\ saving' = [b \in Bundles |-> IF saving[b].stage \in {"writing", "failed"}
                                  THEN [saving[b] EXCEPT !.stage = "failed", !.pending = {}] ELSE saving[b]]
  /\ UNCHANGED <<store, objects, staged, damaged, read>>

\* A partial restore, or rot: one body is gone or empty.
LosePart(b, p) ==
  /\ p \in DOMAIN objects[b]
  /\ objects' \in {[objects EXCEPT ![b] = [q \in DOMAIN @ \ {p} |-> @[q]]],
                   [objects EXCEPT ![b] = Put(@, p, "empty")]}
  /\ damaged' = damaged \cup {b}
  /\ UNCHANGED <<store, staged, saving, read>>

-----------------------------------------------------------------------------
(* get                                                                      *)

\* Mutant: metadata is believed.
GetUnchecked(b) ==
  /\ read' = [answer |-> IF Readable(b) THEN "bundle" ELSE "null", bundle |-> b, files |-> objects[b]]
  /\ UNCHANGED <<store, objects, staged, saving, damaged>>

\* Null without metadata; an error when a body it refers to is missing or empty.
Get(b) ==
  /\ read' = [answer |-> IF ~Readable(b) THEN "null" ELSE IF Whole(objects[b]) THEN "bundle" ELSE "error",
              bundle |-> b, files |-> objects[b]]
  /\ UNCHANGED <<store, objects, staged, saving, damaged>>

EvidenceNext ==
  \/ \E b \in Bundles :
       \/ \E capture \in [Bodies -> Contents] : BeginSave(b, capture)
       \/ \E p \in Parts : LandPart(b, p) \/ FailPart(b, p)
       \/ \E p \in Bodies : LosePart(b, p)
       \/ Publish(b) \/ PublishFails(b) \/ Get(b)
  \/ Die

EvidenceSpec == EvidenceInit /\ [][EvidenceNext]_evidenceVars

-----------------------------------------------------------------------------
\* The stores, the saves and the last answer have their types; only complete
\* captures are being saved, and nothing is readable that was not.
EvidenceTypeOK ==
  /\ store \in {"bucket", "directory"}
  /\ objects \in [Bundles -> Files] /\ staged \in [Bundles -> Files]
  /\ saving \in [Bundles -> {Unsaved} \cup
       [stage: {"writing", "failed", "saved"}, capture: [Bodies -> {"whole"}], pending: SUBSET Parts]]
  /\ damaged \subseteq Bundles
  /\ read.answer \in {"none", "null", "bundle", "error"}
  /\ \A b \in Bundles : saving[b] = Unsaved => objects[b] = NoFiles

\* No torn bundle: whichever writes failed or died, and whoever reads in between,
\* a bundle has metadata only when its three bodies are there and not empty,
\* unless a restore has lost some.
NoTornBundle == \A b \in Bundles \ damaged : Readable(b) => Whole(objects[b])

\* A save that succeeded can be read back: a deal is never pinned to evidence
\* that get refuses.
SavedIsReadable == \A b \in Bundles \ damaged : saving[b].stage = "saved" => Readable(b) /\ Whole(objects[b])

\* get hands out a bundle only when all of it was there, after any damage too.
ServedIsWhole == read.answer = "bundle" => Whole(read.files)

\* Evidence is whole or absent, in both stores: for a reader in the middle of a
\* save, for the caller it succeeded for, and after a restore
\* (s3-evidence-store.ts:97-266, local-fs-evidence-store.ts:60-174).
EvidenceIsSound == EvidenceTypeOK /\ NoTornBundle /\ SavedIsReadable /\ ServedIsWhole
=============================================================================
