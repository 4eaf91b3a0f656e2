--------------------------- MODULE CaptureRecord ---------------------------
(***************************************************************************)
(* The durable row of one ID capture (capture/model.go) and what every     *)
(* handler of capture/service.go, capture/worker.go and                    *)
(* capture/extraction.go makes of it.  Each operator takes the row r a     *)
(* handler holds in memory and the time t it reads from the clock, and     *)
(* returns the row it asks Store.Swap to write.  Nothing here reads or     *)
(* writes shared state: module CaptureLifecycle does.                      *)
(*                                                                         *)
(* Times are Naturals in an arbitrary unit.  An upload is the number it    *)
(* has in r.Uploads, so Uploads is the length of that list; derivatives    *)
(* are named by the generation that wrote them, which is part of their     *)
(* object key.  Of extracted card data there is whether they are there, of *)
(* reviewed data the number of the review (0: none): a review that differs *)
(* from the saved one has the next.                                        *)
(***************************************************************************)
EXTENDS Naturals, FiniteSets

CONSTANTS
  Slots,            \* the sides a capture needs: front and back
  MaxUploads,       \* uploads one capture may select (20)
  MaxAttempts,      \* automatic attempts at validation, and at extraction (3)
  SessionLifetime,  \* lifetime of an upload session (24 h)
  UrlLifetime,      \* lifetime of a presigned PUT (5 min)
  CleanupWait,      \* UploadLifetime + one minute (6 min)
  Lease,            \* how long a claim excludes other workers (120 s)
  Backoff,          \* delay after a failed attempt, times the attempts made (1 min)
  RecoveryGrace,    \* how overdue extraction must be before a read fails it (300 s)
  Retention         \* how long ready evidence is kept (7 days by default)

ASSUME RecordConstants ==
  /\ Slots # {}
  /\ MaxUploads \in Nat \ {0}
  /\ MaxAttempts \in Nat \ {0}
  /\ SessionLifetime \in Nat \ {0}
  /\ UrlLifetime \in Nat
  /\ CleanupWait \in Nat
  /\ Lease \in Nat
  /\ Backoff \in Nat
  /\ RecoveryGrace \in Nat
  /\ Retention \in Nat \ {0}

States == {"absent", "uploading", "finalizing", "ready", "requires_recapture",
           "failed", "cancelled", "expired"}
Works == {"none", "validate", "extract", "cleanup"}
Extractions == {"none", "pending", "complete", "failed"}

Record ==
  [State: States, Work: Works, Due: Nat, LeaseUntil: Nat, Generation: Nat,
   Revision: Nat, Attempts: Nat, ExtractionAttempts: Nat, ExpiresAt: Nat,
   DeleteAfter: Nat, Slots: [Slots -> 0..MaxUploads], Uploads: 0..MaxUploads,
   Assets: SUBSET (1..MaxUploads), Processed: Nat,
   Extraction: Extractions, Reviewed: Nat]

NoSlots == [s \in Slots |-> 0]

\* No row with this id.
Absent ==
  [State |-> "absent", Work |-> "none", Due |-> 0, LeaseUntil |-> 0,
   Generation |-> 0, Revision |-> 0, Attempts |-> 0, ExtractionAttempts |-> 0,
   ExpiresAt |-> 0, DeleteAfter |-> 0, Slots |-> NoSlots, Uploads |-> 0,
   Assets |-> {}, Processed |-> 0, Extraction |-> "none", Reviewed |-> 0]

----------------------------------------------------------------------------
\* The API handlers.

\* FAULTY variant: the session is born without scheduled cleanup.
Created_Unscheduled(t) ==
  [Absent EXCEPT !.State = "uploading", !.Revision = 1,
                 !.ExpiresAt = t + SessionLifetime]

\* A session is born with its own cleanup already scheduled.
Created(t) ==
  [Absent EXCEPT !.State = "uploading", !.Revision = 1,
                 !.ExpiresAt = t + SessionLifetime, !.Work = "cleanup",
                 !.Due = t + SessionLifetime + CleanupWait]

\* What Get reports as expired before any worker has said so in the row.
LooksExpired(r, t) ==
  \/ r.State = "uploading" /\ t >= r.ExpiresAt
  \/ r.State = "ready" /\ r.DeleteAfter > 0 /\ t >= r.DeleteAfter

\* A ready row whose extraction is missing, or overdue beyond the grace and
\* not under a live lease: Get fails the extraction so the client can go on.
Overdue(r, t) ==
  /\ r.State = "ready"
  /\ ~LooksExpired(r, t)
  /\ \/ r.Extraction = "none"
     \/ /\ r.Extraction = "pending"
        /\ r.LeaseUntil <= t
        /\ r.Work # "extract" \/ t >= r.Due + RecoveryGrace

Recovered(r) ==
  [r EXCEPT !.Revision = @ + 1, !.LeaseUntil = 0, !.Extraction = "failed",
            !.Work = "cleanup", !.Due = r.DeleteAfter]

\* Upload selects a fresh key for one side.
Selected(r, slot) ==
  [r EXCEPT !.Uploads = @ + 1, !.Slots = [@ EXCEPT ![slot] = r.Uploads + 1],
            !.Revision = @ + 1]

Selection(r) == {r.Slots[s] : s \in Slots}
IsComplete(r) == 0 \notin Selection(r)

\* Finalize pins the selected versions and hands the row to the worker.
Finalized(r, t) ==
  [r EXCEPT !.Assets = Selection(r), !.State = "finalizing",
            !.Work = "validate", !.Due = t, !.Generation = @ + 1,
            !.Revision = @ + 1]

\* FAULTY variant: cleanup is due at once, not after the upload lifetime.
Cancelled_AtOnce(r, t) ==
  [r EXCEPT !.State = "cancelled", !.Extraction = "none", !.Reviewed = 0,
            !.Work = "cleanup", !.Due = t,
            !.Generation = @ + 1, !.LeaseUntil = 0, !.Revision = @ + 1]

Cancelled(r, t) ==
  [r EXCEPT !.State = "cancelled", !.Extraction = "none", !.Reviewed = 0,
            !.Work = "cleanup", !.Due = t + CleanupWait,
            !.Generation = @ + 1, !.LeaseUntil = 0, !.Revision = @ + 1]

RetriedValidation(r, t) ==
  [r EXCEPT !.State = "finalizing", !.Work = "validate", !.Due = t,
            !.Generation = @ + 1, !.Attempts = 0, !.LeaseUntil = 0,
            !.Revision = @ + 1]

RetriedExtraction(r, t) ==
  [r EXCEPT !.Extraction = "pending", !.ExtractionAttempts = 0,
            !.Work = "extract", !.Due = t, !.Generation = @ + 1,
            !.Revision = @ + 1, !.LeaseUntil = 0]

ReviewSaved(r) == [r EXCEPT !.Revision = @ + 1, !.Reviewed = @ + 1]

----------------------------------------------------------------------------
\* The validation worker.

\* The session deadline passed before evidence could be promoted.
Lapsed(r, t) ==
  [r EXCEPT !.Extraction = "none", !.Reviewed = 0, !.State = "expired",
            !.Work = "cleanup", !.Due = t + CleanupWait,
            !.Generation = @ + 1, !.Revision = @ + 1, !.LeaseUntil = 0]

\* Validation is out of attempts: the evidence waits for a manual retry until
\* the session and its last upload URL are over.
GaveUp(r) ==
  [r EXCEPT !.State = "failed", !.Work = "cleanup",
            !.Due = r.ExpiresAt + UrlLifetime, !.LeaseUntil = 0,
            !.Revision = @ + 1]

ValidationClaimed(r, t) ==
  [r EXCEPT !.Revision = @ + 1, !.Attempts = @ + 1, !.LeaseUntil = t + Lease,
            !.Due = t + Lease]

\* extractor: whether the worker was built with an extractor.
Promoted(r, t, extractor) ==
  [r EXCEPT !.Revision = @ + 1, !.LeaseUntil = 0, !.State = "ready",
            !.Processed = r.Generation, !.DeleteAfter = t + Retention,
            !.Work = IF extractor THEN "extract" ELSE "cleanup",
            !.Due = IF extractor THEN t ELSE t + Retention,
            !.Extraction = IF extractor THEN "pending" ELSE @]

\* FAULTY variants: the work is left as it was; cleanup is due at once.
Rejected_SameWork(r, t) ==
  [r EXCEPT !.Revision = @ + 1, !.LeaseUntil = 0,
            !.State = "requires_recapture", !.Due = t + CleanupWait]
Rejected_AtOnce(r, t) ==
  [r EXCEPT !.Revision = @ + 1, !.LeaseUntil = 0,
            !.State = "requires_recapture", !.Work = "cleanup", !.Due = t]

Rejected(r, t) ==
  [r EXCEPT !.Revision = @ + 1, !.LeaseUntil = 0,
            !.State = "requires_recapture", !.Work = "cleanup",
            !.Due = t + CleanupWait]

ValidationFailed(r, t) ==
  IF r.Attempts >= MaxAttempts
  THEN GaveUp(r)
  ELSE [r EXCEPT !.Revision = @ + 1, !.LeaseUntil = 0,
                 !.Due = t + r.Attempts * Backoff]

----------------------------------------------------------------------------
\* The cleanup worker: one write before the bucket is emptied, one after.

\* FAULTY variant: card data is left in the row.
CleanupClaimed_KeepsCard(r, t) ==
  [r EXCEPT !.State = "expired", !.Generation = @ + 1, !.Revision = @ + 1,
            !.LeaseUntil = t + Lease]

CleanupClaimed(r, t) ==
  [r EXCEPT !.Extraction = "none", !.Reviewed = 0, !.State = "expired",
            !.Generation = @ + 1, !.Revision = @ + 1,
            !.LeaseUntil = t + Lease]

CleanupDone(r) ==
  [r EXCEPT !.Uploads = 0, !.Assets = {}, !.Processed = 0, !.Slots = NoSlots,
            !.Work = "none", !.Due = 0, !.LeaseUntil = 0, !.Revision = @ + 1]

----------------------------------------------------------------------------
\* The extraction worker.

ExtractionClaimed(r, t) ==
  [r EXCEPT !.Revision = @ + 1, !.ExtractionAttempts = @ + 1,
            !.LeaseUntil = t + Lease, !.Due = t + Lease]

ExtractionExpired(r, t) ==
  [r EXCEPT !.Revision = @ + 1, !.Generation = @ + 1, !.State = "expired",
            !.Extraction = "none", !.Reviewed = 0, !.Work = "cleanup",
            !.Due = t, !.LeaseUntil = 0]

ExtractionFinished(r, t, ok) ==
  LET done(status) == [r EXCEPT !.Revision = @ + 1, !.LeaseUntil = 0,
                                !.Extraction = status, !.Work = "cleanup",
                                !.Due = r.DeleteAfter]
  IN IF ok THEN done("complete")
     ELSE IF r.ExtractionAttempts >= MaxAttempts THEN done("failed")
     ELSE [r EXCEPT !.Revision = @ + 1, !.LeaseUntil = 0,
                    !.Due = t + r.ExtractionAttempts * Backoff]
----------------------------------------------------------------------------
\* A row agrees with itself: its work is what its state calls for.
RowOK(r) ==
  /\ r.Work = "validate" <=> r.State = "finalizing"
  /\ r.Work = "extract" <=> r.State = "ready" /\ r.Extraction = "pending"
  /\ r.Work = "none" => r.State \in {"absent", "expired"}
  /\ r.Work = "none" => r.Uploads = 0 /\ r.Assets = {} /\ r.Processed = 0
  /\ r.State # "ready" => r.Extraction = "none" /\ r.Reviewed = 0
  /\ r.State = "finalizing" => r.Generation > 0
  /\ r.State = "absent" => r.Revision = 0 /\ r.Work = "none"

Over == {"cancelled", "expired"}

\* What writing b over a may do to card data and to a closed evidence set.
Permitted(a, b) ==
  /\ b.State # "absent"
  /\ a.Extraction \in {"complete", "failed"} /\ b.Extraction # a.Extraction
       => \/ b.Extraction = "pending" /\ b.Generation > a.Generation
          \/ b.State \in Over
  /\ b.Reviewed # a.Reviewed => b = ReviewSaved(a) \/ b.State \in Over
  /\ a.State \in {"ready"} \cup Over => b.State \in {"ready"} \cup Over

\* Every writer but Publish keeps ready evidence or gives it up.
Keeps(a, b) == b.State = "ready" => a.State = "ready" /\ b.Processed = a.Processed
============================================================================
