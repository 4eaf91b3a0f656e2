--------------------------- MODULE CaptureProofs ---------------------------
(***************************************************************************)
(* Theorems about CaptureLifecycle for any number of captures, handlers    *)
(* and workers, any timings and any bounds.                                *)
(*                                                                         *)
(* The invariant has four layers, each inductive given those below it:     *)
(* Inv, what the revision gives; LeaseInv and TimelyInv, what the timings  *)
(* give: one worker at work on a capture, readiness at most an invocation  *)
(* after the deadline, nothing cleaned up before the last upload can have  *)
(* arrived; and EvidenceInv, what is in the bucket: evidence is there      *)
(* while it is needed and gone for good once its cleanup is done, and      *)
(* every step is a step of CaptureContract.                                *)
(*                                                                         *)
(* First, what the row operators of CaptureRecord return: rows of the      *)
(* right type, consistent with themselves, and no further from the row     *)
(* they were made from than Permitted and Keeps allow.  There, arithmetic  *)
(* goes to SMT first, because the updates of a whole row are left to       *)
(* Zenon.                                                                  *)
(***************************************************************************)
EXTENDS CaptureInvariant, TLAPS

LEMMA AbsentType == Absent \in Record
BY RecordConstants DEF Absent, Record, NoSlots, States, Works, Extractions

LEMMA Counters ==
  ASSUME NEW r \in Record, NEW t \in Nat
  PROVE  /\ 0 \in Nat /\ 1 \in Nat
         /\ r.Revision + 1 \in Nat
         /\ r.Generation + 1 \in Nat
         /\ r.Attempts + 1 \in Nat
         /\ r.ExtractionAttempts + 1 \in Nat
         /\ r.Reviewed + 1 \in Nat
         /\ r.ExpiresAt + UrlLifetime \in Nat
         /\ t + Lease \in Nat
         /\ t + CleanupWait \in Nat
         /\ t + Retention \in Nat
         /\ t + SessionLifetime \in Nat
         /\ t + SessionLifetime + CleanupWait \in Nat
BY RecordConstants DEF Record

LEMMA Backoffs ==
  ASSUME NEW r \in Record, NEW t \in Nat
  PROVE  /\ t + r.Attempts * Backoff \in Nat
         /\ t + r.ExtractionAttempts * Backoff \in Nat
BY RecordConstants DEF Record

LEMMA CreatedType == ASSUME NEW t \in Nat PROVE Created(t) \in Record
BY AbsentType, Counters, Zenon DEF Created, Record, States, Works

LEMMA SelectedType ==
  ASSUME NEW r \in Record, NEW s \in Slots, r.Uploads < MaxUploads
  PROVE  Selected(r, s) \in Record
<1>1. r.Uploads + 1 \in 0..MaxUploads
  BY RecordConstants DEF Record
<1>2. [r.Slots EXCEPT ![s] = r.Uploads + 1] \in [Slots -> 0..MaxUploads]
  BY <1>1 DEF Record
<1>3. r.Revision + 1 \in Nat
  BY DEF Record
<1> QED
  BY <1>1, <1>2, <1>3, Zenon DEF Selected, Record

LEMMA SelectionType ==
  ASSUME NEW r \in Record
  PROVE  /\ Selection(r) \subseteq 0..MaxUploads
         /\ IsComplete(r) => Selection(r) \subseteq 1..MaxUploads
BY RecordConstants DEF Selection, IsComplete, Record

LEMMA ApiRowTypes ==
  ASSUME NEW r \in Record, NEW t \in Nat
  PROVE  /\ Recovered(r) \in Record
         /\ IsComplete(r) => Finalized(r, t) \in Record
         /\ Cancelled(r, t) \in Record
         /\ RetriedValidation(r, t) \in Record
         /\ RetriedExtraction(r, t) \in Record
         /\ ReviewSaved(r) \in Record
<1> USE Counters DEF Record, States, Works, Extractions
<1>1. Recovered(r) \in Record
  BY ZenonT(60) DEF Recovered
<1>2. IsComplete(r) => Finalized(r, t) \in Record
  <2>1. IsComplete(r) => Selection(r) \in SUBSET (1..MaxUploads)
    BY SelectionType
  <2> QED BY <2>1, ZenonT(60) DEF Finalized
<1>3. Cancelled(r, t) \in Record
  BY ZenonT(60) DEF Cancelled
<1>4. RetriedValidation(r, t) \in Record
  BY ZenonT(60) DEF RetriedValidation
<1>5. RetriedExtraction(r, t) \in Record
  BY ZenonT(60) DEF RetriedExtraction
<1>6. ReviewSaved(r) \in Record
  BY ZenonT(60) DEF ReviewSaved
<1> QED
  BY <1>1, <1>2, <1>3, <1>4, <1>5, <1>6

LEMMA PromotedType ==
  ASSUME NEW r \in Record, NEW state \in States, NEW work \in Works,
         NEW extraction \in Extractions, NEW revision \in Nat, NEW due \in Nat,
         NEW after \in Nat
  PROVE  [r EXCEPT !.Revision = revision, !.LeaseUntil = 0, !.State = state,
                   !.Processed = r.Generation, !.DeleteAfter = after, !.Work = work,
                   !.Due = due, !.Extraction = extraction] \in Record
<1>1. 0 \in Nat /\ r.Generation \in Nat
  BY DEF Record
<1> QED BY <1>1, ZenonT(60) DEF Record

LEMMA WorkerRowTypes ==
  ASSUME NEW r \in Record, NEW t \in Nat, NEW b \in BOOLEAN
  PROVE  /\ Lapsed(r, t) \in Record
         /\ GaveUp(r) \in Record
         /\ ValidationClaimed(r, t) \in Record
         /\ Promoted(r, t, b) \in Record
         /\ Rejected(r, t) \in Record
         /\ ValidationFailed(r, t) \in Record
         /\ CleanupClaimed(r, t) \in Record
         /\ CleanupDone(r) \in Record
         /\ ExtractionClaimed(r, t) \in Record
         /\ ExtractionExpired(r, t) \in Record
         /\ ExtractionFinished(r, t, b) \in Record
<1> USE Counters DEF Record, States, Works, Extractions
<1>1. Lapsed(r, t) \in Record
  BY ZenonT(60) DEF Lapsed
<1>2. GaveUp(r) \in Record
  BY ZenonT(60) DEF GaveUp
<1>3. ValidationClaimed(r, t) \in Record
  BY ZenonT(60) DEF ValidationClaimed
<1>4. Promoted(r, t, b) \in Record
  <2>1. /\ (IF b THEN "extract" ELSE "cleanup") \in Works
        /\ (IF b THEN "pending" ELSE r.Extraction) \in Extractions
        /\ (IF b THEN t ELSE t + Retention) \in Nat
        /\ t + Retention \in Nat /\ r.Revision + 1 \in Nat /\ "ready" \in States
    OBVIOUS
  <2> HIDE DEF Record, States, Works, Extractions
  <2> QED BY <2>1, PromotedType DEF Promoted
<1>5. Rejected(r, t) \in Record
  BY ZenonT(60) DEF Rejected
<1>6. ValidationFailed(r, t) \in Record
  BY <1>2, Backoffs, ZenonT(60) DEF ValidationFailed
<1>7. CleanupClaimed(r, t) \in Record
  BY ZenonT(60) DEF CleanupClaimed
<1>8. CleanupDone(r) \in Record
  <2>1. NoSlots \in [Slots -> 0..MaxUploads] /\ 0 \in 0..MaxUploads
    BY RecordConstants DEF NoSlots
  <2>2. {} \in SUBSET (1..MaxUploads)
    OBVIOUS
  <2> QED BY <2>1, <2>2, ZenonT(60) DEF CleanupDone
<1>9. ExtractionClaimed(r, t) \in Record
  BY ZenonT(60) DEF ExtractionClaimed
<1>10. ExtractionExpired(r, t) \in Record
  BY ZenonT(60) DEF ExtractionExpired
<1>11. ExtractionFinished(r, t, b) \in Record
  BY Backoffs, ZenonT(60) DEF ExtractionFinished
<1> QED
  BY <1>1, <1>2, <1>3, <1>4, <1>5, <1>6, <1>7, <1>8, <1>9, <1>10, <1>11

----------------------------------------------------------------------------
\* b is what some operation may write over a.
Successor(a, b) ==
  /\ RowOK(b)
  /\ b.Revision = a.Revision + 1
  /\ Permitted(a, b)

LEMMA CreatedOK == ASSUME NEW t \in Nat PROVE RowOK(Created(t)) /\ Created(t).Revision = 1
BY DEF Created, Absent, RowOK

LEMMA ApiSuccessors ==
  ASSUME NEW r \in Record, RowOK(r), NEW t \in Nat
  PROVE  /\ \A s \in Slots : r.State = "uploading"
              => Successor(r, Selected(r, s)) /\ Keeps(r, Selected(r, s))
         /\ r.State = "ready" /\ r.Extraction \in {"none", "pending"}
              => Successor(r, Recovered(r)) /\ Keeps(r, Recovered(r))
         /\ r.State = "uploading" => Successor(r, Finalized(r, t)) /\ Keeps(r, Finalized(r, t))
         /\ Successor(r, Cancelled(r, t)) /\ Keeps(r, Cancelled(r, t))
         /\ r.State = "failed"
              => Successor(r, RetriedValidation(r, t)) /\ Keeps(r, RetriedValidation(r, t))
         /\ r.State = "ready" /\ r.Extraction = "failed"
              => Successor(r, RetriedExtraction(r, t)) /\ Keeps(r, RetriedExtraction(r, t))
         /\ r.State = "ready" /\ r.Extraction # "pending"
              => Successor(r, ReviewSaved(r)) /\ Keeps(r, ReviewSaved(r))
<1> USE DEF Successor, RowOK, Permitted, Keeps, Over, Record
<1>1. \A s \in Slots : r.State = "uploading"
        => Successor(r, Selected(r, s)) /\ Keeps(r, Selected(r, s))
  BY DEF Selected
<1>2. r.State = "ready" /\ r.Extraction \in {"none", "pending"}
              => Successor(r, Recovered(r)) /\ Keeps(r, Recovered(r))
  BY DEF Recovered
<1>3. r.State = "uploading" => Successor(r, Finalized(r, t)) /\ Keeps(r, Finalized(r, t))
  BY DEF Finalized
<1>4. Successor(r, Cancelled(r, t)) /\ Keeps(r, Cancelled(r, t))
  BY DEF Cancelled
<1>5. r.State = "failed"
        => Successor(r, RetriedValidation(r, t)) /\ Keeps(r, RetriedValidation(r, t))
  BY DEF RetriedValidation
<1>6. r.State = "ready" /\ r.Extraction = "failed"
        => Successor(r, RetriedExtraction(r, t)) /\ Keeps(r, RetriedExtraction(r, t))
  BY DEF RetriedExtraction
<1>7. r.State = "ready" /\ r.Extraction # "pending"
        => Successor(r, ReviewSaved(r)) /\ Keeps(r, ReviewSaved(r))
  BY DEF ReviewSaved
<1> QED
  BY <1>1, <1>2, <1>3, <1>4, <1>5, <1>6, <1>7

LEMMA WorkerSuccessors ==
  ASSUME NEW r \in Record, RowOK(r), NEW t \in Nat, NEW b \in BOOLEAN
  PROVE  /\ r.State = "finalizing"
              => /\ Successor(r, Lapsed(r, t)) /\ Keeps(r, Lapsed(r, t))
                 /\ Successor(r, GaveUp(r)) /\ Keeps(r, GaveUp(r))
                 /\ Successor(r, ValidationClaimed(r, t)) /\ Keeps(r, ValidationClaimed(r, t))
                 /\ Successor(r, Promoted(r, t, b))
                 /\ Promoted(r, t, b).State = "ready" /\ Promoted(r, t, b).Processed > 0
                 /\ Successor(r, Rejected(r, t)) /\ Keeps(r, Rejected(r, t))
                 /\ Successor(r, ValidationFailed(r, t)) /\ Keeps(r, ValidationFailed(r, t))
         /\ r.Work = "cleanup"
              => /\ Successor(r, CleanupClaimed(r, t)) /\ Keeps(r, CleanupClaimed(r, t))
                 /\ CleanupClaimed(r, t).State = "expired"
                 /\ CleanupClaimed(r, t).Work = "cleanup"
         /\ r.State = "expired" => Successor(r, CleanupDone(r)) /\ Keeps(r, CleanupDone(r))
         /\ r.Work = "extract"
              => /\ Successor(r, ExtractionClaimed(r, t)) /\ Keeps(r, ExtractionClaimed(r, t))
                 /\ Successor(r, ExtractionExpired(r, t)) /\ Keeps(r, ExtractionExpired(r, t))
                 /\ Successor(r, ExtractionFinished(r, t, b)) /\ Keeps(r, ExtractionFinished(r, t, b))
<1> USE DEF Successor, RowOK, Permitted, Keeps, Over, Record
<1>1. ASSUME r.State = "finalizing"
      PROVE  /\ Successor(r, Lapsed(r, t)) /\ Keeps(r, Lapsed(r, t))
             /\ Successor(r, GaveUp(r)) /\ Keeps(r, GaveUp(r))
             /\ Successor(r, ValidationClaimed(r, t)) /\ Keeps(r, ValidationClaimed(r, t))
             /\ Successor(r, Promoted(r, t, b))
             /\ Promoted(r, t, b).State = "ready" /\ Promoted(r, t, b).Processed > 0
             /\ Successor(r, Rejected(r, t)) /\ Keeps(r, Rejected(r, t))
             /\ Successor(r, ValidationFailed(r, t)) /\ Keeps(r, ValidationFailed(r, t))
  <2>1. Successor(r, Lapsed(r, t)) /\ Keeps(r, Lapsed(r, t))
    BY <1>1 DEF Lapsed
  <2>2. Successor(r, GaveUp(r)) /\ Keeps(r, GaveUp(r))
    BY <1>1 DEF GaveUp
  <2>3. Successor(r, ValidationClaimed(r, t)) /\ Keeps(r, ValidationClaimed(r, t))
    BY <1>1 DEF ValidationClaimed
  <2>4. /\ Successor(r, Promoted(r, t, b))
        /\ Promoted(r, t, b).State = "ready" /\ Promoted(r, t, b).Processed > 0
    <3>1. CASE b
      BY <1>1, <3>1 DEF Promoted
    <3>2. CASE ~b
      BY <1>1, <3>2 DEF Promoted
    <3> QED BY <3>1, <3>2
  <2>5. Successor(r, Rejected(r, t)) /\ Keeps(r, Rejected(r, t))
    BY <1>1 DEF Rejected
  <2>6. Successor(r, ValidationFailed(r, t)) /\ Keeps(r, ValidationFailed(r, t))
    <3>1. CASE r.Attempts >= MaxAttempts
      BY <2>2, <3>1 DEF ValidationFailed
    <3>2. CASE ~(r.Attempts >= MaxAttempts)
      BY <1>1, <3>2 DEF ValidationFailed
    <3> QED BY <3>1, <3>2
  <2> QED
    BY <2>1, <2>2, <2>3, <2>4, <2>5, <2>6
<1>2. ASSUME r.Work = "cleanup"
      PROVE  /\ Successor(r, CleanupClaimed(r, t)) /\ Keeps(r, CleanupClaimed(r, t))
             /\ CleanupClaimed(r, t).State = "expired"
             /\ CleanupClaimed(r, t).Work = "cleanup"
  BY <1>2 DEF CleanupClaimed
<1>3. ASSUME r.State = "expired" PROVE Successor(r, CleanupDone(r)) /\ Keeps(r, CleanupDone(r))
  BY <1>3 DEF CleanupDone
<1>4. ASSUME r.Work = "extract"
      PROVE  /\ Successor(r, ExtractionClaimed(r, t)) /\ Keeps(r, ExtractionClaimed(r, t))
             /\ Successor(r, ExtractionExpired(r, t)) /\ Keeps(r, ExtractionExpired(r, t))
             /\ Successor(r, ExtractionFinished(r, t, b)) /\ Keeps(r, ExtractionFinished(r, t, b))
  <2>1. Successor(r, ExtractionClaimed(r, t)) /\ Keeps(r, ExtractionClaimed(r, t))
    BY <1>4 DEF ExtractionClaimed
  <2>2. Successor(r, ExtractionExpired(r, t)) /\ Keeps(r, ExtractionExpired(r, t))
    BY <1>4 DEF ExtractionExpired
  <2>3. Successor(r, ExtractionFinished(r, t, b)) /\ Keeps(r, ExtractionFinished(r, t, b))
    BY <1>4 DEF ExtractionFinished
  <2> QED
    BY <2>1, <2>2, <2>3
<1> QED
  BY <1>1, <1>2, <1>3, <1>4

----------------------------------------------------------------------------
LEMMA IdleTypes ==
  /\ IdleApi \in ApiProcess /\ IdleApi.r = Absent
  /\ IdleWorker \in WorkerProcess /\ IdleWorker.r = Absent
  /\ RowOK(Absent)
<1>1. (CHOOSE c \in Captures : TRUE) \in Captures
  BY LifecycleConstants
<1>2. 0 \in 0..MaxUploads
  BY RecordConstants
<1>3. RowOK(Absent)
  BY DEF Absent, RowOK
<1> QED
  BY <1>1, <1>2, <1>3, AbsentType DEF IdleApi, IdleWorker, ApiProcess, WorkerProcess, Ops

----------------------------------------------------------------------------
\* What an invocation may plan.

LEMMA SwapToFacts ==
  ASSUME NEW op \in Ops, NEW c \in Captures, NEW s \in Record, NEW end \in Nat
  PROVE  LET plan == SwapTo(op, c, s, end)
         IN plan \in ApiProcess /\ plan.pc = "swap" /\ plan.id = c /\ plan.r = s
<1>1. s.Uploads \in 0..MaxUploads
  BY DEF Record
<1> QED
  BY <1>1 DEF SwapTo, ApiProcess

\* A plan for row r of capture c: something to sign, or a successor to write.
GoodPlan(plan, c, r) ==
  /\ plan \in ApiProcess
  /\ plan.id = c
  /\ RowOK(plan.r)
  /\ plan.pc \in {"swap", "presign"}
  /\ plan.pc = "swap" => Successor(r, plan.r) /\ Keeps(r, plan.r)

LEMMA PlanFacts ==
  ASSUME NEW op \in Ops, NEW c \in Captures, NEW r \in Record, RowOK(r),
         NEW end \in Nat, now \in Nat, NEW plan \in Plans(op, c, r, end)
  PROVE  GoodPlan(plan, c, r)
<1>1. ASSUME NEW s \in Record, Successor(r, s), Keeps(r, s), NEW o \in Ops,
             plan = SwapTo(o, c, s, end)
      PROVE  GoodPlan(plan, c, r)
  BY <1>1, SwapToFacts DEF GoodPlan, Successor
<1>2. CASE op = "upload"
  <2>1. plan \in UploadPlans(c, r, end)
    BY <1>2 DEF Plans
  <2>2. CASE \E s \in Slots : r.Uploads < MaxUploads /\ plan = SwapTo("upload", c, Selected(r, s), end)
    <3>1. PICK s \in Slots : r.Uploads < MaxUploads /\ plan = SwapTo("upload", c, Selected(r, s), end)
      BY <2>2
    <3>2. Selected(r, s) \in Record
      BY <3>1, SelectedType
    <3>3. r.State = "uploading"
      BY <2>1 DEF UploadPlans
    <3>4. Successor(r, Selected(r, s)) /\ Keeps(r, Selected(r, s))
      BY <3>3, ApiSuccessors, 0 \in Nat
    <3> QED BY <1>1, <3>1, <3>2, <3>4 DEF Ops
  <2>3. CASE \E u \in Selection(r) \ {0} :
               plan = [pc |-> "presign", op |-> "upload", id |-> c, r |-> r, u |-> u, end |-> end]
    <3>1. PICK u \in Selection(r) \ {0} :
               plan = [pc |-> "presign", op |-> "upload", id |-> c, r |-> r, u |-> u, end |-> end]
      BY <2>3
    <3>2. u \in 0..MaxUploads
      BY SelectionType
    <3> QED BY <3>1, <3>2 DEF GoodPlan, ApiProcess, Ops
  <2> QED BY <2>1, <2>2, <2>3 DEF UploadPlans
<1>3. CASE op = "finalize"
  <2>1. r.State = "uploading" /\ IsComplete(r) /\ plan = SwapTo("finalize", c, Finalized(r, now), end)
    BY <1>3 DEF Plans, FinalizePlans
  <2> QED BY <2>1, <1>1, ApiRowTypes, ApiSuccessors DEF Ops
<1>4. CASE op = "retry"
  <2>1. \/ r.State = "ready" /\ r.Extraction = "failed" /\ plan = SwapTo("retry", c, RetriedExtraction(r, now), end)
        \/ r.State = "failed" /\ plan = SwapTo("retry", c, RetriedValidation(r, now), end)
    BY <1>4 DEF Plans, RetryPlans
  <2> QED BY <2>1, <1>1, ApiRowTypes, ApiSuccessors DEF Ops
<1>5. CASE op = "review"
  <2>1. /\ r.State = "ready" /\ r.Extraction # "pending"
        /\ plan = SwapTo("review", c, ReviewSaved(r), end)
    BY <1>5 DEF Plans, ReviewPlans
  <2> QED BY <2>1, <1>1, ApiRowTypes, ApiSuccessors DEF Ops
<1>6. CASE op = "cancel"
  <2>1. plan = SwapTo("cancel", c, Cancelled(r, now), end)
    BY <1>6 DEF Plans, CancelPlans
  <2> QED BY <2>1, <1>1, ApiRowTypes, ApiSuccessors DEF Ops
<1>7. CASE op = "get"
  BY <1>7 DEF Plans
<1> QED
  BY <1>2, <1>3, <1>4, <1>5, <1>6, <1>7 DEF Ops

\* What a worker may set out to write.
GoodWork(next, c, r) ==
  /\ next \in WorkerProcess
  /\ next.id = c
  /\ next.pc \in {"claim", "final"}
  /\ Successor(r, next.r)
  /\ Keeps(r, next.r)
  /\ next.pc = "claim" /\ next.r.Work = "cleanup" => next.r.State = "expired"

LEMMA WorkFacts ==
  ASSUME NEW c \in Captures, NEW r \in Record, RowOK(r), now \in Nat,
         NEW next \in WorkPlans(c, r)
  PROVE  GoodWork(next, c, r)
<1>1. ASSUME NEW s \in Record, Successor(r, s), Keeps(r, s), next = Hold("final", c, s)
      PROVE  GoodWork(next, c, r)
  BY <1>1, LifecycleConstants DEF GoodWork, Hold, WorkerProcess
<1>2. ASSUME NEW s \in Record, Successor(r, s), Keeps(r, s), next = Hold("claim", c, s),
             s.Work = "cleanup" => s.State = "expired"
      PROVE  GoodWork(next, c, r)
  BY <1>2, LifecycleConstants DEF GoodWork, Hold, WorkerProcess
<1>3. CASE r.Work = "extract"
  <2>1. \/ next = Hold("final", c, ExtractionExpired(r, now))
        \/ next = Hold("final", c, ExtractionFinished(r, now, FALSE))
        \/ next = Hold("claim", c, ExtractionClaimed(r, now))
    BY <1>3 DEF WorkPlans
  <2>2. ExtractionClaimed(r, now).Work = "extract"
    BY <1>3 DEF ExtractionClaimed, Record
  <2> QED BY <1>1, <1>2, <1>3, <2>1, <2>2, WorkerRowTypes, WorkerSuccessors
<1>4. CASE r.Work = "cleanup"
  <2>1. next = Hold("claim", c, CleanupClaimed(r, now))
    BY <1>4 DEF WorkPlans
  <2> QED BY <1>2, <1>4, <2>1, WorkerRowTypes, WorkerSuccessors
<1>5. CASE r.Work = "validate"
  <2>1. /\ r.State = "finalizing"
        /\ \/ next = Hold("final", c, Lapsed(r, now))
           \/ next = Hold("final", c, GaveUp(r))
           \/ next = Hold("claim", c, ValidationClaimed(r, now))
    BY <1>5 DEF WorkPlans
  <2>2. ValidationClaimed(r, now).Work = "validate"
    BY <1>5 DEF ValidationClaimed, Record
  <2> QED BY <1>1, <1>2, <2>1, <2>2, WorkerRowTypes, WorkerSuccessors
<1>6. CASE r.Work = "none"
  BY <1>6 DEF WorkPlans
<1> QED
  BY <1>3, <1>4, <1>5, <1>6 DEF Record, Works

----------------------------------------------------------------------------
\* What a step leaves alone.

\* Nobody's row was written: processes that did not move stay as they were.
LEMMA RowsUnchanged ==
  ASSUME Inv, rec' = rec
  PROVE  /\ \A c \in Captures : RowOK(rec'[c])
         /\ \A p \in Handlers : api'[p] = api[p] => ApiOK(p)'
         /\ \A w \in Workers : worker'[w] = worker[w] => WorkerOK(w)'
<1>1. \A c \in Captures : RowOK(rec'[c])
  BY DEF Inv
<1>2. \A p \in Handlers : api'[p] = api[p] => ApiOK(p)'
  BY DEF Inv, ApiOK, Fenced, CanSwap
<1>3. \A w \in Workers : worker'[w] = worker[w] => WorkerOK(w)'
  BY DEF Inv, WorkerOK, Fenced, CanSwap
<1> QED
  BY <1>1, <1>2, <1>3

\* A row was replaced: everybody else who held it is fenced off.
LEMMA RowReplaced ==
  ASSUME Inv, NEW c \in Captures, NEW s \in Record,
         RowOK(s), s.Revision = rec[c].Revision + 1, rec' = [rec EXCEPT ![c] = s]
  PROVE  /\ rec' \in [Captures -> Record]
         /\ \A d \in Captures : RowOK(rec'[d])
         /\ \A p \in Handlers : api'[p] = api[p] => ApiOK(p)'
         /\ \A w \in Workers : worker'[w] = worker[w] => WorkerOK(w)'
<1>1. rec' \in [Captures -> Record] /\ \A d \in Captures : RowOK(rec'[d])
  BY DEF Inv, TypeOK
<1>2. \A d \in Captures : rec[d].Revision \in Nat /\ rec'[d].Revision \in Nat
  BY <1>1 DEF Inv, TypeOK, Record
<1>3. rec'[c].Revision = rec[c].Revision + 1 /\ \A d \in Captures \ {c} : rec'[d] = rec[d]
  BY DEF Inv, TypeOK
<1>4. ASSUME NEW p \in Handlers, api'[p] = api[p] PROVE ApiOK(p)'
  <2>1. api[p].id \in Captures /\ api[p].r.Revision \in Nat
    BY DEF Inv, TypeOK, ApiProcess, Record
  <2>2. ApiOK(p)
    BY DEF Inv
  <2>3. CASE api[p].id # c
    BY <1>3, <1>4, <2>1, <2>2, <2>3 DEF ApiOK, Fenced, CanSwap
  <2>4. CASE api[p].id = c
    BY <1>2, <1>3, <1>4, <2>1, <2>2, <2>4 DEF ApiOK, Fenced, CanSwap
  <2> QED BY <2>3, <2>4
<1>5. ASSUME NEW w \in Workers, worker'[w] = worker[w] PROVE WorkerOK(w)'
  <2>1. worker[w].id \in Captures /\ worker[w].r.Revision \in Nat
    BY DEF Inv, TypeOK, WorkerProcess, Record
  <2>2. WorkerOK(w)
    BY DEF Inv
  <2>3. CASE worker[w].id # c
    BY <1>3, <1>5, <2>1, <2>2, <2>3 DEF WorkerOK, Fenced, CanSwap
  <2>4. CASE worker[w].id = c
    BY <1>2, <1>3, <1>5, <2>1, <2>2, <2>4 DEF WorkerOK, Fenced, CanSwap
  <2> QED BY <2>3, <2>4
<1> QED
  BY <1>1, <1>4, <1>5

\* A process that is idle, or only holds a row, satisfies its conjunct.
LEMMA IdleApiOK ==
  ASSUME NEW p \in Handlers, api[p]' = IdleApi
  PROVE  ApiOK(p)'
BY IdleTypes DEF ApiOK, IdleApi

LEMMA IdleWorkerOK ==
  ASSUME NEW w \in Workers, worker[w]' = IdleWorker
  PROVE  WorkerOK(w)'
BY IdleTypes DEF WorkerOK, IdleWorker

\* The outbox outlives every write but Publish.
LEMMA OutboxKept ==
  ASSUME Inv, NEW c \in Captures, NEW s \in Record, manifest' = manifest,
         Permitted(rec[c], s), Keeps(rec[c], s), rec' = [rec EXCEPT ![c] = s]
  PROVE  OutboxMatchesRow'
BY DEF Inv, TypeOK, OutboxMatchesRow, Permitted, Keeps, Over

----------------------------------------------------------------------------
\* Each action keeps Inv.

LEMMA CreateKeeps == ASSUME Inv, NEW c \in Captures, Create(c) PROVE Inv'
<1> USE DEF Create
<1>1. Created(now) \in Record /\ RowOK(Created(now)) /\ Created(now).Revision = 1
  BY CreatedType, CreatedOK DEF Inv, TypeOK
<1>2. Created(now).Revision = rec[c].Revision + 1
  BY <1>1 DEF Inv, RowOK
<1>3. /\ rec' \in [Captures -> Record]
      /\ \A d \in Captures : RowOK(rec'[d])
      /\ \A p \in Handlers : ApiOK(p)'
      /\ \A w \in Workers : WorkerOK(w)'
  BY <1>1, <1>2, RowReplaced
<1>4. TypeOK'
  BY <1>3 DEF Inv, TypeOK
<1>5. OutboxMatchesRow'
  <2>1. manifest[c] = 0
    BY DEF Inv, OutboxMatchesRow
  <2>2. Created(now).State = "uploading"
    BY DEF Created, Absent
  <2> QED BY <2>1, <2>2 DEF Inv, TypeOK, OutboxMatchesRow
<1> QED
  BY <1>3, <1>4, <1>5 DEF Inv

LEMMA InvokeKeeps ==
  ASSUME Inv, NEW p \in Handlers, NEW c \in Captures, NEW op \in Ops, Invoke(p, c, op)
  PROVE  Inv'
<1> USE DEF Invoke
<1>1. PICK next \in Plans(op, c, rec[c], now + ApiTimeout) : api' = [api EXCEPT ![p] = next]
  OBVIOUS
<1>2. GoodPlan(next, c, rec[c])
  BY PlanFacts, LifecycleConstants DEF Inv, TypeOK
<1>3. TypeOK'
  BY <1>1, <1>2 DEF Inv, TypeOK, GoodPlan
<1>4. ApiOK(p)'
  <2>1. api'[p] = next
    BY <1>1 DEF Inv, TypeOK
  <2>2. rec[c].Revision \in Nat
    BY DEF Inv, TypeOK, Record
  <2> QED BY <1>2, <2>1, <2>2 DEF ApiOK, GoodPlan, Successor, Fenced, CanSwap
<1>5. \A q \in Handlers \ {p} : api'[q] = api[q]
  BY <1>1 DEF Inv, TypeOK
<1>6. OutboxMatchesRow'
  BY DEF Inv, OutboxMatchesRow
<1> QED
  BY <1>3, <1>4, <1>5, <1>6, RowsUnchanged DEF Inv

LEMMA InvokeRecoveryKeeps ==
  ASSUME Inv, NEW p \in Handlers, NEW c \in Captures, NEW op \in Ops,
         InvokeRecovery(p, c, op)
  PROVE  Inv'
<1> USE DEF InvokeRecovery
<1>1. rec[c] \in Record /\ RowOK(rec[c]) /\ rec[c].Revision \in Nat /\ now \in Nat
  BY DEF Inv, TypeOK, Record
<1>2. rec[c].State = "ready" /\ rec[c].Extraction \in {"none", "pending"}
  BY DEF Overdue
<1>3. /\ Recovered(rec[c]) \in Record
      /\ Successor(rec[c], Recovered(rec[c])) /\ Keeps(rec[c], Recovered(rec[c]))
  BY <1>1, <1>2, ApiRowTypes, ApiSuccessors
<1>4. /\ api'[p].pc = "recover" /\ api'[p].id = c /\ api'[p].r = Recovered(rec[c])
      /\ api'[p] \in ApiProcess
  <2>1. now + ApiTimeout \in Nat /\ 0 \in 0..MaxUploads
    BY <1>1, LifecycleConstants, RecordConstants
  <2> QED BY <1>3, <2>1 DEF Inv, TypeOK, ApiProcess
<1>5. TypeOK'
  BY <1>4 DEF Inv, TypeOK
<1>6. ApiOK(p)'
  BY <1>1, <1>3, <1>4 DEF ApiOK, Successor, Fenced, CanSwap
<1>7. \A q \in Handlers \ {p} : api'[q] = api[q]
  BY DEF Inv, TypeOK
<1>8. OutboxMatchesRow'
  BY DEF Inv, OutboxMatchesRow
<1> QED
  BY <1>5, <1>6, <1>7, <1>8, RowsUnchanged DEF Inv

\* What an invocation about to write holds.
LEMMA ApiHolds ==
  ASSUME Inv, NEW p \in Handlers, api[p].pc \in {"recover", "swap"},
         CanSwap(api[p].id, api[p].r)
  PROVE  /\ api[p].id \in Captures
         /\ api[p].r \in Record /\ RowOK(api[p].r)
         /\ api[p].r.Revision = rec[api[p].id].Revision + 1
         /\ Permitted(rec[api[p].id], api[p].r)
         /\ Keeps(rec[api[p].id], api[p].r)
BY DEF Inv, TypeOK, ApiProcess, ApiOK, Fenced, CanSwap

LEMMA RecoverKeeps == ASSUME Inv, NEW p \in Handlers, Recover(p) PROVE Inv'
<1> DEFINE c == api[p].id
           s == api[p].r
           plans == Plans(api[p].op, c, s, api[p].end)
<1>1. /\ api[p].pc = "recover" /\ CanSwap(c, s)
      /\ rec' = [rec EXCEPT ![c] = s]
      /\ \E next \in IF plans = {} THEN {IdleApi} ELSE plans : api' = [api EXCEPT ![p] = next]
      /\ UNCHANGED <<now, sent, originals, late, derivatives, links, manifest, worker, faults>>
  BY DEF Recover
<1>2. PICK next \in IF plans = {} THEN {IdleApi} ELSE plans : api' = [api EXCEPT ![p] = next]
  BY <1>1
<1>3. /\ c \in Captures /\ s \in Record /\ RowOK(s) /\ s.Revision = rec[c].Revision + 1
      /\ Permitted(rec[c], s) /\ Keeps(rec[c], s)
  BY <1>1, ApiHolds
<1>4. rec'[c] = s /\ api'[p] = next /\ \A q \in Handlers \ {p} : api'[q] = api[q]
  BY <1>1, <1>2, <1>3 DEF Inv, TypeOK
<1>5. next = IdleApi \/ GoodPlan(next, c, s)
  <2>1. api[p].op \in Ops /\ api[p].end \in Nat /\ now \in Nat
    BY DEF Inv, TypeOK, ApiProcess
  <2> QED BY <1>2, <1>3, <2>1, PlanFacts
<1>6. ApiOK(p)'
  <2>1. CASE next = IdleApi
    BY <1>4, <2>1, IdleApiOK
  <2>2. CASE GoodPlan(next, c, s)
    <3>1. s.Revision \in Nat
      BY <1>3 DEF Record
    <3> QED BY <1>4, <2>2, <3>1 DEF ApiOK, GoodPlan, Successor, Fenced, CanSwap
  <2> QED BY <1>5, <2>1, <2>2
<1>7. /\ rec' \in [Captures -> Record]
      /\ \A d \in Captures : RowOK(rec'[d])
      /\ \A q \in Handlers : ApiOK(q)'
      /\ \A w \in Workers : WorkerOK(w)'
  BY <1>1, <1>3, <1>4, <1>6, RowReplaced
<1>8. TypeOK'
  <2>1. next \in ApiProcess
    BY <1>5, IdleTypes DEF GoodPlan
  <2> QED BY <1>1, <1>2, <1>7, <2>1 DEF Inv, TypeOK
<1>9. OutboxMatchesRow'
  BY <1>1, <1>3, OutboxKept
<1> QED
  BY <1>7, <1>8, <1>9 DEF Inv

LEMMA ApiSwapKeeps == ASSUME Inv, NEW p \in Handlers, ApiSwap(p) PROVE Inv'
<1> DEFINE c == api[p].id
           s == api[p].r
<1>1. /\ api[p].pc = "swap" /\ CanSwap(c, s)
      /\ rec' = [rec EXCEPT ![c] = s]
      /\ api' = [api EXCEPT ![p] = IF api[p].op = "upload"
                                   THEN [api[p] EXCEPT !.pc = "presign"] ELSE IdleApi]
      /\ UNCHANGED <<now, sent, originals, late, derivatives, links, manifest, worker, faults>>
  BY DEF ApiSwap
<1>2. /\ c \in Captures /\ s \in Record /\ RowOK(s) /\ s.Revision = rec[c].Revision + 1
      /\ Permitted(rec[c], s) /\ Keeps(rec[c], s)
  BY <1>1, ApiHolds
<1>3. \A q \in Handlers \ {p} : api'[q] = api[q]
  BY <1>1 DEF Inv, TypeOK
<1>4. api'[p] = IdleApi \/ (api'[p] \in ApiProcess /\ api'[p].pc = "presign" /\ api'[p].r = s)
  BY <1>1 DEF Inv, TypeOK, ApiProcess
<1>5. ApiOK(p)' /\ api'[p] \in ApiProcess
  BY <1>2, <1>4, IdleTypes, IdleApiOK DEF ApiOK
<1>6. /\ rec' \in [Captures -> Record]
      /\ \A d \in Captures : RowOK(rec'[d])
      /\ \A q \in Handlers : ApiOK(q)'
      /\ \A w \in Workers : WorkerOK(w)'
  BY <1>1, <1>2, <1>3, <1>5, RowReplaced
<1>7. TypeOK'
  BY <1>1, <1>5, <1>6 DEF Inv, TypeOK
<1>8. OutboxMatchesRow'
  BY <1>1, <1>2, OutboxKept
<1> QED
  BY <1>6, <1>7, <1>8 DEF Inv

LEMMA ApiReturnsKeeps ==
  ASSUME Inv, NEW p \in Handlers, Presign(p) \/ ApiEnds(p)
  PROVE  Inv'
<1>1. /\ rec' = rec /\ api' = [api EXCEPT ![p] = IdleApi]
      /\ UNCHANGED <<now, sent, originals, late, derivatives, manifest, worker, faults>>
  BY DEF Presign, ApiEnds
<1>2. links' \in [Captures -> [1..MaxUploads -> Nat]]
  <2>1. CASE ApiEnds(p)
    BY <2>1 DEF Inv, TypeOK, ApiEnds
  <2>2. CASE Presign(p)
    <3> DEFINE c == api[p].id
               n == now + UrlLifetime
    <3>1. c \in Captures /\ n \in Nat /\ links[c] \in [1..MaxUploads -> Nat]
      BY RecordConstants DEF Inv, TypeOK, ApiProcess
    <3>2. [links[c] EXCEPT ![api[p].u] = n] \in [1..MaxUploads -> Nat]
      BY <3>1
    <3>3. links' = [links EXCEPT ![c] = [links[c] EXCEPT ![api[p].u] = n]]
      BY <2>2 DEF Presign
    <3> QED BY <3>1, <3>2, <3>3 DEF Inv, TypeOK
  <2> QED BY <2>1, <2>2
<1>3. TypeOK'
  BY <1>1, <1>2, IdleTypes DEF Inv, TypeOK
<1>4. api'[p] = IdleApi /\ \A q \in Handlers \ {p} : api'[q] = api[q]
  BY <1>1 DEF Inv, TypeOK
<1>5. OutboxMatchesRow'
  BY <1>1 DEF Inv, OutboxMatchesRow
<1> QED
  BY <1>1, <1>3, <1>4, <1>5, IdleApiOK, RowsUnchanged DEF Inv

\* The clock, the sweep and the client touch nothing Inv speaks of.
LEMMA EnvironmentKeeps ==
  ASSUME Inv, \/ Tick
              \/ \E c \in Captures : Dispatch(c) \/ Lifecycle(c)
              \/ \E c \in Captures, u \in 1..MaxUploads : ClientPut(c, u) \/ LatePut(c, u)
  PROVE  Inv'
<1>1. rec' = rec /\ api' = api /\ worker' = worker /\ manifest' = manifest
  BY DEF Tick, Dispatch, Lifecycle, ClientPut, LatePut
<1>2. TypeOK'
  <2>1. CASE Tick
    BY <2>1 DEF Inv, TypeOK, Tick
  <2>2. ASSUME NEW c \in Captures, Dispatch(c) PROVE TypeOK'
    <3>1. [id |-> c, Generation |-> rec[c].Generation, Work |-> rec[c].Work] \in Job
      BY DEF Inv, TypeOK, Job, Record
    <3> QED BY <2>2, <3>1 DEF Inv, TypeOK, Dispatch
  <2>3. ASSUME NEW c \in Captures, NEW u \in 1..MaxUploads, ClientPut(c, u) PROVE TypeOK'
    BY <2>3 DEF Inv, TypeOK, ClientPut
  <2>4. ASSUME NEW c \in Captures, NEW u \in 1..MaxUploads, LatePut(c, u) PROVE TypeOK'
    BY <2>4 DEF Inv, TypeOK, LatePut
  <2>5. ASSUME NEW c \in Captures, Lifecycle(c) PROVE TypeOK'
    BY <2>5 DEF Inv, TypeOK, Lifecycle
  <2> QED BY <2>1, <2>2, <2>3, <2>4, <2>5
<1>3. OutboxMatchesRow'
  BY <1>1 DEF Inv, OutboxMatchesRow
<1> QED
  BY <1>1, <1>2, <1>3, RowsUnchanged DEF Inv

LEMMA ReceiveKeeps ==
  ASSUME Inv, NEW w \in Workers, NEW job \in sent, Receive(w, job)
  PROVE  Inv'
<1> DEFINE c == job.id
<1>1. c \in Captures /\ rec[c] \in Record /\ RowOK(rec[c]) /\ rec[c].Revision \in Nat /\ now \in Nat
  BY DEF Inv, TypeOK, Job, Record
<1>2. PICK next \in WorkPlans(c, rec[c]) : worker' = [worker EXCEPT ![w] = next]
  BY DEF Receive
<1>3. GoodWork(next, c, rec[c])
  BY <1>1, WorkFacts
<1>4. UNCHANGED <<now, rec, sent, originals, late, derivatives, links, manifest, api, faults>>
  BY DEF Receive
<1>5. worker'[w] = next /\ \A v \in Workers \ {w} : worker'[v] = worker[v]
  BY <1>2 DEF Inv, TypeOK
<1>6. TypeOK'
  BY <1>2, <1>3, <1>4 DEF Inv, TypeOK, GoodWork
<1>7. WorkerOK(w)'
  BY <1>1, <1>3, <1>4, <1>5 DEF WorkerOK, GoodWork, Successor, Fenced, CanSwap
<1>8. OutboxMatchesRow'
  BY <1>4 DEF Inv, OutboxMatchesRow
<1> QED
  BY <1>4, <1>5, <1>6, <1>7, <1>8, RowsUnchanged DEF Inv

\* What a worker about to write holds.
LEMMA WorkerHolds ==
  ASSUME Inv, NEW w \in Workers, worker[w].pc \in {"claim", "final", "publish"},
         CanSwap(worker[w].id, worker[w].r)
  PROVE  /\ worker[w].id \in Captures
         /\ worker[w].r \in Record /\ RowOK(worker[w].r)
         /\ worker[w].r.Revision = rec[worker[w].id].Revision + 1
         /\ Permitted(rec[worker[w].id], worker[w].r)
         /\ worker[w].pc # "publish" => Keeps(rec[worker[w].id], worker[w].r)
BY DEF Inv, TypeOK, WorkerProcess, WorkerOK, Fenced, CanSwap

LEMMA ClaimKeeps == ASSUME Inv, NEW w \in Workers, Claim(w) PROVE Inv'
<1> DEFINE c == worker[w].id
           s == worker[w].r
<1>1. /\ worker[w].pc = "claim" /\ CanSwap(c, s)
      /\ rec' = [rec EXCEPT ![c] = s]
      /\ worker' = [worker EXCEPT ![w].pc = "run"]
      /\ UNCHANGED <<now, sent, originals, late, derivatives, links, manifest, api, faults>>
  BY DEF Claim
<1>2. /\ c \in Captures /\ s \in Record /\ RowOK(s) /\ s.Revision = rec[c].Revision + 1
      /\ Permitted(rec[c], s) /\ Keeps(rec[c], s)
  BY <1>1, WorkerHolds
<1>3. \A v \in Workers \ {w} : worker'[v] = worker[v]
  BY <1>1 DEF Inv, TypeOK
<1>4. /\ worker'[w] \in WorkerProcess /\ worker'[w].pc = "run"
      /\ worker'[w].id = c /\ worker'[w].r = s
  BY <1>1 DEF Inv, TypeOK, WorkerProcess
<1>5. rec'[c] = s /\ s.Revision \in Nat
  BY <1>1, <1>2 DEF Inv, TypeOK, Record
<1>6. WorkerOK(w)'
  <2>1. s.Work = "cleanup" => s.State = "expired"
    BY <1>1 DEF Inv, WorkerOK
  <2> QED BY <1>2, <1>4, <1>5, <2>1 DEF WorkerOK
<1>7. /\ rec' \in [Captures -> Record]
      /\ \A d \in Captures : RowOK(rec'[d])
      /\ \A q \in Handlers : ApiOK(q)'
      /\ \A v \in Workers : WorkerOK(v)'
  BY <1>1, <1>2, <1>3, <1>6, RowReplaced
<1>8. TypeOK'
  BY <1>1, <1>4, <1>7 DEF Inv, TypeOK
<1>9. OutboxMatchesRow'
  BY <1>1, <1>2, OutboxKept
<1> QED
  BY <1>7, <1>8, <1>9 DEF Inv

LEMMA FinishKeeps == ASSUME Inv, NEW w \in Workers, Finish(w) PROVE Inv'
<1> DEFINE c == worker[w].id
           s == worker[w].r
<1>1. /\ worker[w].pc = "final" /\ CanSwap(c, s)
      /\ rec' = [rec EXCEPT ![c] = s]
      /\ worker' = [worker EXCEPT ![w] = IdleWorker]
      /\ UNCHANGED <<now, sent, originals, late, derivatives, links, manifest, api, faults>>
  BY DEF Finish
<1>2. /\ c \in Captures /\ s \in Record /\ RowOK(s) /\ s.Revision = rec[c].Revision + 1
      /\ Permitted(rec[c], s) /\ Keeps(rec[c], s)
  BY <1>1, WorkerHolds
<1>3. worker'[w] = IdleWorker /\ \A v \in Workers \ {w} : worker'[v] = worker[v]
  BY <1>1 DEF Inv, TypeOK
<1>4. /\ rec' \in [Captures -> Record]
      /\ \A d \in Captures : RowOK(rec'[d])
      /\ \A q \in Handlers : ApiOK(q)'
      /\ \A v \in Workers : WorkerOK(v)'
  BY <1>1, <1>2, <1>3, IdleWorkerOK, RowReplaced
<1>5. TypeOK'
  BY <1>1, <1>4, IdleTypes DEF Inv, TypeOK
<1>6. OutboxMatchesRow'
  BY <1>1, <1>2, OutboxKept
<1> QED
  BY <1>4, <1>5, <1>6 DEF Inv

LEMMA PublishKeeps == ASSUME Inv, NEW w \in Workers, Publish(w) PROVE Inv'
<1> DEFINE c == worker[w].id
           s == worker[w].r
<1>1. /\ worker[w].pc = "publish" /\ CanSwap(c, s)
      /\ rec' = [rec EXCEPT ![c] = s]
      /\ manifest' = [manifest EXCEPT ![c] = s.Processed]
      /\ worker' = [worker EXCEPT ![w] = IdleWorker]
      /\ UNCHANGED <<now, sent, originals, late, derivatives, links, api, faults>>
  BY DEF Publish
<1>2. /\ c \in Captures /\ s \in Record /\ RowOK(s) /\ s.Revision = rec[c].Revision + 1
      /\ s.State = "ready" /\ s.Processed > 0 /\ s.Processed \in Nat
  BY <1>1, WorkerHolds DEF Inv, WorkerOK, Record
<1>3. worker'[w] = IdleWorker /\ \A v \in Workers \ {w} : worker'[v] = worker[v]
  BY <1>1 DEF Inv, TypeOK
<1>4. /\ rec' \in [Captures -> Record]
      /\ \A d \in Captures : RowOK(rec'[d])
      /\ \A q \in Handlers : ApiOK(q)'
      /\ \A v \in Workers : WorkerOK(v)'
  BY <1>1, <1>2, <1>3, IdleWorkerOK, RowReplaced
<1>5. TypeOK'
  BY <1>1, <1>2, <1>4, IdleTypes DEF Inv, TypeOK
<1>6. OutboxMatchesRow'
  BY <1>1, <1>2 DEF Inv, TypeOK, OutboxMatchesRow
<1> QED
  BY <1>4, <1>5, <1>6 DEF Inv

LEMMA WorkerStopsKeeps ==
  ASSUME Inv, NEW w \in Workers, LoseRace(w) \/ DeleteFails(w) \/ WorkerDies(w)
  PROVE  Inv'
<1>1. /\ rec' = rec /\ worker' = [worker EXCEPT ![w] = IdleWorker]
      /\ UNCHANGED <<now, sent, derivatives, links, manifest, api>>
  BY DEF LoseRace, DeleteFails, WorkerDies
<1>2. worker'[w] = IdleWorker /\ \A v \in Workers \ {w} : worker'[v] = worker[v]
  BY <1>1 DEF Inv, TypeOK
<1>3. /\ faults' \in Nat /\ originals' \in [Captures -> SUBSET (1..MaxUploads)]
      /\ late' \in [Captures -> SUBSET (1..MaxUploads)]
  <2>1. CASE LoseRace(w)
    BY <2>1 DEF Inv, TypeOK, LoseRace
  <2>2. CASE DeleteFails(w)
    <3>1. /\ faults' = faults + 1 /\ originals' = [originals EXCEPT ![worker[w].id] = {}]
          /\ late' = [late EXCEPT ![worker[w].id] = {}]
      BY <2>2 DEF DeleteFails
    <3>2. /\ faults \in Nat /\ originals \in [Captures -> SUBSET (1..MaxUploads)]
          /\ late \in [Captures -> SUBSET (1..MaxUploads)]
      BY DEF Inv, TypeOK
    <3>3. {} \in SUBSET (1..MaxUploads)
      OBVIOUS
    <3>4. faults' \in Nat
      BY <3>1, <3>2
    <3>5. originals' \in [Captures -> SUBSET (1..MaxUploads)]
      BY <3>1, <3>2, <3>3, Zenon
    <3>6. late' \in [Captures -> SUBSET (1..MaxUploads)]
      BY <3>1, <3>2, <3>3, Zenon
    <3> QED BY <3>4, <3>5, <3>6
  <2>3. CASE WorkerDies(w)
    BY <2>3 DEF Inv, TypeOK, WorkerDies
  <2> QED BY <2>1, <2>2, <2>3
<1>4. TypeOK'
  BY <1>1, <1>3, IdleTypes DEF Inv, TypeOK
<1>5. OutboxMatchesRow'
  BY <1>1 DEF Inv, OutboxMatchesRow
<1> QED
  BY <1>1, <1>2, <1>4, <1>5, IdleWorkerOK, RowsUnchanged DEF Inv

\* A running worker that decided what to write: s follows the row it holds.
LEMMA Decided ==
  ASSUME Inv, NEW w \in Workers, worker[w].pc \in {"run", "wrote"},
         NEW s \in Record, Successor(worker[w].r, s), NEW pc \in {"final", "publish"},
         pc = "final" => Keeps(worker[w].r, s),
         pc = "publish" => s.State = "ready" /\ s.Processed > 0,
         rec' = rec, worker'[w] = [worker[w] EXCEPT !.pc = pc, !.r = s]
  PROVE  /\ worker'[w] \in WorkerProcess
         /\ WorkerOK(w)'
<1>1. worker[w] \in WorkerProcess /\ WorkerOK(w)
  BY DEF Inv, TypeOK
<1>2. /\ worker'[w].pc = pc /\ worker'[w].r = s /\ worker'[w].id = worker[w].id
      /\ worker'[w] \in WorkerProcess
  BY <1>1, Zenon DEF WorkerProcess
<1>3. worker[w].r.Revision \in Nat /\ rec[worker[w].id].Revision \in Nat
  BY <1>1 DEF Inv, TypeOK, WorkerProcess, Record
<1>4. Fenced(worker[w].id, s)'
  BY <1>1, <1>3 DEF WorkerOK, Fenced, CanSwap, Successor
<1>5. CanSwap(worker[w].id, s)' /\ pc = "final" => Keeps(rec'[worker[w].id], s)
  BY <1>1, <1>3 DEF WorkerOK, CanSwap, Successor
<1> QED
  BY <1>2, <1>4, <1>5 DEF WorkerOK, Successor, CanSwap, Fenced

LEMMA WorkerRunsKeeps ==
  ASSUME Inv, NEW w \in Workers,
         \/ WriteDerivatives(w) \/ ValidationOk(w) \/ ValidationNotOk(w)
         \/ Extract(w) \/ DeleteCapture(w)
  PROVE  Inv'
<1> DEFINE r == worker[w].r
           to(pc, s) == worker' = [worker EXCEPT ![w].pc = pc, ![w].r = s]
<1>1. /\ UNCHANGED <<now, rec, sent, links, manifest, api, faults>>
      /\ \A v \in Workers \ {w} : worker'[v] = worker[v]
  BY DEF Inv, TypeOK, WriteDerivatives, ValidationOk, ValidationNotOk, Extract, DeleteCapture
<1>2. r \in Record /\ RowOK(r) /\ WorkerOK(w) /\ now \in Nat /\ r.Generation \in Nat
  BY DEF Inv, TypeOK, WorkerOK, WorkerProcess, Record
<1>3. SUFFICES /\ worker' \in [Workers -> WorkerProcess]
               /\ originals' \in [Captures -> SUBSET (1..MaxUploads)]
               /\ late' \in [Captures -> SUBSET (1..MaxUploads)]
               /\ derivatives' \in [Captures -> SUBSET Nat]
               /\ WorkerOK(w)'
  <2>1. OutboxMatchesRow'
    BY <1>1 DEF Inv, OutboxMatchesRow
  <2>2. ASSUME worker' \in [Workers -> WorkerProcess],
               originals' \in [Captures -> SUBSET (1..MaxUploads)],
               late' \in [Captures -> SUBSET (1..MaxUploads)],
               derivatives' \in [Captures -> SUBSET Nat]
        PROVE  TypeOK'
    BY <1>1, <2>2 DEF Inv, TypeOK
  <2> QED BY <1>1, <2>1, <2>2, RowsUnchanged DEF Inv
<1>4. ASSUME worker[w].pc \in {"run", "wrote"},
             NEW s \in Record, Successor(r, s), Keeps(r, s), to("final", s)
      PROVE  worker' \in [Workers -> WorkerProcess] /\ WorkerOK(w)'
  <2>1. worker'[w] = [worker[w] EXCEPT !.pc = "final", !.r = s]
    BY <1>4 DEF Inv, TypeOK
  <2>2. worker'[w] \in WorkerProcess /\ WorkerOK(w)'
    BY <1>1, <1>4, <2>1, Decided
  <2> QED BY <1>1, <1>4, <2>2 DEF Inv, TypeOK
<1>5. CASE WriteDerivatives(w)
  <2>1. worker[w].pc = "run" /\ r.Work = "validate"
    BY <1>5 DEF WriteDerivatives, Running
  <2>2. /\ worker'[w] \in WorkerProcess /\ worker'[w].pc = "wrote"
        /\ worker'[w].r = r /\ worker'[w].id = worker[w].id
    BY <1>5 DEF WriteDerivatives, Inv, TypeOK, WorkerProcess
  <2>3. WorkerOK(w)'
    BY <1>1, <1>2, <2>1, <2>2 DEF WorkerOK
  <2>4. worker' \in [Workers -> WorkerProcess]
    BY <1>5, <2>2 DEF WriteDerivatives, Inv, TypeOK
  <2>5. /\ originals' \in [Captures -> SUBSET (1..MaxUploads)]
        /\ late' \in [Captures -> SUBSET (1..MaxUploads)]
        /\ derivatives' \in [Captures -> SUBSET Nat]
    BY <1>2, <1>5 DEF WriteDerivatives, Inv, TypeOK, WorkerProcess
  <2> QED BY <2>3, <2>4, <2>5
<1>6. CASE ValidationOk(w)
  <2>1. worker[w].pc = "wrote" /\ r.State = "finalizing"
    BY <1>2, <1>6 DEF ValidationOk, WorkerOK, RowOK
  <2>2. CASE to("final", Lapsed(r, now))
    <3>1. Lapsed(r, now) \in Record /\ Successor(r, Lapsed(r, now)) /\ Keeps(r, Lapsed(r, now))
      BY <1>2, <2>1, WorkerRowTypes, WorkerSuccessors
    <3>2. worker' \in [Workers -> WorkerProcess] /\ WorkerOK(w)'
      BY <1>4, <2>1, <2>2, <3>1
    <3> QED BY <1>6, <3>2 DEF ValidationOk, Inv, TypeOK
  <2>3. CASE \E extractor \in BOOLEAN : to("publish", Promoted(r, now, extractor))
    <3>1. PICK b \in BOOLEAN : to("publish", Promoted(r, now, b))
      BY <2>3
    <3>2. /\ Promoted(r, now, b) \in Record /\ Successor(r, Promoted(r, now, b))
          /\ Promoted(r, now, b).State = "ready" /\ Promoted(r, now, b).Processed > 0
      BY <1>2, <2>1, WorkerRowTypes, WorkerSuccessors
    <3>3. worker'[w] = [worker[w] EXCEPT !.pc = "publish", !.r = Promoted(r, now, b)]
      BY <3>1 DEF Inv, TypeOK
    <3>4. worker'[w] \in WorkerProcess /\ WorkerOK(w)'
      BY <1>1, <2>1, <3>2, <3>3, Decided
    <3> QED BY <1>6, <3>1, <3>4 DEF ValidationOk, Inv, TypeOK
  <2> QED BY <1>6, <2>2, <2>3 DEF ValidationOk
<1>7. CASE ValidationNotOk(w)
  <2>1. worker[w].pc \in {"run", "wrote"} /\ r.State = "finalizing"
    BY <1>2, <1>7 DEF ValidationNotOk, Running, WorkerOK, RowOK
  <2>2. PICK s \in {Rejected(r, now), ValidationFailed(r, now)} : to("final", s)
    BY <1>7 DEF ValidationNotOk
  <2>3. s \in Record /\ Successor(r, s) /\ Keeps(r, s)
    <3>1. Rejected(r, now) \in Record /\ ValidationFailed(r, now) \in Record
      BY <1>2, WorkerRowTypes
    <3>2. /\ Successor(r, Rejected(r, now)) /\ Keeps(r, Rejected(r, now))
          /\ Successor(r, ValidationFailed(r, now)) /\ Keeps(r, ValidationFailed(r, now))
      BY <1>2, <2>1, WorkerSuccessors
    <3> QED BY <3>1, <3>2
  <2>4. worker' \in [Workers -> WorkerProcess] /\ WorkerOK(w)'
    BY <1>4, <2>1, <2>2, <2>3
  <2> QED BY <1>7, <2>4 DEF ValidationNotOk, Inv, TypeOK
<1>8. CASE Extract(w)
  <2>1. worker[w].pc \in {"run", "wrote"} /\ r.Work = "extract"
    BY <1>8 DEF Extract, Running
  <2>2. \/ to("final", ExtractionExpired(r, now))
        \/ \E ok \in BOOLEAN : to("final", ExtractionFinished(r, now, ok))
    BY <1>8 DEF Extract
  <2>3. ASSUME to("final", ExtractionExpired(r, now))
        PROVE  worker' \in [Workers -> WorkerProcess] /\ WorkerOK(w)'
    <3> DEFINE s == ExtractionExpired(r, now)
    <3>1. s \in Record /\ Successor(r, s) /\ Keeps(r, s)
      BY <1>2, <2>1, WorkerRowTypes, WorkerSuccessors
    <3> HIDE DEF s
    <3> QED BY <1>4, <2>1, <2>3, <3>1 DEF s
  <2>4. ASSUME NEW ok \in BOOLEAN, to("final", ExtractionFinished(r, now, ok))
        PROVE  worker' \in [Workers -> WorkerProcess] /\ WorkerOK(w)'
    <3> DEFINE s == ExtractionFinished(r, now, ok)
    <3>1. s \in Record /\ Successor(r, s) /\ Keeps(r, s)
      BY <1>2, <2>1, WorkerRowTypes, WorkerSuccessors
    <3> HIDE DEF s
    <3> QED BY <1>4, <2>1, <2>4, <3>1 DEF s
  <2> QED BY <1>8, <2>2, <2>3, <2>4 DEF Extract, Inv, TypeOK
<1>9. CASE DeleteCapture(w)
  <2>1. worker[w].pc \in {"run", "wrote"} /\ r.State = "expired"
    BY <1>2, <1>9 DEF DeleteCapture, Running, WorkerOK
  <2>2. to("final", CleanupDone(r))
    BY <1>9 DEF DeleteCapture
  <2>3. CleanupDone(r) \in Record /\ Successor(r, CleanupDone(r)) /\ Keeps(r, CleanupDone(r))
    BY <1>2, <2>1, WorkerRowTypes, WorkerSuccessors
  <2> QED BY <1>4, <1>9, <2>1, <2>2, <2>3 DEF DeleteCapture, Inv, TypeOK
<1> QED
  BY <1>5, <1>6, <1>7, <1>8, <1>9

----------------------------------------------------------------------------
\* The theorems.

THEOREM InvInductive == Spec => []Inv
<1>1. Init => Inv
  <2> SUFFICES ASSUME Init PROVE Inv
    OBVIOUS
  <2>1. TypeOK
    BY IdleTypes, AbsentType DEF Init, TypeOK
  <2>2. \A c \in Captures : rec[c] = Absent /\ manifest[c] = 0
    BY DEF Init
  <2>3. OutboxMatchesRow
    BY <2>2 DEF OutboxMatchesRow, Absent
  <2>4. \A p \in Handlers : ApiOK(p)
    BY IdleTypes DEF Init, ApiOK, IdleApi
  <2>5. \A w \in Workers : WorkerOK(w)
    BY IdleTypes DEF Init, WorkerOK, IdleWorker
  <2> QED BY <2>1, <2>2, <2>3, <2>4, <2>5, IdleTypes DEF Inv
<1>2. Inv /\ [Next]_vars => Inv'
  <2> SUFFICES ASSUME Inv, [Next]_vars PROVE Inv'
    OBVIOUS
  <2>1. CASE UNCHANGED vars
    <3>1. TypeOK' /\ OutboxMatchesRow'
      BY <2>1 DEF vars, Inv, TypeOK, OutboxMatchesRow
    <3> QED BY <2>1, <3>1, RowsUnchanged DEF vars, Inv
  <2>2. CASE Tick
    BY <2>2, EnvironmentKeeps
  <2>3. CASE \E c \in Captures : Create(c) \/ Dispatch(c) \/ Lifecycle(c)
    BY <2>3, CreateKeeps, EnvironmentKeeps
  <2>4. CASE \E c \in Captures, u \in 1..MaxUploads : ClientPut(c, u) \/ LatePut(c, u)
    BY <2>4, EnvironmentKeeps
  <2>5. CASE \E p \in Handlers, c \in Captures, op \in Ops :
               Invoke(p, c, op) \/ InvokeRecovery(p, c, op)
    BY <2>5, InvokeKeeps, InvokeRecoveryKeeps
  <2>6. CASE \E p \in Handlers : ApiStep(p)
    BY <2>6, RecoverKeeps, ApiSwapKeeps, ApiReturnsKeeps DEF ApiStep
  <2>7. CASE \E w \in Workers, job \in sent : Receive(w, job)
    BY <2>7, ReceiveKeeps
  <2>8. CASE \E w \in Workers : WorkerStep(w) \/ DeleteFails(w) \/ WorkerDies(w)
    BY <2>8, ClaimKeeps, FinishKeeps, PublishKeeps, WorkerStopsKeeps, WorkerRunsKeeps
    DEF WorkerStep
  <2> QED
    BY <2>1, <2>2, <2>3, <2>4, <2>5, <2>6, <2>7, <2>8 DEF Next
<1> QED
  BY <1>1, <1>2, PTL DEF Spec

\* Every state of the model is well typed: in particular no upload beyond the
\* limit of service.go's Upload and no work, state or extraction unknown to
\* the worker's switch.
THEOREM Typed == Spec => []TypeOK
<1>1. Inv => TypeOK
  BY DEF Inv
<1> QED
  BY <1>1, InvInductive, PTL

\* No handler, worker or read leaves a capture frozen without its work.
THEOREM WorkIsDurable == Spec => []WorkMatchesState
<1>1. Inv => WorkMatchesState
  BY DEF Inv, RowOK, WorkMatchesState
<1> QED
  BY <1>1, InvInductive, PTL

\* Whoever wins the races for a row, card data goes with the capture.
THEOREM CardDataGoes == Spec => []CardDataErased
<1>1. Inv => CardDataErased
  BY DEF Inv, RowOK, CardDataErased
<1> QED
  BY <1>1, InvInductive, PTL

\* The READY# event and the ready row are one fact.
THEOREM OutboxIsAtomic == Spec => []OutboxMatchesRow
<1>1. Inv => OutboxMatchesRow
  BY DEF Inv
<1> QED
  BY <1>1, InvInductive, PTL

\* Every write is one of the permitted ones.
LEMMA WritesArePermitted ==
  ASSUME Inv, Next
  PROVE  \/ rec' = rec
         \/ \E c \in Captures, s \in Record :
              Permitted(rec[c], s) /\ rec' = [rec EXCEPT ![c] = s]
<1>1. ASSUME NEW c \in Captures, Create(c)
      PROVE  Permitted(rec[c], Created(now)) /\ Created(now) \in Record
  <2>1. rec[c].Extraction = "none" /\ rec[c].Reviewed = 0 /\ rec[c].State = "absent"
    BY <1>1 DEF Inv, RowOK, Create
  <2>2. Created(now).State = "uploading" /\ Created(now).Reviewed = 0
    BY DEF Created, Absent
  <2> QED BY <2>1, <2>2, CreatedType DEF Permitted, Over, Inv, TypeOK
<1>2. ASSUME NEW p \in Handlers, Recover(p) \/ ApiSwap(p)
      PROVE  /\ api[p].id \in Captures /\ api[p].r \in Record
             /\ Permitted(rec[api[p].id], api[p].r)
             /\ rec' = [rec EXCEPT ![api[p].id] = api[p].r]
  BY <1>2, ApiHolds DEF Recover, ApiSwap
<1>3. ASSUME NEW w \in Workers, Claim(w) \/ Finish(w) \/ Publish(w)
      PROVE  /\ worker[w].id \in Captures /\ worker[w].r \in Record
             /\ Permitted(rec[worker[w].id], worker[w].r)
             /\ rec' = [rec EXCEPT ![worker[w].id] = worker[w].r]
  BY <1>3, WorkerHolds DEF Claim, Finish, Publish
<1>4. ASSUME \/ Tick
             \/ \E c \in Captures :
                  \/ Dispatch(c) \/ Lifecycle(c)
                  \/ \E u \in 1..MaxUploads : ClientPut(c, u) \/ LatePut(c, u)
      PROVE  rec' = rec
  BY <1>4 DEF Tick, Dispatch, Lifecycle, ClientPut, LatePut
<1>5. ASSUME NEW p \in Handlers, NEW c \in Captures, NEW op \in Ops,
             Invoke(p, c, op) \/ InvokeRecovery(p, c, op) \/ Presign(p) \/ ApiEnds(p)
      PROVE  rec' = rec
  BY <1>5 DEF Invoke, InvokeRecovery, Presign, ApiEnds
<1>6. ASSUME NEW w \in Workers,
             \/ \E job \in sent : Receive(w, job)
             \/ LoseRace(w) \/ WriteDerivatives(w) \/ ValidationOk(w) \/ ValidationNotOk(w)
             \/ Extract(w) \/ DeleteCapture(w) \/ DeleteFails(w) \/ WorkerDies(w)
      PROVE  rec' = rec
  BY <1>6 DEF Receive, LoseRace, WriteDerivatives, ValidationOk, ValidationNotOk,
              Extract, DeleteCapture, DeleteFails, WorkerDies
<1>7. CASE \E c \in Captures : Create(c)
  BY <1>1, <1>7 DEF Create
<1>8. CASE \E p \in Handlers : ApiStep(p)
  <2>1. PICK p \in Handlers : ApiStep(p)
    BY <1>8
  <2>2. CASE Recover(p) \/ ApiSwap(p)
    BY <1>2, <2>2
  <2>3. CASE Presign(p) \/ ApiEnds(p)
    BY <2>3 DEF Presign, ApiEnds
  <2> QED BY <2>1, <2>2, <2>3 DEF ApiStep
<1>9. CASE \E w \in Workers : WorkerStep(w) \/ DeleteFails(w) \/ WorkerDies(w)
  BY <1>3, <1>6, <1>9 DEF WorkerStep
<1> QED
  BY <1>4, <1>5, <1>6, <1>7, <1>8, <1>9 DEF Next

\* A settled extraction survives every race that does not retry, cancel or expire the
\* capture; a saved review every one that does not cancel or expire it, but for a review
\* that was decided on the row it replaces and writes nothing but itself.
THEOREM SettledStays == Spec => SettledFieldsStay
<1>1. ASSUME Inv, [Next]_vars
      PROVE  [\A c \in Captures :
                LET r == rec[c]  s == rec'[c]
                IN /\ r.Extraction \in {"complete", "failed"} /\ s.Extraction # r.Extraction
                        => \/ s.Extraction = "pending" /\ s.Generation > r.Generation
                           \/ s.State \in {"cancelled", "expired"}
                   /\ s.Reviewed # r.Reviewed
                        => s = ReviewSaved(r) \/ s.State \in {"cancelled", "expired"}]_rec
  <2>1. CASE UNCHANGED vars
    BY <2>1 DEF vars
  <2>2. CASE Next
    <3>1. CASE rec' = rec
      BY <3>1
    <3>2. ASSUME NEW c \in Captures, NEW s \in Record, Permitted(rec[c], s),
                 rec' = [rec EXCEPT ![c] = s]
          PROVE  \A d \in Captures : rec'[d] = rec[d] \/ Permitted(rec[d], rec'[d])
      BY <3>2 DEF Inv, TypeOK
    <3> QED
      BY <1>1, <2>2, <3>1, <3>2, WritesArePermitted DEF Permitted, Over
  <2> QED BY <1>1, <2>1, <2>2
<1> QED
  BY <1>1, InvInductive, PTL DEF Spec, SettledFieldsStay

----------------------------------------------------------------------------
\* The timings.

\* What the row operators do to the state and the deadline.
LEMMA ApiFollows ==
  ASSUME NEW r \in Record, RowOK(r), NEW t \in Nat
  PROVE  /\ \A s \in Slots : r.State = "uploading" => Follows(r, Selected(r, s))
         /\ r.State = "ready" => Follows(r, Recovered(r))
         /\ r.State = "uploading" => Follows(r, Finalized(r, t))
         /\ r.State \notin {"absent", "cancelled", "expired"} => Follows(r, Cancelled(r, t))
         /\ r.State = "failed" => Follows(r, RetriedValidation(r, t))
         /\ r.State = "ready" => Follows(r, RetriedExtraction(r, t))
         /\ r.State = "ready" => Follows(r, ReviewSaved(r))
<1> USE DEF Follows, Moves, Unfinished, RowOK, Record
<1>1. \A s \in Slots : r.State = "uploading" => Follows(r, Selected(r, s))
  BY DEF Selected
<1>2. r.State = "ready" => Follows(r, Recovered(r))
  BY DEF Recovered
<1>3. r.State = "uploading" => Follows(r, Finalized(r, t))
  BY DEF Finalized
<1>4. r.State \notin {"absent", "cancelled", "expired"} => Follows(r, Cancelled(r, t))
  BY DEF Cancelled, States
<1>5. r.State = "failed" => Follows(r, RetriedValidation(r, t))
  BY DEF RetriedValidation
<1>6. r.State = "ready" => Follows(r, RetriedExtraction(r, t))
  BY DEF RetriedExtraction
<1>7. r.State = "ready" => Follows(r, ReviewSaved(r))
  BY DEF ReviewSaved
<1> QED
  BY <1>1, <1>2, <1>3, <1>4, <1>5, <1>6, <1>7

LEMMA WorkerFollows ==
  ASSUME NEW r \in Record, RowOK(r), NEW t \in Nat, NEW b \in BOOLEAN
  PROVE  /\ r.State = "finalizing"
              => /\ Follows(r, Lapsed(r, t)) /\ Follows(r, GaveUp(r))
                 /\ Follows(r, ValidationClaimed(r, t)) /\ Follows(r, Promoted(r, t, b))
                 /\ Follows(r, Rejected(r, t)) /\ Follows(r, ValidationFailed(r, t))
         /\ r.Work = "cleanup" => Follows(r, CleanupClaimed(r, t))
         /\ r.Work = "cleanup" /\ r.State = "expired" => Follows(r, CleanupDone(r))
         /\ r.Work = "extract"
              => /\ Follows(r, ExtractionClaimed(r, t)) /\ Follows(r, ExtractionExpired(r, t))
                 /\ Follows(r, ExtractionFinished(r, t, b))
<1> USE DEF Follows, Moves, Unfinished, RowOK, Record
<1>1. r.State = "finalizing" => Follows(r, Lapsed(r, t))
  BY DEF Lapsed
<1>2. r.State = "finalizing" => Follows(r, GaveUp(r))
  BY DEF GaveUp
<1>3. r.State = "finalizing" => Follows(r, ValidationClaimed(r, t))
  BY DEF ValidationClaimed
<1>4. r.State = "finalizing" => Follows(r, Promoted(r, t, b))
  <2>1. CASE b
    BY <2>1 DEF Promoted
  <2>2. CASE ~b
    BY <2>2 DEF Promoted
  <2> QED BY <2>1, <2>2
<1>5. r.State = "finalizing" => Follows(r, Rejected(r, t))
  BY DEF Rejected
<1>6. r.State = "finalizing" => Follows(r, ValidationFailed(r, t))
  <2>1. CASE r.Attempts >= MaxAttempts
    BY <1>2, <2>1 DEF ValidationFailed
  <2>2. CASE ~(r.Attempts >= MaxAttempts)
    BY <2>2 DEF ValidationFailed
  <2> QED BY <2>1, <2>2
<1>7. r.Work = "cleanup" => Follows(r, CleanupClaimed(r, t))
  BY DEF CleanupClaimed, States
<1>8. r.Work = "cleanup" /\ r.State = "expired" => Follows(r, CleanupDone(r))
  BY DEF CleanupDone
<1>9. r.Work = "extract" => Follows(r, ExtractionClaimed(r, t)) /\ Follows(r, ExtractionExpired(r, t))
  BY DEF ExtractionClaimed, ExtractionExpired
<1>10. r.Work = "extract" => Follows(r, ExtractionFinished(r, t, b))
  <2>1. CASE b
    BY <2>1 DEF ExtractionFinished
  <2>2. CASE ~b /\ r.ExtractionAttempts >= MaxAttempts
    BY <2>2 DEF ExtractionFinished
  <2>3. CASE ~b /\ ~(r.ExtractionAttempts >= MaxAttempts)
    BY <2>3 DEF ExtractionFinished
  <2> QED BY <2>1, <2>2, <2>3
<1> QED
  BY <1>1, <1>2, <1>3, <1>4, <1>5, <1>6, <1>7, <1>8, <1>9, <1>10

----------------------------------------------------------------------------
\* Who may hold which row, case by case.

PlanIs(plan, c, r, end) ==
  /\ plan.id = c /\ plan.end = end
  /\ \/ plan.pc = "presign" /\ plan.r = r /\ r.State = "uploading" /\ now < r.ExpiresAt
     \/ /\ plan.pc = "swap" /\ plan.op = "upload" /\ r.State = "uploading" /\ now < r.ExpiresAt
        /\ \E s \in Slots : plan.r = Selected(r, s)
     \/ /\ plan.pc = "swap" /\ plan.op # "upload"
        /\ \/ /\ r.State = "uploading" /\ Selection(r) \subseteq Uploaded(c)
              /\ plan.r = Finalized(r, now)
           \/ r.State = "failed" /\ plan.r = RetriedValidation(r, now)
           \/ r.State = "ready" /\ r.Extraction = "failed" /\ plan.r = RetriedExtraction(r, now)
           \/ r.State = "ready" /\ r.Extraction # "pending" /\ plan.r = ReviewSaved(r)
           \/ r.State \notin {"absent", "cancelled", "expired"} /\ plan.r = Cancelled(r, now)

LEMMA PlanCases ==
  ASSUME NEW op \in Ops, NEW c, NEW r \in Record, now \in Nat, NEW end,
         NEW plan \in Plans(op, c, r, end)
  PROVE  PlanIs(plan, c, r, end)
<1>1. CASE op = "upload"
  <2>1. r.State = "uploading" /\ now < r.ExpiresAt /\ plan \in UploadPlans(c, r, end)
    BY <1>1 DEF Plans, UploadPlans, LooksExpired, Record
  <2>2. \/ \E s \in Slots : plan = SwapTo("upload", c, Selected(r, s), end)
        \/ plan.pc = "presign" /\ plan.r = r /\ plan.id = c /\ plan.end = end
    BY <2>1 DEF UploadPlans
  <2> QED BY <2>1, <2>2 DEF SwapTo, PlanIs
<1>2. CASE op = "finalize"
  BY <1>2 DEF Plans, FinalizePlans, SwapTo, PlanIs
<1>3. CASE op = "retry"
  BY <1>3 DEF Plans, RetryPlans, SwapTo, PlanIs
<1>4. CASE op = "review"
  BY <1>4 DEF Plans, ReviewPlans, SwapTo, PlanIs
<1>5. CASE op = "cancel"
  BY <1>5 DEF Plans, CancelPlans, SwapTo, PlanIs
<1>6. CASE op = "get"
  BY <1>6 DEF Plans
<1> QED
  BY <1>1, <1>2, <1>3, <1>4, <1>5, <1>6 DEF Ops

WorkIs(next, c, r) ==
  /\ next.id = c /\ next.end = now + WorkerTimeout
  /\ \/ /\ next.pc = "claim"
        /\ \/ r.Work = "extract" /\ next.r = ExtractionClaimed(r, now)
           \/ r.Work = "cleanup" /\ next.r = CleanupClaimed(r, now)
           \/ r.State = "finalizing" /\ now < r.ExpiresAt /\ next.r = ValidationClaimed(r, now)
     \/ /\ next.pc = "final"
        /\ \/ r.Work = "extract" /\ now >= r.DeleteAfter /\ next.r = ExtractionExpired(r, now)
           \/ r.Work = "extract" /\ next.r = ExtractionFinished(r, now, FALSE)
           \/ r.State = "finalizing" /\ next.r = Lapsed(r, now)
           \/ r.State = "finalizing" /\ r.Attempts >= MaxAttempts /\ next.r = GaveUp(r)

LEMMA WorkCases ==
  ASSUME NEW c, NEW r \in Record, now \in Nat, NEW next \in WorkPlans(c, r)
  PROVE  WorkIs(next, c, r)
<1> DEFINE to(pc, s) == next.id = c /\ next.end = now + WorkerTimeout /\ next.pc = pc /\ next.r = s
<1>0. \A s, pc : next = Hold(pc, c, s) => to(pc, s)
  BY DEF Hold
<1> HIDE DEF to
<1>1. CASE r.Work = "extract"
  <2>1. \/ now >= r.DeleteAfter /\ next = Hold("final", c, ExtractionExpired(r, now))
        \/ next = Hold("final", c, ExtractionFinished(r, now, FALSE))
        \/ next = Hold("claim", c, ExtractionClaimed(r, now))
    BY <1>1 DEF WorkPlans
  <2> QED BY <1>0, <1>1, <2>1 DEF to, WorkIs
<1>2. CASE r.Work = "cleanup"
  BY <1>2 DEF WorkPlans, Hold, WorkIs
<1>3. CASE r.Work = "validate"
  <2>1. /\ r.State = "finalizing"
        /\ \/ next = Hold("final", c, Lapsed(r, now))
           \/ r.Attempts >= MaxAttempts /\ next = Hold("final", c, GaveUp(r))
           \/ now < r.ExpiresAt /\ next = Hold("claim", c, ValidationClaimed(r, now))
    BY <1>3 DEF WorkPlans, Record
  <2> QED BY <1>0, <2>1 DEF to, WorkIs
<1>4. CASE r.Work = "none"
  BY <1>4 DEF WorkPlans
<1> QED
  BY <1>1, <1>2, <1>3, <1>4 DEF Record, Works

\* Worker w, at work with row r, decides to write s.
Decides(w, r, pc, s) ==
  \/ /\ pc = "final"
     /\ \/ r.State = "finalizing" /\ s = Lapsed(r, now)
        \/ r.State = "finalizing" /\ s = Rejected(r, now)
        \/ r.State = "finalizing" /\ s = ValidationFailed(r, now)
        \/ r.Work = "extract" /\ now >= r.DeleteAfter /\ s = ExtractionExpired(r, now)
        \/ r.Work = "extract" /\ s = ExtractionFinished(r, now, TRUE)
        \/ r.Work = "extract" /\ s = ExtractionFinished(r, now, FALSE)
        \/ /\ r.Work = "cleanup" /\ r.State = "expired" /\ s = CleanupDone(r)
           /\ originals'[worker[w].id] = {} /\ derivatives'[worker[w].id] = {}
  \/ /\ pc = "publish" /\ worker[w].pc = "wrote"
     /\ r.State = "finalizing" /\ now < r.ExpiresAt
     /\ s = Promoted(r, now, TRUE) \/ s = Promoted(r, now, FALSE)

LEMMA DecisionCases ==
  ASSUME Inv, NEW w \in Workers,
         ValidationOk(w) \/ ValidationNotOk(w) \/ Extract(w) \/ DeleteCapture(w)
  PROVE  /\ Active(w)
         /\ \E pc \in {"final", "publish"}, s \in Record :
              /\ Decides(w, worker[w].r, pc, s)
              /\ worker' = [worker EXCEPT ![w] = [worker[w] EXCEPT !.pc = pc, !.r = s]]
              /\ Follows(worker[w].r, s) /\ s.Revision = worker[w].r.Revision + 1
<1> DEFINE r == worker[w].r
           to(pc, s) == worker' = [worker EXCEPT ![w].pc = pc, ![w].r = s]
<1>1. /\ r \in Record /\ RowOK(r) /\ WorkerOK(w) /\ now \in Nat
      /\ worker[w] \in WorkerProcess /\ worker[w].id \in Captures
      /\ originals \in [Captures -> SUBSET (1..MaxUploads)]
      /\ derivatives \in [Captures -> SUBSET Nat]
      /\ worker \in [Workers -> WorkerProcess]
  BY DEF Inv, TypeOK, WorkerOK, WorkerProcess
<1>2. SUFFICES /\ Active(w)
               /\ \E pc \in {"final", "publish"}, s \in Record :
                    /\ Decides(w, r, pc, s) /\ to(pc, s) /\ Successor(r, s) /\ Follows(r, s)
  BY <1>1 DEF Successor
<1>3. CASE ValidationOk(w)
  <2>1. worker[w].pc = "wrote" /\ r.State = "finalizing"
    BY <1>1, <1>3 DEF ValidationOk, WorkerOK, RowOK
  <2>2. CASE to("final", Lapsed(r, now))
    <3>1. Lapsed(r, now) \in Record /\ Successor(r, Lapsed(r, now)) /\ Follows(r, Lapsed(r, now))
      BY <1>1, <2>1, WorkerRowTypes, WorkerSuccessors, WorkerFollows
    <3> QED BY <2>1, <2>2, <3>1 DEF Active, Decides
  <2>3. ASSUME NEW b \in BOOLEAN, now < r.ExpiresAt, to("publish", Promoted(r, now, b))
        PROVE  /\ Active(w)
               /\ \E pc \in {"final", "publish"}, s \in Record :
                    /\ Decides(w, r, pc, s) /\ to(pc, s) /\ Successor(r, s) /\ Follows(r, s)
    <3>1. Promoted(r, now, b) \in Record /\ Successor(r, Promoted(r, now, b)) /\ Follows(r, Promoted(r, now, b))
      BY <1>1, <2>1, WorkerRowTypes, WorkerSuccessors, WorkerFollows
    <3>2. Decides(w, r, "publish", Promoted(r, now, b))
      BY <2>1, <2>3 DEF Decides
    <3> QED BY <2>1, <2>3, <3>1, <3>2 DEF Active
  <2> QED BY <1>3, <2>2, <2>3 DEF ValidationOk
<1>4. CASE ValidationNotOk(w)
  <2>1. worker[w].pc \in {"run", "wrote"} /\ r.State = "finalizing"
    BY <1>1, <1>4 DEF ValidationNotOk, Running, WorkerOK, RowOK
  <2>2. /\ Rejected(r, now) \in Record /\ Successor(r, Rejected(r, now))
        /\ Follows(r, Rejected(r, now))
        /\ ValidationFailed(r, now) \in Record /\ Successor(r, ValidationFailed(r, now))
        /\ Follows(r, ValidationFailed(r, now))
    BY <1>1, <2>1, WorkerRowTypes, WorkerSuccessors, WorkerFollows
  <2>3. CASE to("final", Rejected(r, now))
    BY <2>1, <2>2, <2>3 DEF Active, Decides
  <2>4. CASE to("final", ValidationFailed(r, now))
    BY <2>1, <2>2, <2>4 DEF Active, Decides
  <2> QED BY <1>4, <2>3, <2>4 DEF ValidationNotOk
<1>5. CASE Extract(w)
  <2>1. worker[w].pc = "run" /\ r.Work = "extract"
    BY <1>5 DEF Extract, Running
  <2>2. CASE now >= r.DeleteAfter /\ to("final", ExtractionExpired(r, now))
    <3>1. /\ ExtractionExpired(r, now) \in Record /\ Successor(r, ExtractionExpired(r, now))
          /\ Follows(r, ExtractionExpired(r, now))
      BY <1>1, <2>1, WorkerRowTypes, WorkerSuccessors, WorkerFollows
    <3> QED BY <2>1, <2>2, <3>1 DEF Active, Decides
  <2>3. ASSUME NEW ok \in BOOLEAN, to("final", ExtractionFinished(r, now, ok))
        PROVE  /\ Active(w)
               /\ \E pc \in {"final", "publish"}, s \in Record :
                    /\ Decides(w, r, pc, s) /\ to(pc, s) /\ Successor(r, s) /\ Follows(r, s)
    <3>1. /\ ExtractionFinished(r, now, ok) \in Record
          /\ Successor(r, ExtractionFinished(r, now, ok))
          /\ Follows(r, ExtractionFinished(r, now, ok))
      BY <1>1, <2>1, WorkerRowTypes, WorkerSuccessors, WorkerFollows
    <3>2. Decides(w, r, "final", ExtractionFinished(r, now, ok))
      BY <2>1 DEF Decides
    <3> QED BY <2>1, <2>3, <3>1, <3>2 DEF Active
  <2> QED BY <1>5, <2>2, <2>3 DEF Extract
<1>6. CASE DeleteCapture(w)
  <2>1. worker[w].pc = "run" /\ r.Work = "cleanup" /\ r.State = "expired"
    BY <1>1, <1>6 DEF DeleteCapture, Running, WorkerOK
  <2>2. /\ CleanupDone(r) \in Record /\ Successor(r, CleanupDone(r)) /\ Follows(r, CleanupDone(r))
    BY <1>1, <2>1, WorkerRowTypes, WorkerSuccessors, WorkerFollows
  <2>3. originals'[worker[w].id] = {} /\ derivatives'[worker[w].id] = {}
    BY <1>1, <1>6 DEF DeleteCapture
  <2>4. to("final", CleanupDone(r))
    BY <1>6 DEF DeleteCapture
  <2> QED BY <2>1, <2>2, <2>3, <2>4 DEF Active, Decides
<1> QED
  BY <1>3, <1>4, <1>5, <1>6

----------------------------------------------------------------------------
\* LeaseInv: one worker at work on a capture.

\* The state a row is in while a worker is at work on it.
LEMMA ActiveStates ==
  ASSUME LeaseInv, NEW v \in Workers, Active(v)
  PROVE  LET a == rec[worker[v].id]
         IN /\ worker[v].id \in Captures
            /\ a.Work # "none"
            /\ a.State \in {"finalizing", "ready", "cancelled", "expired"}
            /\ a.State = "ready" => a.Extraction = "pending"
            /\ now <= worker[v].end /\ worker[v].end <= now + WorkerTimeout
            /\ a = worker[v].r \/ Outlasted(v, a)
            /\ a = worker[v].r => worker[v].end < a.LeaseUntil
            /\ a = worker[v].r /\ a.Work = "cleanup" => a.State = "expired"
<1> DEFINE r == worker[v].r
           a == rec[worker[v].id]
<1>1. /\ worker[v].id \in Captures /\ r \in Record /\ RowOK(r) /\ WorkerOK(v) /\ LeaseOK(v)
      /\ a \in Record /\ RowOK(a)
  BY DEF LeaseInv, Inv, TypeOK, WorkerOK, WorkerProcess
<1>2. /\ now <= worker[v].end /\ worker[v].end <= now + WorkerTimeout
      /\ worker[v].end < r.LeaseUntil /\ r.Work # "none"
      /\ a = r \/ Outlasted(v, a)
  BY <1>1 DEF LeaseOK, Active
<1>3. r.Work = "cleanup" => r.State = "expired"
  BY <1>1 DEF Active, WorkerOK
<1>4. CASE a = r
  BY <1>1, <1>2, <1>3, <1>4 DEF RowOK, Record, Works
<1>5. CASE a # r
  BY <1>1, <1>2, <1>5 DEF Outlasted, RowOK
<1> QED
  BY <1>1, <1>2, <1>4, <1>5

\* A step that only lets workers stop: whoever is at work stays as it was.
OnlyStops ==
  \A v \in Workers : Active(v)' =>
    Active(v) /\ worker'[v].id = worker[v].id /\ worker'[v].r = worker[v].r
              /\ worker'[v].end = worker[v].end

LEMMA LeaseUnchanged ==
  ASSUME LeaseInv, rec' = rec, now' = now, OnlyStops
  PROVE  /\ OneActiveWorker'
         /\ \A p \in Handlers : api'[p] = api[p] => CallOK(p)'
         /\ \A w \in Workers : worker'[w] = worker[w] => LeaseOK(w)'
<1>1. OneActiveWorker'
  BY DEF LeaseInv, OneActiveWorker, OnlyStops, Active
<1>2. ASSUME NEW p \in Handlers, api'[p] = api[p] PROVE CallOK(p)'
  BY <1>2 DEF LeaseInv, CallOK, OnlyStops, ApiCanWrite, CanSwap, Outlasted
<1>3. ASSUME NEW w \in Workers, worker'[w] = worker[w] PROVE LeaseOK(w)'
  <2>1. LeaseOK(w)
    BY DEF LeaseInv
  <2>2. \A v \in Workers : Active(v)' => Active(v) /\ worker'[v].id = worker[v].id
    BY DEF OnlyStops
  <2>3. Active(w)' = Active(w) /\ WorkerCanWrite(w)' = WorkerCanWrite(w)
    BY <1>3 DEF Active, WorkerCanWrite, CanSwap
  <2> QED BY <1>3, <2>1, <2>2, <2>3 DEF LeaseOK, Outlasted
<1> QED
  BY <1>1, <1>2, <1>3

\* Row s of c was written: nobody else can write c now, and whoever is at work on c was
\* before and does not mind, or is the claimer.
LEMMA LeaseReplaced ==
  ASSUME LeaseInv, now' = now, NEW c \in Captures, NEW s \in Record,
         s.Revision = rec[c].Revision + 1, rec' = [rec EXCEPT ![c] = s],
         \A v \in Workers : Active(v) /\ worker[v].id = c => Outlasted(v, s),
         \A v \in Workers : Active(v)' =>
           \/ worker'[v] = worker[v]
           \/ worker'[v].id = c
  PROVE  /\ \A p \in Handlers : api'[p] = api[p] => CallOK(p)'
         /\ \A w \in Workers : worker'[w] = worker[w] => LeaseOK(w)'
<1>1. rec'[c] = s /\ \A d \in Captures \ {c} : rec'[d] = rec[d]
  BY DEF LeaseInv, Inv, TypeOK
<1>2. rec[c].Revision \in Nat /\ s.Revision \in Nat
  BY DEF LeaseInv, Inv, TypeOK, Record
<1>3. ASSUME NEW p \in Handlers, api'[p] = api[p] PROVE CallOK(p)'
  <2>1. api[p].id \in Captures /\ api[p].r.Revision \in Nat /\ CallOK(p) /\ ApiOK(p)
    BY DEF LeaseInv, Inv, TypeOK, ApiProcess, Record
  <2>2. CASE api[p].id = c
    <3>1. ~ApiCanWrite(p)'
      BY <1>1, <1>2, <1>3, <2>1, <2>2 DEF ApiCanWrite, ApiOK, Fenced, CanSwap
    <3> QED BY <1>3, <2>1, <3>1 DEF CallOK
  <2>3. CASE api[p].id # c
    <3>1. rec'[api[p].id] = rec[api[p].id]
      BY <1>1, <2>1, <2>3
    <3>2. ApiCanWrite(p)' => ApiCanWrite(p)
      BY <1>3, <3>1 DEF ApiCanWrite, CanSwap
    <3>3. \A v \in Workers : Active(v)' /\ worker'[v].id = api[p].id
                               => worker'[v] = worker[v] /\ Active(v)
      BY <2>3 DEF Active
    <3> QED BY <1>3, <2>1, <3>1, <3>2, <3>3 DEF CallOK, Outlasted
  <2> QED BY <2>2, <2>3
<1>4. ASSUME NEW w \in Workers, worker'[w] = worker[w] PROVE LeaseOK(w)'
  <2>1. worker[w].id \in Captures /\ worker[w].r.Revision \in Nat /\ LeaseOK(w) /\ WorkerOK(w)
    BY DEF LeaseInv, Inv, TypeOK, WorkerProcess, Record
  <2>2. Active(w)' = Active(w)
    BY <1>4 DEF Active
  <2>3. CASE worker[w].id = c
    <3>1. ~WorkerCanWrite(w)'
      BY <1>1, <1>2, <1>4, <2>1, <2>3 DEF WorkerCanWrite, WorkerOK, Fenced, CanSwap
    <3>2. Active(w) => Outlasted(w, s)
      BY <2>3
    <3> QED BY <1>1, <1>4, <2>1, <2>2, <2>3, <3>1, <3>2 DEF LeaseOK, Outlasted
  <2>4. CASE worker[w].id # c
    <3>1. rec'[worker[w].id] = rec[worker[w].id]
      BY <1>1, <2>1, <2>4
    <3>2. WorkerCanWrite(w)' => WorkerCanWrite(w)
      BY <1>4, <3>1 DEF WorkerCanWrite, CanSwap
    <3>3. \A v \in Workers : Active(v)' /\ worker'[v].id = worker[w].id
                               => worker'[v] = worker[v] /\ Active(v)
      BY <2>4 DEF Active
    <3> QED BY <1>4, <2>1, <2>2, <3>1, <3>2, <3>3 DEF LeaseOK, Outlasted
  <2> QED BY <2>3, <2>4
<1> QED
  BY <1>3, <1>4

LEMMA IdleLeases ==
  /\ \A p \in Handlers : api'[p] = IdleApi => CallOK(p)'
  /\ \A w \in Workers : worker'[w] = IdleWorker => LeaseOK(w)' /\ ~Active(w)'
BY DEF CallOK, LeaseOK, IdleApi, IdleWorker, ApiCanWrite, WorkerCanWrite, Active

\* An invocation that plans from the row as it is now.
LEMMA PlannerLeases ==
  ASSUME NEW p \in Handlers, NEW c \in Captures, NEW r \in Record, RowOK(r),
         now \in Nat, now' = now, NEW end \in Nat, end <= now + ApiTimeout, now <= end,
         PlanIs(api'[p], c, r, end), rec'[c] = r,
         \A v \in Workers : Active(v)' /\ worker'[v].id = c =>
           /\ r.State \in {"finalizing", "ready", "cancelled", "expired"}
           /\ r.State = "ready" => r.Extraction = "pending"
           /\ r.State # "cancelled" => (worker'[v].r.Work = "cleanup" => r.State = "expired")
           /\ worker'[v].end \in Nat /\ worker'[v].end <= now + WorkerTimeout
  PROVE  CallOK(p)'
<1> DEFINE s == api'[p].r
<1>1. api'[p].id = c /\ api'[p].end = end
  BY DEF PlanIs
<1>2. api'[p].pc = "swap" => Follows(r, s)
  BY ApiFollows DEF PlanIs
<1>3. ASSUME api'[p].pc = "swap", NEW v \in Workers, Active(v)', worker'[v].id = c
      PROVE  s = Cancelled(r, now) /\ r.State \notin {"cancelled", "expired"}
  BY <1>3 DEF PlanIs
<1>4. Cancelled(r, now).State = "cancelled" /\ Cancelled(r, now).Due = now + CleanupWait
  BY DEF Cancelled, Record
<1>5. ASSUME api'[p].pc = "swap", NEW v \in Workers, Active(v)', worker'[v].id = c
      PROVE  s.State = "cancelled" /\ worker'[v].end < s.Due /\ worker'[v].r.Work # "cleanup"
  <2>1. worker'[v].end < now + CleanupWait
    BY <1>5, DeployedTimings, RecordConstants, LifecycleConstants
  <2>2. worker'[v].r.Work # "cleanup"
    BY <1>3, <1>5
  <2> QED BY <1>3, <1>4, <1>5, <2>1, <2>2
<1>6. api'[p].pc \in {"swap", "presign"}
  BY DEF PlanIs
<1> QED
  BY <1>1, <1>2, <1>5, <1>6 DEF CallOK, ApiCanWrite, Outlasted

\* Each action keeps LeaseInv.

Leases ==
  /\ OneActiveWorker
  /\ \A p \in Handlers : CallOK(p)
  /\ \A w \in Workers : LeaseOK(w)

LEMMA TickLeases == ASSUME LeaseInv, Tick PROVE Leases'
<1>1. rec' = rec /\ api' = api /\ worker' = worker /\ now' = now + 1 /\ now \in Nat
  BY DEF Tick, LeaseInv, Inv, TypeOK
<1>2. ASSUME NEW p \in Handlers PROVE CallOK(p)'
  <2>1. CallOK(p) /\ api[p].end \in Nat /\ (api[p].pc # "idle" => now < api[p].end)
    BY DEF Tick, LeaseInv, Inv, TypeOK, ApiProcess
  <2>2. api[p].pc # "idle" => now + 1 <= api[p].end /\ api[p].end <= now + 1 + ApiTimeout
    BY <1>1, <2>1, LifecycleConstants DEF CallOK
  <2> QED BY <1>1, <2>1, <2>2 DEF CallOK, ApiCanWrite, CanSwap, Active, Outlasted
<1>3. ASSUME NEW w \in Workers PROVE LeaseOK(w)'
  <2>1. LeaseOK(w) /\ worker[w].end \in Nat /\ (worker[w].pc # "idle" => now < worker[w].end)
    BY DEF Tick, LeaseInv, Inv, TypeOK, WorkerProcess
  <2>2. worker[w].pc # "idle" => now + 1 <= worker[w].end /\ worker[w].end <= now + 1 + WorkerTimeout
    BY <1>1, <2>1, LifecycleConstants DEF LeaseOK
  <2> QED BY <1>1, <2>1, <2>2 DEF LeaseOK, WorkerCanWrite, CanSwap, Active, Outlasted
<1>4. OneActiveWorker'
  BY <1>1 DEF LeaseInv, OneActiveWorker
<1> QED
  BY <1>2, <1>3, <1>4 DEF Leases

\* Steps after which every process and row is as it was, but for a process that stopped.
LEMMA StopLeases ==
  ASSUME LeaseInv, rec' = rec, now' = now,
         \A p \in Handlers : api'[p] = api[p] \/ api'[p] = IdleApi,
         \A w \in Workers : worker'[w] = worker[w] \/ worker'[w] = IdleWorker
  PROVE  Leases'
<1>1. ASSUME NEW v \in Workers, Active(v)'
      PROVE  worker'[v] = worker[v] /\ Active(v)
  <2>1. worker'[v] = worker[v]
    BY <1>1, IdleLeases
  <2> QED BY <1>1, <2>1 DEF Active
<1>2. OnlyStops
  BY <1>1 DEF OnlyStops
<1> QED
  BY <1>2, LeaseUnchanged, IdleLeases DEF Leases

LEMMA CreateLeases == ASSUME LeaseInv, NEW c \in Captures, Create(c) PROVE Leases'
<1> DEFINE s == Created(now)
<1>1. /\ rec[c].State = "absent" /\ rec' = [rec EXCEPT ![c] = s]
      /\ now' = now /\ api' = api /\ worker' = worker
  BY DEF Create
<1>2. s \in Record /\ s.Revision = rec[c].Revision + 1
  BY <1>1, CreatedType, CreatedOK DEF LeaseInv, Inv, TypeOK, RowOK
<1>3. \A v \in Workers : Active(v) => worker[v].id # c
  BY <1>1, ActiveStates
<1> HIDE DEF s
<1>4. (\A p \in Handlers : CallOK(p)') /\ (\A w \in Workers : LeaseOK(w)')
  BY <1>1, <1>2, <1>3, LeaseReplaced
<1>5. OneActiveWorker'
  BY <1>1 DEF LeaseInv, OneActiveWorker
<1> QED
  BY <1>4, <1>5 DEF Leases

LEMMA InvokeLeases ==
  ASSUME LeaseInv, NEW p \in Handlers, NEW c \in Captures, NEW op \in Ops, Invoke(p, c, op)
  PROVE  Leases'
<1> DEFINE end == now + ApiTimeout
<1>1. PICK next \in Plans(op, c, rec[c], end) : api' = [api EXCEPT ![p] = next]
  BY DEF Invoke
<1>2. rec' = rec /\ now' = now /\ worker' = worker
  BY DEF Invoke
<1>3. /\ rec[c] \in Record /\ RowOK(rec[c]) /\ now \in Nat /\ end \in Nat
      /\ now <= end /\ end <= now + ApiTimeout
  BY LifecycleConstants DEF LeaseInv, Inv, TypeOK
<1>4. api'[p] = next /\ \A q \in Handlers \ {p} : api'[q] = api[q]
  BY <1>1 DEF LeaseInv, Inv, TypeOK
<1>5. PlanIs(api'[p], c, rec[c], end)
  BY <1>3, <1>4, PlanCases
<1>6. ASSUME NEW v \in Workers, Active(v)', worker'[v].id = c
      PROVE  /\ rec[c].State \in {"finalizing", "ready", "cancelled", "expired"}
             /\ rec[c].State = "ready" => rec[c].Extraction = "pending"
             /\ rec[c].State # "cancelled" =>
                  (worker'[v].r.Work = "cleanup" => rec[c].State = "expired")
             /\ worker'[v].end \in Nat /\ worker'[v].end <= now + WorkerTimeout
  <2>1. Active(v) /\ worker[v].id = c /\ worker[v].end \in Nat
    BY <1>2, <1>6 DEF Active, LeaseInv, Inv, TypeOK, WorkerProcess
  <2> QED BY <1>2, <2>1, ActiveStates DEF Outlasted
<1> HIDE DEF end
<1>7. CallOK(p)'
  BY <1>2, <1>3, <1>5, <1>6, PlannerLeases
<1>8. OnlyStops
  BY <1>2 DEF OnlyStops, Active
<1> QED
  BY <1>2, <1>4, <1>7, <1>8, LeaseUnchanged DEF Leases

LEMMA InvokeRecoveryLeases ==
  ASSUME LeaseInv, NEW p \in Handlers, NEW c \in Captures, NEW op \in Ops,
         InvokeRecovery(p, c, op)
  PROVE  Leases'
<1>1. rec' = rec /\ now' = now /\ worker' = worker
  BY DEF InvokeRecovery
<1>2. rec[c] \in Record /\ RowOK(rec[c]) /\ now \in Nat
  BY DEF LeaseInv, Inv, TypeOK
<1>3. /\ api'[p].pc = "recover" /\ api'[p].id = c /\ api'[p].r = Recovered(rec[c])
      /\ api'[p].end = now + ApiTimeout
      /\ \A q \in Handlers \ {p} : api'[q] = api[q]
  BY DEF InvokeRecovery, LeaseInv, Inv, TypeOK
<1>4. /\ rec[c].State = "ready"
      /\ rec[c].Extraction = "pending" => rec[c].LeaseUntil <= now
  BY DEF InvokeRecovery, Overdue
<1>5. ASSUME NEW v \in Workers, Active(v), worker[v].id = c PROVE FALSE
  <2>1. /\ rec[c].LeaseUntil <= now /\ worker[v].end < rec[c].LeaseUntil
        /\ now <= worker[v].end
    BY <1>4, <1>5, ActiveStates DEF Outlasted
  <2>2. worker[v].end \in Nat /\ rec[c].LeaseUntil \in Nat
    BY <1>2 DEF LeaseInv, Inv, TypeOK, WorkerProcess, Record
  <2> QED BY <1>2, <2>1, <2>2
<1>6. CallOK(p)'
  <2>1. Follows(rec[c], Recovered(rec[c]))
    BY <1>2, <1>4, ApiFollows
  <2>2. \A v \in Workers : ~(Active(v)' /\ worker'[v].id = c)
    BY <1>1, <1>5 DEF Active
  <2> QED BY <1>1, <1>2, <1>3, <2>1, <2>2, LifecycleConstants DEF CallOK
<1>7. OnlyStops
  BY <1>1 DEF OnlyStops, Active
<1> QED
  BY <1>1, <1>3, <1>6, <1>7, LeaseUnchanged DEF Leases

LEMMA RecoverLeases == ASSUME LeaseInv, NEW p \in Handlers, Recover(p) PROVE Leases'
<1> DEFINE c == api[p].id
           s == api[p].r
           end == api[p].end
           plans == Plans(api[p].op, c, s, end)
<1>1. /\ api[p].pc = "recover" /\ CanSwap(c, s)
      /\ rec' = [rec EXCEPT ![c] = s]
      /\ \E next \in IF plans = {} THEN {IdleApi} ELSE plans : api' = [api EXCEPT ![p] = next]
      /\ now' = now /\ worker' = worker
  BY DEF Recover
<1>2. PICK next \in IF plans = {} THEN {IdleApi} ELSE plans : api' = [api EXCEPT ![p] = next]
  BY <1>1
<1>3. /\ c \in Captures /\ s \in Record /\ RowOK(s) /\ s.Revision = rec[c].Revision + 1
      /\ now \in Nat /\ end \in Nat /\ api[p].op \in Ops
  BY <1>1, ApiHolds DEF LeaseInv, Inv, TypeOK, ApiProcess
<1>4. /\ now <= end /\ end <= now + ApiTimeout
      /\ \A v \in Workers : Active(v) /\ worker[v].id = c => Outlasted(v, s)
  BY <1>1 DEF LeaseInv, CallOK, ApiCanWrite
<1>5. rec'[c] = s /\ api'[p] = next /\ \A q \in Handlers \ {p} : api'[q] = api[q]
  BY <1>1, <1>2, <1>3 DEF LeaseInv, Inv, TypeOK
<1>6. next = IdleApi \/ PlanIs(next, c, s, end)
  BY <1>2, <1>3, PlanCases
<1>7. ASSUME NEW v \in Workers, Active(v)', worker'[v].id = c
      PROVE  /\ s.State = "cancelled"
             /\ worker'[v].end \in Nat /\ worker'[v].end <= now + WorkerTimeout
  <2>1. Active(v) /\ worker[v].id = c /\ worker[v].end \in Nat
    BY <1>1, <1>7 DEF Active, LeaseInv, Inv, TypeOK, WorkerProcess
  <2> QED BY <1>1, <1>4, <2>1, ActiveStates DEF Outlasted
<1> HIDE DEF c, s, end, plans
<1>8. CallOK(p)'
  BY <1>1, <1>3, <1>4, <1>5, <1>6, <1>7, IdleLeases, PlannerLeases
<1>9. (\A q \in Handlers : CallOK(q)') /\ (\A w \in Workers : LeaseOK(w)')
  BY <1>1, <1>3, <1>4, <1>5, <1>8, LeaseReplaced
<1>10. OneActiveWorker'
  BY <1>1 DEF LeaseInv, OneActiveWorker
<1> QED
  BY <1>9, <1>10 DEF Leases

LEMMA ApiSwapLeases == ASSUME LeaseInv, NEW p \in Handlers, ApiSwap(p) PROVE Leases'
<1> DEFINE c == api[p].id
           s == api[p].r
<1>1. /\ api[p].pc = "swap" /\ CanSwap(c, s)
      /\ rec' = [rec EXCEPT ![c] = s]
      /\ api' = [api EXCEPT ![p] = IF api[p].op = "upload"
                                   THEN [api[p] EXCEPT !.pc = "presign"] ELSE IdleApi]
      /\ now' = now /\ worker' = worker
  BY DEF ApiSwap
<1>2. c \in Captures /\ s \in Record /\ s.Revision = rec[c].Revision + 1
  BY <1>1, ApiHolds DEF LeaseInv
<1>3. /\ now <= api[p].end /\ api[p].end <= now + ApiTimeout
      /\ \A v \in Workers : Active(v) /\ worker[v].id = c => Outlasted(v, s)
  BY <1>1 DEF LeaseInv, CallOK, ApiCanWrite
<1>4. /\ api'[p] = IdleApi \/ (api'[p].pc = "presign" /\ api'[p].end = api[p].end)
      /\ \A q \in Handlers \ {p} : api'[q] = api[q]
  BY <1>1 DEF LeaseInv, Inv, TypeOK, ApiProcess
<1>5. CallOK(p)'
  BY <1>1, <1>3, <1>4, IdleLeases DEF CallOK, ApiCanWrite
<1> HIDE DEF c, s
<1>6. (\A q \in Handlers : CallOK(q)') /\ (\A w \in Workers : LeaseOK(w)')
  BY <1>1, <1>2, <1>3, <1>4, <1>5, LeaseReplaced
<1>7. OneActiveWorker'
  BY <1>1 DEF LeaseInv, OneActiveWorker
<1> QED
  BY <1>6, <1>7 DEF Leases

LEMMA ReceiveLeases ==
  ASSUME LeaseInv, NEW w \in Workers, NEW job \in sent, Receive(w, job)
  PROVE  Leases'
<1> DEFINE c == job.id
           r == rec[c]
<1>1. /\ c \in Captures /\ r \in Record /\ RowOK(r) /\ now \in Nat
      /\ r.LeaseUntil \in Nat /\ r.Due \in Nat
  BY DEF LeaseInv, Inv, TypeOK, Job, Record
<1>2. PICK next \in WorkPlans(c, r) : worker' = [worker EXCEPT ![w] = next]
  BY DEF Receive
<1>3. /\ rec' = rec /\ now' = now /\ api' = api
      /\ worker[w].pc = "idle" /\ r.Due <= now /\ r.LeaseUntil <= now
  BY DEF Receive
<1>4. worker'[w] = next /\ \A v \in Workers \ {w} : worker'[v] = worker[v]
  BY <1>2 DEF LeaseInv, Inv, TypeOK
<1>5. WorkIs(next, c, r)
  BY <1>1, WorkCases
<1>6. Follows(r, next.r)
  BY <1>1, <1>5, WorkerFollows DEF WorkIs, RowOK
<1>7. ASSUME NEW v \in Workers, Active(v), worker[v].id = c PROVE FALSE
  <2>1. worker[v].end < r.LeaseUntil \/ worker[v].end < r.Due
    BY <1>7, ActiveStates DEF Outlasted
  <2>2. now <= worker[v].end /\ worker[v].end \in Nat
    BY <1>7, ActiveStates DEF LeaseInv, Inv, TypeOK, WorkerProcess
  <2> QED BY <1>1, <1>3, <2>1, <2>2
<1>8. next.pc = "claim" => next.end < next.r.LeaseUntil /\ next.r.Work # "none"
  <2>1. now + WorkerTimeout < now + Lease
    BY <1>1, DeployedTimings, RecordConstants, LifecycleConstants
  <2>2. /\ ExtractionClaimed(r, now).LeaseUntil = now + Lease
        /\ ExtractionClaimed(r, now).Work = r.Work
        /\ CleanupClaimed(r, now).LeaseUntil = now + Lease
        /\ CleanupClaimed(r, now).Work = r.Work
        /\ ValidationClaimed(r, now).LeaseUntil = now + Lease
        /\ ValidationClaimed(r, now).Work = r.Work
    BY <1>1 DEF ExtractionClaimed, CleanupClaimed, ValidationClaimed, Record
  <2>3. r.State = "finalizing" => r.Work = "validate"
    BY <1>1 DEF RowOK
  <2> QED BY <1>5, <2>1, <2>2, <2>3 DEF WorkIs
<1>9. \A v \in Workers : Active(v)' => v # w /\ Active(v) /\ worker'[v] = worker[v]
  BY <1>4, <1>5 DEF Active, WorkIs
<1>10. LeaseOK(w)'
  <2>1. now <= next.end /\ next.end <= now + WorkerTimeout
    BY <1>1, <1>5, LifecycleConstants DEF WorkIs
  <2>2. \A v \in Workers : Active(v)' => worker'[v].id # c
    BY <1>7, <1>9
  <2>3. worker'[w].pc \in {"claim", "final"} /\ worker'[w].id = c
    BY <1>4, <1>5 DEF WorkIs
  <2> HIDE DEF c
  <2> QED BY <1>3, <1>4, <1>6, <1>8, <2>1, <2>2, <2>3 DEF LeaseOK, Active
<1>11. OnlyStops
  BY <1>9 DEF OnlyStops
<1> QED
  BY <1>3, <1>4, <1>10, <1>11, LeaseUnchanged DEF Leases

LEMMA ClaimLeases == ASSUME LeaseInv, NEW w \in Workers, Claim(w) PROVE Leases'
<1> DEFINE c == worker[w].id
           s == worker[w].r
<1>1. /\ worker[w].pc = "claim" /\ CanSwap(c, s)
      /\ rec' = [rec EXCEPT ![c] = s]
      /\ worker' = [worker EXCEPT ![w].pc = "run"]
      /\ now' = now /\ api' = api
  BY DEF Claim
<1>2. c \in Captures /\ s \in Record /\ s.Revision = rec[c].Revision + 1
  BY <1>1, WorkerHolds DEF LeaseInv
<1>3. /\ now <= worker[w].end /\ worker[w].end <= now + WorkerTimeout
      /\ worker[w].end < s.LeaseUntil /\ s.Work # "none"
      /\ \A v \in Workers : Active(v) => worker[v].id # c
  BY <1>1 DEF LeaseInv, LeaseOK, WorkerCanWrite
<1>4. /\ worker'[w].pc = "run" /\ worker'[w].id = c /\ worker'[w].r = s
      /\ worker'[w].end = worker[w].end
      /\ \A v \in Workers \ {w} : worker'[v] = worker[v]
  BY <1>1 DEF LeaseInv, Inv, TypeOK, WorkerProcess
<1>5. rec'[c] = s
  BY <1>1, <1>2 DEF LeaseInv, Inv, TypeOK
<1>6. LeaseOK(w)'
  BY <1>1, <1>3, <1>4, <1>5 DEF LeaseOK, WorkerCanWrite
<1>7. \A v \in Workers : Active(v)' => worker'[v] = worker[v] \/ worker'[v].id = c
  BY <1>4
<1>8. \A v \in Workers : Active(v) /\ worker[v].id = c => Outlasted(v, s)
  BY <1>3
<1>9. OneActiveWorker'
  <2>1. \A v \in Workers \ {w} : Active(v)' => Active(v) /\ worker'[v].id # c
    BY <1>3, <1>4 DEF Active
  <2> HIDE DEF c
  <2> QED BY <1>4, <2>1 DEF LeaseInv, OneActiveWorker, Active
<1> HIDE DEF c, s
<1>10. (\A q \in Handlers : CallOK(q)') /\ (\A v \in Workers : LeaseOK(v)')
  BY <1>1, <1>2, <1>4, <1>6, <1>7, <1>8, LeaseReplaced
<1> QED
  BY <1>9, <1>10 DEF Leases

LEMMA FinishLeases ==
  ASSUME LeaseInv, NEW w \in Workers, Finish(w) \/ Publish(w)
  PROVE  Leases'
<1> DEFINE c == worker[w].id
           s == worker[w].r
<1>1. /\ worker[w].pc \in {"final", "publish"} /\ CanSwap(c, s)
      /\ rec' = [rec EXCEPT ![c] = s]
      /\ worker' = [worker EXCEPT ![w] = IdleWorker]
      /\ now' = now /\ api' = api
  BY DEF Finish, Publish
<1>2. c \in Captures /\ s \in Record /\ s.Revision = rec[c].Revision + 1
  BY <1>1, WorkerHolds DEF LeaseInv
<1>3. \A v \in Workers : Active(v) /\ worker[v].id = c => Outlasted(v, s)
  BY <1>1 DEF LeaseInv, LeaseOK, WorkerCanWrite
<1>4. worker'[w] = IdleWorker /\ \A v \in Workers \ {w} : worker'[v] = worker[v]
  BY <1>1 DEF LeaseInv, Inv, TypeOK
<1>5. \A v \in Workers : Active(v)' => Active(v) /\ worker'[v] = worker[v]
  BY <1>4, IdleLeases DEF Active
<1>6. OneActiveWorker'
  BY <1>5 DEF LeaseInv, OneActiveWorker, Active
<1> HIDE DEF c, s
<1>7. (\A q \in Handlers : CallOK(q)') /\ (\A v \in Workers : LeaseOK(v)')
  BY <1>1, <1>2, <1>3, <1>4, <1>5, IdleLeases, LeaseReplaced
<1> QED
  BY <1>6, <1>7 DEF Leases

LEMMA WriteLeases ==
  ASSUME LeaseInv, NEW w \in Workers, WriteDerivatives(w)
  PROVE  Leases'
<1>1. /\ worker[w].pc = "run" /\ rec' = rec /\ now' = now /\ api' = api
      /\ worker' = [worker EXCEPT ![w].pc = "wrote"]
  BY DEF WriteDerivatives, Running
<1>2. /\ worker'[w].pc = "wrote" /\ worker'[w].id = worker[w].id
      /\ worker'[w].r = worker[w].r /\ worker'[w].end = worker[w].end
      /\ \A v \in Workers \ {w} : worker'[v] = worker[v]
  BY <1>1 DEF LeaseInv, Inv, TypeOK, WorkerProcess
<1>3. OnlyStops
  BY <1>1, <1>2 DEF OnlyStops, Active
<1>4. LeaseOK(w)'
  BY <1>1, <1>2 DEF LeaseInv, LeaseOK, Active, WorkerCanWrite, Outlasted
<1> QED
  BY <1>1, <1>2, <1>3, <1>4, LeaseUnchanged DEF Leases

\* A worker that stops being at work on c is the last one: it can write alone.
LEMMA DecisionLeases ==
  ASSUME LeaseInv, NEW w \in Workers,
         ValidationOk(w) \/ ValidationNotOk(w) \/ Extract(w) \/ DeleteCapture(w)
  PROVE  Leases'
<1> DEFINE c == worker[w].id
           r == worker[w].r
           e == worker[w].end
<1>1. rec' = rec /\ now' = now /\ api' = api
  BY DEF ValidationOk, ValidationNotOk, Extract, DeleteCapture
<1>2. Inv
  BY DEF LeaseInv
<1>3. PICK pc \in {"final", "publish"}, s \in Record :
        /\ Decides(w, r, pc, s)
        /\ worker' = [worker EXCEPT ![w] = [worker[w] EXCEPT !.pc = pc, !.r = s]]
        /\ Follows(r, s) /\ s.Revision = r.Revision + 1
  BY <1>2, DecisionCases
<1>4. Active(w)
  BY <1>2, DecisionCases
<1>5. /\ worker'[w].pc = pc /\ worker'[w].r = s /\ worker'[w].id = c /\ worker'[w].end = e
      /\ \A v \in Workers \ {w} : worker'[v] = worker[v]
  BY <1>3 DEF LeaseInv, Inv, TypeOK, WorkerProcess
<1>6. OnlyStops
  BY <1>5 DEF OnlyStops, Active
<1>7. /\ now <= e /\ e <= now + WorkerTimeout /\ now \in Nat /\ e \in Nat
      /\ r \in Record /\ r.Revision \in Nat /\ rec[c].Revision \in Nat
  BY <1>4 DEF LeaseInv, LeaseOK, Active, Inv, TypeOK, WorkerProcess, Record
<1>8. CanSwap(c, s)' => r = rec[c]
  BY <1>1, <1>3, <1>4, <1>7 DEF CanSwap, LeaseInv, Inv, WorkerOK, Active
<1>9. \A v \in Workers : Active(v)' => worker'[v].id # c
  <2>1. \A v \in Workers : Active(v) /\ worker[v].id = c => v = w
    BY <1>4 DEF LeaseInv, OneActiveWorker, Active
  <2> QED BY <1>5, <1>6, <2>1 DEF OnlyStops, Active
<1>10. pc = "publish" => s.DeleteAfter < s.ExpiresAt + Retention /\ e < s.ExpiresAt + WorkerTimeout
  <2>1. \A b \in BOOLEAN : /\ Promoted(r, now, b).DeleteAfter = now + Retention
                           /\ Promoted(r, now, b).ExpiresAt = r.ExpiresAt
    BY <1>7 DEF Promoted, Record
  <2>2. pc = "publish" => /\ now < r.ExpiresAt /\ s.DeleteAfter = now + Retention
                          /\ s.ExpiresAt = r.ExpiresAt
    BY <1>3, <2>1 DEF Decides
  <2>3. r.ExpiresAt \in Nat
    BY <1>7 DEF Record
  <2> QED BY <1>7, <2>2, <2>3, RecordConstants, LifecycleConstants
<1>11. LeaseOK(w)'
  <2>1. WorkerCanWrite(w)' => Follows(rec[c], s)
    BY <1>3, <1>5, <1>8 DEF WorkerCanWrite
  <2> HIDE DEF c, r, e
  <2>2. ~Active(w)'
    BY <1>5 DEF Active
  <2> QED BY <1>1, <1>5, <1>7, <1>9, <1>10, <2>1, <2>2 DEF LeaseOK
<1> QED
  BY <1>1, <1>5, <1>6, <1>11, LeaseUnchanged DEF Leases

LEMMA NextLeases == ASSUME LeaseInv, [Next]_vars PROVE Leases'
<1>1. CASE UNCHANGED vars
  BY <1>1, StopLeases DEF vars
<1>2. CASE Tick
  BY <1>2, TickLeases
<1>3. CASE \E c \in Captures : Create(c) \/ Dispatch(c) \/ Lifecycle(c)
  <2>1. PICK c \in Captures : Create(c) \/ Dispatch(c) \/ Lifecycle(c)
    BY <1>3
  <2>2. CASE Dispatch(c) \/ Lifecycle(c)
    BY <2>2, StopLeases DEF Dispatch, Lifecycle
  <2> QED BY <2>1, <2>2, CreateLeases
<1>4. CASE \E c \in Captures, u \in 1..MaxUploads : ClientPut(c, u) \/ LatePut(c, u)
  BY <1>4, StopLeases DEF ClientPut, LatePut
<1>5. CASE \E p \in Handlers, c \in Captures, op \in Ops :
             Invoke(p, c, op) \/ InvokeRecovery(p, c, op)
  BY <1>5, InvokeLeases, InvokeRecoveryLeases
<1>6. CASE \E p \in Handlers : ApiStep(p)
  <2>1. PICK p \in Handlers : ApiStep(p)
    BY <1>6
  <2>2. CASE Presign(p) \/ ApiEnds(p)
    <3>1. rec' = rec /\ now' = now /\ worker' = worker /\ api' = [api EXCEPT ![p] = IdleApi]
      BY <2>2 DEF Presign, ApiEnds
    <3>2. \A q \in Handlers : api'[q] = api[q] \/ api'[q] = IdleApi
      BY <3>1 DEF LeaseInv, Inv, TypeOK
    <3> QED BY <3>1, <3>2, StopLeases
  <2> QED BY <2>1, <2>2, RecoverLeases, ApiSwapLeases DEF ApiStep
<1>7. CASE \E w \in Workers, job \in sent : Receive(w, job)
  BY <1>7, ReceiveLeases
<1>8. CASE \E w \in Workers : WorkerStep(w) \/ DeleteFails(w) \/ WorkerDies(w)
  <2>1. PICK w \in Workers : WorkerStep(w) \/ DeleteFails(w) \/ WorkerDies(w)
    BY <1>8
  <2>2. CASE LoseRace(w) \/ DeleteFails(w) \/ WorkerDies(w)
    <3>1. rec' = rec /\ now' = now /\ api' = api /\ worker' = [worker EXCEPT ![w] = IdleWorker]
      BY <2>2 DEF LoseRace, DeleteFails, WorkerDies
    <3>2. \A v \in Workers : worker'[v] = worker[v] \/ worker'[v] = IdleWorker
      BY <3>1 DEF LeaseInv, Inv, TypeOK
    <3> QED BY <3>1, <3>2, StopLeases
  <2> QED
    BY <2>1, <2>2, ClaimLeases, FinishLeases, WriteLeases, DecisionLeases DEF WorkerStep
<1> QED
  BY <1>1, <1>2, <1>3, <1>4, <1>5, <1>6, <1>7, <1>8 DEF Next

\* LeaseInv always: an invocation of a handler or a worker that can still write wrote or
\* read the row it goes by, and a lease outlasts the worker that took it.
THEOREM LeaseInductive == Spec => []LeaseInv
<1>1. Init /\ Inv => LeaseInv
  <2> SUFFICES ASSUME Init, Inv PROVE LeaseInv
    OBVIOUS
  <2>1. (\A p \in Handlers : api[p].pc = "idle") /\ (\A w \in Workers : worker[w].pc = "idle")
    BY DEF Init, IdleApi, IdleWorker
  <2>2. OneActiveWorker
    BY <2>1 DEF OneActiveWorker
  <2>3. \A p \in Handlers : CallOK(p)
    BY <2>1 DEF CallOK, ApiCanWrite
  <2>4. \A w \in Workers : LeaseOK(w)
    BY <2>1 DEF LeaseOK, Active, WorkerCanWrite
  <2> QED BY <2>2, <2>3, <2>4 DEF LeaseInv
<1>2. LeaseInv /\ [Next]_vars /\ Inv' => LeaseInv'
  BY NextLeases DEF LeaseInv, Leases
<1> QED
  BY <1>1, <1>2, InvInductive, PTL DEF Spec

\* Whatever dies, is delivered twice or loses a race, two workers are never at
\* work on one capture.
THEOREM OneWorkerAtATime == Spec => []OneActiveWorker
<1>1. LeaseInv => OneActiveWorker
  BY DEF LeaseInv
<1> QED
  BY <1>1, LeaseInductive, PTL

----------------------------------------------------------------------------
\* Who wrote the row of c.
LEMMA RowWrites ==
  ASSUME Inv, Next, NEW c \in Captures, rec'[c] # rec[c]
  PROVE  \/ Create(c)
         \/ \E p \in Handlers :
              /\ Recover(p) \/ ApiSwap(p)
              /\ ApiCanWrite(p) /\ api[p].id = c /\ rec'[c] = api[p].r
         \/ \E w \in Workers :
              /\ Claim(w) \/ Finish(w) \/ Publish(w)
              /\ WorkerCanWrite(w) /\ worker[w].id = c /\ rec'[c] = worker[w].r
<1>1. \A d \in Captures : \A s : rec' = [rec EXCEPT ![d] = s] => d = c /\ rec'[c] = s
  BY DEF Inv, TypeOK
<1>2. CASE Tick
  BY <1>2 DEF Tick
<1>3. ASSUME NEW d \in Captures, Create(d) \/ Dispatch(d) \/ Lifecycle(d) PROVE Create(c)
  <2>1. CASE Create(d)
    <3>1. rec' = [rec EXCEPT ![d] = Created(now)]
      BY <2>1 DEF Create
    <3> QED BY <1>1, <2>1, <3>1
  <2>2. CASE Dispatch(d) \/ Lifecycle(d)
    BY <2>2 DEF Dispatch, Lifecycle
  <2> QED BY <1>3, <2>1, <2>2
<1>4. CASE \E d \in Captures, u \in 1..MaxUploads : ClientPut(d, u) \/ LatePut(d, u)
  BY <1>4 DEF ClientPut, LatePut
<1>5. CASE \E p \in Handlers, d \in Captures, op \in Ops : Invoke(p, d, op) \/ InvokeRecovery(p, d, op)
  BY <1>5 DEF Invoke, InvokeRecovery
<1>6. ASSUME NEW p \in Handlers, ApiStep(p)
      PROVE  /\ Recover(p) \/ ApiSwap(p)
             /\ ApiCanWrite(p) /\ api[p].id = c /\ rec'[c] = api[p].r
  <2>1. Recover(p) \/ ApiSwap(p)
    BY <1>6 DEF ApiStep, Presign, ApiEnds
  <2>2. ApiCanWrite(p) /\ rec' = [rec EXCEPT ![api[p].id] = api[p].r]
    BY <2>1 DEF Recover, ApiSwap, ApiCanWrite
  <2>3. api[p].id \in Captures
    BY DEF Inv, TypeOK, ApiProcess
  <2> QED BY <1>1, <2>1, <2>2, <2>3
<1>7. CASE \E w \in Workers, job \in sent : Receive(w, job)
  BY <1>7 DEF Receive
<1>8. ASSUME NEW w \in Workers, WorkerStep(w) \/ DeleteFails(w) \/ WorkerDies(w)
      PROVE  /\ Claim(w) \/ Finish(w) \/ Publish(w)
             /\ WorkerCanWrite(w) /\ worker[w].id = c /\ rec'[c] = worker[w].r
  <2>1. Claim(w) \/ Finish(w) \/ Publish(w)
    BY <1>8 DEF WorkerStep, DeleteFails, WorkerDies, LoseRace, WriteDerivatives,
                ValidationOk, ValidationNotOk, Extract, DeleteCapture
  <2>2. WorkerCanWrite(w) /\ rec' = [rec EXCEPT ![worker[w].id] = worker[w].r]
    BY <2>1 DEF Claim, Finish, Publish, WorkerCanWrite
  <2>3. worker[w].id \in Captures
    BY DEF Inv, TypeOK, WorkerProcess
  <2> QED BY <1>1, <2>1, <2>2, <2>3
<1> QED
  BY <1>2, <1>3, <1>4, <1>5, <1>6, <1>7, <1>8 DEF Next

\* What the code gives for docs/id-capture.md's deadline: the promotion is at most the
\* rest of an invocation late, and the retention of the evidence starts before it.
THEOREM ReadyInTime == Spec => ReadyNearDeadline
<1>1. ASSUME LeaseInv, Next, NEW c \in Captures,
             rec[c].State = "finalizing", rec'[c].State = "ready"
      PROVE  /\ now < rec[c].ExpiresAt + WorkerTimeout
             /\ rec'[c].DeleteAfter < rec[c].ExpiresAt + Retention
  <2>1. Inv
    BY <1>1 DEF LeaseInv
  <2>2. PICK w \in Workers : Publish(w) /\ WorkerCanWrite(w) /\ worker[w].id = c /\ rec'[c] = worker[w].r
    <3>1. ~Create(c)
      BY <1>1 DEF Create
    <3>2. \A p \in Handlers : ApiCanWrite(p) /\ api[p].id = c => api[p].r.State # "ready"
      BY <1>1, <2>1 DEF Inv, ApiCanWrite, ApiOK, Keeps
    <3>3. \A w \in Workers : /\ WorkerCanWrite(w) /\ worker[w].id = c /\ worker[w].r.State = "ready"
                             => worker[w].pc = "publish"
      BY <1>1, <2>1 DEF Inv, WorkerCanWrite, WorkerOK, Keeps
    <3>4. \A w \in Workers : Claim(w) \/ Finish(w) => worker[w].pc # "publish"
      BY DEF Claim, Finish
    <3> QED BY <1>1, <2>1, <3>1, <3>2, <3>3, <3>4, RowWrites
  <2>3. worker[w].pc = "publish" /\ LeaseOK(w)
    BY <1>1, <2>2 DEF Publish, LeaseInv
  <2>4. /\ rec'[c].DeleteAfter < rec'[c].ExpiresAt + Retention
        /\ now <= worker[w].end /\ worker[w].end < rec'[c].ExpiresAt + WorkerTimeout
        /\ rec'[c].ExpiresAt = rec[c].ExpiresAt
    BY <2>2, <2>3 DEF LeaseOK, Follows
  <2>5. now \in Nat /\ worker[w].end \in Nat /\ rec[c].ExpiresAt \in Nat
    BY <2>1 DEF Inv, TypeOK, WorkerProcess, Record
  <2> QED BY <2>4, <2>5, LifecycleConstants
<1>2. LeaseInv /\ [Next]_vars =>
        [\A c \in Captures :
           rec[c].State = "finalizing" /\ rec'[c].State = "ready"
             => /\ now < rec[c].ExpiresAt + WorkerTimeout
                /\ rec'[c].DeleteAfter < rec[c].ExpiresAt + Retention]_rec
  BY <1>1 DEF vars
<1> QED
  BY <1>2, LeaseInductive, PTL DEF Spec, ReadyNearDeadline

----------------------------------------------------------------------------
\* TimelyInv: nothing is scheduled for deletion before the last image may arrive.

\* At time t, URLs are signed by invocations that end soon, and last no longer than that.
Near(signs, puts, t) ==
  /\ signs \subseteq Nat /\ puts \subseteq Nat
  /\ \A e \in signs : e <= t + ApiTimeout
  /\ \A x \in puts : x <= t + UrlLifetime \/ \E e \in signs : x = e + UrlLifetime

LEMMA NearBounds ==
  ASSUME NEW t \in Nat, NEW signs, NEW puts, Near(signs, puts, t)
  PROVE  /\ \A x \in puts : x <= t + ApiTimeout + UrlLifetime
         /\ Before(puts, t + CleanupWait)
         /\ Before(puts, t + Retention)
<1>1. ASSUME NEW x \in puts PROVE x \in Nat /\ x <= t + ApiTimeout + UrlLifetime
  <2>1. x \in Nat /\ UrlLifetime \in Nat /\ ApiTimeout \in Nat
    BY RecordConstants, LifecycleConstants DEF Near
  <2>2. CASE x <= t + UrlLifetime
    BY <2>1, <2>2
  <2>3. CASE \E e \in signs : x = e + UrlLifetime
    <3>1. PICK e \in signs : x = e + UrlLifetime
      BY <2>3
    <3>2. e \in Nat /\ e <= t + ApiTimeout
      BY DEF Near
    <3> QED BY <2>1, <3>1, <3>2
  <2> QED BY <2>2, <2>3 DEF Near
<1>2. \A x \in Nat : x <= t + ApiTimeout + UrlLifetime => x < t + CleanupWait /\ x < t + Retention
  BY DeployedTimings, RecordConstants, LifecycleConstants
<1> QED
  BY <1>1, <1>2 DEF Before

LEMMA ApiTimely ==
  ASSUME NEW r \in Record, RowOK(r), NEW t \in Nat, NEW signs, NEW puts,
         Near(signs, puts, t), Timely(r, signs, puts, t)
  PROVE  /\ \A s \in Slots : r.State = "uploading" => Timely(Selected(r, s), signs, puts, t)
         /\ r.State = "ready" => Timely(Recovered(r), signs, puts, t)
         /\ r.State = "uploading" => Timely(Finalized(r, t), signs, puts, t)
         /\ Timely(Cancelled(r, t), signs, puts, t)
         /\ Timely(RetriedValidation(r, t), signs, puts, t)
         /\ r.State = "ready" => Timely(RetriedExtraction(r, t), signs, puts, t)
         /\ r.State = "ready" => Timely(ReviewSaved(r), signs, puts, t)
<1> USE DEF Timely, Record
<1>1. \A s \in Slots : r.State = "uploading" => Timely(Selected(r, s), signs, puts, t)
  BY DEF Selected
<1>2. r.State = "ready" => Timely(Recovered(r), signs, puts, t)
  BY DEF Recovered
<1>3. r.State = "uploading" => Timely(Finalized(r, t), signs, puts, t)
  BY DEF Finalized
<1>4. Timely(Cancelled(r, t), signs, puts, t)
  BY NearBounds DEF Cancelled
<1>5. Timely(RetriedValidation(r, t), signs, puts, t)
  BY DEF RetriedValidation
<1>6. r.State = "ready" => Timely(RetriedExtraction(r, t), signs, puts, t)
  BY DEF RetriedExtraction
<1>7. r.State = "ready" => Timely(ReviewSaved(r), signs, puts, t)
  BY DEF ReviewSaved
<1> QED
  BY <1>1, <1>2, <1>3, <1>4, <1>5, <1>6, <1>7

\* A backoff after at least one attempt is no shorter than an invocation.
LEMMA BackoffOutlasts ==
  ASSUME NEW n \in Nat, n >= 1
  PROVE  n * Backoff >= ApiTimeout
<1>1. Backoff \in Nat /\ ApiTimeout \in Nat /\ ApiTimeout <= Backoff
  BY DeployedTimings, RecordConstants, LifecycleConstants
<1>2. PICK k \in Nat : n = k + 1
  <2>1. n - 1 \in Nat /\ n = (n - 1) + 1
    OBVIOUS
  <2> QED BY <2>1
<1>3. (k + 1) * Backoff = k * Backoff + Backoff /\ k * Backoff \in Nat
  BY <1>1
<1> QED
  BY <1>1, <1>2, <1>3

LEMMA WorkerTimely ==
  ASSUME NEW r \in Record, RowOK(r), NEW t \in Nat, NEW b \in BOOLEAN, NEW signs, NEW puts,
         Near(signs, puts, t), Timely(r, signs, puts, t)
  PROVE  /\ Timely(Lapsed(r, t), signs, puts, t)
         /\ r.State = "finalizing"
              => /\ r.Attempts >= MaxAttempts => Timely(GaveUp(r), signs, puts, t)
                 /\ r.Due <= t /\ t < r.ExpiresAt => Timely(ValidationClaimed(r, t), signs, puts, t)
                 /\ Timely(Promoted(r, t, b), signs, puts, t)
                 /\ Timely(Rejected(r, t), signs, puts, t)
                 /\ r.Attempts >= 1 => Timely(ValidationFailed(r, t), signs, puts, t)
         /\ r.Work = "cleanup" => Timely(CleanupClaimed(r, t), signs, puts, t)
         /\ r.Work = "cleanup" /\ r.State = "expired" /\ r.Due <= t
              => Timely(CleanupDone(r), signs, puts, t)
         /\ r.Work = "extract"
              => /\ Timely(ExtractionClaimed(r, t), signs, puts, t)
                 /\ t >= r.DeleteAfter => Timely(ExtractionExpired(r, t), signs, puts, t)
                 /\ Timely(ExtractionFinished(r, t, b), signs, puts, t)
<1>0. /\ signs \subseteq Nat /\ puts \subseteq Nat /\ r.Due \in Nat /\ r.Attempts \in Nat
      /\ r.ExpiresAt \in Nat /\ r.DeleteAfter \in Nat /\ UrlLifetime \in Nat
      /\ Before(puts, t + CleanupWait) /\ Before(puts, t + Retention)
  BY NearBounds, RecordConstants DEF Near, Record
<1> USE DEF Timely, Record
<1>1. Timely(Lapsed(r, t), signs, puts, t)
  BY <1>0 DEF Lapsed
<1>2. r.State = "finalizing" /\ r.Attempts >= MaxAttempts => Timely(GaveUp(r), signs, puts, t)
  <2>1. r.Attempts >= MaxAttempts => r.Attempts >= 2
    BY <1>0, DeployedTimings, RecordConstants
  <2> QED BY <2>1 DEF GaveUp
<1>3. ASSUME r.State = "finalizing", r.Due <= t, t < r.ExpiresAt
      PROVE  Timely(ValidationClaimed(r, t), signs, puts, t)
  <2>1. \A e \in signs : e <= t + Lease
    BY <1>0, DeployedTimings, RecordConstants, LifecycleConstants DEF Near
  <2>2. r.Attempts >= 1 => Before(puts, r.ExpiresAt + UrlLifetime)
    <3> SUFFICES ASSUME r.Attempts >= 1, NEW x \in puts PROVE x < r.ExpiresAt + UrlLifetime
      BY DEF Before
    <3>1. \A e \in signs : e <= t
      BY <1>0, <1>3
    <3>2. x <= t + UrlLifetime
      BY <1>0, <3>1 DEF Near
    <3> QED BY <1>0, <1>3, <3>2
  <2>3. r.Attempts + 1 >= 2 => r.Attempts >= 1
    BY <1>0
  <2>4. r.Work = "validate"
    BY <1>3 DEF RowOK
  <2> QED BY <1>3, <2>1, <2>2, <2>3, <2>4 DEF ValidationClaimed
<1>4. r.State = "finalizing" => Timely(Promoted(r, t, b), signs, puts, t)
  <2>1. CASE b
    BY <1>0, <2>1 DEF Promoted
  <2>2. CASE ~b
    BY <1>0, <2>2 DEF Promoted
  <2> QED BY <2>1, <2>2
<1>5. r.State = "finalizing" => Timely(Rejected(r, t), signs, puts, t)
  BY <1>0 DEF Rejected
<1>6. ASSUME r.State = "finalizing", r.Attempts >= 1
      PROVE  Timely(ValidationFailed(r, t), signs, puts, t)
  <2>1. CASE r.Attempts >= MaxAttempts
    BY <1>2, <1>6, <2>1 DEF ValidationFailed
  <2>2. CASE ~(r.Attempts >= MaxAttempts)
    <3> DEFINE wait == r.Attempts * Backoff
    <3>1. wait \in Nat /\ wait >= ApiTimeout
      BY <1>0, <1>6, BackoffOutlasts, RecordConstants
    <3> HIDE DEF wait
    <3>2. \A e \in signs : e <= t + wait
      BY <1>0, <3>1, LifecycleConstants DEF Near
    <3>3. r.Work = "validate"
      BY <1>6 DEF RowOK
    <3> QED BY <1>6, <2>2, <3>2, <3>3 DEF ValidationFailed, wait
  <2> QED BY <2>1, <2>2
<1>7. r.Work = "cleanup" => Timely(CleanupClaimed(r, t), signs, puts, t)
  BY DEF CleanupClaimed
<1>8. ASSUME r.Work = "cleanup", r.State = "expired", r.Due <= t
      PROVE  Timely(CleanupDone(r), signs, puts, t)
  <2>1. Before(puts, t)
    BY <1>0, <1>8 DEF Before
  <2> QED BY <1>8, <2>1 DEF CleanupDone
<1>9. r.Work = "extract" => Timely(ExtractionClaimed(r, t), signs, puts, t)
  BY DEF ExtractionClaimed, RowOK
<1>10. ASSUME r.Work = "extract", t >= r.DeleteAfter
       PROVE  Timely(ExtractionExpired(r, t), signs, puts, t)
  <2>1. Before(puts, t)
    BY <1>0, <1>10 DEF Before, RowOK
  <2> QED BY <2>1 DEF ExtractionExpired
<1>11. r.Work = "extract" => Timely(ExtractionFinished(r, t, b), signs, puts, t)
  <2>1. CASE b
    BY <2>1 DEF ExtractionFinished, RowOK
  <2>2. CASE ~b /\ r.ExtractionAttempts >= MaxAttempts
    BY <2>2 DEF ExtractionFinished, RowOK
  <2>3. CASE ~b /\ ~(r.ExtractionAttempts >= MaxAttempts)
    BY <2>3 DEF ExtractionFinished, RowOK
  <2> QED BY <2>1, <2>2, <2>3
<1> QED
  BY <1>1, <1>2, <1>3, <1>4, <1>5, <1>6, <1>7, <1>8, <1>9, <1>10, <1>11

\* URLs that will last no longer than those there were: the schedules still fit.
Later(signs, puts, signs2, puts2) ==
  /\ signs2 \subseteq signs
  /\ \A x \in puts2 : x \in Nat /\ \E y \in puts : x <= y

LEMMA BeforeLater ==
  ASSUME NEW signs, NEW puts, puts \subseteq Nat, NEW signs2, NEW puts2,
         Later(signs, puts, signs2, puts2), NEW t \in Nat, Before(puts, t)
  PROVE  Before(puts2, t)
<1> SUFFICES ASSUME NEW x \in puts2 PROVE x < t
  BY DEF Before
<1>1. PICK y \in puts : x <= y
  BY DEF Later
<1> QED
  BY <1>1 DEF Before, Later

LEMMA TimelyLater ==
  ASSUME NEW r \in Record, NEW t \in Nat, NEW t2 \in Nat, t <= t2,
         NEW signs, NEW puts, puts \subseteq Nat, NEW signs2, NEW puts2,
         Later(signs, puts, signs2, puts2), Timely(r, signs, puts, t)
  PROVE  Timely(r, signs2, puts2, t2)
<1>1. \A T \in Nat : Before(puts, T) => Before(puts2, T)
  BY BeforeLater
<1>2. Before(puts2, t) => Before(puts2, t2)
  BY DEF Before, Later
<1>3. r.Due \in Nat /\ r.ExpiresAt + UrlLifetime \in Nat /\ r.DeleteAfter \in Nat
  BY RecordConstants DEF Record
<1>4. \A e \in signs2 : e \in signs
  BY DEF Later
<1> QED
  BY <1>1, <1>2, <1>3, <1>4 DEF Timely

\* One more URL to be signed, while the row takes uploads, or by r's leave.
LEMMA TimelySigned ==
  ASSUME NEW r \in Record, RowOK(r), NEW t \in Nat, NEW e \in Nat,
         NEW signs, NEW puts, puts \subseteq Nat, NEW signs2, NEW puts2,
         \A x \in puts2 : x \in Nat /\ (x = e + UrlLifetime \/ \E y \in puts : x <= y),
         Timely(r, signs, puts, t), r.State \notin {"ready", "absent"}, r.Work # "none",
         r.State = "finalizing" => r.Attempts = 0,
         r.Work = "cleanup" => e + UrlLifetime < r.Due
  PROVE  Timely(r, signs2, puts2, t)
<1>1. ASSUME r.Work = "cleanup" PROVE Before(puts2, r.Due)
  <2> SUFFICES ASSUME NEW x \in puts2, ~(x = e + UrlLifetime) PROVE x < r.Due
    BY <1>1 DEF Before
  <2>1. PICK y \in puts : x <= y
    OBVIOUS
  <2>2. y < r.Due /\ y \in Nat /\ x \in Nat /\ r.Due \in Nat
    BY <1>1 DEF Timely, Before, Record
  <2> QED BY <2>1, <2>2
<1> QED
  BY <1>1 DEF Timely, Record

----------------------------------------------------------------------------
\* The URLs to be signed, and those signed.

LEMMA SignsTypes ==
  ASSUME Inv, NEW c \in Captures
  PROVE  Signs(c) \subseteq Nat /\ Puts(c) \subseteq Nat
<1>1. Signs(c) \subseteq Nat
  BY DEF Inv, TypeOK, ApiProcess, Signs
<1>2. \A u \in 1..MaxUploads : links[c][u] \in Nat
  BY DEF Inv, TypeOK
<1> QED
  BY <1>1, <1>2, RecordConstants DEF Puts

LEMMA NearNow ==
  ASSUME LeaseInv, TimelyInv, NEW c \in Captures
  PROVE  Near(Signs(c), Puts(c), now)
<1>1. Signs(c) \subseteq Nat /\ Puts(c) \subseteq Nat
  BY SignsTypes DEF LeaseInv
<1>2. \A e \in Signs(c) : e <= now + ApiTimeout
  BY DEF LeaseInv, CallOK, Signs
<1>3. \A u \in 1..MaxUploads : links[c][u] <= now + UrlLifetime
  BY DEF TimelyInv, RowTimely
<1> QED
  BY <1>1, <1>2, <1>3 DEF Near, Puts

\* Nobody starts or stops signing.
LEMMA SameSigns ==
  ASSUME links' = links,
         \A p \in Handlers : \/ api'[p] = api[p]
                             \/ api[p].pc # "presign" /\ api'[p].pc # "presign"
  PROVE  \A c \in Captures : Signs(c)' = Signs(c) /\ Puts(c)' = Puts(c)
<1> SUFFICES ASSUME NEW c \in Captures PROVE Signs(c)' = Signs(c) /\ Puts(c)' = Puts(c)
  OBVIOUS
<1>1. Signs(c)' = Signs(c)
  BY DEF Signs
<1> QED
  BY <1>1 DEF Puts

\* Invocation p starts to sign for c; whoever else signs goes on.
LEMMA OneMoreSign ==
  ASSUME Inv, Inv', links' = links, NEW p \in Handlers, NEW c \in Captures, NEW e \in Nat,
         \A q \in Handlers \ {p} : api'[q] = api[q],
         api[p].pc # "presign", api'[p].id = c, api'[p].end = e
  PROVE  /\ \A x \in Puts(c)' : x \in Nat /\ (x = e + UrlLifetime \/ \E y \in Puts(c) : x <= y)
         /\ \A d \in Captures \ {c} : Signs(d)' = Signs(d) /\ Puts(d)' = Puts(d)
<1>1. Signs(c)' \subseteq Signs(c) \cup {e}
  BY DEF Signs
<1>2. \A d \in Captures \ {c} : Signs(d)' = Signs(d)
  BY DEF Signs
<1>3. \A x \in Puts(c) : x \in Nat
  BY SignsTypes
<1>4. e + UrlLifetime \in Nat
  BY RecordConstants
<1>5. \A x \in Puts(c)' : x = e + UrlLifetime \/ x \in Puts(c)
  BY <1>1 DEF Puts
<1>6. \A d \in Captures \ {c} : Puts(d)' = Puts(d)
  BY <1>2 DEF Puts
<1> QED
  BY <1>2, <1>3, <1>4, <1>5, <1>6

\* Invocation p stops signing, with or without a URL.
LEMMA SignReturns ==
  ASSUME Inv, Inv', TimelyInv, NEW p \in Handlers, Presign(p) \/ ApiEnds(p),
         now <= api[p].end
  PROVE  \A c \in Captures :
           /\ Later(Signs(c), Puts(c), Signs(c)', Puts(c)')
           /\ \A u \in 1..MaxUploads : /\ links'[c][u] <= now + UrlLifetime
                                       /\ rec[c].State = "absent" => links'[c][u] = 0
<1> SUFFICES ASSUME NEW c \in Captures
             PROVE  /\ Later(Signs(c), Puts(c), Signs(c)', Puts(c)')
                    /\ \A u \in 1..MaxUploads :
                         /\ links'[c][u] <= now + UrlLifetime
                         /\ rec[c].State = "absent" => links'[c][u] = 0
  OBVIOUS
<1>1. api'[p] = IdleApi /\ api'[p].pc = "idle" /\ \A q \in Handlers \ {p} : api'[q] = api[q]
  BY DEF Presign, ApiEnds, Inv, TypeOK, IdleApi
<1>2. Signs(c)' \subseteq Signs(c)
  BY <1>1 DEF Signs
<1>3. /\ Puts(c) \subseteq Nat /\ now \in Nat /\ api[p].end \in Nat
      /\ \A u \in 1..MaxUploads : /\ links[c][u] \in Nat /\ links[c][u] <= now + UrlLifetime
                                  /\ rec[c].State = "absent" => links[c][u] = 0
  <2>1. Puts(c) \subseteq Nat
    BY SignsTypes
  <2>2. now \in Nat /\ api[p].end \in Nat
    BY DEF Inv, TypeOK, ApiProcess
  <2>3. \A u \in 1..MaxUploads : links[c][u] \in Nat
    BY DEF Inv, TypeOK
  <2>4. \A u \in 1..MaxUploads : /\ links[c][u] <= now + UrlLifetime
                                 /\ rec[c].State = "absent" => links[c][u] = 0
    BY DEF TimelyInv, RowTimely
  <2> QED BY <2>1, <2>2, <2>3, <2>4
<1>4. ASSUME NEW u \in 1..MaxUploads
      PROVE  /\ links'[c][u] \in Nat /\ links'[c][u] <= now + UrlLifetime
             /\ (rec[c].State = "absent" => links'[c][u] = 0)
             /\ \E y \in Puts(c) : links'[c][u] <= y
  <2>1. links[c][u] \in Puts(c)
    BY DEF Puts
  <2>2. CASE links'[c][u] = links[c][u]
    BY <1>3, <2>1, <2>2
  <2>3. CASE links'[c][u] # links[c][u]
    <3>0. links \in [Captures -> [1..MaxUploads -> Nat]]
      BY DEF Inv, TypeOK
    <3> DEFINE i == api[p].id
               v == api[p].u
               n == now + UrlLifetime
    <3>3. Presign(p) /\ links' = [links EXCEPT ![i] = [links[i] EXCEPT ![v] = n]]
      BY <2>3 DEF Presign, ApiEnds
    <3>4. links[c] \in [1..MaxUploads -> Nat]
      BY <3>0
    <3> HIDE DEF i, v, n
    <3>5. i = c
      BY <2>3, <3>0, <3>3
    <3>6. links'[c] = [links[c] EXCEPT ![v] = n]
      BY <3>0, <3>3, <3>5
    <3>7. links'[c][u] = n
      BY <2>3, <3>4, <3>6
    <3>1. Presign(p) /\ api[p].id = c /\ links'[c][u] = now + UrlLifetime
      BY <3>3, <3>5, <3>7 DEF i, n
    <3>2. api[p].end + UrlLifetime \in Puts(c)
      BY <3>1 DEF Presign, Puts, Signs
    <3>8. rec[c].State # "absent"
      BY <3>1 DEF Presign, TimelyInv, CallTimely, Signing
    <3> QED BY <1>3, <3>1, <3>2, <3>8, RecordConstants
  <2> QED BY <2>2, <2>3
<1>5. \A x \in Puts(c)' : x \in Nat /\ \E y \in Puts(c) : x <= y
  <2> SUFFICES ASSUME NEW x \in Puts(c)' PROVE x \in Nat /\ \E y \in Puts(c) : x <= y
    OBVIOUS
  <2>1. (\E e \in Signs(c) : x = e + UrlLifetime) \/ (\E u \in 1..MaxUploads : x = links'[c][u])
    BY <1>2 DEF Puts
  <2>2. CASE \E e \in Signs(c) : x = e + UrlLifetime
    <3>1. x \in Puts(c)
      BY <2>2 DEF Puts
    <3> QED BY <1>3, <3>1
  <2> QED BY <1>4, <2>1, <2>2
<1> QED
  BY <1>2, <1>4, <1>5 DEF Later

----------------------------------------------------------------------------
\* What a step does to the schedules of one capture.

\* Those of everybody who did not move.
OthersTimely(c) ==
  /\ RowTimely(c)'
  /\ \A p \in Handlers : api'[p] = api[p] => CallTimely(c, p)'
  /\ \A w \in Workers : worker'[w] = worker[w] => WorkTimely(c, w)'

\* The row of c was left alone, and nothing more is to be signed for it.
LEMMA KeptTimely ==
  ASSUME LeaseInv, LeaseInv', TimelyInv, NEW c \in Captures, rec'[c] = rec[c], now <= now',
         Later(Signs(c), Puts(c), Signs(c)', Puts(c)'),
         \A u \in 1..MaxUploads : /\ links'[c][u] <= now' + UrlLifetime
                                  /\ rec[c].State = "absent" => links'[c][u] = 0
  PROVE  OthersTimely(c)
<1>1. /\ rec[c] \in Record /\ now \in Nat /\ now' \in Nat /\ Puts(c) \subseteq Nat
      /\ rec[c].ExpiresAt + ApiTimeout + UrlLifetime \in Nat
  <2>1. rec[c] \in Record /\ now \in Nat /\ now' \in Nat
    BY DEF LeaseInv, Inv, TypeOK
  <2>2. rec[c].ExpiresAt \in Nat
    BY <2>1 DEF Record
  <2>3. Puts(c) \subseteq Nat
    BY SignsTypes DEF LeaseInv
  <2> QED BY <2>1, <2>2, <2>3, RecordConstants, LifecycleConstants
<1>2. \A r \in Record : Timely(r, Signs(c), Puts(c), now) => Timely(r, Signs(c)', Puts(c)', now')
  BY <1>1, TimelyLater
<1>3. RowTimely(c)'
  <2>1. RowTimely(c)
    BY DEF TimelyInv
  <2>2. Timely(rec[c], Signs(c)', Puts(c)', now')
    BY <1>1, <1>2, <2>1 DEF RowTimely
  <2>3. rec[c].State # "absent" => Before(Puts(c)', rec[c].ExpiresAt + ApiTimeout + UrlLifetime)
    BY <1>1, <2>1, BeforeLater DEF RowTimely
  <2> QED BY <2>2, <2>3 DEF RowTimely
<1>4. ASSUME NEW p \in Handlers, api'[p] = api[p] PROVE CallTimely(c, p)'
  <2>1. CallTimely(c, p) /\ api[p].r \in Record
    BY DEF TimelyInv, LeaseInv, Inv, TypeOK, ApiProcess
  <2>2. Timely(api[p].r, Signs(c), Puts(c), now) => Timely(api[p].r, Signs(c)', Puts(c)', now')
    BY <1>2, <2>1
  <2>3. api[p].id = c => ApiCanWrite(p)' = ApiCanWrite(p)
    BY <1>4 DEF ApiCanWrite, CanSwap
  <2>4. Signing(p)' = Signing(p)
    BY <1>4 DEF Signing
  <2> QED BY <1>4, <2>1, <2>2, <2>3, <2>4 DEF CallTimely
<1>5. ASSUME NEW w \in Workers, worker'[w] = worker[w] PROVE WorkTimely(c, w)'
  <2>1. WorkTimely(c, w) /\ worker[w].r \in Record /\ worker[w].r.Due \in Nat
    BY DEF TimelyInv, LeaseInv, Inv, TypeOK, WorkerProcess, Record
  <2>2. Timely(worker[w].r, Signs(c), Puts(c), now) => Timely(worker[w].r, Signs(c)', Puts(c)', now')
    BY <1>2, <2>1
  <2>3. worker[w].id = c => WorkerCanWrite(w)' = WorkerCanWrite(w)
    BY <1>5 DEF WorkerCanWrite, CanSwap
  <2>4. worker[w].r.Due <= now => worker[w].r.Due <= now'
    BY <1>1, <2>1
  <2> QED BY <1>5, <2>1, <2>2, <2>3, <2>4 DEF WorkTimely
<1> QED
  BY <1>3, <1>4, <1>5 DEF OthersTimely

\* The row of c was written, and fits what is signed and to be signed.
LEMMA ReplacedTimely ==
  ASSUME LeaseInv, TimelyInv, NEW c \in Captures, NEW s \in Record,
         rec'[c] = s, s.Revision = rec[c].Revision + 1, now' = now, links' = links,
         \/ s.State # "absent" /\ s.ExpiresAt = rec[c].ExpiresAt
         \/ s.State # "absent" /\ rec[c].State = "absent",
         Timely(s, Signs(c)', Puts(c)', now),
         Before(Puts(c)', s.ExpiresAt + ApiTimeout + UrlLifetime)
  PROVE  OthersTimely(c)
<1>1. rec[c].Revision \in Nat /\ s.Revision \in Nat
  BY DEF LeaseInv, Inv, TypeOK, Record
<1>2. RowTimely(c)'
  <2>1. \A u \in 1..MaxUploads : links[c][u] <= now + UrlLifetime
    BY DEF TimelyInv, RowTimely
  <2> QED BY <2>1 DEF RowTimely
<1>3. ASSUME NEW p \in Handlers, api'[p] = api[p] PROVE CallTimely(c, p)'
  <2>1. /\ CallTimely(c, p) /\ ApiOK(p) /\ api[p].r.Revision \in Nat
    BY DEF TimelyInv, LeaseInv, Inv, TypeOK, ApiProcess, Record
  <2>2. api[p].id = c => ~ApiCanWrite(p)'
    BY <1>1, <1>3, <2>1 DEF ApiCanWrite, ApiOK, Fenced, CanSwap
  <2>3. Signing(p)' = Signing(p)
    BY <1>3 DEF Signing
  <2> QED BY <1>3, <2>1, <2>2, <2>3 DEF CallTimely
<1>4. ASSUME NEW w \in Workers, worker'[w] = worker[w] PROVE WorkTimely(c, w)'
  <2>1. /\ WorkTimely(c, w) /\ WorkerOK(w) /\ worker[w].r.Revision \in Nat
    BY DEF TimelyInv, LeaseInv, Inv, TypeOK, WorkerProcess, Record
  <2>2. worker[w].id = c => ~WorkerCanWrite(w)'
    BY <1>1, <1>4, <2>1 DEF WorkerCanWrite, WorkerOK, Fenced, CanSwap
  <2> QED BY <1>4, <2>1, <2>2 DEF WorkTimely
<1> QED
  BY <1>2, <1>3, <1>4 DEF OthersTimely

\* Invocation p starts to sign for c while the row takes uploads: whoever is to write
\* the row has allowed for it.
LEMMA SignedTimely ==
  ASSUME LeaseInv, LeaseInv', TimelyInv, NEW c \in Captures, rec'[c] = rec[c], now' = now, links' = links,
         rec[c].State = "uploading", NEW e \in Nat,
         e < rec[c].ExpiresAt + ApiTimeout, e <= now + ApiTimeout,
         \A x \in Puts(c)' : x \in Nat /\ (x = e + UrlLifetime \/ \E y \in Puts(c) : x <= y)
  PROVE  OthersTimely(c)
<1>1. /\ rec[c] \in Record /\ now \in Nat /\ Puts(c) \subseteq Nat /\ RowOK(rec[c])
      /\ rec[c].ExpiresAt \in Nat
      /\ ApiTimeout \in Nat /\ UrlLifetime \in Nat /\ CleanupWait \in Nat
      /\ ApiTimeout + UrlLifetime < CleanupWait
  <2>1. rec[c] \in Record /\ now \in Nat /\ RowOK(rec[c])
    BY DEF LeaseInv, Inv, TypeOK
  <2>2. rec[c].ExpiresAt \in Nat
    BY <2>1 DEF Record
  <2>3. Puts(c) \subseteq Nat
    BY SignsTypes DEF LeaseInv
  <2> QED BY <2>1, <2>2, <2>3, RecordConstants, LifecycleConstants, DeployedTimings
<1>2. ASSUME NEW r \in Record, RowOK(r), Timely(r, Signs(c), Puts(c), now),
             r.State \notin {"ready", "absent"}, r.Work # "none",
             r.State = "finalizing" => r.Attempts = 0,
             r.Work = "cleanup" => e + UrlLifetime < r.Due
      PROVE  Timely(r, Signs(c)', Puts(c)', now)
  BY <1>1, <1>2, TimelySigned
<1>3. ASSUME NEW r \in Record, RowOK(r), Timely(r, Signs(c), Puts(c), now), NEW end \in Nat,
             now <= end, Follows(rec[c], r), Allows(rec[c], r, end)
      PROVE  Timely(r, Signs(c)', Puts(c)', now)
  <2>1. r.State \in {"uploading", "finalizing", "cancelled", "expired"}
    BY <1>3 DEF Follows, Moves
  <2>2. r.Work # "none" /\ r.ExpiresAt = rec[c].ExpiresAt
    BY <1>3 DEF Follows
  <2>3. r.State = "finalizing" => r.Attempts = 0
    BY <1>3 DEF Allows, RowOK
  <2>4. r.Work = "cleanup" => e + UrlLifetime < r.Due
    <3>1. CASE r.Work = "cleanup" /\ r.Due > end + ApiTimeout + UrlLifetime
      <4>1. r.Due \in Nat
        BY <1>3 DEF Record
      <4> QED BY <1>1, <1>3, <3>1, <4>1
    <3>2. CASE r.Due = r.ExpiresAt + CleanupWait
      BY <1>1, <2>2, <3>2
    <3> QED BY <1>3, <3>1, <3>2 DEF Allows, RowOK
  <2> QED BY <1>2, <1>3, <2>1, <2>2, <2>3, <2>4
<1>4. RowTimely(c)'
  <2>1. RowTimely(c)
    BY DEF TimelyInv
  <2>2. rec[c].Work = "cleanup" /\ rec[c].Due = rec[c].ExpiresAt + CleanupWait
    BY <1>1, <2>1 DEF RowTimely, Timely, RowOK, Record, Works
  <2>3. e + UrlLifetime < rec[c].Due
    BY <1>1, <2>2
  <2>4. Timely(rec[c], Signs(c)', Puts(c)', now)
    BY <1>1, <1>2, <2>1, <2>2, <2>3 DEF RowTimely
  <2>5. Before(Puts(c)', rec[c].ExpiresAt + ApiTimeout + UrlLifetime)
    <3> SUFFICES ASSUME NEW x \in Puts(c)'
                 PROVE  x < rec[c].ExpiresAt + ApiTimeout + UrlLifetime
      BY DEF Before
    <3>1. CASE x = e + UrlLifetime
      BY <1>1, <3>1
    <3>2. CASE \E y \in Puts(c) : x <= y
      <4>1. PICK y \in Puts(c) : x <= y
        BY <3>2
      <4>2. y \in Nat /\ x \in Nat /\ y < rec[c].ExpiresAt + ApiTimeout + UrlLifetime
        BY <1>1, <2>1 DEF RowTimely, Before
      <4> QED BY <1>1, <4>1, <4>2
    <3> QED BY <3>1, <3>2
  <2> QED BY <2>1, <2>4, <2>5 DEF RowTimely
<1>5. ASSUME NEW p \in Handlers, api'[p] = api[p] PROVE CallTimely(c, p)'
  <2>1. /\ CallTimely(c, p) /\ CallOK(p) /\ api[p].r \in Record /\ RowOK(api[p].r) /\ api[p].end \in Nat
    BY DEF TimelyInv, LeaseInv, Inv, TypeOK, ApiOK, ApiProcess
  <2>2. api[p].id = c => ApiCanWrite(p)' = ApiCanWrite(p)
    BY <1>5 DEF ApiCanWrite, CanSwap
  <2>3. Signing(p)' = Signing(p)
    BY <1>5 DEF Signing
  <2>4. ASSUME api[p].id = c, ApiCanWrite(p)
        PROVE  Timely(api[p].r, Signs(c)', Puts(c)', now)
    <3>1. /\ Timely(api[p].r, Signs(c), Puts(c), now) /\ Allows(rec[c], api[p].r, api[p].end)
          /\ Follows(rec[c], api[p].r) /\ now <= api[p].end
      BY <2>1, <2>4 DEF CallTimely, CallOK, ApiCanWrite
    <3> QED BY <1>3, <2>1, <3>1
  <2> QED BY <1>5, <2>1, <2>2, <2>3, <2>4 DEF CallTimely
<1>6. ASSUME NEW w \in Workers, worker'[w] = worker[w] PROVE WorkTimely(c, w)'
  <2>1. /\ WorkTimely(c, w) /\ LeaseOK(w) /\ worker[w].r \in Record /\ RowOK(worker[w].r)
        /\ worker[w].end \in Nat
    BY DEF TimelyInv, LeaseInv, Inv, TypeOK, WorkerOK, WorkerProcess
  <2>2. worker[w].id = c => WorkerCanWrite(w)' = WorkerCanWrite(w)
    BY <1>6 DEF WorkerCanWrite, CanSwap
  <2>3. ASSUME worker[w].id = c, WorkerCanWrite(w)
        PROVE  Timely(worker[w].r, Signs(c)', Puts(c)', now)
    <3>1. /\ Timely(worker[w].r, Signs(c), Puts(c), now) /\ Allows(rec[c], worker[w].r, worker[w].end)
          /\ Follows(rec[c], worker[w].r) /\ now <= worker[w].end
      BY <2>1, <2>3 DEF WorkTimely, LeaseOK, WorkerCanWrite
    <3> QED BY <1>3, <2>1, <3>1
  <2> QED BY <1>6, <2>1, <2>2, <2>3 DEF WorkTimely
<1> QED
  BY <1>4, <1>5, <1>6 DEF OthersTimely

\* No signing starts or stops, and the row of c was left alone.
LEMMA SameTimely ==
  ASSUME LeaseInv, LeaseInv', TimelyInv, NEW c \in Captures, rec'[c] = rec[c], now <= now', links' = links,
         \A p \in Handlers : \/ api'[p] = api[p]
                             \/ api[p].pc # "presign" /\ api'[p].pc # "presign"
  PROVE  OthersTimely(c)
<1>1. Signs(c)' = Signs(c) /\ Puts(c)' = Puts(c)
  BY SameSigns
<1>2. Puts(c) \subseteq Nat
  BY SignsTypes DEF LeaseInv
<1>3. Later(Signs(c), Puts(c), Signs(c)', Puts(c)')
  <2>1. \A x \in Puts(c) : x <= x
    BY <1>2
  <2> QED BY <1>1, <1>2, <2>1 DEF Later
<1>4. \A u \in 1..MaxUploads : /\ links'[c][u] <= now' + UrlLifetime
                               /\ rec[c].State = "absent" => links'[c][u] = 0
  <2>1. now \in Nat /\ now' \in Nat /\ \A u \in 1..MaxUploads : links[c][u] \in Nat
    BY DEF LeaseInv, Inv, TypeOK
  <2>2. \A u \in 1..MaxUploads : /\ links[c][u] <= now + UrlLifetime
                                 /\ rec[c].State = "absent" => links[c][u] = 0
    BY DEF TimelyInv, RowTimely
  <2> QED BY <2>1, <2>2, RecordConstants
<1> QED
  BY <1>3, <1>4, KeptTimely

LEMMA IdleTimely ==
  ASSUME NEW c \in Captures
  PROVE  /\ \A p \in Handlers : api'[p] = IdleApi => CallTimely(c, p)'
         /\ \A w \in Workers : worker'[w] = IdleWorker => WorkTimely(c, w)'
<1>1. IdleApi.pc = "idle" /\ IdleWorker.pc = "idle"
  BY DEF IdleApi, IdleWorker
<1> QED
  BY <1>1 DEF CallTimely, WorkTimely, Signing, ApiCanWrite, WorkerCanWrite

\* Invocation p plans to write over row r.
LEMMA PlannerTimely ==
  ASSUME NEW p \in Handlers, NEW c \in Captures, NEW r \in Record, RowOK(r),
         now \in Nat, now' = now, NEW end \in Nat, end <= now + ApiTimeout,
         PlanIs(api'[p], c, r, end), api'[p].pc = "swap", rec'[c] = r,
         NEW signs, NEW puts, Signs(c)' = signs, Puts(c)' = puts,
         Near(signs, puts, now), Timely(r, signs, puts, now)
  PROVE  \A d \in Captures : CallTimely(d, p)'
<1> DEFINE s == api'[p].r
<1>1. api'[p].id = c /\ api'[p].end = end
  BY DEF PlanIs
<1>2. /\ r.ExpiresAt \in Nat /\ UrlLifetime \in Nat /\ ApiTimeout \in Nat /\ CleanupWait \in Nat
      /\ 2 * ApiTimeout + UrlLifetime < CleanupWait
  BY RecordConstants, LifecycleConstants, DeployedTimings DEF Record
<1>3. Timely(s, signs, puts, now)
  BY ApiTimely DEF PlanIs
<1>4. api'[p].op = "upload" =>
        /\ r.State = "uploading" /\ s.State = "uploading" /\ s.ExpiresAt = r.ExpiresAt
        /\ end < r.ExpiresAt + ApiTimeout
  <2>1. \A x \in Slots : /\ Selected(r, x).State = r.State
                         /\ Selected(r, x).ExpiresAt = r.ExpiresAt
    BY DEF Selected, Record
  <2>2. now < r.ExpiresAt => end < r.ExpiresAt + ApiTimeout
    BY <1>2
  <2> QED BY <2>1, <2>2 DEF PlanIs
<1>5. Allows(r, s, end)
  <2> SUFFICES ASSUME r.State = "uploading" PROVE Allows(r, s, end)
    BY DEF Allows
  <2>1. r.Work = "cleanup" /\ r.Attempts = 0 /\ r.Due = r.ExpiresAt + CleanupWait
    BY DEF Timely, RowOK, Record, Works
  <2>2. CASE \E x \in Slots : s = Selected(r, x)
    BY <2>1, <2>2 DEF Selected, Record, Allows
  <2>3. CASE s = Finalized(r, now)
    BY <2>1, <2>3 DEF Finalized, Record, Allows
  <2>4. CASE s = Cancelled(r, now)
    <3>1. s.Work = "cleanup" /\ s.Due = now + CleanupWait
      BY <2>4 DEF Cancelled, Record
    <3>2. now + CleanupWait > end + ApiTimeout + UrlLifetime
      BY <1>2
    <3> QED BY <3>1, <3>2 DEF Allows
  <2> QED BY <2>2, <2>3, <2>4 DEF PlanIs
<1> QED
  BY <1>1, <1>3, <1>4, <1>5 DEF CallTimely, Signing

\* Invocation p is to sign a URL for row r.
LEMMA SignerTimely ==
  ASSUME NEW p \in Handlers, NEW c \in Captures, NEW r \in Record,
         NEW end \in Nat, end < r.ExpiresAt + ApiTimeout, r.State = "uploading",
         api'[p].pc = "presign", api'[p].id = c, api'[p].end = end,
         api'[p].r.State = "uploading", api'[p].r.ExpiresAt = r.ExpiresAt, rec'[c] = r
  PROVE  \A d \in Captures : CallTimely(d, p)'
BY DEF CallTimely, Signing, ApiCanWrite

TimelyFor(c) ==
  /\ RowTimely(c)
  /\ \A p \in Handlers : CallTimely(c, p)
  /\ \A w \in Workers : WorkTimely(c, w)

LEMMA Everybody ==
  ASSUME NEW c \in Captures, OthersTimely(c),
         \A p \in Handlers : api'[p] # api[p] => CallTimely(c, p)',
         \A w \in Workers : worker'[w] # worker[w] => WorkTimely(c, w)'
  PROVE  TimelyFor(c)'
BY DEF OthersTimely, TimelyFor

----------------------------------------------------------------------------
\* Each action keeps TimelyInv.

LEMMA EnvironmentTimely ==
  ASSUME LeaseInv, LeaseInv', TimelyInv, rec' = rec, links' = links, now <= now',
         api' = api,
         \A w \in Workers : worker'[w] = worker[w] \/ worker'[w] = IdleWorker
  PROVE  \A c \in Captures : TimelyFor(c)'
<1> SUFFICES ASSUME NEW c \in Captures PROVE TimelyFor(c)'
  OBVIOUS
<1>1. OthersTimely(c)
  BY SameTimely
<1>2. \A w \in Workers : worker'[w] # worker[w] => WorkTimely(c, w)'
  BY IdleTimely
<1> QED
  BY <1>1, <1>2, Everybody

LEMMA CreateTimely ==
  ASSUME LeaseInv, LeaseInv', TimelyInv, NEW c \in Captures, Create(c)
  PROVE  \A d \in Captures : TimelyFor(d)'
<1> DEFINE s == Created(now)
<1>1. /\ rec[c].State = "absent" /\ rec' = [rec EXCEPT ![c] = s]
      /\ now' = now /\ api' = api /\ worker' = worker /\ links' = links
  BY DEF Create
<1>2. s \in Record /\ s.Revision = rec[c].Revision + 1 /\ now \in Nat
  BY <1>1, CreatedType, CreatedOK DEF LeaseInv, Inv, TypeOK, RowOK
<1>3. rec'[c] = s /\ \A d \in Captures \ {c} : rec'[d] = rec[d]
  BY <1>1 DEF LeaseInv, Inv, TypeOK
<1>4. Signs(c)' = Signs(c) /\ Puts(c)' = Puts(c)
  BY <1>1, SameSigns
<1>5. Before(Puts(c), now) /\ Puts(c) \subseteq Nat
  <2>1. rec[c].Work = "none" /\ RowTimely(c) /\ Puts(c) \subseteq Nat
    BY <1>1, SignsTypes DEF LeaseInv, Inv, RowOK, TimelyInv
  <2> QED BY <2>1 DEF RowTimely, Timely
<1>6. /\ s.State = "uploading" /\ s.Work = "cleanup" /\ s.Attempts = 0
      /\ s.ExpiresAt = now + SessionLifetime
      /\ s.Due = now + SessionLifetime + CleanupWait
  BY DEF Created, Absent
<1>7. Timely(s, Signs(c)', Puts(c)', now) /\ Before(Puts(c)', s.ExpiresAt + ApiTimeout + UrlLifetime)
  <2>1. \A x \in Nat : x < now => /\ x < now + SessionLifetime + CleanupWait
                                  /\ x < now + SessionLifetime + ApiTimeout + UrlLifetime
    BY <1>2, RecordConstants, LifecycleConstants
  <2> HIDE DEF s
  <2> QED BY <1>4, <1>5, <1>6, <2>1 DEF Timely, Before
<1> HIDE DEF s
<1>8. OthersTimely(c)
  BY <1>1, <1>2, <1>3, <1>6, <1>7, ReplacedTimely
<1>9. \A d \in Captures \ {c} : OthersTimely(d)
  BY <1>1, <1>2, <1>3, SameTimely
<1> QED
  BY <1>1, <1>8, <1>9, Everybody

\* The facts about the row of c that planning from it needs.
LEMMA RowNow ==
  ASSUME LeaseInv, TimelyInv, NEW c \in Captures
  PROVE  /\ rec[c] \in Record /\ RowOK(rec[c]) /\ now \in Nat
         /\ Near(Signs(c), Puts(c), now)
         /\ Timely(rec[c], Signs(c), Puts(c), now)
BY NearNow DEF LeaseInv, Inv, TypeOK, TimelyInv, RowTimely

LEMMA InvokeTimely ==
  ASSUME LeaseInv, LeaseInv', TimelyInv, NEW p \in Handlers, NEW c \in Captures, NEW op \in Ops,
         Invoke(p, c, op)
  PROVE  \A d \in Captures : TimelyFor(d)'
<1> DEFINE end == now + ApiTimeout
           r == rec[c]
<1>1. PICK next \in Plans(op, c, r, end) : api' = [api EXCEPT ![p] = next]
  BY DEF Invoke
<1>2. rec' = rec /\ now' = now /\ worker' = worker /\ links' = links /\ api[p].pc = "idle"
  BY DEF Invoke
<1>3. /\ r \in Record /\ RowOK(r) /\ now \in Nat /\ end \in Nat
      /\ Near(Signs(c), Puts(c), now) /\ Timely(r, Signs(c), Puts(c), now)
  BY RowNow, LifecycleConstants
<1>4. api'[p] = next /\ \A q \in Handlers \ {p} : api'[q] = api[q]
  BY <1>1 DEF LeaseInv, Inv, TypeOK
<1>5. PlanIs(api'[p], c, r, end)
  BY <1>3, <1>4, PlanCases
<1>6. CASE api'[p].pc = "swap"
  <2>1. \A d \in Captures : Signs(d)' = Signs(d) /\ Puts(d)' = Puts(d)
    BY <1>2, <1>4, <1>6, SameSigns
  <2>2. \A d \in Captures : CallTimely(d, p)'
    <3>1. end <= now + ApiTimeout /\ Signs(c)' = Signs(c) /\ Puts(c)' = Puts(c)
      BY <1>3, <2>1, LifecycleConstants
    <3> HIDE DEF end, r
    <3> QED BY <1>2, <1>3, <1>5, <1>6, <3>1, PlannerTimely DEF r
  <2>3. \A d \in Captures : OthersTimely(d)
    BY <1>2, <1>3, <1>4, <1>6, SameTimely
  <2> QED BY <1>2, <1>4, <2>2, <2>3, Everybody
<1>7. CASE api'[p].pc = "presign"
  <2>1. api'[p].r = r /\ r.State = "uploading" /\ now < r.ExpiresAt /\ api'[p].id = c /\ api'[p].end = end
    BY <1>5, <1>7 DEF PlanIs
  <2>2. end < r.ExpiresAt + ApiTimeout /\ end <= now + ApiTimeout
    BY <1>3, <2>1, LifecycleConstants DEF Record
  <2>3. \A d \in Captures : CallTimely(d, p)'
    BY <1>2, <1>3, <1>7, <2>1, <2>2, SignerTimely
  <2>4. /\ \A x \in Puts(c)' : x \in Nat /\ (x = end + UrlLifetime \/ \E y \in Puts(c) : x <= y)
        /\ \A d \in Captures \ {c} : Signs(d)' = Signs(d) /\ Puts(d)' = Puts(d)
    <3>1. Inv /\ Inv'
      BY DEF LeaseInv
    <3> HIDE DEF end
    <3> QED BY <1>2, <1>3, <1>4, <2>1, <3>1, OneMoreSign
  <2>5. OthersTimely(c)
    <3> HIDE DEF end
    <3> QED BY <1>2, <1>3, <2>1, <2>2, <2>4, SignedTimely
  <2>6. ASSUME NEW d \in Captures \ {c} PROVE OthersTimely(d)
    <3>1. Puts(d) \subseteq Nat
      BY SignsTypes DEF LeaseInv
    <3>2. Later(Signs(d), Puts(d), Signs(d)', Puts(d)')
      BY <2>4, <3>1 DEF Later
    <3>3. \A u \in 1..MaxUploads : /\ links[d][u] <= now + UrlLifetime
                                   /\ rec[d].State = "absent" => links[d][u] = 0
      BY DEF TimelyInv, RowTimely
    <3> QED BY <1>2, <1>3, <3>2, <3>3, KeptTimely
  <2> QED BY <1>2, <1>4, <2>3, <2>5, <2>6, Everybody
<1> QED
  BY <1>5, <1>6, <1>7 DEF PlanIs

LEMMA InvokeRecoveryTimely ==
  ASSUME LeaseInv, LeaseInv', TimelyInv, NEW p \in Handlers, NEW c \in Captures, NEW op \in Ops,
         InvokeRecovery(p, c, op)
  PROVE  \A d \in Captures : TimelyFor(d)'
<1> DEFINE s == Recovered(rec[c])
<1>1. rec' = rec /\ now' = now /\ worker' = worker /\ links' = links /\ api[p].pc = "idle"
  BY DEF InvokeRecovery
<1>2. /\ api'[p].pc = "recover" /\ api'[p].id = c /\ api'[p].r = s
      /\ \A q \in Handlers \ {p} : api'[q] = api[q]
  BY DEF InvokeRecovery, LeaseInv, Inv, TypeOK
<1>3. rec[c].State = "ready"
  BY DEF InvokeRecovery, Overdue
<1>4. Signs(c)' = Signs(c) /\ Puts(c)' = Puts(c)
  BY <1>1, <1>2, SameSigns
<1>5. Timely(s, Signs(c), Puts(c), now) /\ Allows(rec[c], s, api'[p].end) /\ now \in Nat
  BY <1>3, RowNow, ApiTimely DEF Allows
<1> HIDE DEF s
<1>6. \A d \in Captures : CallTimely(d, p)'
  BY <1>1, <1>2, <1>4, <1>5 DEF CallTimely, Signing
<1>7. \A d \in Captures : OthersTimely(d)
  BY <1>1, <1>2, <1>5, SameTimely
<1> QED
  BY <1>1, <1>2, <1>6, <1>7, Everybody

\* Row s was written over the row of c; no signing starts or stops.
LEMMA WrittenTimely ==
  ASSUME LeaseInv, LeaseInv', TimelyInv, NEW c \in Captures, NEW s \in Record,
         s.Revision = rec[c].Revision + 1, Follows(rec[c], s),
         Timely(s, Signs(c), Puts(c), now),
         rec' = [rec EXCEPT ![c] = s], now' = now, links' = links,
         \A p \in Handlers : \/ api'[p] = api[p]
                             \/ api[p].pc # "presign" /\ api'[p].pc # "presign"
  PROVE  /\ \A d \in Captures : OthersTimely(d)
         /\ \A d \in Captures : Signs(d)' = Signs(d) /\ Puts(d)' = Puts(d)
<1>1. rec'[c] = s /\ \A d \in Captures \ {c} : rec'[d] = rec[d]
  BY DEF LeaseInv, Inv, TypeOK
<1>2. \A d \in Captures : Signs(d)' = Signs(d) /\ Puts(d)' = Puts(d)
  BY SameSigns
<1>3. rec[c].State # "absent" /\ s.State # "absent" /\ s.ExpiresAt = rec[c].ExpiresAt
  BY DEF LeaseInv, Inv, RowOK, Follows, Moves
<1>4. Before(Puts(c), s.ExpiresAt + ApiTimeout + UrlLifetime)
  BY <1>3 DEF TimelyInv, RowTimely
<1>5. OthersTimely(c)
  BY <1>1, <1>2, <1>3, <1>4, ReplacedTimely
<1>6. \A d \in Captures \ {c} : OthersTimely(d)
  <2>1. now <= now'
    BY DEF LeaseInv, Inv, TypeOK
  <2> QED BY <1>1, <2>1, SameTimely
<1> QED
  BY <1>2, <1>5, <1>6

\* Row s was written over the row of c, and takes uploads; p starts to sign for it.
LEMMA WrittenSigned ==
  ASSUME LeaseInv, LeaseInv', TimelyInv, NEW c \in Captures, NEW s \in Record, RowOK(s),
         s.Revision = rec[c].Revision + 1, Follows(rec[c], s), s.State = "uploading",
         Timely(s, Signs(c), Puts(c), now),
         rec' = [rec EXCEPT ![c] = s], now' = now, links' = links, worker' = worker,
         NEW p \in Handlers, \A q \in Handlers \ {p} : api'[q] = api[q],
         api[p].pc # "presign", api'[p].pc = "presign", api'[p].id = c,
         NEW e \in Nat, api'[p].end = e, e < s.ExpiresAt + ApiTimeout,
         api'[p].r.State = "uploading", api'[p].r.ExpiresAt = s.ExpiresAt
  PROVE  \A d \in Captures : TimelyFor(d)'
<1>1. rec'[c] = s /\ \A d \in Captures \ {c} : rec'[d] = rec[d]
  BY DEF LeaseInv, Inv, TypeOK
<1>2. /\ now \in Nat /\ s.ExpiresAt \in Nat /\ Puts(c) \subseteq Nat
      /\ ApiTimeout \in Nat /\ UrlLifetime \in Nat /\ CleanupWait \in Nat
      /\ ApiTimeout + UrlLifetime < CleanupWait
  <2>1. now \in Nat /\ s.ExpiresAt \in Nat
    BY DEF LeaseInv, Inv, TypeOK, Record
  <2>2. Puts(c) \subseteq Nat
    BY SignsTypes DEF LeaseInv
  <2> QED BY <2>1, <2>2, RecordConstants, LifecycleConstants, DeployedTimings
<1>3. /\ \A x \in Puts(c)' : x \in Nat /\ (x = e + UrlLifetime \/ \E y \in Puts(c) : x <= y)
      /\ \A d \in Captures \ {c} : Signs(d)' = Signs(d) /\ Puts(d)' = Puts(d)
  BY OneMoreSign DEF LeaseInv
<1>4. rec[c].State # "absent" /\ s.ExpiresAt = rec[c].ExpiresAt
  BY DEF LeaseInv, Inv, RowOK, Follows
<1>5. Before(Puts(c), s.ExpiresAt + ApiTimeout + UrlLifetime)
  BY <1>4 DEF TimelyInv, RowTimely
<1>6. Before(Puts(c)', s.ExpiresAt + ApiTimeout + UrlLifetime)
  <2> SUFFICES ASSUME NEW x \in Puts(c)' PROVE x < s.ExpiresAt + ApiTimeout + UrlLifetime
    BY DEF Before
  <2>1. CASE x = e + UrlLifetime
    BY <1>2, <2>1
  <2>2. CASE \E y \in Puts(c) : x <= y
    <3>1. PICK y \in Puts(c) : x <= y
      BY <2>2
    <3>2. y \in Nat /\ x \in Nat /\ y < s.ExpiresAt + ApiTimeout + UrlLifetime
      BY <1>2, <1>3, <1>5, <3>1 DEF Before
    <3> QED BY <1>2, <3>1, <3>2
  <2> QED BY <1>3, <2>1, <2>2
<1>7. Timely(s, Signs(c)', Puts(c)', now)
  <2>1. s.Work = "cleanup" /\ s.Due = s.ExpiresAt + CleanupWait
    BY DEF RowOK, Timely, Record, Works
  <2>2. e + UrlLifetime < s.Due
    BY <1>2, <2>1
  <2> QED BY <1>2, <1>3, <2>1, <2>2, TimelySigned
<1>8. OthersTimely(c)
  BY <1>1, <1>4, <1>6, <1>7, ReplacedTimely
<1>9. ASSUME NEW d \in Captures \ {c} PROVE OthersTimely(d)
  <2>1. Puts(d) \subseteq Nat
    BY SignsTypes DEF LeaseInv
  <2>2. Later(Signs(d), Puts(d), Signs(d)', Puts(d)')
    BY <1>3, <2>1 DEF Later
  <2>3. \A u \in 1..MaxUploads : /\ links[d][u] <= now + UrlLifetime
                                 /\ rec[d].State = "absent" => links[d][u] = 0
    BY DEF TimelyInv, RowTimely
  <2> QED BY <1>1, <1>2, <2>2, <2>3, KeptTimely
<1>10. \A d \in Captures : CallTimely(d, p)'
  BY <1>1, SignerTimely
<1> QED
  BY <1>8, <1>9, <1>10, Everybody

\* What an invocation about to write knows of its row.
LEMMA ApiWrites ==
  ASSUME LeaseInv, TimelyInv, NEW p \in Handlers, ApiCanWrite(p)
  PROVE  LET c == api[p].id  s == api[p].r
         IN /\ c \in Captures /\ s \in Record /\ RowOK(s) /\ now \in Nat
            /\ s.Revision = rec[c].Revision + 1 /\ Follows(rec[c], s)
            /\ Timely(s, Signs(c), Puts(c), now) /\ Near(Signs(c), Puts(c), now)
            /\ api[p].end \in Nat /\ api[p].end <= now + ApiTimeout
            /\ api[p].pc # "presign"
            /\ api[p].pc = "swap" /\ api[p].op = "upload" =>
                 s.State = "uploading" /\ api[p].end < s.ExpiresAt + ApiTimeout
<1> DEFINE c == api[p].id
           s == api[p].r
<1>1. /\ c \in Captures /\ s \in Record /\ RowOK(s) /\ now \in Nat
      /\ s.Revision = rec[c].Revision + 1 /\ api[p].end \in Nat
  BY ApiHolds DEF ApiCanWrite, LeaseInv, Inv, TypeOK, ApiProcess
<1>2. Follows(rec[c], s) /\ api[p].end <= now + ApiTimeout /\ api[p].pc # "presign"
  BY DEF ApiCanWrite, LeaseInv, CallOK
<1>3. CallTimely(c, p)
  BY <1>1 DEF TimelyInv
<1>4. Near(Signs(c), Puts(c), now)
  BY <1>1, NearNow
<1> QED
  BY <1>1, <1>2, <1>3, <1>4 DEF CallTimely, Signing

LEMMA RecoverTimely ==
  ASSUME LeaseInv, LeaseInv', TimelyInv, NEW p \in Handlers, Recover(p)
  PROVE  \A d \in Captures : TimelyFor(d)'
<1> DEFINE c == api[p].id
           s == api[p].r
           end == api[p].end
           plans == Plans(api[p].op, c, s, end)
<1>1. /\ api[p].pc = "recover" /\ ApiCanWrite(p)
      /\ rec' = [rec EXCEPT ![c] = s]
      /\ now' = now /\ worker' = worker /\ links' = links
  BY DEF Recover, ApiCanWrite
<1>2. PICK next \in IF plans = {} THEN {IdleApi} ELSE plans : api' = [api EXCEPT ![p] = next]
  BY DEF Recover
<1>3. /\ c \in Captures /\ s \in Record /\ RowOK(s) /\ now \in Nat
      /\ s.Revision = rec[c].Revision + 1 /\ Follows(rec[c], s)
      /\ Timely(s, Signs(c), Puts(c), now) /\ Near(Signs(c), Puts(c), now)
      /\ end \in Nat /\ end <= now + ApiTimeout /\ api[p].pc # "presign"
  BY <1>1, ApiWrites
<1>4. rec'[c] = s /\ api'[p] = next /\ \A q \in Handlers \ {p} : api'[q] = api[q]
  BY <1>1, <1>2, <1>3 DEF LeaseInv, Inv, TypeOK
<1>5. next = IdleApi \/ PlanIs(next, c, s, end)
  <2>1. api[p].op \in Ops
    BY DEF LeaseInv, Inv, TypeOK, ApiProcess
  <2> QED BY <1>2, <1>3, <2>1, PlanCases
<1> HIDE DEF c, s, end, plans
<1>6. CASE next = IdleApi \/ (PlanIs(next, c, s, end) /\ next.pc = "swap")
  <2>1. next.pc # "presign"
    BY <1>6 DEF IdleApi
  <2>2. /\ \A d \in Captures : OthersTimely(d)
        /\ \A d \in Captures : Signs(d)' = Signs(d) /\ Puts(d)' = Puts(d)
    BY <1>1, <1>3, <1>4, <2>1, WrittenTimely
  <2>3. \A d \in Captures : CallTimely(d, p)'
    <3>1. CASE next = IdleApi
      BY <1>4, <3>1, IdleTimely
    <3>2. CASE PlanIs(next, c, s, end) /\ next.pc = "swap"
      BY <1>1, <1>3, <1>4, <2>2, <3>2, PlannerTimely
    <3> QED BY <1>6, <3>1, <3>2
  <2> QED BY <1>1, <1>4, <2>2, <2>3, Everybody
<1>7. CASE PlanIs(next, c, s, end) /\ next.pc = "presign"
  <2>1. /\ next.r = s /\ s.State = "uploading" /\ now < s.ExpiresAt
        /\ next.id = c /\ next.end = end
    BY <1>7 DEF PlanIs
  <2>2. end < s.ExpiresAt + ApiTimeout
    <3>1. s.ExpiresAt \in Nat
      BY <1>3 DEF Record
    <3> QED BY <1>3, <2>1, <3>1, LifecycleConstants
  <2> QED BY <1>1, <1>3, <1>4, <1>7, <2>1, <2>2, WrittenSigned
<1> QED
  BY <1>5, <1>6, <1>7 DEF PlanIs

LEMMA ApiSwapTimely ==
  ASSUME LeaseInv, LeaseInv', TimelyInv, NEW p \in Handlers, ApiSwap(p)
  PROVE  \A d \in Captures : TimelyFor(d)'
<1> DEFINE c == api[p].id
           s == api[p].r
           end == api[p].end
<1>1. /\ api[p].pc = "swap" /\ ApiCanWrite(p)
      /\ rec' = [rec EXCEPT ![c] = s]
      /\ now' = now /\ worker' = worker /\ links' = links
      /\ api' = [api EXCEPT ![p] = IF api[p].op = "upload"
                                   THEN [api[p] EXCEPT !.pc = "presign"] ELSE IdleApi]
  BY DEF ApiSwap, ApiCanWrite
<1>2. /\ c \in Captures /\ s \in Record /\ RowOK(s) /\ now \in Nat
      /\ s.Revision = rec[c].Revision + 1 /\ Follows(rec[c], s)
      /\ Timely(s, Signs(c), Puts(c), now)
      /\ end \in Nat /\ api[p].pc # "presign"
      /\ api[p].op = "upload" => s.State = "uploading" /\ end < s.ExpiresAt + ApiTimeout
  BY <1>1, ApiWrites
<1>3. \A q \in Handlers \ {p} : api'[q] = api[q]
  BY <1>1 DEF LeaseInv, Inv, TypeOK
<1>4. CASE api[p].op = "upload"
  <2>1. /\ api'[p].pc = "presign" /\ api'[p].id = c /\ api'[p].end = end /\ api'[p].r = s
    BY <1>1, <1>4 DEF LeaseInv, Inv, TypeOK, ApiProcess
  <2> HIDE DEF c, s, end
  <2> QED BY <1>1, <1>2, <1>3, <1>4, <2>1, WrittenSigned
<1>5. CASE api[p].op # "upload"
  <2>1. api'[p] = IdleApi /\ IdleApi.pc # "presign"
    BY <1>1, <1>5 DEF LeaseInv, Inv, TypeOK, IdleApi
  <2>2. \A d \in Captures : CallTimely(d, p)'
    BY <2>1, IdleTimely
  <2> HIDE DEF c, s, end
  <2>3. \A d \in Captures : OthersTimely(d)
    BY <1>1, <1>2, <1>3, <2>1, WrittenTimely
  <2> QED BY <1>1, <1>3, <2>2, <2>3, Everybody
<1> QED
  BY <1>4, <1>5

LEMMA ApiReturnsTimely ==
  ASSUME LeaseInv, LeaseInv', TimelyInv, NEW p \in Handlers, Presign(p) \/ ApiEnds(p)
  PROVE  \A d \in Captures : TimelyFor(d)'
<1>1. /\ rec' = rec /\ now' = now /\ worker' = worker /\ api[p].pc # "idle"
      /\ api' = [api EXCEPT ![p] = IdleApi]
  BY DEF Presign, ApiEnds
<1>2. api'[p] = IdleApi /\ \A q \in Handlers \ {p} : api'[q] = api[q]
  BY <1>1 DEF LeaseInv, Inv, TypeOK
<1>3. now <= api[p].end /\ now \in Nat /\ Inv /\ Inv'
  BY <1>1 DEF LeaseInv, CallOK, Inv, TypeOK
<1>4. \A d \in Captures :
        /\ Later(Signs(d), Puts(d), Signs(d)', Puts(d)')
        /\ \A u \in 1..MaxUploads : /\ links'[d][u] <= now + UrlLifetime
                                    /\ rec[d].State = "absent" => links'[d][u] = 0
  BY <1>3, SignReturns
<1>5. \A d \in Captures : OthersTimely(d)
  BY <1>1, <1>3, <1>4, KeptTimely
<1>6. \A d \in Captures : CallTimely(d, p)'
  BY <1>2, IdleTimely
<1> QED
  BY <1>1, <1>2, <1>5, <1>6, Everybody

LEMMA ReceiveTimely ==
  ASSUME LeaseInv, LeaseInv', TimelyInv, NEW w \in Workers, NEW job \in sent, Receive(w, job)
  PROVE  \A d \in Captures : TimelyFor(d)'
<1> DEFINE c == job.id
           r == rec[c]
<1>1. c \in Captures
  BY DEF LeaseInv, Inv, TypeOK, Job
<1>2. PICK next \in WorkPlans(c, r) : worker' = [worker EXCEPT ![w] = next]
  BY DEF Receive
<1>3. rec' = rec /\ now' = now /\ api' = api /\ links' = links /\ r.Due <= now
  BY DEF Receive
<1>4. worker'[w] = next /\ \A v \in Workers \ {w} : worker'[v] = worker[v]
  BY <1>2 DEF LeaseInv, Inv, TypeOK
<1>5. /\ r \in Record /\ RowOK(r) /\ now \in Nat
      /\ Near(Signs(c), Puts(c), now) /\ Timely(r, Signs(c), Puts(c), now)
  BY <1>1, RowNow
<1>6. WorkIs(next, c, r)
  BY <1>5, WorkCases
<1> HIDE DEF c, r
<1>7. Timely(next.r, Signs(c), Puts(c), now)
  BY <1>3, <1>5, <1>6, WorkerTimely DEF WorkIs, RowOK
<1>8. Allows(r, next.r, next.end)
  <2> SUFFICES ASSUME r.State = "uploading" PROVE Allows(r, next.r, next.end)
    BY DEF Allows
  <2>1. r.Work = "cleanup" /\ r.Due = r.ExpiresAt + CleanupWait
    BY <1>5 DEF Timely, RowOK, Record, Works
  <2>2. next.r = CleanupClaimed(r, now)
    BY <1>6, <2>1 DEF WorkIs
  <2> QED BY <1>5, <2>1, <2>2 DEF CleanupClaimed, Record, Allows
<1>9. next.pc = "claim" => /\ next.r.Work = "cleanup" => next.r.Due <= now
                           /\ next.r.Work = "validate" => next.r.Attempts >= 1
  <2>1. /\ ExtractionClaimed(r, now).Work = r.Work
        /\ CleanupClaimed(r, now).Work = r.Work /\ CleanupClaimed(r, now).Due = r.Due
        /\ ValidationClaimed(r, now).Work = r.Work
        /\ ValidationClaimed(r, now).Attempts = r.Attempts + 1 /\ r.Attempts \in Nat
    BY <1>5 DEF ExtractionClaimed, CleanupClaimed, ValidationClaimed, Record
  <2>2. r.State = "finalizing" => r.Work = "validate"
    BY <1>5 DEF RowOK
  <2>3. r.Attempts + 1 >= 1
    BY <2>1
  <2> QED BY <1>3, <1>6, <2>1, <2>2, <2>3 DEF WorkIs
<1>10. Signs(c)' = Signs(c) /\ Puts(c)' = Puts(c)
  BY <1>1, <1>3, SameSigns
<1>11. \A d \in Captures : WorkTimely(d, w)'
  <2>1. next.pc \in {"claim", "final"} /\ next.id = c
    BY <1>6 DEF WorkIs
  <2>2. r = rec[c]
    BY DEF r
  <2> QED BY <1>3, <1>4, <1>7, <1>8, <1>9, <1>10, <2>1, <2>2 DEF WorkTimely
<1>12. \A d \in Captures : OthersTimely(d)
  BY <1>3, <1>5, SameTimely
<1> QED
  BY <1>3, <1>4, <1>11, <1>12, Everybody

\* What a worker about to write knows of its row.
LEMMA WorkerWrites ==
  ASSUME LeaseInv, TimelyInv, NEW w \in Workers, WorkerCanWrite(w)
  PROVE  LET c == worker[w].id  s == worker[w].r
         IN /\ c \in Captures /\ s \in Record /\ RowOK(s) /\ now \in Nat
            /\ s.Revision = rec[c].Revision + 1 /\ Follows(rec[c], s)
            /\ Timely(s, Signs(c), Puts(c), now)
<1>1. /\ worker[w].id \in Captures /\ worker[w].r \in Record /\ RowOK(worker[w].r) /\ now \in Nat
      /\ worker[w].r.Revision = rec[worker[w].id].Revision + 1
  BY WorkerHolds DEF WorkerCanWrite, LeaseInv, Inv, TypeOK
<1>2. Follows(rec[worker[w].id], worker[w].r)
  BY DEF LeaseInv, LeaseOK
<1>3. WorkTimely(worker[w].id, w)
  BY <1>1 DEF TimelyInv
<1> QED
  BY <1>1, <1>2, <1>3 DEF WorkTimely

LEMMA WorkerWritesTimely ==
  ASSUME LeaseInv, LeaseInv', TimelyInv, NEW w \in Workers, Claim(w) \/ Finish(w) \/ Publish(w)
  PROVE  \A d \in Captures : TimelyFor(d)'
<1> DEFINE c == worker[w].id
           s == worker[w].r
<1>1. /\ WorkerCanWrite(w) /\ rec' = [rec EXCEPT ![c] = s]
      /\ now' = now /\ api' = api /\ links' = links
  BY DEF Claim, Finish, Publish, WorkerCanWrite
<1>2. /\ c \in Captures /\ s \in Record /\ s.Revision = rec[c].Revision + 1
      /\ Follows(rec[c], s) /\ Timely(s, Signs(c), Puts(c), now) /\ now \in Nat
  BY <1>1, WorkerWrites
<1>3. \A v \in Workers \ {w} : worker'[v] = worker[v]
  BY DEF Claim, Finish, Publish, LeaseInv, Inv, TypeOK
<1>4. \A d \in Captures : WorkTimely(d, w)'
  <2>1. CASE Claim(w)
    <3>1. /\ worker[w].pc = "claim" /\ worker'[w].pc = "run"
          /\ worker'[w].id = c /\ worker'[w].r = s
      BY <2>1 DEF Claim, LeaseInv, Inv, TypeOK, WorkerProcess
    <3>2. WorkTimely(c, w)
      BY <1>2 DEF TimelyInv
    <3> QED BY <1>1, <3>1, <3>2 DEF WorkTimely, WorkerCanWrite
  <2>2. CASE Finish(w) \/ Publish(w)
    <3>1. worker'[w] = IdleWorker
      BY <2>2 DEF Finish, Publish, LeaseInv, Inv, TypeOK
    <3> QED BY <3>1, IdleTimely
  <2> QED BY <2>1, <2>2
<1> HIDE DEF c, s
<1>5. \A d \in Captures : OthersTimely(d)
  BY <1>1, <1>2, WrittenTimely
<1> QED
  BY <1>1, <1>3, <1>4, <1>5, Everybody

LEMMA WriteTimely ==
  ASSUME LeaseInv, LeaseInv', TimelyInv, NEW w \in Workers, WriteDerivatives(w)
  PROVE  \A d \in Captures : TimelyFor(d)'
<1>1. /\ worker[w].pc = "run" /\ rec' = rec /\ now' = now /\ api' = api /\ links' = links
      /\ worker' = [worker EXCEPT ![w].pc = "wrote"]
  BY DEF WriteDerivatives, Running
<1>2. /\ worker'[w].pc = "wrote" /\ worker'[w].id = worker[w].id /\ worker'[w].r = worker[w].r
      /\ \A v \in Workers \ {w} : worker'[v] = worker[v]
      /\ now \in Nat
  BY <1>1 DEF LeaseInv, Inv, TypeOK, WorkerProcess
<1>3. \A d \in Captures : WorkTimely(d, w)'
  BY <1>1, <1>2 DEF TimelyInv, WorkTimely, WorkerCanWrite
<1>4. \A d \in Captures : OthersTimely(d)
  BY <1>1, <1>2, SameTimely
<1> QED
  BY <1>1, <1>2, <1>3, <1>4, Everybody

LEMMA DecisionTimely ==
  ASSUME LeaseInv, LeaseInv', TimelyInv, NEW w \in Workers,
         ValidationOk(w) \/ ValidationNotOk(w) \/ Extract(w) \/ DeleteCapture(w)
  PROVE  \A d \in Captures : TimelyFor(d)'
<1> DEFINE c == worker[w].id
           r == worker[w].r
<1>1. rec' = rec /\ now' = now /\ api' = api /\ links' = links
  BY DEF ValidationOk, ValidationNotOk, Extract, DeleteCapture
<1>2. Inv
  BY DEF LeaseInv
<1>3. PICK pc \in {"final", "publish"}, s \in Record :
        /\ Decides(w, r, pc, s)
        /\ worker' = [worker EXCEPT ![w] = [worker[w] EXCEPT !.pc = pc, !.r = s]]
        /\ Follows(r, s) /\ s.Revision = r.Revision + 1
  BY <1>2, DecisionCases
<1>4. Active(w)
  BY <1>2, DecisionCases
<1>5. /\ worker'[w].pc = pc /\ worker'[w].r = s /\ worker'[w].id = c
      /\ \A v \in Workers \ {w} : worker'[v] = worker[v]
  BY <1>3 DEF LeaseInv, Inv, TypeOK, WorkerProcess
<1>6. /\ c \in Captures /\ r \in Record /\ RowOK(r) /\ r.Revision \in Nat /\ rec[c].Revision \in Nat
  BY <1>2 DEF Inv, TypeOK, WorkerProcess, WorkerOK, Record
<1>7. rec'[c].Revision + 1 = s.Revision => r = rec[c]
  BY <1>1, <1>2, <1>3, <1>4, <1>6 DEF Inv, WorkerOK, Active
<1>8. /\ r.Work = "cleanup" => r.Due <= now
      /\ r.Work = "validate" => r.Attempts >= 1
      /\ r.State = "finalizing" => r.Work = "validate"
  BY <1>4, <1>6 DEF TimelyInv, WorkTimely, Active, RowOK
<1>9. r = rec[c] => /\ Timely(s, Signs(c), Puts(c), now)
                    /\ Allows(rec[c], s, worker'[w].end)
  <2> SUFFICES ASSUME r = rec[c]
               PROVE  /\ Timely(s, Signs(c), Puts(c), now)
                      /\ Allows(rec[c], s, worker'[w].end)
    OBVIOUS
  <2>1. Near(Signs(c), Puts(c), now) /\ Timely(r, Signs(c), Puts(c), now) /\ now \in Nat
    BY <1>6, RowNow
  <2>2. r.State # "uploading"
    BY <1>3, <1>6 DEF Decides, RowOK
  <2> HIDE DEF c, r
  <2>3. Timely(s, Signs(c), Puts(c), now)
    BY <1>3, <1>6, <1>8, <2>1, WorkerTimely DEF Decides
  <2> QED BY <2>2, <2>3 DEF Allows
<1>10. \A d \in Captures : Signs(d)' = Signs(d) /\ Puts(d)' = Puts(d)
  BY <1>1, SameSigns
<1>11. \A d \in Captures : WorkTimely(d, w)'
  <2>1. WorkerCanWrite(w)' => rec'[c].Revision + 1 = s.Revision
    BY <1>5 DEF WorkerCanWrite, CanSwap
  <2>2. worker[w].end = worker'[w].end /\ worker'[w].pc \notin {"claim", "run", "wrote"}
    BY <1>3, <1>5 DEF LeaseInv, Inv, TypeOK, WorkerProcess
  <2> SUFFICES ASSUME NEW d \in Captures, worker'[w].id = d PROVE WorkTimely(d, w)'
    BY DEF WorkTimely
  <2>3. d = c
    BY <1>5
  <2>4. WorkerCanWrite(w)' => Timely(s, Signs(d)', Puts(d)', now') /\ Allows(rec'[d], s, worker'[w].end)
    BY <1>1, <1>7, <1>9, <1>10, <2>1, <2>3
  <2> QED BY <1>5, <2>2, <2>4 DEF WorkTimely
<1>12. \A d \in Captures : OthersTimely(d)
  <2>1. now <= now'
    BY <1>1, <1>2 DEF Inv, TypeOK
  <2> QED BY <1>1, <2>1, SameTimely
<1> QED
  BY <1>1, <1>5, <1>11, <1>12, Everybody

LEMMA NextTimely ==
  ASSUME LeaseInv, LeaseInv', TimelyInv, [Next]_vars
  PROVE  \A d \in Captures : TimelyFor(d)'
<1>0. now \in Nat
  BY DEF LeaseInv, Inv, TypeOK
<1>1. CASE UNCHANGED vars
  BY <1>0, <1>1, EnvironmentTimely DEF vars
<1>2. CASE Tick
  <2>1. now <= now'
    BY <1>0, <1>2 DEF Tick
  <2> QED BY <1>2, <2>1, EnvironmentTimely DEF Tick
<1>3. CASE \E c \in Captures : Create(c) \/ Dispatch(c) \/ Lifecycle(c)
  <2>1. PICK c \in Captures : Create(c) \/ Dispatch(c) \/ Lifecycle(c)
    BY <1>3
  <2>2. CASE Dispatch(c) \/ Lifecycle(c)
    BY <1>0, <2>2, EnvironmentTimely DEF Dispatch, Lifecycle
  <2> QED BY <2>1, <2>2, CreateTimely
<1>4. CASE \E c \in Captures, u \in 1..MaxUploads : ClientPut(c, u) \/ LatePut(c, u)
  BY <1>0, <1>4, EnvironmentTimely DEF ClientPut, LatePut
<1>5. CASE \E p \in Handlers, c \in Captures, op \in Ops :
             Invoke(p, c, op) \/ InvokeRecovery(p, c, op)
  BY <1>5, InvokeTimely, InvokeRecoveryTimely
<1>6. CASE \E p \in Handlers : ApiStep(p)
  BY <1>6, RecoverTimely, ApiSwapTimely, ApiReturnsTimely DEF ApiStep
<1>7. CASE \E w \in Workers, job \in sent : Receive(w, job)
  BY <1>7, ReceiveTimely
<1>8. CASE \E w \in Workers : WorkerStep(w) \/ DeleteFails(w) \/ WorkerDies(w)
  <2>1. PICK w \in Workers : WorkerStep(w) \/ DeleteFails(w) \/ WorkerDies(w)
    BY <1>8
  <2>2. CASE LoseRace(w) \/ DeleteFails(w) \/ WorkerDies(w)
    <3>1. rec' = rec /\ now' = now /\ api' = api /\ links' = links
          /\ worker' = [worker EXCEPT ![w] = IdleWorker]
      BY <2>2 DEF LoseRace, DeleteFails, WorkerDies
    <3>2. \A v \in Workers : worker'[v] = worker[v] \/ worker'[v] = IdleWorker
      BY <3>1 DEF LeaseInv, Inv, TypeOK
    <3> QED BY <1>0, <3>1, <3>2, EnvironmentTimely
  <2> QED
    BY <2>1, <2>2, WorkerWritesTimely, WriteTimely, DecisionTimely DEF WorkerStep
<1> QED
  BY <1>1, <1>2, <1>3, <1>4, <1>5, <1>6, <1>7, <1>8 DEF Next

\* TimelyInv always: cleanup falls due only after what was signed, is being uploaded or
\* runs under a lease has come to its end.
THEOREM TimelyInductive == Spec => []TimelyInv
<1>1. Init => TimelyInv
  <2> SUFFICES ASSUME Init PROVE TimelyInv
    OBVIOUS
  <2>1. /\ \A p \in Handlers : api[p].pc = "idle"
        /\ \A w \in Workers : worker[w].pc = "idle"
        /\ now = 1 /\ \A c \in Captures : rec[c] = Absent
        /\ \A c \in Captures, u \in 1..MaxUploads : links[c][u] = 0
    BY DEF Init, IdleApi, IdleWorker
  <2>2. \A c \in Captures : Signs(c) = {}
    BY <2>1 DEF Signs
  <2>3. \A c \in Captures : \A x \in Puts(c) : x = 0
    BY <2>1, <2>2 DEF Puts
  <2>4. Absent.State = "absent" /\ Absent.Work = "none"
    BY DEF Absent
  <2>5. \A c \in Captures : RowTimely(c)
    BY <2>1, <2>3, <2>4, RecordConstants DEF RowTimely, Timely, Before
  <2>6. \A c \in Captures, p \in Handlers : CallTimely(c, p)
    BY <2>1 DEF CallTimely, Signing, ApiCanWrite
  <2>7. \A c \in Captures, w \in Workers : WorkTimely(c, w)
    BY <2>1 DEF WorkTimely, WorkerCanWrite
  <2> QED BY <2>1, <2>5, <2>6, <2>7 DEF TimelyInv
<1>2. LeaseInv /\ LeaseInv' /\ TimelyInv /\ [Next]_vars => TimelyInv'
  <2> SUFFICES ASSUME LeaseInv, LeaseInv', TimelyInv, [Next]_vars PROVE TimelyInv'
    OBVIOUS
  <2>1. now > 0 /\ now \in Nat
    BY DEF TimelyInv, LeaseInv, Inv, TypeOK
  <2>2. now' = now \/ now' = now + 1
    BY DEF Next, vars, Tick, Create, Dispatch, Lifecycle, ClientPut, LatePut, Invoke,
           InvokeRecovery, ApiStep,
           Recover, ApiSwap, Presign, ApiEnds, Receive, WorkerStep, Claim, Finish, Publish,
           LoseRace, WriteDerivatives, ValidationOk, ValidationNotOk, Extract, DeleteCapture,
           DeleteFails, WorkerDies
  <2>3. now' > 0
    BY <2>1, <2>2
  <2> QED BY <2>3, NextTimely DEF TimelyInv, TimelyFor
<1> QED
  BY <1>1, <1>2, LeaseInductive, PTL DEF Spec

----------------------------------------------------------------------------
\* The evidence.

\* What is written over a row that holds its images holds them too.

LEMMA PlanHeld ==
  ASSUME NEW r \in Record, RowOK(r), NEW c, NEW end, NEW plan, PlanIs(plan, c, r, end),
         plan.pc = "swap", NEW processed, Held(r, originals[c], late[c], processed)
  PROVE  Held(plan.r, originals[c], late[c], processed)
<1> USE DEF Held, RowOK, Record
<1>1. CASE \E s \in Slots : r.State = "uploading" /\ plan.r = Selected(r, s)
  BY <1>1 DEF Selected
<1>2. CASE r.State = "uploading" /\ Selection(r) \subseteq Uploaded(c) /\ plan.r = Finalized(r, now)
  BY <1>2 DEF Finalized, Uploaded
<1>3. CASE r.State = "failed" /\ plan.r = RetriedValidation(r, now)
  BY <1>3 DEF RetriedValidation
<1>4. CASE r.State = "ready" /\ plan.r = RetriedExtraction(r, now)
  BY <1>4 DEF RetriedExtraction
<1>5. CASE r.State = "ready" /\ plan.r = ReviewSaved(r)
  BY <1>5 DEF ReviewSaved
<1>6. CASE plan.r = Cancelled(r, now)
  BY <1>6 DEF Cancelled
<1> QED
  BY <1>1, <1>2, <1>3, <1>4, <1>5, <1>6 DEF PlanIs

LEMMA RecoveredHeld ==
  ASSUME NEW r \in Record, r.State = "ready", NEW images, NEW strays, NEW processed, Held(r, images, strays, processed)
  PROVE  Held(Recovered(r), images, strays, processed)
BY DEF Recovered, Held, Record

LEMMA WorkerRowsHeld ==
  ASSUME NEW r \in Record, RowOK(r), NEW images, NEW strays, NEW processed, Held(r, images, strays, processed),
         NEW t \in Nat, NEW b \in BOOLEAN
  PROVE  /\ r.State = "finalizing" =>
              /\ Held(Lapsed(r, t), images, strays, processed) /\ Held(GaveUp(r), images, strays, processed)
              /\ Held(ValidationClaimed(r, t), images, strays, processed)
              /\ Held(Rejected(r, t), images, strays, processed)
              /\ Held(ValidationFailed(r, t), images, strays, processed)
              /\ r.Generation \in processed => Held(Promoted(r, t, b), images, strays, processed)
         /\ r.Work = "cleanup" => Held(CleanupClaimed(r, t), images, strays, processed)
         /\ r.Work = "extract" =>
              /\ Held(ExtractionClaimed(r, t), images, strays, processed)
              /\ Held(ExtractionExpired(r, t), images, strays, processed)
              /\ Held(ExtractionFinished(r, t, b), images, strays, processed)
<1> USE DEF Held, RowOK, Record
<1>1. r.State = "finalizing" => Held(Lapsed(r, t), images, strays, processed)
  BY DEF Lapsed
<1>2. r.State = "finalizing" => Held(GaveUp(r), images, strays, processed)
  BY DEF GaveUp
<1>3. r.State = "finalizing" => Held(ValidationClaimed(r, t), images, strays, processed)
  BY DEF ValidationClaimed
<1>4. r.State = "finalizing" => Held(Rejected(r, t), images, strays, processed)
  BY DEF Rejected
<1>5. r.State = "finalizing" => Held(ValidationFailed(r, t), images, strays, processed)
  <2>1. CASE r.Attempts >= MaxAttempts
    BY <1>2, <2>1 DEF ValidationFailed
  <2>2. CASE ~(r.Attempts >= MaxAttempts)
    BY <2>2 DEF ValidationFailed
  <2> QED BY <2>1, <2>2
<1>6. r.State = "finalizing" /\ r.Generation \in processed => Held(Promoted(r, t, b), images, strays, processed)
  <2>1. CASE b
    BY <2>1 DEF Promoted
  <2>2. CASE ~b
    BY <2>2 DEF Promoted
  <2> QED BY <2>1, <2>2
<1>7. r.Work = "cleanup" => Held(CleanupClaimed(r, t), images, strays, processed)
  BY DEF CleanupClaimed
<1>8. r.Work = "extract" => /\ Held(ExtractionClaimed(r, t), images, strays, processed)
                            /\ Held(ExtractionExpired(r, t), images, strays, processed)
  BY DEF ExtractionClaimed, ExtractionExpired
<1>9. r.Work = "extract" => Held(ExtractionFinished(r, t, b), images, strays, processed)
  <2>1. CASE b
    BY <2>1 DEF ExtractionFinished
  <2>2. CASE ~b /\ r.ExtractionAttempts >= MaxAttempts
    BY <2>2 DEF ExtractionFinished
  <2>3. CASE ~b /\ ~(r.ExtractionAttempts >= MaxAttempts)
    BY <2>3 DEF ExtractionFinished
  <2> QED BY <2>1, <2>2, <2>3
<1> QED
  BY <1>1, <1>2, <1>3, <1>4, <1>5, <1>6, <1>7, <1>8, <1>9

LEMMA MoreImages ==
  ASSUME NEW r, NEW images, NEW strays, NEW processed, NEW more, NEW moreProcessed,
         Held(r, images, strays, processed), r.Work # "none",
         images \subseteq more, processed \subseteq moreProcessed
  PROVE  Held(r, more, strays, moreProcessed)
BY DEF Held

LEMMA MoreStrays ==
  ASSUME NEW r, NEW images, NEW strays, NEW processed, NEW more,
         Held(r, images, strays, processed), strays \subseteq more
  PROVE  Held(r, images, more, processed)
BY DEF Held

LEMMA NoImages ==
  ASSUME NEW r, r.State = "expired", NEW strays
  PROVE  Held(r, {}, strays, {})
BY DEF Held

----------------------------------------------------------------------------
\* What a step leaves of EvidenceInv for those who took no part in it.

OthersHeld(c) ==
  /\ RowHeld(c)'
  /\ \A p \in Handlers : api'[p] = api[p] => CallHeld(c, p)'
  /\ \A w \in Workers : worker'[w] = worker[w] => WorkHeld(c, w)'

HeldFor(c) ==
  /\ RowHeld(c)
  /\ \A p \in Handlers : CallHeld(c, p)
  /\ \A w \in Workers : WorkHeld(c, w)

LEMMA EverybodyHeld ==
  ASSUME NEW c \in Captures, OthersHeld(c),
         \A p \in Handlers : api'[p] # api[p] => CallHeld(c, p)',
         \A w \in Workers : worker'[w] # worker[w] => WorkHeld(c, w)'
  PROVE  HeldFor(c)'
BY DEF OthersHeld, HeldFor

LEMMA IdleHeld ==
  ASSUME NEW c
  PROVE  /\ \A p \in Handlers : api'[p] = IdleApi => CallHeld(c, p)'
         /\ \A w \in Workers : worker'[w] = IdleWorker => WorkHeld(c, w)'
<1>1. IdleApi.pc = "idle" /\ IdleWorker.pc = "idle"
  BY DEF IdleApi, IdleWorker
<1> QED
  BY <1>1 DEF CallHeld, WorkHeld, ApiCanWrite, WorkerCanWrite

\* The row of c is as it was, and so are its images.
LEMMA SameHeld ==
  ASSUME EvidenceInv, NEW c \in Captures, rec'[c] = rec[c],
         originals'[c] = originals[c], late'[c] = late[c], derivatives'[c] = derivatives[c]
  PROVE  OthersHeld(c)
<1>1. RowHeld(c)'
  BY DEF EvidenceInv, RowHeld
<1>2. ASSUME NEW p \in Handlers, api'[p] = api[p] PROVE CallHeld(c, p)'
  BY <1>2 DEF EvidenceInv, CallHeld, ApiCanWrite, CanSwap
<1>3. ASSUME NEW w \in Workers, worker'[w] = worker[w] PROVE WorkHeld(c, w)'
  BY <1>3 DEF EvidenceInv, WorkHeld, WorkerCanWrite, CanSwap
<1> QED
  BY <1>1, <1>2, <1>3 DEF OthersHeld

\* Nobody who can write the row of c, nor the row, says that its cleanup is done.
Undone(c) ==
  /\ rec[c].Work # "none"
  /\ \A p \in Handlers : ApiCanWrite(p) /\ api[p].id = c => api[p].r.Work # "none"
  /\ \A w \in Workers : WorkerCanWrite(w) /\ worker[w].id = c => worker[w].r.Work # "none"

LEMMA MoreHeld ==
  ASSUME EvidenceInv, NEW c \in Captures, rec'[c] = rec[c], Undone(c),
         originals[c] \subseteq originals'[c], derivatives[c] \subseteq derivatives'[c],
         late'[c] = late[c]
  PROVE  OthersHeld(c)
<1>1. RowHeld(c)'
  BY MoreImages DEF EvidenceInv, RowHeld, Undone
<1>2. ASSUME NEW p \in Handlers, api'[p] = api[p] PROVE CallHeld(c, p)'
  BY <1>2, MoreImages DEF EvidenceInv, CallHeld, ApiCanWrite, CanSwap, Undone
<1>3. ASSUME NEW w \in Workers, worker'[w] = worker[w] PROVE WorkHeld(c, w)'
  BY <1>3, MoreImages DEF EvidenceInv, WorkHeld, WorkerCanWrite, CanSwap, Undone
<1> QED
  BY <1>1, <1>2, <1>3 DEF OthersHeld

\* One more image of c, of a request that outlived its URL: also where nobody counts on it.
LEMMA StrayHeld ==
  ASSUME EvidenceInv, NEW c \in Captures, rec'[c] = rec[c],
         originals'[c] = originals[c], late[c] \subseteq late'[c],
         derivatives'[c] = derivatives[c]
  PROVE  OthersHeld(c)
<1>1. RowHeld(c)'
  BY MoreStrays DEF EvidenceInv, RowHeld
<1>2. ASSUME NEW p \in Handlers, api'[p] = api[p] PROVE CallHeld(c, p)'
  BY <1>2, MoreStrays DEF EvidenceInv, CallHeld, ApiCanWrite, CanSwap
<1>3. ASSUME NEW w \in Workers, worker'[w] = worker[w] PROVE WorkHeld(c, w)'
  BY <1>3, MoreStrays DEF EvidenceInv, WorkHeld, WorkerCanWrite, CanSwap
<1> QED
  BY <1>1, <1>2, <1>3 DEF OthersHeld

\* Row s, whose images are there, was written over the row of c.
LEMMA WrittenHeld ==
  ASSUME LeaseInv, EvidenceInv, NEW c \in Captures, NEW s \in Record,
         s.Revision = rec[c].Revision + 1, rec' = [rec EXCEPT ![c] = s],
         Held(s, originals[c], late[c], derivatives[c]),
         originals' = originals, late' = late, derivatives' = derivatives
  PROVE  \A d \in Captures : OthersHeld(d)
<1>1. rec'[c] = s /\ \A d \in Captures \ {c} : rec'[d] = rec[d]
  BY DEF LeaseInv, Inv, TypeOK
<1>2. rec[c].Revision \in Nat /\ s.Revision \in Nat
  BY DEF LeaseInv, Inv, TypeOK, Record
<1>3. ASSUME NEW p \in Handlers, api'[p] = api[p] PROVE CallHeld(c, p)'
  <2>1. api[p].r.Revision \in Nat /\ ApiOK(p)
    BY DEF LeaseInv, Inv, TypeOK, ApiProcess, Record
  <2>2. api[p].id = c => ~ApiCanWrite(p)'
    BY <1>1, <1>2, <1>3, <2>1 DEF ApiCanWrite, ApiOK, Fenced, CanSwap
  <2> QED BY <1>3, <2>2 DEF CallHeld
<1>4. ASSUME NEW w \in Workers, worker'[w] = worker[w] PROVE WorkHeld(c, w)'
  <2>1. worker[w].r.Revision \in Nat /\ WorkerOK(w)
    BY DEF LeaseInv, Inv, TypeOK, WorkerProcess, Record
  <2>2. worker[w].id = c => ~WorkerCanWrite(w)'
    BY <1>1, <1>2, <1>4, <2>1 DEF WorkerCanWrite, WorkerOK, Fenced, CanSwap
  <2> QED BY <1>4, <2>2 DEF WorkHeld, EvidenceInv
<1>5. OthersHeld(c)
  BY <1>1, <1>3, <1>4 DEF OthersHeld, RowHeld
<1>6. \A d \in Captures \ {c} : OthersHeld(d)
  BY <1>1, SameHeld
<1> QED
  BY <1>5, <1>6

----------------------------------------------------------------------------
\* Each action keeps EvidenceInv.

\* Steps that write neither a row nor the bucket, and start nothing.
LEMMA EnvironmentHeld ==
  ASSUME EvidenceInv, rec' = rec, originals' = originals, late' = late, derivatives' = derivatives,
         \A p \in Handlers : api'[p] = api[p] \/ api'[p] = IdleApi,
         \A w \in Workers : worker'[w] = worker[w] \/ worker'[w] = IdleWorker
  PROVE  \A c \in Captures : HeldFor(c)'
<1>1. \A c \in Captures : OthersHeld(c)
  BY SameHeld
<1> QED
  BY <1>1, IdleHeld, EverybodyHeld

LEMMA CreateHeld ==
  ASSUME LeaseInv, EvidenceInv, NEW c \in Captures, Create(c)
  PROVE  \A d \in Captures : HeldFor(d)'
<1> DEFINE s == Created(now)
<1>1. /\ rec[c].State = "absent" /\ rec' = [rec EXCEPT ![c] = s] /\ api' = api /\ worker' = worker
      /\ originals' = originals /\ late' = late /\ derivatives' = derivatives
  BY DEF Create
<1>2. s \in Record /\ s.Revision = rec[c].Revision + 1
  BY <1>1, CreatedType, CreatedOK DEF LeaseInv, Inv, TypeOK, RowOK
<1>3. Held(s, originals[c], late[c], derivatives[c])
  BY DEF Created, Absent, Held
<1> HIDE DEF s
<1>4. \A d \in Captures : OthersHeld(d)
  BY <1>1, <1>2, <1>3, WrittenHeld
<1> QED
  BY <1>1, <1>4, EverybodyHeld

\* A client's URL outlives no cleanup that is done.
LEMMA PutUndone ==
  ASSUME LeaseInv, TimelyInv, NEW c \in Captures, NEW u \in 1..MaxUploads, ClientPut(c, u)
  PROVE  Undone(c)
<1>1. now \in Nat /\ links[c][u] \in Nat /\ links[c][u] \in Puts(c) /\ now <= links[c][u]
  <2>1. now \in Nat /\ links[c][u] \in Nat
    BY DEF LeaseInv, Inv, TypeOK
  <2>2. links[c][u] \in Puts(c)
    BY DEF Puts
  <2>3. now <= links[c][u]
    BY DEF ClientPut
  <2> QED BY <2>1, <2>2, <2>3
<1>2. ~Before(Puts(c), now)
  BY <1>1 DEF Before
<1>3. rec[c].Work # "none"
  BY <1>2 DEF TimelyInv, RowTimely, Timely
<1>4. \A p \in Handlers : ApiCanWrite(p) /\ api[p].id = c => api[p].r.Work # "none"
  BY <1>2 DEF TimelyInv, CallTimely, Timely
<1>5. \A w \in Workers : WorkerCanWrite(w) /\ worker[w].id = c => worker[w].r.Work # "none"
  BY <1>2 DEF TimelyInv, WorkTimely, Timely
<1> QED
  BY <1>3, <1>4, <1>5 DEF Undone

LEMMA PutHeld ==
  ASSUME LeaseInv, TimelyInv, EvidenceInv, NEW c \in Captures, NEW u \in 1..MaxUploads,
         ClientPut(c, u)
  PROVE  \A d \in Captures : HeldFor(d)'
<1>1. /\ rec' = rec /\ api' = api /\ worker' = worker /\ derivatives' = derivatives
      /\ late' = late
      /\ originals' = [originals EXCEPT ![c] = @ \cup {u}]
  BY DEF ClientPut
<1>2. /\ originals[c] \subseteq originals'[c]
      /\ \A d \in Captures \ {c} : originals'[d] = originals[d]
  BY <1>1 DEF LeaseInv, Inv, TypeOK
<1>3. \A d \in Captures : OthersHeld(d)
  BY <1>1, <1>2, PutUndone, SameHeld, MoreHeld
<1> QED
  BY <1>1, <1>3, EverybodyHeld

LEMMA LatePutHeld ==
  ASSUME LeaseInv, EvidenceInv, NEW c \in Captures, NEW u \in 1..MaxUploads, LatePut(c, u)
  PROVE  \A d \in Captures : HeldFor(d)'
<1>1. /\ rec' = rec /\ api' = api /\ worker' = worker /\ originals' = originals
      /\ derivatives' = derivatives /\ late' = [late EXCEPT ![c] = @ \cup {u}]
  BY DEF LatePut
<1>2. \A d \in Captures : late[d] \subseteq late'[d]
  BY <1>1 DEF LeaseInv, Inv, TypeOK
<1>3. \A d \in Captures : OthersHeld(d)
  BY <1>1, <1>2, StrayHeld
<1> QED
  BY <1>1, <1>3, EverybodyHeld

\* The lifecycle comes to a capture that nobody writes any more.
LEMMA LifecycleHeld ==
  ASSUME LeaseInv, EvidenceInv, NEW c \in Captures, Lifecycle(c)
  PROVE  \A d \in Captures : HeldFor(d)'
<1>1. /\ rec' = rec /\ api' = api /\ worker' = worker /\ originals' = originals
      /\ derivatives' = derivatives /\ late' = [late EXCEPT ![c] = {}]
      /\ rec[c].State = "expired" /\ rec[c].Work = "none"
  BY DEF Lifecycle
<1>2. RowHeld(c)'
  BY <1>1 DEF EvidenceInv, RowHeld, Held
<1>3. ASSUME NEW p \in Handlers PROVE CallHeld(c, p)'
  <2>1. ~(ApiCanWrite(p) /\ api[p].id = c)
    BY <1>1 DEF LeaseInv, CallOK, Follows
  <2> QED BY <1>1, <2>1 DEF CallHeld, ApiCanWrite, CanSwap
<1>4. ASSUME NEW w \in Workers PROVE WorkHeld(c, w)'
  <2>1. ~(WorkerCanWrite(w) /\ worker[w].id = c)
    BY <1>1 DEF LeaseInv, LeaseOK, Follows
  <2> QED BY <1>1, <2>1 DEF EvidenceInv, WorkHeld, WorkerCanWrite, CanSwap
<1>5. \A d \in Captures \ {c} : OthersHeld(d)
  <2>1. \A d \in Captures \ {c} : late'[d] = late[d]
    BY <1>1 DEF LeaseInv, Inv, TypeOK
  <2> QED BY <1>1, <2>1, SameHeld
<1>6. OthersHeld(c)
  BY <1>2, <1>3, <1>4 DEF OthersHeld
<1> QED
  BY <1>1, <1>5, <1>6, EverybodyHeld

LEMMA InvokeHeld ==
  ASSUME LeaseInv, EvidenceInv, NEW p \in Handlers, NEW c \in Captures, NEW op \in Ops,
         Invoke(p, c, op)
  PROVE  \A d \in Captures : HeldFor(d)'
<1> DEFINE end == now + ApiTimeout
<1>1. PICK next \in Plans(op, c, rec[c], end) : api' = [api EXCEPT ![p] = next]
  BY DEF Invoke
<1>2. /\ rec' = rec /\ worker' = worker /\ originals' = originals /\ late' = late /\ derivatives' = derivatives
      /\ rec[c] \in Record /\ RowOK(rec[c]) /\ now \in Nat
      /\ Held(rec[c], originals[c], late[c], derivatives[c])
  BY DEF Invoke, LeaseInv, Inv, TypeOK, EvidenceInv, RowHeld
<1>3. api'[p] = next /\ \A q \in Handlers \ {p} : api'[q] = api[q]
  BY <1>1 DEF LeaseInv, Inv, TypeOK
<1>4. PlanIs(next, c, rec[c], end)
  BY <1>2, PlanCases
<1> HIDE DEF end
<1>5. next.id = c /\ (next.pc = "swap" => Held(next.r, originals[c], late[c], derivatives[c]))
      /\ next.pc \in {"swap", "presign"}
  <2>1. next.id = c /\ next.pc \in {"swap", "presign"}
    BY <1>4 DEF PlanIs
  <2> QED BY <1>2, <1>4, <2>1, PlanHeld
<1>6. \A d \in Captures : CallHeld(d, p)'
  BY <1>2, <1>3, <1>5 DEF CallHeld, ApiCanWrite
<1>7. \A d \in Captures : OthersHeld(d)
  BY <1>2, SameHeld
<1> QED
  BY <1>2, <1>3, <1>6, <1>7, EverybodyHeld

LEMMA InvokeRecoveryHeld ==
  ASSUME LeaseInv, EvidenceInv, NEW p \in Handlers, NEW c \in Captures, NEW op \in Ops,
         InvokeRecovery(p, c, op)
  PROVE  \A d \in Captures : HeldFor(d)'
<1>1. /\ rec' = rec /\ worker' = worker /\ originals' = originals /\ late' = late /\ derivatives' = derivatives
      /\ rec[c] \in Record /\ rec[c].State = "ready"
      /\ Held(rec[c], originals[c], late[c], derivatives[c])
  BY DEF InvokeRecovery, Overdue, LeaseInv, Inv, TypeOK, EvidenceInv, RowHeld
<1>2. /\ api'[p].id = c /\ api'[p].r = Recovered(rec[c])
      /\ \A q \in Handlers \ {p} : api'[q] = api[q]
  BY DEF InvokeRecovery, LeaseInv, Inv, TypeOK
<1>3. \A d \in Captures : CallHeld(d, p)'
  BY <1>1, <1>2, RecoveredHeld DEF CallHeld
<1>4. \A d \in Captures : OthersHeld(d)
  BY <1>1, SameHeld
<1> QED
  BY <1>1, <1>2, <1>3, <1>4, EverybodyHeld

LEMMA RecoverHeld ==
  ASSUME LeaseInv, EvidenceInv, NEW p \in Handlers, Recover(p)
  PROVE  \A d \in Captures : HeldFor(d)'
<1> DEFINE c == api[p].id
           s == api[p].r
           end == api[p].end
           plans == Plans(api[p].op, c, s, end)
<1>1. /\ ApiCanWrite(p) /\ rec' = [rec EXCEPT ![c] = s]
      /\ worker' = worker /\ originals' = originals /\ late' = late /\ derivatives' = derivatives
  BY DEF Recover, ApiCanWrite
<1>2. PICK next \in IF plans = {} THEN {IdleApi} ELSE plans : api' = [api EXCEPT ![p] = next]
  BY DEF Recover
<1>3. /\ c \in Captures /\ s \in Record /\ RowOK(s) /\ s.Revision = rec[c].Revision + 1
      /\ now \in Nat /\ api[p].op \in Ops
  BY <1>1, ApiHolds DEF ApiCanWrite, LeaseInv, Inv, TypeOK, ApiProcess
<1>4. Held(s, originals[c], late[c], derivatives[c])
  BY <1>1, <1>3 DEF EvidenceInv, CallHeld
<1>5. api'[p] = next /\ \A q \in Handlers \ {p} : api'[q] = api[q]
  BY <1>2 DEF LeaseInv, Inv, TypeOK
<1>6. next = IdleApi \/ PlanIs(next, c, s, end)
  BY <1>2, <1>3, PlanCases
<1> HIDE DEF c, s, end, plans
<1>7. \A d \in Captures : OthersHeld(d)
  BY <1>1, <1>3, <1>4, WrittenHeld
<1>8. \A d \in Captures : CallHeld(d, p)'
  <2>1. CASE next = IdleApi
    BY <1>5, <2>1, IdleHeld
  <2>2. CASE PlanIs(next, c, s, end)
    <3>1. next.id = c /\ next.pc \in {"swap", "presign"}
      BY <2>2 DEF PlanIs
    <3>2. next.pc = "swap" => Held(next.r, originals[c], late[c], derivatives[c])
      BY <1>3, <1>4, <2>2, PlanHeld
    <3> QED BY <1>1, <1>5, <3>1, <3>2 DEF CallHeld, ApiCanWrite
  <2> QED BY <1>6, <2>1, <2>2
<1> QED
  BY <1>1, <1>5, <1>7, <1>8, EverybodyHeld

LEMMA ApiSwapHeld ==
  ASSUME LeaseInv, EvidenceInv, NEW p \in Handlers, ApiSwap(p)
  PROVE  \A d \in Captures : HeldFor(d)'
<1> DEFINE c == api[p].id
           s == api[p].r
<1>1. /\ ApiCanWrite(p) /\ rec' = [rec EXCEPT ![c] = s]
      /\ worker' = worker /\ originals' = originals /\ late' = late /\ derivatives' = derivatives
  BY DEF ApiSwap, ApiCanWrite
<1>2. c \in Captures /\ s \in Record /\ s.Revision = rec[c].Revision + 1
  BY <1>1, ApiHolds DEF ApiCanWrite, LeaseInv
<1>3. Held(s, originals[c], late[c], derivatives[c])
  BY <1>1, <1>2 DEF EvidenceInv, CallHeld
<1>4. /\ api'[p].pc \in {"presign", "idle"}
      /\ \A q \in Handlers \ {p} : api'[q] = api[q]
  BY DEF ApiSwap, IdleApi, LeaseInv, Inv, TypeOK, ApiProcess
<1> HIDE DEF c, s
<1>5. \A d \in Captures : OthersHeld(d)
  BY <1>1, <1>2, <1>3, WrittenHeld
<1>6. \A d \in Captures : CallHeld(d, p)'
  BY <1>4 DEF CallHeld, ApiCanWrite
<1> QED
  BY <1>1, <1>4, <1>5, <1>6, EverybodyHeld

LEMMA ReceiveHeld ==
  ASSUME LeaseInv, EvidenceInv, NEW w \in Workers, NEW job \in sent, Receive(w, job)
  PROVE  \A d \in Captures : HeldFor(d)'
<1> DEFINE c == job.id
<1>1. c \in Captures
  BY DEF LeaseInv, Inv, TypeOK, Job
<1>2. PICK next \in WorkPlans(c, rec[c]) : worker' = [worker EXCEPT ![w] = next]
  BY DEF Receive
<1>3. /\ rec' = rec /\ api' = api /\ originals' = originals /\ late' = late /\ derivatives' = derivatives
      /\ rec[c] \in Record /\ RowOK(rec[c]) /\ now \in Nat
      /\ Held(rec[c], originals[c], late[c], derivatives[c])
  BY <1>1 DEF Receive, LeaseInv, Inv, TypeOK, EvidenceInv, RowHeld
<1>4. worker'[w] = next /\ \A v \in Workers \ {w} : worker'[v] = worker[v]
  BY <1>2 DEF LeaseInv, Inv, TypeOK
<1>5. WorkIs(next, c, rec[c])
  BY <1>3, WorkCases
<1> HIDE DEF c
<1>6. next.id = c /\ next.pc # "wrote" /\ Held(next.r, originals[c], late[c], derivatives[c])
  <2> DEFINE r == rec[c]
             images == originals[c]
             strays == late[c]
             processed == derivatives[c]
  <2>1. /\ next.id = c /\ next.pc # "wrote"
        /\ \/ r.Work = "extract" /\ next.r \in {ExtractionClaimed(r, now), ExtractionExpired(r, now),
                                             ExtractionFinished(r, now, FALSE)}
           \/ r.Work = "cleanup" /\ next.r = CleanupClaimed(r, now)
           \/ r.State = "finalizing" /\ next.r \in {ValidationClaimed(r, now), Lapsed(r, now), GaveUp(r)}
    BY <1>5 DEF WorkIs
  <2>2. /\ r \in Record /\ RowOK(r) /\ now \in Nat /\ FALSE \in BOOLEAN
        /\ Held(r, images, strays, processed)
    BY <1>3
  <2> HIDE DEF r, images, strays, processed
  <2>3. Held(next.r, images, strays, processed)
    BY <2>1, <2>2, WorkerRowsHeld
  <2> QED BY <2>1, <2>3 DEF images, strays, processed
<1>7. \A d \in Captures : WorkHeld(d, w)'
  BY <1>3, <1>4, <1>6 DEF WorkHeld
<1>8. \A d \in Captures : OthersHeld(d)
  BY <1>3, SameHeld
<1> QED
  BY <1>3, <1>4, <1>7, <1>8, EverybodyHeld

LEMMA WorkerWritesHeld ==
  ASSUME LeaseInv, EvidenceInv, NEW w \in Workers, Claim(w) \/ Finish(w) \/ Publish(w)
  PROVE  \A d \in Captures : HeldFor(d)'
<1> DEFINE c == worker[w].id
           s == worker[w].r
<1>1. /\ WorkerCanWrite(w) /\ rec' = [rec EXCEPT ![c] = s]
      /\ api' = api /\ originals' = originals /\ late' = late /\ derivatives' = derivatives
  BY DEF Claim, Finish, Publish, WorkerCanWrite
<1>2. c \in Captures /\ s \in Record /\ s.Revision = rec[c].Revision + 1
  BY <1>1, WorkerHolds DEF WorkerCanWrite, LeaseInv
<1>3. Held(s, originals[c], late[c], derivatives[c])
  BY <1>1, <1>2 DEF EvidenceInv, WorkHeld
<1>4. /\ worker'[w].pc \in {"run", "idle"}
      /\ \A v \in Workers \ {w} : worker'[v] = worker[v]
  BY DEF Claim, Finish, Publish, IdleWorker, LeaseInv, Inv, TypeOK, WorkerProcess
<1> HIDE DEF c, s
<1>5. \A d \in Captures : OthersHeld(d)
  BY <1>1, <1>2, <1>3, WrittenHeld
<1>6. \A d \in Captures : WorkHeld(d, w)'
  BY <1>4 DEF WorkHeld, WorkerCanWrite
<1> QED
  BY <1>1, <1>4, <1>5, <1>6, EverybodyHeld

\* While somebody is at work on c, its cleanup is not done and nobody is about to say so.
LEMMA WorkUndone ==
  ASSUME LeaseInv, NEW w \in Workers, Active(w)
  PROVE  Undone(worker[w].id)
<1>1. rec[worker[w].id].Work # "none"
  BY ActiveStates
<1>2. ASSUME NEW p \in Handlers, ApiCanWrite(p), api[p].id = worker[w].id
      PROVE  api[p].r.Work # "none"
  <2>1. Outlasted(w, api[p].r) /\ RowOK(api[p].r)
    BY <1>2 DEF LeaseInv, CallOK, Inv, ApiOK
  <2> QED BY <2>1 DEF Outlasted, RowOK
<1>3. \A v \in Workers : ~(WorkerCanWrite(v) /\ worker[v].id = worker[w].id)
  BY DEF LeaseInv, LeaseOK
<1> QED
  BY <1>1, <1>2, <1>3 DEF Undone

LEMMA WriteHeld ==
  ASSUME LeaseInv, EvidenceInv, NEW w \in Workers, WriteDerivatives(w)
  PROVE  \A d \in Captures : HeldFor(d)'
<1>1. /\ Active(w) /\ rec' = rec /\ api' = api /\ originals' = originals /\ late' = late
      /\ derivatives' = [derivatives EXCEPT ![worker[w].id] = @ \cup {worker[w].r.Generation}]
  BY DEF WriteDerivatives, Running, Active
<1>2. /\ worker'[w].pc = "wrote" /\ worker'[w].id = worker[w].id /\ worker'[w].r = worker[w].r
      /\ \A v \in Workers \ {w} : worker'[v] = worker[v]
      /\ worker[w].id \in Captures
  BY DEF WriteDerivatives, LeaseInv, Inv, TypeOK, WorkerProcess
<1>3. /\ worker[w].r.Generation \in derivatives'[worker[w].id]
      /\ derivatives[worker[w].id] \subseteq derivatives'[worker[w].id]
      /\ \A d \in Captures \ {worker[w].id} : derivatives'[d] = derivatives[d]
  BY <1>1, <1>2 DEF LeaseInv, Inv, TypeOK
<1>4. \A d \in Captures : OthersHeld(d)
  BY <1>1, <1>3, WorkUndone, SameHeld, MoreHeld
<1>5. \A d \in Captures : WorkHeld(d, w)'
  BY <1>2, <1>3 DEF WorkHeld, WorkerCanWrite
<1> QED
  BY <1>1, <1>2, <1>4, <1>5, EverybodyHeld

\* A worker that is to empty the bucket holds the row, expired, and is alone with it.
LEMMA CleanerAlone ==
  ASSUME LeaseInv, NEW w \in Workers, Running(w, "cleanup")
  PROVE  LET c == worker[w].id
         IN /\ c \in Captures /\ rec[c].State = "expired" /\ rec[c].Work = "cleanup"
            /\ rec[c] = worker[w].r
            /\ \A p \in Handlers : ~(ApiCanWrite(p) /\ api[p].id = c)
            /\ \A v \in Workers : ~(WorkerCanWrite(v) /\ worker[v].id = c)
            /\ \A v \in Workers \ {w} : ~(Active(v) /\ worker[v].id = c)
<1> DEFINE c == worker[w].id
<1>1. Active(w) /\ worker[w].r.Work = "cleanup"
  BY DEF Running, Active
<1>2. c \in Captures /\ worker[w].r.State = "expired" /\ rec[c] = worker[w].r
  BY <1>1 DEF Active, LeaseInv, Inv, TypeOK, WorkerProcess, WorkerOK, LeaseOK, Outlasted
<1>3. \A p \in Handlers : ~(ApiCanWrite(p) /\ api[p].id = c)
  BY <1>1 DEF LeaseInv, CallOK, Outlasted
<1>4. \A v \in Workers : ~(WorkerCanWrite(v) /\ worker[v].id = c)
  BY <1>1 DEF LeaseInv, LeaseOK
<1>5. \A v \in Workers \ {w} : ~(Active(v) /\ worker[v].id = c)
  BY <1>1 DEF LeaseInv, OneActiveWorker, Active
<1> QED
  BY <1>1, <1>2, <1>3, <1>4, <1>5

\* Emptying a prefix of its capture c takes nothing from anybody.
LEMMA ErasedHeld ==
  ASSUME LeaseInv, EvidenceInv, NEW w \in Workers, Running(w, "cleanup"),
         NEW c, c = worker[w].id, worker'[w] # worker[w],
         rec' = rec, api' = api, \A v \in Workers \ {w} : worker'[v] = worker[v],
         \A d \in Captures \ {c} :
           /\ originals'[d] = originals[d] /\ late'[d] = late[d]
           /\ derivatives'[d] = derivatives[d]
  PROVE  \A d \in Captures : OthersHeld(d)
<1>1. /\ c \in Captures /\ rec[c].State = "expired" /\ rec[c].Work = "cleanup"
      /\ \A p \in Handlers : ~(ApiCanWrite(p) /\ api[p].id = c)
      /\ \A v \in Workers : ~(WorkerCanWrite(v) /\ worker[v].id = c)
      /\ \A v \in Workers \ {w} : ~(Active(v) /\ worker[v].id = c)
  BY CleanerAlone
<1>2. RowHeld(c)'
  BY <1>1 DEF RowHeld, Held
<1>3. \A p \in Handlers : CallHeld(c, p)'
  BY <1>1 DEF CallHeld, ApiCanWrite, CanSwap
<1>4. \A v \in Workers \ {w} : WorkHeld(c, v)'
  BY <1>1 DEF WorkHeld, WorkerCanWrite, CanSwap, Active
<1>5. OthersHeld(c)
  BY <1>2, <1>3, <1>4 DEF OthersHeld
<1>6. \A d \in Captures \ {c} : OthersHeld(d)
  BY SameHeld
<1> QED
  BY <1>5, <1>6

\* What a worker has decided to write finds its images.
LEMMA DecidedHeld ==
  ASSUME LeaseInv, EvidenceInv, NEW w \in Workers,
         ValidationOk(w) \/ ValidationNotOk(w) \/ Extract(w) \/ DeleteCapture(w)
  PROVE  /\ worker'[w] # worker[w] /\ \A v \in Workers \ {w} : worker'[v] = worker[v]
         /\ \A d \in Captures : WorkHeld(d, w)'
<1> DEFINE c == worker[w].id
           r == worker[w].r
<1>1. Inv
  BY DEF LeaseInv
<1>2. PICK pc \in {"final", "publish"}, s \in Record :
        /\ Decides(w, r, pc, s)
        /\ worker' = [worker EXCEPT ![w] = [worker[w] EXCEPT !.pc = pc, !.r = s]]
        /\ s.Revision = r.Revision + 1
  BY <1>1, DecisionCases
<1>3. Active(w)
  BY <1>1, DecisionCases
<1>4. /\ worker'[w].pc = pc /\ worker'[w].r = s /\ worker'[w].id = c
      /\ \A v \in Workers \ {w} : worker'[v] = worker[v]
      /\ c \in Captures /\ r \in Record /\ RowOK(r) /\ now \in Nat
      /\ r.Revision \in Nat /\ rec[c].Revision \in Nat /\ rec' = rec
  <2>1. rec' = rec
    BY DEF ValidationOk, ValidationNotOk, Extract, DeleteCapture
  <2>2. /\ c \in Captures /\ r \in Record /\ RowOK(r) /\ now \in Nat
        /\ worker \in [Workers -> WorkerProcess] /\ rec[c] \in Record
    BY <1>1 DEF Inv, TypeOK, WorkerProcess, WorkerOK
  <2>3. r.Revision \in Nat /\ rec[c].Revision \in Nat
    BY <2>2 DEF Record
  <2> QED BY <1>2, <2>1, <2>2, <2>3 DEF WorkerProcess
<1>5. CASE DeleteCapture(w)
  <2>1. s = CleanupDone(r) /\ r.State = "expired" /\ originals'[c] = {} /\ derivatives'[c] = {}
    <3>1. r.Work = "cleanup"
      BY <1>5 DEF DeleteCapture, Running
    <3> QED BY <1>2, <1>4, <3>1 DEF Decides, RowOK
  <2>2. s.State = "expired"
    BY <1>4, <2>1 DEF CleanupDone, Record
  <2>3. Held(s, originals'[c], late'[c], derivatives'[c])
    BY <2>1, <2>2, NoImages
  <2> HIDE DEF c, r
  <2> QED BY <1>2, <1>3, <1>4, <2>3 DEF WorkHeld, Active
<1>6. CASE ~DeleteCapture(w)
  <2>1. originals' = originals /\ late' = late /\ derivatives' = derivatives
    BY <1>6 DEF ValidationOk, ValidationNotOk, Extract
  <2>2. rec[c].Revision + 1 = s.Revision => r = rec[c]
    <3>1. r.Revision = rec[c].Revision => r = rec[c]
      BY <1>1, <1>3 DEF Inv, WorkerOK, Active
    <3> HIDE DEF c, r
    <3> QED BY <1>2, <1>4, <3>1
  <2>3. r = rec[c] => Held(s, originals[c], late[c], derivatives[c])
    <3> SUFFICES ASSUME r = rec[c] PROVE Held(s, originals[c], late[c], derivatives[c])
      OBVIOUS
    <3>1. Held(r, originals[c], late[c], derivatives[c])
      BY <1>4 DEF EvidenceInv, RowHeld
    <3>2. worker[w].pc = "wrote" => r.Generation \in derivatives[c]
      BY <1>4 DEF EvidenceInv, WorkHeld
    <3>3. CASE r.Work = "cleanup"
      <4>1. s = CleanupDone(r) /\ r.State = "expired" /\ originals[c] = {} /\ derivatives[c] = {}
        BY <1>2, <1>4, <2>1, <3>3 DEF Decides, RowOK
      <4>2. s.State = "expired"
        BY <1>4, <4>1 DEF CleanupDone, Record
      <4> QED BY <4>1, <4>2, NoImages
    <3> HIDE DEF c, r
    <3>4. CASE r.Work # "cleanup"
      <4> DEFINE images == originals[c]
                 strays == late[c]
                 processed == derivatives[c]
      <4>1. r \in Record /\ RowOK(r) /\ Held(r, images, strays, processed) /\ now \in Nat
            /\ TRUE \in BOOLEAN /\ FALSE \in BOOLEAN
        BY <1>4, <3>1
      <4>2. /\ worker[w].pc = "wrote" => r.Generation \in processed
            /\ \/ r.State = "finalizing" /\ s \in {Lapsed(r, now), Rejected(r, now), ValidationFailed(r, now)}
               \/ r.Work = "extract" /\ s \in {ExtractionExpired(r, now), ExtractionFinished(r, now, TRUE),
                                               ExtractionFinished(r, now, FALSE)}
               \/ /\ worker[w].pc = "wrote" /\ r.State = "finalizing"
                  /\ s \in {Promoted(r, now, TRUE), Promoted(r, now, FALSE)}
        BY <1>2, <3>2, <3>4 DEF Decides
      <4> HIDE DEF images, strays, processed
      <4>3. Held(s, images, strays, processed)
        BY <4>1, <4>2, WorkerRowsHeld
      <4> QED BY <4>3 DEF images, strays, processed
    <3> QED BY <3>3, <3>4
  <2>4. WorkerCanWrite(w)' => Held(s, originals[c], late[c], derivatives[c])
    BY <1>4, <2>2, <2>3 DEF WorkerCanWrite, CanSwap
  <2> HIDE DEF c, r
  <2> QED BY <1>2, <1>3, <1>4, <2>1, <2>4 DEF WorkHeld, Active
<1> QED
  BY <1>5, <1>6

LEMMA DecisionHeld ==
  ASSUME LeaseInv, EvidenceInv, NEW w \in Workers,
         ValidationOk(w) \/ ValidationNotOk(w) \/ Extract(w) \/ DeleteCapture(w)
  PROVE  \A d \in Captures : HeldFor(d)'
<1>1. rec' = rec /\ api' = api
  BY DEF ValidationOk, ValidationNotOk, Extract, DeleteCapture
<1>2. \A d \in Captures : OthersHeld(d)
  <2>1. CASE DeleteCapture(w)
    <3>1. PICK c \in Captures : c = worker[w].id
      BY DEF LeaseInv, Inv, TypeOK, WorkerProcess
    <3>2. /\ Running(w, "cleanup")
          /\ \A d \in Captures \ {c} :
               /\ originals'[d] = originals[d] /\ late'[d] = late[d]
               /\ derivatives'[d] = derivatives[d]
      BY <2>1, <3>1 DEF DeleteCapture, LeaseInv, Inv, TypeOK
    <3> QED BY <1>1, <3>1, <3>2, DecidedHeld, ErasedHeld
  <2>2. CASE ~DeleteCapture(w)
    <3>1. originals' = originals /\ late' = late /\ derivatives' = derivatives
      BY <2>2 DEF ValidationOk, ValidationNotOk, Extract
    <3> QED BY <1>1, <3>1, SameHeld
  <2> QED BY <2>1, <2>2
<1> QED
  BY <1>1, <1>2, DecidedHeld, EverybodyHeld

LEMMA DeleteFailsHeld ==
  ASSUME LeaseInv, EvidenceInv, NEW w \in Workers, DeleteFails(w)
  PROVE  \A d \in Captures : HeldFor(d)'
<1>1. PICK c \in Captures : c = worker[w].id
  BY DEF LeaseInv, Inv, TypeOK, WorkerProcess
<1>2. /\ Running(w, "cleanup") /\ rec' = rec /\ api' = api
      /\ \A d \in Captures \ {c} :
           /\ originals'[d] = originals[d] /\ late'[d] = late[d]
           /\ derivatives'[d] = derivatives[d]
  BY <1>1 DEF DeleteFails, LeaseInv, Inv, TypeOK
<1>3. worker'[w] = IdleWorker /\ \A v \in Workers \ {w} : worker'[v] = worker[v]
  BY DEF DeleteFails, LeaseInv, Inv, TypeOK
<1>4. worker'[w] # worker[w]
  BY <1>2, <1>3 DEF Running, IdleWorker
<1>5. \A d \in Captures : OthersHeld(d)
  BY <1>1, <1>2, <1>3, <1>4, ErasedHeld
<1> QED
  BY <1>2, <1>3, <1>5, IdleHeld, EverybodyHeld

LEMMA NextHeld ==
  ASSUME LeaseInv, TimelyInv, EvidenceInv, [Next]_vars
  PROVE  \A d \in Captures : HeldFor(d)'
<1>1. CASE UNCHANGED vars \/ Tick \/ \E c \in Captures : Dispatch(c)
  BY <1>1, EnvironmentHeld DEF vars, Tick, Dispatch
<1>2. CASE \E c \in Captures : Create(c) \/ Lifecycle(c)
  BY <1>2, CreateHeld, LifecycleHeld
<1>3. CASE \E c \in Captures, u \in 1..MaxUploads : ClientPut(c, u) \/ LatePut(c, u)
  BY <1>3, PutHeld, LatePutHeld
<1>4. CASE \E p \in Handlers, c \in Captures, op \in Ops :
             Invoke(p, c, op) \/ InvokeRecovery(p, c, op)
  BY <1>4, InvokeHeld, InvokeRecoveryHeld
<1>5. ASSUME NEW p \in Handlers, ApiStep(p) PROVE \A d \in Captures : HeldFor(d)'
  <2>1. CASE Presign(p) \/ ApiEnds(p)
    <3>1. /\ rec' = rec /\ originals' = originals /\ late' = late /\ derivatives' = derivatives
          /\ worker' = worker /\ \A q \in Handlers : api'[q] = api[q] \/ api'[q] = IdleApi
      BY <2>1 DEF Presign, ApiEnds, LeaseInv, Inv, TypeOK
    <3> QED BY <3>1, EnvironmentHeld
  <2> QED BY <1>5, <2>1, RecoverHeld, ApiSwapHeld DEF ApiStep
<1>6. CASE \E w \in Workers, job \in sent : Receive(w, job)
  BY <1>6, ReceiveHeld
<1>7. ASSUME NEW w \in Workers, WorkerStep(w) \/ DeleteFails(w) \/ WorkerDies(w)
      PROVE  \A d \in Captures : HeldFor(d)'
  <2>1. CASE LoseRace(w) \/ WorkerDies(w)
    <3>1. /\ rec' = rec /\ originals' = originals /\ late' = late /\ derivatives' = derivatives
          /\ api' = api /\ \A v \in Workers : worker'[v] = worker[v] \/ worker'[v] = IdleWorker
      BY <2>1 DEF LoseRace, WorkerDies, LeaseInv, Inv, TypeOK
    <3> QED BY <3>1, EnvironmentHeld
  <2> QED
    BY <1>7, <2>1, WorkerWritesHeld, WriteHeld, DecisionHeld, DeleteFailsHeld DEF WorkerStep
<1> QED
  BY <1>1, <1>2, <1>3, <1>4, <1>5, <1>6, <1>7 DEF Next

\* EvidenceInv always: what a row, or an invocation that goes by an older row, counts on is
\* in the bucket, and what is being removed nobody counts on.
THEOREM EvidenceInductive == Spec => []EvidenceInv
<1>1. Init => EvidenceInv
  <2> SUFFICES ASSUME Init PROVE EvidenceInv
    OBVIOUS
  <2>1. /\ \A p \in Handlers : api[p].pc = "idle"
        /\ \A w \in Workers : worker[w].pc = "idle"
        /\ \A c \in Captures : /\ rec[c].State = "absent" /\ originals[c] = {}
                               /\ derivatives[c] = {}
    BY DEF Init, IdleApi, IdleWorker, Absent
  <2> QED
    BY <2>1 DEF EvidenceInv, RowHeld, Held, CallHeld, WorkHeld, ApiCanWrite, WorkerCanWrite
<1>2. LeaseInv /\ TimelyInv /\ EvidenceInv /\ [Next]_vars => EvidenceInv'
  BY NextHeld DEF EvidenceInv, HeldFor
<1> QED
  BY <1>1, <1>2, LeaseInductive, TimelyInductive, PTL DEF Spec

\* The images that evidence under validation, kept for a retry or published stands for
\* are in the bucket: no cleanup reaches them first.
THEOREM EvidenceIsHeld == Spec => []EvidenceHeld
<1>1. EvidenceInv => EvidenceHeld
  BY DEF EvidenceInv, RowHeld, Held, EvidenceHeld, Uploaded
<1> QED
  BY <1>1, EvidenceInductive, PTL

\* A completed cleanup is complete for good: no request can begin to bring an image back
\* where nothing is scheduled to delete it, and none that was done in its URL's time, nor a
\* worker, has left one.  What a request leaves that outlived its URL is not said to be gone.
THEOREM NothingLeftBehind == Spec => []NoOrphans
<1>1. ASSUME EvidenceInv, TimelyInv PROVE NoOrphans
  <2> SUFFICES ASSUME NEW c \in Captures, rec[c].Work = "none"
               PROVE  /\ originals[c] = {} /\ derivatives[c] = {}
                      /\ \A u \in 1..MaxUploads : links[c][u] < now
    BY DEF NoOrphans
  <2>1. originals[c] = {} /\ derivatives[c] = {}
    BY <1>1 DEF EvidenceInv, RowHeld, Held
  <2>2. Before(Puts(c), now)
    BY <1>1 DEF TimelyInv, RowTimely, Timely
  <2>3. \A u \in 1..MaxUploads : links[c][u] \in Puts(c)
    BY DEF Puts
  <2> QED BY <2>1, <2>2, <2>3 DEF Before
<1> QED
  BY <1>1, TimelyInductive, EvidenceInductive, PTL

----------------------------------------------------------------------------
\* The contract: what CaptureContract sees of a state, and its steps in those terms.

Status == [c \in Captures |-> rec[c].State]
Notified == [c \in Captures |-> manifest[c] # 0]
Stored == [c \in Captures |-> originals[c] # {} \/ derivatives[c] # {}]
Strayed == [c \in Captures |-> late[c] # {}]
Closed == [c \in Captures |-> rec[c].State = "expired" /\ rec[c].Work = "none"]

LEMMA ContractMoves ==
  ASSUME NEW c \in Captures, NEW to, Moves(Status[c], to), to # "ready",
         Status' = [Status EXCEPT ![c] = to],
         Notified' = Notified, Stored' = Stored, Strayed' = Strayed, Closed' = Closed
  PROVE  Contract!Next
<1>1. CASE Status[c] \in {"uploading", "failed"} /\ to = "finalizing"
  <2>1. Contract!Submit(c) \/ Contract!Resume(c)
    BY <1>1 DEF Contract!Submit, Contract!Resume, Contract!Move, Status, Notified, Stored, Strayed, Closed
  <2> QED BY <2>1 DEF Contract!Next
<1>2. CASE Status[c] = "finalizing" /\ to \in {"requires_recapture", "failed"}
  <2>1. Contract!Reject(c) \/ Contract!GiveUp(c)
    BY <1>2 DEF Contract!Reject, Contract!GiveUp, Contract!Move, Status, Notified, Stored, Strayed, Closed
  <2> QED BY <2>1 DEF Contract!Next
<1>3. CASE Status[c] \in Unfinished /\ to = "cancelled"
  <2>1. Contract!Withdraw(c)
    BY <1>3 DEF Unfinished, Contract!Withdraw, Contract!Move, Status, Notified, Stored, Strayed, Closed
  <2> QED BY <2>1 DEF Contract!Next
<1>4. CASE Status[c] \in Unfinished \cup {"cancelled"} /\ to = "expired"
  <2>1. Contract!Lapse(c)
    BY <1>4 DEF Unfinished, Contract!Lapse, Contract!Move, Status, Notified, Stored, Strayed, Closed
  <2> QED BY <2>1 DEF Contract!Next
<1> QED
  BY <1>1, <1>2, <1>3, <1>4 DEF Moves

LEMMA ContractOpens ==
  ASSUME NEW c \in Captures, Status[c] = "absent", Status' = [Status EXCEPT ![c] = "uploading"],
         Notified' = Notified, Stored' = Stored, Strayed' = Strayed, Closed' = Closed
  PROVE  Contract!Next
<1>1. Contract!Open(c)
  BY DEF Contract!Open, Contract!Move, Status, Notified, Stored, Strayed, Closed
<1> QED
  BY <1>1 DEF Contract!Next

LEMMA ContractPromotes ==
  ASSUME NEW c \in Captures, Status[c] = "finalizing", Stored[c], ~Notified[c],
         Status' = [Status EXCEPT ![c] = "ready"], Notified' = [Notified EXCEPT ![c] = TRUE],
         Stored' = Stored, Strayed' = Strayed, Closed' = Closed
  PROVE  Contract!Next
<1>1. Contract!Promote(c)
  BY DEF Contract!Promote, Contract!Move, Status, Notified, Stored, Strayed, Closed
<1> QED
  BY <1>1 DEF Contract!Next

LEMMA ContractStores ==
  ASSUME NEW c \in Captures, Status[c] # "absent", ~Closed[c],
         Stored' = [Stored EXCEPT ![c] = TRUE],
         Status' = Status, Notified' = Notified, Strayed' = Strayed, Closed' = Closed
  PROVE  Contract!Next
<1>1. Contract!Store(c)
  BY DEF Contract!Store, Status, Notified, Stored, Strayed, Closed
<1> QED
  BY <1>1 DEF Contract!Next

LEMMA ContractErases ==
  ASSUME NEW c \in Captures, Status[c] = "expired",
         Stored' = Stored \/ Stored' = [Stored EXCEPT ![c] = FALSE],
         Strayed' = Strayed \/ Strayed' = [Strayed EXCEPT ![c] = FALSE],
         Status' = Status, Notified' = Notified, Closed' = Closed
  PROVE  Contract!Next
<1>1. Contract!Erase(c)
  BY DEF Contract!Erase, Status, Notified, Stored, Strayed, Closed
<1> QED
  BY <1>1 DEF Contract!Next

LEMMA ContractStrays ==
  ASSUME NEW c \in Captures, Status[c] # "absent", Strayed' = [Strayed EXCEPT ![c] = TRUE],
         Status' = Status, Notified' = Notified, Stored' = Stored, Closed' = Closed
  PROVE  Contract!Next
<1>1. Contract!Stray(c)
  BY DEF Contract!Stray, Status, Notified, Stored, Strayed, Closed
<1> QED
  BY <1>1 DEF Contract!Next

LEMMA ContractCloses ==
  ASSUME NEW c \in Captures, Status[c] = "expired", ~Stored[c],
         Closed' = [Closed EXCEPT ![c] = TRUE],
         Status' = Status, Notified' = Notified, Stored' = Stored, Strayed' = Strayed
  PROVE  Contract!Next
<1>1. Contract!Close(c)
  BY DEF Contract!Close, Status, Notified, Stored, Strayed, Closed
<1> QED
  BY <1>1 DEF Contract!Next

ContractStep == Contract!Next \/ UNCHANGED <<Status, Notified, Stored, Strayed, Closed>>

\* What writing a row does to what the contract sees.
LEMMA WrittenStatus ==
  ASSUME Inv, NEW c \in Captures, NEW s \in Record, rec' = [rec EXCEPT ![c] = s]
  PROVE  /\ Status[c] = rec[c].State /\ Closed[c] = (rec[c].State = "expired" /\ rec[c].Work = "none")
         /\ Status' = [Status EXCEPT ![c] = s.State]
         /\ Closed' = [Closed EXCEPT ![c] = s.State = "expired" /\ s.Work = "none"]
BY DEF Inv, TypeOK, Status, Closed

\* A row that is no promotion, written over one it may follow.
LEMMA WrittenRefines ==
  ASSUME Inv, NEW c \in Captures, NEW s \in Record, RowOK(s), Follows(rec[c], s),
         Held(s, originals[c], late[c], derivatives[c]), s.State = "ready" => rec[c].State = "ready",
         rec' = [rec EXCEPT ![c] = s],
         originals' = originals, late' = late, derivatives' = derivatives, manifest' = manifest
  PROVE  ContractStep
<1>1. /\ Status[c] = rec[c].State /\ Closed[c] = FALSE
      /\ Status' = [Status EXCEPT ![c] = s.State]
      /\ Closed' = [Closed EXCEPT ![c] = s.State = "expired" /\ s.Work = "none"]
  BY WrittenStatus DEF Follows
<1>2. Notified' = Notified /\ Stored' = Stored /\ Strayed' = Strayed
  BY DEF Notified, Stored, Strayed
<1>3. CASE s.Work = "none"
  <2>1. rec[c].State = "expired" /\ s.State = "expired"
    BY <1>3 DEF Follows, Moves, Unfinished
  <2>2. ~Stored[c]
    BY <1>3 DEF Held, Stored
  <2>3. Status' = Status
    BY <1>1, <2>1 DEF Status
  <2> QED BY <1>1, <1>2, <1>3, <2>1, <2>2, <2>3, ContractCloses DEF ContractStep
<1>4. CASE s.Work # "none"
  <2>1. Closed' = Closed
    BY <1>1, <1>4 DEF Closed
  <2>2. CASE s.State = rec[c].State
    <3>1. Status' = Status
      BY <1>1, <2>2 DEF Status
    <3> QED BY <1>2, <2>1, <3>1 DEF ContractStep
  <2>3. CASE s.State # rec[c].State
    <3>1. Moves(rec[c].State, s.State) /\ s.State # "ready"
      BY <2>3 DEF Follows
    <3> QED BY <1>1, <1>2, <2>1, <3>1, ContractMoves DEF ContractStep
  <2> QED BY <2>2, <2>3
<1> QED
  BY <1>3, <1>4

LEMMA InvisibleStep ==
  ASSUME rec' = rec, originals' = originals, late' = late, derivatives' = derivatives, manifest' = manifest
  PROVE  ContractStep
BY DEF ContractStep, Status, Notified, Stored, Strayed, Closed

LEMMA CreateRefines == ASSUME Inv, NEW c \in Captures, Create(c) PROVE ContractStep
<1> DEFINE s == Created(now)
<1>1. /\ rec[c].State = "absent" /\ rec' = [rec EXCEPT ![c] = s]
      /\ originals' = originals /\ late' = late /\ derivatives' = derivatives /\ manifest' = manifest
  BY DEF Create
<1>2. s \in Record /\ s.State = "uploading"
  BY CreatedType DEF Created, Absent, Inv, TypeOK
<1> HIDE DEF s
<1>3. /\ Status[c] = "absent" /\ Closed[c] = FALSE
      /\ Status' = [Status EXCEPT ![c] = "uploading"]
      /\ Closed' = [Closed EXCEPT ![c] = FALSE]
  <2>1. Closed' = [Closed EXCEPT ![c] = s.State = "expired" /\ s.Work = "none"]
    BY <1>1, <1>2, WrittenStatus
  <2>2. (s.State = "expired" /\ s.Work = "none") = FALSE
    BY <1>2
  <2>3. Closed' = [Closed EXCEPT ![c] = FALSE]
    BY <2>1, <2>2
  <2>4. Status[c] = rec[c].State /\ Closed[c] = (rec[c].State = "expired" /\ rec[c].Work = "none")
        /\ Status' = [Status EXCEPT ![c] = s.State]
    BY <1>1, <1>2, WrittenStatus
  <2> QED BY <1>1, <1>2, <2>3, <2>4
<1>4. Closed' = Closed /\ Notified' = Notified /\ Stored' = Stored /\ Strayed' = Strayed
  BY <1>1, <1>3 DEF Closed, Notified, Stored, Strayed
<1> QED
  BY <1>3, <1>4, ContractOpens DEF ContractStep

LEMMA ApiRefines ==
  ASSUME LeaseInv, EvidenceInv, NEW p \in Handlers, Recover(p) \/ ApiSwap(p)
  PROVE  ContractStep
<1> DEFINE c == api[p].id
           s == api[p].r
<1>1. /\ ApiCanWrite(p) /\ rec' = [rec EXCEPT ![c] = s]
      /\ originals' = originals /\ late' = late /\ derivatives' = derivatives /\ manifest' = manifest
  BY DEF Recover, ApiSwap, ApiCanWrite
<1>2. /\ c \in Captures /\ s \in Record /\ RowOK(s) /\ (s.State = "ready" => rec[c].State = "ready")
  BY <1>1, ApiHolds DEF ApiCanWrite, LeaseInv, Keeps
<1>3. Follows(rec[c], s) /\ Held(s, originals[c], late[c], derivatives[c])
  BY <1>1, <1>2 DEF LeaseInv, CallOK, EvidenceInv, CallHeld
<1>4. Inv
  BY DEF LeaseInv
<1> HIDE DEF c, s
<1> QED
  BY <1>1, <1>2, <1>3, <1>4, WrittenRefines

\* What a worker about to write holds, for the contract.
LEMMA WorkerWritesFollow ==
  ASSUME LeaseInv, EvidenceInv, NEW w \in Workers, WorkerCanWrite(w)
  PROVE  LET c == worker[w].id  s == worker[w].r
         IN /\ c \in Captures /\ s \in Record /\ RowOK(s) /\ Follows(rec[c], s)
            /\ Held(s, originals[c], late[c], derivatives[c])
            /\ worker[w].pc # "publish" => (s.State = "ready" => rec[c].State = "ready")
<1>1. /\ worker[w].id \in Captures /\ worker[w].r \in Record /\ RowOK(worker[w].r)
      /\ worker[w].pc # "publish" => Keeps(rec[worker[w].id], worker[w].r)
  BY WorkerHolds DEF WorkerCanWrite, LeaseInv
<1>2. Follows(rec[worker[w].id], worker[w].r)
  BY DEF LeaseInv, LeaseOK
<1>3. Held(worker[w].r, originals[worker[w].id], late[worker[w].id],
           derivatives[worker[w].id])
  BY <1>1 DEF EvidenceInv, WorkHeld
<1> QED
  BY <1>1, <1>2, <1>3 DEF Keeps

LEMMA WorkerRefines ==
  ASSUME LeaseInv, EvidenceInv, NEW w \in Workers, Claim(w) \/ Finish(w)
  PROVE  ContractStep
<1> DEFINE c == worker[w].id
           s == worker[w].r
<1>1. /\ WorkerCanWrite(w) /\ worker[w].pc # "publish" /\ rec' = [rec EXCEPT ![c] = s]
      /\ originals' = originals /\ late' = late /\ derivatives' = derivatives /\ manifest' = manifest
  BY DEF Claim, Finish, WorkerCanWrite
<1>2. /\ c \in Captures /\ s \in Record /\ RowOK(s) /\ Follows(rec[c], s)
      /\ Held(s, originals[c], late[c], derivatives[c]) /\ (s.State = "ready" => rec[c].State = "ready")
  BY <1>1, WorkerWritesFollow
<1>3. Inv
  BY DEF LeaseInv
<1> HIDE DEF c, s
<1> QED
  BY <1>1, <1>2, <1>3, WrittenRefines

LEMMA PublishRefines ==
  ASSUME LeaseInv, EvidenceInv, NEW w \in Workers, Publish(w)
  PROVE  ContractStep
<1> DEFINE c == worker[w].id
           s == worker[w].r
<1>1. /\ WorkerCanWrite(w) /\ worker[w].pc = "publish" /\ rec' = [rec EXCEPT ![c] = s]
      /\ manifest[c] = 0 /\ manifest' = [manifest EXCEPT ![c] = s.Processed]
      /\ originals' = originals /\ late' = late /\ derivatives' = derivatives
  BY DEF Publish, WorkerCanWrite
<1>2. /\ c \in Captures /\ s \in Record /\ Follows(rec[c], s)
      /\ Held(s, originals[c], late[c], derivatives[c])
  BY <1>1, WorkerWritesFollow
<1>3. s.State = "ready" /\ s.Processed > 0 /\ s.Processed \in Nat /\ Inv
  BY <1>1, <1>2 DEF LeaseInv, Inv, WorkerOK, Record
<1>4. rec[c].State = "finalizing" /\ s.Work # "none"
  <2>1. rec[c].State # "ready"
    BY <1>1, <1>2 DEF LeaseInv, Inv, OutboxMatchesRow
  <2>2. s.Work # "none"
    BY <1>2, <1>3 DEF Follows, Moves, Unfinished
  <2> QED BY <1>2, <1>3, <2>1, <2>2 DEF Follows, Moves
<1> HIDE DEF c, s
<1>5. /\ Status[c] = "finalizing" /\ Closed[c] = FALSE
      /\ Status' = [Status EXCEPT ![c] = "ready"] /\ Closed' = [Closed EXCEPT ![c] = FALSE]
  BY <1>1, <1>2, <1>3, <1>4, WrittenStatus
<1>6. Closed' = Closed /\ Stored' = Stored /\ Strayed' = Strayed
  BY <1>1, <1>5 DEF Closed, Stored, Strayed
<1>7. Stored[c]
  BY <1>2, <1>3 DEF Held, Stored
<1>8. ~Notified[c] /\ Notified' = [Notified EXCEPT ![c] = TRUE]
  <2>1. manifest \in [Captures -> Nat] /\ s.Processed # 0
    BY <1>3 DEF Inv, TypeOK
  <2> QED BY <1>1, <1>2, <2>1 DEF Notified
<1> QED
  BY <1>2, <1>5, <1>6, <1>7, <1>8, ContractPromotes DEF ContractStep

\* Images arrive for c while there is work on it.
LEMMA ImagesRefine ==
  ASSUME Inv, NEW c \in Captures, rec[c].Work # "none", rec' = rec, manifest' = manifest,
         late' = late, originals'[c] # {} \/ derivatives'[c] # {},
         \A d \in Captures \ {c} : originals'[d] = originals[d] /\ derivatives'[d] = derivatives[d]
  PROVE  ContractStep
<1>1. Status[c] # "absent" /\ ~Closed[c]
  BY DEF Inv, RowOK, Status, Closed
<1>2. Status' = Status /\ Closed' = Closed /\ Notified' = Notified /\ Strayed' = Strayed
  BY DEF Status, Closed, Notified, Strayed
<1>3. Stored' = [Stored EXCEPT ![c] = TRUE]
  BY DEF Stored
<1> QED
  BY <1>1, <1>2, <1>3, ContractStores DEF ContractStep

LEMMA PutRefines ==
  ASSUME LeaseInv, TimelyInv, NEW c \in Captures, NEW u \in 1..MaxUploads, ClientPut(c, u)
  PROVE  ContractStep
<1>1. Inv /\ rec[c].Work # "none"
  BY PutUndone DEF Undone, LeaseInv
<1>2. /\ rec' = rec /\ manifest' = manifest /\ derivatives' = derivatives /\ late' = late
      /\ originals'[c] # {} /\ \A d \in Captures \ {c} : originals'[d] = originals[d]
  BY DEF ClientPut, LeaseInv, Inv, TypeOK
<1> QED
  BY <1>1, <1>2, ImagesRefine

LEMMA WriteRefines ==
  ASSUME LeaseInv, NEW w \in Workers, WriteDerivatives(w)
  PROVE  ContractStep
<1>1. PICK c \in Captures : c = worker[w].id
  BY DEF LeaseInv, Inv, TypeOK, WorkerProcess
<1>2. Inv /\ rec[c].Work # "none"
  BY <1>1, ActiveStates DEF WriteDerivatives, Running, Active, LeaseInv
<1>3. /\ rec' = rec /\ manifest' = manifest /\ originals' = originals /\ late' = late
      /\ derivatives'[c] # {} /\ \A d \in Captures \ {c} : derivatives'[d] = derivatives[d]
  BY <1>1 DEF WriteDerivatives, LeaseInv, Inv, TypeOK
<1> QED
  BY <1>2, <1>3, ImagesRefine

LEMMA EraseRefines ==
  ASSUME LeaseInv, NEW w \in Workers, DeleteCapture(w) \/ DeleteFails(w)
  PROVE  ContractStep
<1>1. PICK c \in Captures : c = worker[w].id
  BY DEF LeaseInv, Inv, TypeOK, WorkerProcess
<1>2. /\ rec' = rec /\ manifest' = manifest /\ originals'[c] = {}
      /\ derivatives'[c] = {} \/ derivatives' = derivatives
      /\ late' = [late EXCEPT ![c] = {}]
      /\ \A d \in Captures \ {c} : originals'[d] = originals[d] /\ derivatives'[d] = derivatives[d]
  BY <1>1 DEF DeleteCapture, DeleteFails, LeaseInv, Inv, TypeOK
<1>3. Running(w, "cleanup")
  BY DEF DeleteCapture, DeleteFails
<1>4. Status[c] = "expired"
  BY <1>1, <1>3, CleanerAlone DEF Status
<1>5. Status' = Status /\ Closed' = Closed /\ Notified' = Notified
  BY <1>2 DEF Status, Closed, Notified
<1>6. Strayed' = [Strayed EXCEPT ![c] = FALSE]
  BY <1>2 DEF Strayed, LeaseInv, Inv, TypeOK
<1>7. Stored' = Stored \/ Stored' = [Stored EXCEPT ![c] = FALSE]
  <2>1. CASE derivatives'[c] = {}
    BY <1>2, <2>1 DEF Stored
  <2>2. CASE derivatives'[c] # {}
    BY <1>2, <2>2 DEF Stored
  <2> QED BY <2>1, <2>2
<1> QED
  BY <1>4, <1>5, <1>6, <1>7, ContractErases DEF ContractStep

LEMMA LateRefines ==
  ASSUME LeaseInv, TimelyInv, NEW c \in Captures,
         Lifecycle(c) \/ \E u \in 1..MaxUploads : LatePut(c, u)
  PROVE  ContractStep
<1>1. /\ rec' = rec /\ manifest' = manifest /\ originals' = originals
      /\ derivatives' = derivatives
  BY DEF Lifecycle, LatePut
<1>2. /\ Status' = Status /\ Closed' = Closed /\ Notified' = Notified /\ Stored' = Stored
      /\ Status[c] = rec[c].State
  BY <1>1 DEF Status, Closed, Notified, Stored
<1>3. CASE Lifecycle(c)
  <2>1. Strayed' = [Strayed EXCEPT ![c] = FALSE] /\ Status[c] = "expired"
    BY <1>2, <1>3 DEF Lifecycle, Strayed, LeaseInv, Inv, TypeOK
  <2> QED BY <1>2, <2>1, ContractErases DEF ContractStep
<1>4. ASSUME NEW u \in 1..MaxUploads, LatePut(c, u) PROVE ContractStep
  <2>1. Strayed' = [Strayed EXCEPT ![c] = TRUE]
    BY <1>4 DEF LatePut, Strayed, LeaseInv, Inv, TypeOK
  <2>2. Status[c] # "absent"
    BY <1>2, <1>4 DEF LatePut, TimelyInv, RowTimely
  <2> QED BY <1>2, <2>1, <2>2, ContractStrays DEF ContractStep
<1> QED
  BY <1>3, <1>4

LEMMA NextRefines ==
  ASSUME LeaseInv, TimelyInv, EvidenceInv, [Next]_vars
  PROVE  ContractStep
<1>0. Inv
  BY DEF LeaseInv
<1>1. CASE UNCHANGED vars \/ Tick \/ \E c \in Captures : Dispatch(c)
  BY <1>1, InvisibleStep DEF vars, Tick, Dispatch
<1>2. CASE \E c \in Captures : Create(c) \/ Lifecycle(c)
  BY <1>0, <1>2, CreateRefines, LateRefines
<1>3. CASE \E c \in Captures, u \in 1..MaxUploads : ClientPut(c, u) \/ LatePut(c, u)
  BY <1>3, PutRefines, LateRefines
<1>4. CASE \E p \in Handlers, c \in Captures, op \in Ops :
             Invoke(p, c, op) \/ InvokeRecovery(p, c, op)
  BY <1>4, InvisibleStep DEF Invoke, InvokeRecovery
<1>5. ASSUME NEW p \in Handlers, ApiStep(p) PROVE ContractStep
  <2>1. Presign(p) \/ ApiEnds(p) => ContractStep
    BY InvisibleStep DEF Presign, ApiEnds
  <2> QED BY <1>5, <2>1, ApiRefines DEF ApiStep
<1>6. CASE \E w \in Workers, job \in sent : Receive(w, job)
  BY <1>6, InvisibleStep DEF Receive
<1>7. ASSUME NEW w \in Workers, WorkerStep(w) \/ DeleteFails(w) \/ WorkerDies(w)
      PROVE  ContractStep
  <2>1. LoseRace(w) \/ WorkerDies(w) \/ ValidationOk(w) \/ ValidationNotOk(w) \/ Extract(w)
          => ContractStep
    BY InvisibleStep DEF LoseRace, WorkerDies, ValidationOk, ValidationNotOk, Extract
  <2> QED
    BY <1>7, <2>1, WorkerRefines, PublishRefines, WriteRefines, EraseRefines DEF WorkerStep
<1> QED
  BY <1>1, <1>2, <1>3, <1>4, <1>5, <1>6, <1>7 DEF Next

\* Handlers, workers, sweep and clients together do what CaptureContract says: no late or
\* second publication, no resurrected capture, no image that a request begun after closing
\* stores.
THEOREM ContractImplemented == Spec => ImplementsContract
<1>1. Init => Contract!Init
  <2>1. Absent.State = "absent"
    BY DEF Absent
  <2> QED BY <2>1 DEF Init, Contract!Init
<1>2. ContractStep => [Contract!Next]_(Contract!contractVars)
  BY DEF ContractStep, Contract!contractVars, Status, Notified, Stored, Strayed, Closed
<1>3. LeaseInv /\ TimelyInv /\ EvidenceInv /\ [Next]_vars
        => [Contract!Next]_(Contract!contractVars)
  BY <1>2, NextRefines
<1> QED
  BY <1>1, <1>3, LeaseInductive, TimelyInductive, EvidenceInductive, PTL
     DEF Spec, ImplementsContract, Contract!Spec
============================================================================
