-------------------------- MODULE CaptureLifecycle --------------------------
(***************************************************************************)
(* The life of captures from the moment their session exists: the API      *)
(* handlers (upload, finalize, retry-finalization, review, cancel and the  *)
(* reads, which may write too), the SQS worker, the minute sweep that      *)
(* dispatches durable work, the private bucket and its presigned PUTs.     *)
(*                                                                         *)
(* A handler or worker is a process.  It loads a row, decides, and asks    *)
(* Store.Swap to replace the row if its revision has not moved; between    *)
(* those points any other process may act, the clock may advance and the   *)
(* process may die.  Lambda kills an invocation at its timeout, so time    *)
(* never passes the end of a running one.                                  *)
(***************************************************************************)
EXTENDS CaptureRecord

CONSTANTS
  Captures,       \* capture ids
  Handlers,       \* concurrent API invocations
  Workers,        \* concurrent worker invocations
  ApiTimeout,     \* Lambda timeout of the API (25 s)
  WorkerTimeout,  \* Lambda timeout of the worker (90 s)
  MaxTime,        \* bound: the clock stops here
  LastCreate,     \* bound: no session starts after this time
  MaxGeneration,  \* bound: no retry beyond this generation
  MaxFaults,      \* bound: workers that die, and deletions that fail
  MaxLag,         \* bound: how long due work may wait for the sweep and a worker
  MaxReviews,     \* bound: reviews saved of one capture
  MaxSlow         \* bound: only requests for the first so many uploads outlive their URL

ASSUME LifecycleConstants ==
  /\ Captures # {}
  /\ ApiTimeout \in Nat \ {0}
  /\ WorkerTimeout \in Nat \ {0}
  /\ MaxTime \in Nat
  /\ LastCreate \in Nat
  /\ MaxGeneration \in Nat
  /\ MaxFaults \in Nat
  /\ MaxLag \in Nat
  /\ MaxReviews \in Nat
  /\ MaxSlow \in Nat

(***************************************************************************)
(* What the deployed numbers promise, in seconds: a claim of 120 outlives  *)
(* the worker's 90 and a handler's 25; a cleanup scheduled by a            *)
(* cancellation waits 360, more than a handler that decided (25), one that *)
(* signs a URL after losing the race (25) and the URL itself (300); the    *)
(* backoff of 60 is longer than a handler, there is at least one automatic *)
(* retry, and the retention of a day or more is longer than a handler and  *)
(* a URL.                                                                  *)
(***************************************************************************)
ASSUME DeployedTimings ==
  /\ WorkerTimeout < Lease /\ ApiTimeout <= Lease
  /\ 2 * ApiTimeout + UrlLifetime < CleanupWait
  /\ WorkerTimeout < CleanupWait
  /\ ApiTimeout <= Backoff
  /\ MaxAttempts >= 2
  /\ ApiTimeout + UrlLifetime < Retention

VARIABLES
  now,          \* the clock
  rec,          \* rec[c]: the row in the capture table
  sent,         \* jobs ever sent to the queue
  originals,    \* originals[c]: uploads whose object is in the bucket, put in its URL's time
  late,         \* late[c]: uploads with an object put by a request that outlived its URL
  derivatives,  \* derivatives[c]: generations with processed objects there
  links,        \* links[c][u]: when the last presigned PUT of u ends; 0: none
  manifest,     \* manifest[c]: Processed of the READY# event; 0: no event
  api,          \* api[p]: the API invocation p
  worker,       \* worker[w]: the worker invocation w
  faults        \* faults so far (bounds the model)

vars == <<now, rec, sent, originals, late, derivatives, links, manifest, api, worker,
          faults>>

Job == [id: Captures, Generation: Nat, Work: Works]

Ops == {"get", "upload", "finalize", "retry", "review", "cancel"}

\* before a swap, a process holds the row to write; after it, the row it wrote
ApiProcess ==
  [pc: {"idle", "recover", "swap", "presign"}, op: Ops, id: Captures,
   r: Record, u: 0..MaxUploads, end: Nat]
WorkerProcess ==
  [pc: {"idle", "claim", "run", "wrote", "final", "publish"}, id: Captures,
   r: Record, end: Nat]

IdleApi ==
  [pc |-> "idle", op |-> "get", id |-> CHOOSE c \in Captures : TRUE,
   r |-> Absent, u |-> 0, end |-> 0]
IdleWorker ==
  [pc |-> "idle", id |-> CHOOSE c \in Captures : TRUE, r |-> Absent, end |-> 0]

TypeOK ==
  /\ now \in Nat
  /\ rec \in [Captures -> Record]
  /\ sent \subseteq Job
  /\ originals \in [Captures -> SUBSET (1..MaxUploads)]
  /\ late \in [Captures -> SUBSET (1..MaxUploads)]
  /\ derivatives \in [Captures -> SUBSET Nat]
  /\ links \in [Captures -> [1..MaxUploads -> Nat]]
  /\ manifest \in [Captures -> Nat]
  /\ api \in [Handlers -> ApiProcess]
  /\ worker \in [Workers -> WorkerProcess]
  /\ faults \in Nat

Init ==
  /\ now = 1
  /\ rec = [c \in Captures |-> Absent]
  /\ sent = {}
  /\ originals = [c \in Captures |-> {}]
  /\ late = [c \in Captures |-> {}]
  /\ derivatives = [c \in Captures |-> {}]
  /\ links = [c \in Captures |-> [u \in 1..MaxUploads |-> 0]]
  /\ manifest = [c \in Captures |-> 0]
  /\ api = [p \in Handlers |-> IdleApi]
  /\ worker = [w \in Workers |-> IdleWorker]
  /\ faults = 0

\* FAULTY variant: the write is fenced by the generation only.
CanSwap_Generation(c, r) == rec[c].Generation <= r.Generation
\* FAULTY variant: the write is not conditional.
CanSwap_Always(c, r) == TRUE

\* What a HEAD or a GET of an upload finds.
Uploaded(c) == originals[c] \cup late[c]

\* Store.Swap: the condition "Revision = :revision" on the row before.
CanSwap(c, r) == rec[c].Revision + 1 = r.Revision

----------------------------------------------------------------------------
\* API handlers.

\* Create's transaction; admission of the account is module CaptureAdmission.
Create(c) ==
  /\ rec[c].State = "absent"
  /\ now <= LastCreate
  /\ rec' = [rec EXCEPT ![c] = Created(now)]
  /\ UNCHANGED <<now, sent, originals, late, derivatives, links, manifest, api, worker, faults>>

(***************************************************************************)
(* What an operation holding row r does next: the invocations it may       *)
(* become, none if it returns without a further write.  A request whose    *)
(* expected revision, slots or operation key do not fit returns an error   *)
(* or the recorded answer and changes nothing.                             *)
(***************************************************************************)
SwapTo(op, c, after, end) ==
  [pc |-> "swap", op |-> op, id |-> c, r |-> after, u |-> after.Uploads, end |-> end]

\* FAULTY variant: one upload too many.
UploadPlans_OffByOne(c, r, end) ==
  IF r.State # "uploading" \/ LooksExpired(r, now) THEN {}
  ELSE {SwapTo("upload", c, Selected(r, s), end) :
          s \in {x \in Slots : r.Uploads <= MaxUploads}}

UploadPlans(c, r, end) ==
  IF r.State # "uploading" \/ LooksExpired(r, now) THEN {}
  ELSE {SwapTo("upload", c, Selected(r, s), end) :
          s \in {x \in Slots : r.Uploads < MaxUploads}}
       \* replay of a still selected upload: renew its URL, write nothing
       \cup {[pc |-> "presign", op |-> "upload", id |-> c, r |-> r, u |-> u, end |-> end] :
               u \in Selection(r) \ {0}}

\* FAULTY variant: the uploads are not looked up in the bucket.
FinalizePlans_Unchecked(c, r, end) ==
  IF r.State = "uploading" /\ ~LooksExpired(r, now) /\ IsComplete(r)
  THEN {SwapTo("finalize", c, Finalized(r, now), end)}
  ELSE {}

\* Every selected upload has an object, put by whatever request.
FinalizePlans(c, r, end) ==
  IF /\ r.State = "uploading"
     /\ ~LooksExpired(r, now)
     /\ IsComplete(r)
     /\ Selection(r) \subseteq Uploaded(c)
  THEN {SwapTo("finalize", c, Finalized(r, now), end)}
  ELSE {}

RetryPlans(c, r, end) ==
  IF r.Generation >= MaxGeneration \/ LooksExpired(r, now) THEN {}
  ELSE IF r.State = "ready" /\ r.Extraction = "failed"
  THEN {SwapTo("retry", c, RetriedExtraction(r, now), end)}
  ELSE IF r.State = "failed" /\ now < r.ExpiresAt
  THEN {SwapTo("retry", c, RetriedValidation(r, now), end)}
  ELSE {}

\* A review that is not the saved one replaces it, at the revision its client has seen; an
\* identical one returns the row as it is.
ReviewPlans(c, r, end) ==
  IF /\ r.State = "ready"
     /\ ~LooksExpired(r, now)
     /\ r.Extraction \in {"complete", "failed"}
     /\ r.Reviewed < MaxReviews
  THEN {SwapTo("review", c, ReviewSaved(r), end)}
  ELSE {}

\* FAULTY variant: an expired capture can be cancelled.
CancelPlans_Expired(c, r, end) ==
  IF r.State \in {"absent", "cancelled"} THEN {}
  ELSE {SwapTo("cancel", c, Cancelled(r, now), end)}

CancelPlans(c, r, end) ==
  IF r.State \in {"absent", "cancelled", "expired"} THEN {}
  ELSE {SwapTo("cancel", c, Cancelled(r, now), end)}

Plans(op, c, r, end) ==
  CASE op = "upload"   -> UploadPlans(c, r, end)
    [] op = "finalize" -> FinalizePlans(c, r, end)
    [] op = "retry"    -> RetryPlans(c, r, end)
    [] op = "review"   -> ReviewPlans(c, r, end)
    [] op = "cancel"   -> CancelPlans(c, r, end)
    [] op = "get"      -> {}

\* An invocation loads the row and decides.
Invoke(p, c, op) ==
  /\ api[p].pc = "idle"
  /\ op = "cancel" \/ ~Overdue(rec[c], now)
  /\ \E next \in Plans(op, c, rec[c], now + ApiTimeout) :
       api' = [api EXCEPT ![p] = next]
  /\ UNCHANGED <<now, rec, sent, originals, late, derivatives, links, manifest, worker, faults>>

\* Get, called by every operation but Cancel, found overdue extraction.
InvokeRecovery(p, c, op) ==
  /\ api[p].pc = "idle"
  /\ op # "cancel"
  /\ Overdue(rec[c], now)
  /\ api' = [api EXCEPT ![p] =
       [pc |-> "recover", op |-> op, id |-> c, r |-> Recovered(rec[c]), u |-> 0,
        end |-> now + ApiTimeout]]
  /\ UNCHANGED <<now, rec, sent, originals, late, derivatives, links, manifest, worker, faults>>

\* Recovery committed: the operation goes on with the row Get returned.
Recover(p) ==
  LET c == api[p].id
      plans == Plans(api[p].op, c, api[p].r, api[p].end)
  IN /\ api[p].pc = "recover"
     /\ CanSwap(c, api[p].r)
     /\ rec' = [rec EXCEPT ![c] = api[p].r]
     /\ \E next \in IF plans = {} THEN {IdleApi} ELSE plans :
          api' = [api EXCEPT ![p] = next]
     /\ UNCHANGED <<now, sent, originals, late, derivatives, links, manifest, worker, faults>>

ApiSwap(p) ==
  LET c == api[p].id
  IN /\ api[p].pc = "swap"
     /\ CanSwap(c, api[p].r)
     /\ rec' = [rec EXCEPT ![c] = api[p].r]
     /\ api' = [api EXCEPT ![p] = IF api[p].op = "upload"
                                  THEN [@ EXCEPT !.pc = "presign"] ELSE IdleApi]
     /\ UNCHANGED <<now, sent, originals, late, derivatives, links, manifest, worker, faults>>

\* The URL is signed after the write, whatever has happened to the row since.
Presign(p) ==
  /\ api[p].pc = "presign"
  /\ links' = [links EXCEPT ![api[p].id][api[p].u] = now + UrlLifetime]
  /\ api' = [api EXCEPT ![p] = IdleApi]
  /\ UNCHANGED <<now, rec, sent, originals, late, derivatives, manifest, worker, faults>>

\* A swap that lost its race answers 409; an invocation may also die anywhere.
ApiEnds(p) ==
  /\ api[p].pc # "idle"
  /\ api' = [api EXCEPT ![p] = IdleApi]
  /\ UNCHANGED <<now, rec, sent, originals, late, derivatives, links, manifest, worker, faults>>

\* The client PUTs bytes with a URL it was given, and is done before the URL ends.
ClientPut(c, u) ==
  /\ now <= links[c][u]
  /\ u \notin originals[c]
  /\ originals' = [originals EXCEPT ![c] = @ \cup {u}]
  /\ UNCHANGED <<now, rec, sent, late, derivatives, links, manifest, api, worker, faults>>

(***************************************************************************)
(* S3 looks at the end of the URL when a request begins.  One that was     *)
(* under way then, begun in the URL's time, may be complete at any time    *)
(* later, also after the sweep.                                            *)
(***************************************************************************)
LatePut(c, u) ==
  /\ links[c][u] > 0 /\ links[c][u] < now
  /\ u <= MaxSlow
  /\ u \notin late[c]
  /\ late' = [late EXCEPT ![c] = @ \cup {u}]
  /\ UNCHANGED <<now, rec, sent, originals, derivatives, links, manifest, api, worker, faults>>

\* The bucket's lifecycle removes what is older than ten days: longer than a session and its
\* evidence last, so what it comes to is what a cleanup did not see.
Lifecycle(c) ==
  /\ rec[c].State = "expired" /\ rec[c].Work = "none"
  /\ late[c] # {}
  /\ late' = [late EXCEPT ![c] = {}]
  /\ UNCHANGED <<now, rec, sent, originals, derivatives, links, manifest, api, worker, faults>>

----------------------------------------------------------------------------
\* The minute sweep over the work-due index.

\* FAULTY variants: a kind of work the sweep forgets.
Dispatch_NoValidation(c) ==
  /\ rec[c].Work \in {"extract", "cleanup"}
  /\ rec[c].Due <= now
  /\ sent' = sent \cup {[id |-> c, Generation |-> rec[c].Generation,
                         Work |-> rec[c].Work]}
  /\ UNCHANGED <<now, rec, originals, late, derivatives, links, manifest, api, worker, faults>>
Dispatch_NoExtraction(c) ==
  /\ rec[c].Work \in {"validate", "cleanup"}
  /\ rec[c].Due <= now
  /\ sent' = sent \cup {[id |-> c, Generation |-> rec[c].Generation,
                         Work |-> rec[c].Work]}
  /\ UNCHANGED <<now, rec, originals, late, derivatives, links, manifest, api, worker, faults>>

Dispatch(c) ==
  /\ rec[c].Work # "none"
  /\ rec[c].Due <= now
  /\ sent' = sent \cup {[id |-> c, Generation |-> rec[c].Generation,
                         Work |-> rec[c].Work]}
  /\ UNCHANGED <<now, rec, originals, late, derivatives, links, manifest, api, worker, faults>>

----------------------------------------------------------------------------
(***************************************************************************)
(* The worker.  A sent job may be received again at any time (SQS is at    *)
(* least once, and a sweep repeats jobs that are due); one whose           *)
(* generation, work, due time or lease does not fit changes nothing.       *)
(***************************************************************************)
Hold(pc, c, r) == [pc |-> pc, id |-> c, r |-> r, end |-> now + WorkerTimeout]

WorkPlans(c, r) ==
  CASE r.Work = "extract" ->
         IF r.State # "ready" \/ r.Extraction # "pending" THEN {}
         ELSE IF now >= r.DeleteAfter
         THEN {Hold("final", c, ExtractionExpired(r, now))}
         ELSE IF r.ExtractionAttempts >= MaxAttempts
         THEN {Hold("final", c, ExtractionFinished(r, now, FALSE))}
         ELSE {Hold("claim", c, ExtractionClaimed(r, now))}
    [] r.Work = "cleanup" ->
         IF r.State = "uploading" /\ now < r.ExpiresAt THEN {}
         ELSE {Hold("claim", c, CleanupClaimed(r, now))}
    [] r.Work = "validate" ->
         IF r.State # "finalizing" THEN {}
         ELSE IF now >= r.ExpiresAt THEN {Hold("final", c, Lapsed(r, now))}
         ELSE IF r.Attempts >= MaxAttempts THEN {Hold("final", c, GaveUp(r))}
         ELSE {Hold("claim", c, ValidationClaimed(r, now))}
    [] r.Work = "none" -> {}

Receive(w, job) ==
  LET r == rec[job.id]
  IN /\ worker[w].pc = "idle"
     /\ r.Generation = job.Generation
     /\ r.Work = job.Work
     /\ r.Due <= now
     /\ r.LeaseUntil <= now
     /\ \E next \in WorkPlans(job.id, r) :
          worker' = [worker EXCEPT ![w] = next]
     /\ UNCHANGED <<now, rec, sent, originals, late, derivatives, links, manifest, api, faults>>

Claim(w) ==
  LET c == worker[w].id
  IN /\ worker[w].pc = "claim"
     /\ CanSwap(c, worker[w].r)
     /\ rec' = [rec EXCEPT ![c] = worker[w].r]
     /\ worker' = [worker EXCEPT ![w].pc = "run"]
     /\ UNCHANGED <<now, sent, originals, late, derivatives, links, manifest, api, faults>>

Finish(w) ==
  LET c == worker[w].id
  IN /\ worker[w].pc = "final"
     /\ CanSwap(c, worker[w].r)
     /\ rec' = [rec EXCEPT ![c] = worker[w].r]
     /\ worker' = [worker EXCEPT ![w] = IdleWorker]
     /\ UNCHANGED <<now, sent, originals, late, derivatives, links, manifest, api, faults>>

\* The ready transaction also puts READY#, which must not exist.
Publish(w) ==
  LET c == worker[w].id
  IN /\ worker[w].pc = "publish"
     /\ CanSwap(c, worker[w].r)
     /\ manifest[c] = 0
     /\ rec' = [rec EXCEPT ![c] = worker[w].r]
     /\ manifest' = [manifest EXCEPT ![c] = worker[w].r.Processed]
     /\ worker' = [worker EXCEPT ![w] = IdleWorker]
     /\ UNCHANGED <<now, sent, originals, late, derivatives, links, api, faults>>

\* A swap that lost its race: ErrConflict leaves the job to be redelivered.
LoseRace(w) ==
  /\ worker[w].pc \in {"claim", "final", "publish"}
  /\ \/ ~CanSwap(worker[w].id, worker[w].r)
     \/ worker[w].pc = "publish" /\ manifest[worker[w].id] # 0
  /\ worker' = [worker EXCEPT ![w] = IdleWorker]
  /\ UNCHANGED <<now, rec, sent, originals, late, derivatives, links, manifest, api, faults>>

Running(w, work) == worker[w].pc = "run" /\ worker[w].r.Work = work

\* Read the pinned versions, decode, re-encode, write under the generation.
WriteDerivatives(w) ==
  LET c == worker[w].id
  IN /\ Running(w, "validate")
     /\ worker[w].r.Assets \subseteq Uploaded(c)
     /\ derivatives' = [derivatives EXCEPT ![c] = @ \cup {worker[w].r.Generation}]
     /\ worker' = [worker EXCEPT ![w].pc = "wrote"]
     /\ UNCHANGED <<now, rec, sent, originals, late, links, manifest, api, faults>>

\* FAULTY variant: the session deadline is not rechecked after the images.
ValidationOk_NoRecheck(w) ==
  LET r == worker[w].r
  IN /\ worker[w].pc = "wrote"
     /\ \E extractor \in BOOLEAN :
          worker' = [worker EXCEPT ![w].pc = "publish",
                                   ![w].r = Promoted(r, now, extractor)]
     /\ UNCHANGED <<now, rec, sent, originals, late, derivatives, links, manifest, api, faults>>

ValidationOk(w) ==
  LET r == worker[w].r
  IN /\ worker[w].pc = "wrote"
     /\ \/ /\ now >= r.ExpiresAt
           /\ worker' = [worker EXCEPT ![w].pc = "final", ![w].r = Lapsed(r, now)]
        \/ /\ now < r.ExpiresAt
           /\ \E extractor \in BOOLEAN :
                worker' = [worker EXCEPT ![w].pc = "publish",
                                         ![w].r = Promoted(r, now, extractor)]
     /\ UNCHANGED <<now, rec, sent, originals, late, derivatives, links, manifest, api, faults>>

\* An unsafe image, or an object store that did not answer, at any asset.
ValidationNotOk(w) ==
  LET r == worker[w].r
  IN /\ Running(w, "validate") \/ worker[w].pc = "wrote"
     /\ \E after \in {Rejected(r, now), ValidationFailed(r, now)} :
          worker' = [worker EXCEPT ![w].pc = "final", ![w].r = after]
     /\ UNCHANGED <<now, rec, sent, originals, late, derivatives, links, manifest, api, faults>>

\* The provider answers or not; either way the retention deadline is rechecked.
Extract(w) ==
  LET r == worker[w].r
  IN /\ Running(w, "extract")
     /\ \E ok \in BOOLEAN :
          /\ ok => r.Processed \in derivatives[worker[w].id]
          /\ worker' = [worker EXCEPT ![w].pc = "final",
               ![w].r = IF now >= r.DeleteAfter THEN ExtractionExpired(r, now)
                        ELSE ExtractionFinished(r, now, ok)]
     /\ UNCHANGED <<now, rec, sent, originals, late, derivatives, links, manifest, api, faults>>

\* All versions under both prefixes, then the second write.
DeleteCapture(w) ==
  LET c == worker[w].id
  IN /\ Running(w, "cleanup")
     /\ originals' = [originals EXCEPT ![c] = {}]
     /\ late' = [late EXCEPT ![c] = {}]
     /\ derivatives' = [derivatives EXCEPT ![c] = {}]
     /\ worker' = [worker EXCEPT ![w].pc = "final", ![w].r = CleanupDone(@)]
     /\ UNCHANGED <<now, rec, sent, links, manifest, api, faults>>

\* The first prefix was emptied, the second request failed.
DeleteFails(w) ==
  LET c == worker[w].id
  IN /\ Running(w, "cleanup")
     /\ faults < MaxFaults
     /\ faults' = faults + 1
     /\ originals' = [originals EXCEPT ![c] = {}]
     /\ late' = [late EXCEPT ![c] = {}]
     /\ worker' = [worker EXCEPT ![w] = IdleWorker]
     /\ UNCHANGED <<now, rec, sent, derivatives, links, manifest, api>>

\* Lambda kills the invocation, at its timeout or before.
WorkerDies(w) ==
  /\ worker[w].pc # "idle"
  /\ faults < MaxFaults
  /\ faults' = faults + 1
  /\ worker' = [worker EXCEPT ![w] = IdleWorker]
  /\ UNCHANGED <<now, rec, sent, originals, late, derivatives, links, manifest, api>>

----------------------------------------------------------------------------
\* Under the bound MaxLag the clock waits for work long overdue; with MaxLag
\* at MaxTime it never does.
Waiting(c) ==
  /\ rec[c].Work # "none"
  /\ now >= rec[c].Due + MaxLag
  /\ now >= rec[c].LeaseUntil + MaxLag

Tick ==
  /\ now < MaxTime
  /\ \A c \in Captures : ~Waiting(c)
  /\ \A p \in Handlers : api[p].pc # "idle" => now < api[p].end
  /\ \A w \in Workers : worker[w].pc # "idle" => now < worker[w].end
  /\ now' = now + 1
  /\ UNCHANGED <<rec, sent, originals, late, derivatives, links, manifest, api, worker, faults>>

ApiStep(p) == Recover(p) \/ ApiSwap(p) \/ Presign(p) \/ ApiEnds(p)

WorkerStep(w) ==
  \/ Claim(w) \/ Finish(w) \/ Publish(w) \/ LoseRace(w)
  \/ WriteDerivatives(w) \/ ValidationOk(w) \/ ValidationNotOk(w)
  \/ Extract(w) \/ DeleteCapture(w)

Next ==
  \/ Tick
  \/ \E c \in Captures : Create(c) \/ Dispatch(c) \/ Lifecycle(c)
  \/ \E c \in Captures, u \in 1..MaxUploads : ClientPut(c, u) \/ LatePut(c, u)
  \/ \E p \in Handlers, c \in Captures, op \in Ops :
       Invoke(p, c, op) \/ InvokeRecovery(p, c, op)
  \/ \E p \in Handlers : ApiStep(p)
  \/ \E w \in Workers, job \in sent : Receive(w, job)
  \/ \E w \in Workers : WorkerStep(w) \/ DeleteFails(w) \/ WorkerDies(w)

Spec == Init /\ [][Next]_vars

(***************************************************************************)
(* Liveness needs the platform, never a client: the clock advances, the    *)
(* sweep runs every minute, SQS hands a job of each capture to some idle   *)
(* worker, Lambda runs or kills what it started, and S3 applies the        *)
(* lifecycle of the bucket.                                                *)
(***************************************************************************)
Fairness ==
  /\ WF_vars(Tick)
  /\ \A c \in Captures :
       /\ WF_vars(Dispatch(c))
       /\ WF_vars(Lifecycle(c))
       /\ WF_vars(\E w \in Workers, job \in sent : job.id = c /\ Receive(w, job))
  /\ \A w \in Workers : WF_vars(WorkerStep(w))
  /\ \A p \in Handlers : WF_vars(ApiStep(p))

FairSpec == Spec /\ Fairness
----------------------------------------------------------------------------
(***************************************************************************)
(* Properties.                                                             *)
(***************************************************************************)

\* Durable intent is co-located with the state it belongs to, so no commit of
\* any handler, worker or read leaves a capture frozen without work that will
\* move it, or a row scheduled for work its state would refuse; only an erased
\* capture has none (docs/id-capture.md "no transaction can leave a frozen
\* capture without work", recordItem's index attributes).
WorkMatchesState ==
  \A c \in Captures : LET r == rec[c] IN
    /\ r.Work = "validate" <=> r.State = "finalizing"
    /\ r.Work = "extract" <=> r.State = "ready" /\ r.Extraction = "pending"
    /\ r.Work = "none" => r.State \in {"absent", "expired"}
    /\ r.Work = "none" => r.Uploads = 0 /\ r.Assets = {} /\ r.Processed = 0

\* Leases outlive the worker's timeout across every path that resets them, so
\* two workers never process the same capture at once; in particular nothing
\* is written under a prefix that is being emptied.
OneActiveWorker ==
  \A v, w \in Workers :
    /\ worker[v].pc \in {"run", "wrote"}
    /\ worker[w].pc \in {"run", "wrote"}
    /\ worker[v].id = worker[w].id
    => v = w

\* The pinned originals of evidence under validation, or kept for a manual
\* retry, and the published derivatives of a ready capture are in the bucket:
\* no cleanup, however delayed or repeated, reaches them first.
EvidenceHeld ==
  \A c \in Captures : LET r == rec[c] IN
    /\ r.State \in {"finalizing", "failed", "ready"} => r.Assets \subseteq Uploaded(c)
    /\ r.State = "ready" => r.Processed \in derivatives[c]

\* Once a capture's cleanup is complete no request can begin to put an image where nothing
\* is scheduled to delete it: every URL is over and none will be signed, and neither a
\* request that was done in its URL's time nor a worker has left one (cleanup's six-minute
\* wait).  A request that was under way when its URL ended may leave one (late), which the
\* sweep does not see: docs/id-capture.md gives that to the bucket's lifecycle.
NoOrphans ==
  \A c \in Captures :
    rec[c].Work = "none" =>
      /\ originals[c] = {} /\ derivatives[c] = {}
      /\ \A u \in 1..MaxUploads : links[c][u] < now

\* Extracted and reviewed card data never outlive the capture: whichever of
\* cancel, expiry, retention, review, retry or recovery wins a race, a
\* cancelled or expired row holds neither.
CardDataErased ==
  \A c \in Captures :
    rec[c].State \in {"absent", "cancelled", "expired"} =>
      rec[c].Extraction = "none" /\ rec[c].Reviewed = 0

\* The READY# event is written exactly when the row becomes ready, and names
\* the derivatives the ready row names: a consumer of the event never reads
\* evidence other than that the account's status shows.
OutboxMatchesRow ==
  \A c \in Captures :
    /\ rec[c].State = "ready" => manifest[c] = rec[c].Processed /\ manifest[c] # 0
    /\ manifest[c] # 0 => rec[c].State \in {"ready", "cancelled", "expired"}

\* A settled extraction stays settled: a worker a read has given up on cannot
\* publish over the manual entry it opened.  Only a new generation (a retry)
\* reopens it, and only cancellation or expiry erases it.  A saved review is
\* erased by those too, and replaced only by one that was decided on the row
\* it replaces and changes nothing else of it: of two corrections of the same
\* review one is lost only with a conflict, and no worker, retry or recovery
\* that read the row before a review writes it back without it.
SettledFieldsStay ==
  [][\A c \in Captures :
       LET r == rec[c]  s == rec'[c]
       IN /\ r.Extraction \in {"complete", "failed"} /\ s.Extraction # r.Extraction
               => \/ s.Extraction = "pending" /\ s.Generation > r.Generation
                  \/ s.State \in {"cancelled", "expired"}
          /\ s.Reviewed # r.Reviewed
               => s = ReviewSaved(r) \/ s.State \in {"cancelled", "expired"}]_rec

\* What docs/id-capture.md says: "Finalizing evidence cannot become ready after
\* the 24-hour session deadline."
NoReadyAfterDeadline ==
  [][\A c \in Captures :
       rec[c].State = "finalizing" /\ rec'[c].State = "ready"
         => now < rec[c].ExpiresAt]_rec

\* What the code gives instead: the deadline is read before the write, so the
\* overrun is at most the rest of the invocation, and the retention of what is
\* promoted still starts before the deadline.
ReadyNearDeadline ==
  [][\A c \in Captures :
       rec[c].State = "finalizing" /\ rec'[c].State = "ready"
         => /\ now < rec[c].ExpiresAt + WorkerTimeout
            /\ rec'[c].DeleteAfter < rec[c].ExpiresAt + Retention]_rec

\* Validation settles, whatever crashes, loses races or is delivered twice.
ValidationSettles ==
  \A c \in Captures : rec[c].State = "finalizing" ~> rec[c].State # "finalizing"

\* The client's loading screen ends.
ExtractionSettles ==
  \A c \in Captures : rec[c].Extraction = "pending" ~> rec[c].Extraction # "pending"

\* Every session ends erased, cancelled or not, finished or abandoned, with no
\* further request from anybody: by the sweep, and by the lifecycle what a
\* request left that was complete after it.
EverythingErased ==
  \A c \in Captures :
    rec[c].State # "absent"
      ~> /\ rec[c].Work = "none"
         /\ originals[c] = {} /\ late[c] = {} /\ derivatives[c] = {}

\* Cancelling or expiring a capture is final for its evidence.
Contract == INSTANCE CaptureContract WITH
  status <- [c \in Captures |-> rec[c].State],
  notified <- [c \in Captures |-> manifest[c] # 0],
  held <- [c \in Captures |-> originals[c] # {} \/ derivatives[c] # {}],
  stray <- [c \in Captures |-> late[c] # {}],
  closed <- [c \in Captures |-> rec[c].State = "expired" /\ rec[c].Work = "none"]

\* Every step of handlers, workers, sweep and clients is a step of the
\* contract or invisible to it: late publications, double publications,
\* resurrected captures and images that a request begun after closing stores
\* are not.
ImplementsContract == Contract!Spec
============================================================================
