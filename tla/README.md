# Verification of the Attestra authentication service

This directory holds TLA+ models of the stateful parts of the repository, TLC
configurations that check them on small instances, and proofs that TLAPS checks
for every value of the constants. Every definition is translated from the code
under `src/`; `PROJECT.json` maps each one to the lines it stands for. Paths
below are relative to `src/`.

| part | modules | checked by | proved in |
|---|---|---|---|
| identity capture: sessions, worker, outbox, cleanup | CaptureRecord, CaptureLifecycle, CaptureContract, CaptureInvariant | MCCapture: runs `capture`, `capture_races`, `capture_live`, `capture_deadline` | CaptureProofs |
| identity capture: who may start a session | CaptureAdmission, AdmissionInvariant | MCAccounts: run `accounts` | AdmissionProofs |
| e-mail sign-up and confirmation | EmailProof, EmailInvariant | MCEmailProof: runs `email`, `email_answer`; MCAccounts: run `accounts` | EmailProofs |
| environment reset | EnvReset, EnvResetInvariant | MCEnvReset: runs `reset`, `reset_live`, `reset_retry` | EnvResetProofs |
| environment registry and the deployments under its lease | RegistryRow, IndexLease | MCOperations: run `operations` | IndexProofs |
| runtime configuration and its administrators | RuntimeConfig (over RegistryRow) | MCOperations: run `operations` | ConfigProofs |
| sign-in, challenge, passkeys, enrolment | Onboarding (extends RuntimeConfig) | MCOperations: run `operations` | ConfigProofs |
| teardown of one environment | Teardown (over RegistryRow) | MCOperations: run `operations` | TeardownProofs |
| removal of everything | Nuke | MCOperations: run `operations`; MCNuke: run `nuke_failures` | NukeProofs |

To repeat a run: `tlc -workers 2 -config MCCapture.cfg MCCapture.tla`. To repeat
a proof: `tlapm CaptureProofs.tla`.

## 1. Inventory

Everything runs in AWS Lambda functions over DynamoDB, S3, SQS and Cognito. No
function keeps state between invocations: all state is rows and objects, all
coordination is conditional writes, and any invocation may be killed between any
two calls it makes.

| component | state | operations | interacts with |
|---|---|---|---|
| capture sessions and evidence (`capture/`) | one row per capture: State, Revision, Work index, lease, attempts, uploads, slots, processed evidence, extraction, review | Create, Get, AuthorizeUpload, Finalize, RetryFinalization, Review, Cancel; the worker's cleanup, validate, extract | the store below, through Swap, Load and the work queue |
| capture persistence, objects, dispatch (`awscapture/`, `cmd/capture-*`) | capture table (captures, accounts, operation mappings, READY# events), private bucket, job queue | Create and Swap (conditional), Ready (a transaction), presigned PUT, DeletePrefix, Sweep, SQS receive | DynamoDB, S3, SQS, one-minute schedule |
| capture HTTP API (`captureapi/`) | none | routes requests | capture sessions |
| card extraction (`awscapture/extractor.go`, `capture/disclosure.go`) | none | Extract | a remote model |
| e-mail proofs (`email/`, `awsstore/`) | one versioned row per sign-up request; hourly budgets | Signup, Resend, Confirm | identity adapter, e-mail sender |
| e-mail API and delivery (`api/`, `awsemail/`) | none | decode, send | e-mail proofs |
| verification challenge (`challenge/`) | one row per grant, consumed once | the Cognito challenge triggers | identity adapter |
| identity adapter (`awsidentity/`) | Cognito users | Eligible, Confirm, Session | Cognito |
| environment reset (`envreset/`, `cmd/environment-reset/`) | one control record: phase, lease, due time, saved concurrencies, cut-off | Start, Resume, Work (a loop under a schedule) | Lambda concurrency, Cognito, DynamoDB, S3, SQS |
| environment registry (`registry/`, its client in `tools/deploy/internal/registry/`) | one row per environment: revision, lock, last token, entry, tombstone | begin, publish, retire, delete, abandon | deployment workflow; SyncDefaults checks the same row |
| runtime configuration (`runtimeconfig/`) | current revision, immutable revisions, grants, the permanent marker | Publish, rollback, SetGrant, Seed, BootstrapGrant, SyncDefaults | every Lambda reads it; the index row fences its defaults |
| sign-in and enrolment (`signin/`) | two facts per user | Start, Finish, SetPassword, Status | Cognito, configuration, passkeys, captures |
| passkeys (`passkey/`) | Cognito's credentials | registration and sign-in ceremonies | Cognito |
| administration API (`adminapi/`, `adminsetup/`, `cmd/admin-setup`) | the administrators' pool | publish, roll back, grant; configure the pool and invite the first administrator | configuration, reset |
| deployment workflow (`tools/deploy/internal/workflow/`) | receipts on the operator's disk: a publication's, a teardown's checkpoint, nuke's report | setup, deploy, release, teardown, nuke, check | registry, GitHub, AWS, Cloudflare, Pulumi |
| infrastructure (`infra/`, `infra-index/`) | none | declares timeouts, schedules, queues, policies | all of the above |
| vault, DNS, GitHub, build helpers (`tools/deploy/internal/`) | files and remote records | one-shot calls | deployment workflow |

What is hard in each, and what makes it correct:

- **Capture.** API requests, workers, a sweep and clients with upload URLs act
  on one row and one bucket prefix, with no lock but the row's revision. A
  worker may die holding a lease; a deletion may fail after its row was
  written; an upload URL may be used after the session is cancelled. Correct
  means: nothing frozen without the work that moves it; one worker on the
  evidence; evidence present while it is used and gone afterwards; readiness
  announced with the row that names it; card data erased once a capture is
  over.
- **Admission.** Three rows written in one transaction from reads taken
  earlier. Correct means: one open upload session and one capture per operation
  key, within the daily limit, and a durable fact that somebody was captured.
- **E-mail proofs.** The same link may be opened twice, codes guessed
  concurrently, a confirmation killed after the account was created but before
  it was recorded. Correct means: one account and at most one session per
  address, every wrong code counted, a confirmed proof untouched.
- **Environment reset.** A destructive job of nine phases over several services,
  resumed after failures, while the application it resets winds down. Correct
  means: one worker at a time, nothing still writes while data is deleted, all
  of it is deleted, the functions come back with the concurrency they had, no
  token of a deleted user is accepted.
- **Registry and deployments.** A change is sent up to three times; a request whose
  answer was lost may be carried out much later; a command may die between any two
  steps and is resumed from its receipt. Correct means: whoever runs Pulumi holds the
  lease, and the index and the defaults follow what is deployed.
- **Configuration and administration.** Deployments, administrators and a setup
  command write one table from revisions and grants they read earlier. Correct
  means: no publication is lost, nobody acts on a right that was taken back, one
  manager always remains, late defaults never replace a later choice.
- **Enrolment.** Facts are earned in two steps across two services while the
  policy changes. Correct means: a ticket opens one session, and a user is told
  it has completed only what its account bears out.
- **Teardown and nuke.** Dozens of steps against several providers, stopped and
  resumed at any of them while others deploy and tear down. Correct means: nothing is
  removed of an environment set up later that was not inspected and confirmed, what is
  reported gone is gone, and what is needed to resume goes last.

`PROJECT.json` lists 40 hazards at their lines, with the properties that cover
each; section 8 names the few that no property covers.

## 2. How the modules are built

A handler or worker is a process. It *loads* a row, *decides*, and asks the
store to *replace* the row if it has not moved. The steps between which another
process can act are separate actions; what happens between two calls to a
service is one action. Clocks, faults and generations are bounded by named
constants (`MaxTime`, `MaxFaults`, ...), and the same constants appear in the
theorems only as arbitrary numbers.

Operators whose name ends in an underscore and a phrase
(`CanSwap_Generation`, `Workable_NoLease`, ...) are *not* part of any
specification. Each is a plausible mistake in the operator that follows it, and
the `mutants` of `PROJECT.json` say which property fails when the mistake is
made.

### Capture

**CaptureRecord** is the row of one capture (`capture/model.go`) and each
replacement of it that `capture/service.go` and `capture/worker.go` can build:
`Finalized`, `Cancelled`, `Lapsed`, `Promoted`, `Rejected`, `CleanupClaimed`,
and so on. `RowOK` says which rows are consistent; `Permitted` which row may
follow which.

**CaptureLifecycle** puts those rows into a table (`rec`) with the queue
(`sent`), the bucket (`originals`, `late`, `derivatives`), the presigned URLs (`links`),
the READY# events (`manifest`), API invocations (`api`) and workers
(`worker`). S3 looks at the end of a URL when a request begins: `originals` are the
uploads whose object was stored in its URL's time, `late` those with an object of a
request that was still under way then. The handlers see both alike (`Uploaded`). A saved
review is known by its number (`Reviewed`): a correction is the next one, and a review
identical to the saved one writes nothing.

| action | code |
|---|---|
| `Create` | the row of `Service.Create` (its admission is CaptureAdmission) |
| `Invoke`, `InvokeRecovery`, `Recover` | an API call loads the row; an overdue extraction is failed first, as in `Service.load` |
| `ApiSwap` | the decided write, or the conflict |
| `Presign` | the upload URL signed *after* the write |
| `ClientPut`, `LatePut` | a PUT that is done before its URL ends, and one that is not: it may be complete at any time, also after the cleanup |
| `Lifecycle` | the ten-day rule of the bucket (`infra/capture.go:58`), for what a finished cleanup did not see |
| `Dispatch` | one due row of `Store.Sweep` sent to the queue |
| `Receive`, `Claim`, `LoseRace` | `Worker.Process`: stale jobs dropped, exhausted attempts given up, the lease taken |
| `WriteDerivatives`, `ValidationOk`, `ValidationNotOk`, `Publish` | `validate`, with the deadline read again after decoding, and `Store.Ready` |
| `Extract` | the extraction's answer, whatever it is |
| `DeleteCapture`, `DeleteFails`, `Finish` | the two prefixes of `cleanup`, each of which may fail, and the final row |
| `WorkerDies`, `ApiEnds`, `Tick` | crashes, and the Lambda timeout: time never passes the end of a live invocation |

**CaptureContract** is what a user of the capture service may rely on, without
rows, leases or revisions: a capture is opened, submitted, promoted once,
withdrawn or lapsed; evidence is stored only while it can be used; a closed
capture holds nothing, but for what an upload leaves that outlived its URL (`stray`), of
which no time is promised (`docs/id-capture.md:47`). `ImplementsContract` is the refinement.

**CaptureAdmission** is `Service.Create` in full, with the operation mapping and
the account row, run by concurrent creators against `Store.Ready`, midnight and
the expiry of rows.

### E-mail proofs

**EmailProof**: `proofs` (the versioned rows), `spent` (hourly budgets), `users`
and `sessions` (Cognito), `task` (invocations), and two histories, `wrong`
(wrong codes answered) and `told` (callers told that the account is confirmed).
`Signup` to `Send`, `Resend` to `Rotate`, and `Confirm` to `OpenSession` are the
three operations of `email/service.go`, cut at every call to the store or to
Cognito. A failed call ends the invocation as its death does (`Die`), except
where the code goes on after an error: `CreateFails`, `Fail`, `Answer`.

### Environment reset

**EnvReset**: `row` (the control record), `limit` (each function's reserved
concurrency), `data` (what each store holds), `busyUntil` (how long calls begun
before the pause, or upload addresses they signed, can still write), `orphaned`
(the latest token a deleted user may hold), `worker`. `Start`, `Resume`, `Load`,
`Claim` and `Save` are the conditional writes of `envreset/store.go`;
`CallFunction`, `Purge` and `ClearPage` the AWS calls of `envreset/aws.go`, one
at a time; `Fail` and `PauseAgain` what `Work` does when one of them fails;
`Finish` the loop in `cmd/environment-reset/main.go`, which goes on while it has
time.

### Registry and deployments

**RegistryRow** is one row of the index and what each operation makes of it
(`registry/registry.go`): the conditions `Free` and `Owned`, the answers to changes already
made (`Settled`), and `Begun`, `Published`, `Retired`, `Removed`, `Abandoned`. Three
modules use it.

**IndexLease**: `row`; `stack`, what is deployed; `synced`, the defaults of the
environment; `file`, the receipt on each checkout's disk; `tool`, the command that
runs there; `requests`, what is in flight, whether or not its sender still listens.

| action | code |
|---|---|
| `ReadBegin`, `WriteBegin`, `RereadBegin` | the handler of begin: get, the conditional update, get again when it was refused |
| `ReadChange`, `WriteChange` | publish, retire, delete, abandon: get, the answer for a change already made, the conditional update |
| `ReadDefaults`, `WriteDefaults` | SyncDefaults under the lease |
| `Send`, `Lose`, `GiveUp` | the client's attempts; a request that is lost may still be carried out |
| `Begin`, `Deploy`, `DeployFails`, `SaveWork`, `ReadOutputs`, `Resume`, `Release` | a setup or deployment with its receipt |
| `Begin`, `Destroy`, `SaveWork`, `Resume` | a teardown, as far as the lease is concerned |
| `Crash`, `LoseReceipt`, `Repair` | a dead command, a lost disk, and the administrator's repair that `docs/environment-index.md` describes |

`Repair` is the one action without code: it is what an operator is told to do.

**RuntimeConfig**: `config` and `versions`; `grants` and the permanent `marker`; the
administrators' `pool` and who was `invited`; and what is between a read and its
transaction: `asks` of administrators, `syncs` of deployments, `setups` of the setup
command. `AskPublish`, `AskRollback`, `AskGrant` are the handlers' reads, `Publish` and
`SetGrant` their transactions; a transaction may fail for its conditions or for no
reason.

**Onboarding** extends it by the users of the environment: `account` (what Cognito
keeps), `facts`, `captures`, `tickets`, and `visits`, the calls under way, one action
per call of Cognito, S3 or DynamoDB. `told` is history: the policy a user was last
told it had completed.

### Teardown and nuke

**Teardown** is one checkout's command over the real things (`things`, `evidence`,
`records`, `role`, `github`, `files`, `entry`) and over what Pulumi's state says of them
(`exported`, `stackUp`); `p` is what the command knows and `checkpoint`, `backup` the file
and the copy that a save in two renamings leaves. `step` follows the fixed order of the
steps; each is followed by `Save`. `indexed` says whether an index lists the environment;
if none does the command goes on without a lease (`HasIndex`, `Unregistered`). Between two
runs of the command the environment is anybody's: `Setup` is a deployment, from here or
from elsewhere, which may begin a new life of it, and `DestroyElsewhere` and
`FinishElsewhere` are the teardown of another checkout, which stops and is resumed, too.

| action | code |
|---|---|
| `TeardownStart`, `TeardownStops`, `TeardownCrash`, `TeardownUnlock` | `runTeardown` takes the lock file and the checkpoint; an error, a death, and what `docs/teardown.md` has the operator repair |
| `Inspect`, `ChooseDNS`, `ConfirmTeardown` | what is found and asked for before anything is saved |
| `DrawToken`, `Lease`, `Retire`, `DeleteEntry` | the changes of the index entry, with the token that is saved before them |
| `Unregistered` | without an index: no lease and no retirement (`teardown.go:499`, `:563`) |
| `Purge`, `DestroyThing`, `StackDestroyed`, `RemoveStack` | Pulumi, one resource at a time, and the look at what it left |
| `CleanDNS`, `DeleteRole`, `DeleteGithub`, `CleanLocal` | what is outside the stack |
| `Skip`, `Validate`, `Save` | a step done before, the last look, and the checkpoint |
| `ThingFades`, `Meddle`, `Setup` | the provider, hands, and deployments |
| `DestroyElsewhere`, `FinishElsewhere` | another checkout's teardown, under the lease if there is an index: some of the resources, and, once none is left, what follows them |

**Nuke** is the command that goes on after failures: each step writes a result into the
receipt `r`, and `Released` (every result of this run a success, every save done) is the
gate before the buckets that hold the state and the keys. Of a stack only what is left in
its state can be read: `RecordsOf` are the records that resources still name, so a stack
that is partly destroyed names the rest only, and one that is gone none. What a teardown
of this checkout learned is in its receipt (`notes`), which discovery adds to the targets
(`Merged`), with the inventory and the records, but without a key. `lost` is history: the
records of resources that were destroyed before anybody had their names (`"dns"`), those
that could not be read yet (`"unnamed"`), keys of an unknown provider (`"key"`), and keys
of stacks that a teardown removed before nuke had read them (`"torn"`). `TearDown` is a
teardown of a stack from this checkout before or between the runs, as one action that ends
anywhere; `Redeploy` is anybody's deployment, `Check` the later look at the report, full or
fast.

## 3. The runs

| run | question | instance |
|---|---|---|
| `capture` (MCCapture.cfg) | With two workers that may die and one request at a time, do leases, fencing, the outbox, the erasure of card data and the deadline bound hold? | 1 capture of two sides, 2 uploads, 2 workers, 1 request, 2 generations, 2 reviews, 1 fault |
| `capture_races` (MCCaptureRaces.cfg) | With two concurrent requests and a replaced upload, does evidence outlive its use and nothing else, and is the contract implemented? | 1 side, 2 requests, 1 worker, 2 uploads, 1 of them late, 1 review |
| `capture_live` (MCCaptureLive.cfg) | Do validation and extraction settle, and does every session end erased, without further requests? | 1 side, 1 worker, 1 upload that may be late, 1 fault, fair scheduling |
| `capture_deadline` (MCCaptureDeadline.cfg) | Finding: may a capture become ready after its deadline? Yes. | 1 side, 1 worker, no faults |
| `accounts` (MCAccounts.cfg) | Do two confirmations of one address make one account and one session, and do racing creations respect one open session, one capture per key and the daily limit, and keep the captured fact? | sign-up: 2 requests of one address, 2 invocations, 1 attempt; admission: 1 account, 3 captures, 2 keys, 2 creators, limit 2, 2 midnights |
| `email` (MCEmailProof.cfg) | Do claims, guesses, resends and recoveries of one request exclude each other, with budgets that run out? | 1 request, 2 invocations, 2 attempts, 1 resend, hours of 3 ticks, budgets of 1 or 2 |
| `email_answer` (MCEmailAnswer.cfg) | Finding: is a caller ever told that an account is confirmed when none exists? Yes. | 2 requests, 2 invocations |
| `reset` (MCEnvReset.cfg) | With two overlapping workers, is deletion exclusive, quiet and complete, and are the functions restored? | 2 functions, 2 workers, 1 item per store, 1 fault |
| `reset_live` (MCEnvResetLive.cfg) | Does a reset complete through faults, sweeps and resumes? | 2 functions, 1 worker, 2 faults |
| `reset_retry` (MCEnvResetRetry.cfg) | Finding: is a repeated start always recognised? No. | 1 function, 2 operations |
| `operations` (MCOperations.cfg) | The properties of IndexLease, RuntimeConfig, Onboarding, Teardown and Nuke | see below |
| `nuke_failures` (MCNuke.cfg) | Finding: is the recovery material preserved after a failure? No. | 1 environment and the shared index, 2 runs, no faults |

Two runs check several parts at once. In `accounts` and `operations` a variable `part` is
chosen in the initial state and only the actions of that part are taken: the
parts share no state, so the set of behaviours is the union of theirs, not their
product. Each part starts from its module's own initial states. The modules are extended,
not instantiated, so that the properties the runs check are the ones the proofs are
about; while another part runs they stay in an initial state. Where parts do meet in the
code, the module itself models it: IndexLease has the defaults under the lease,
RuntimeConfig the lease that fences them, Onboarding the publications, Teardown the row.
The instances of `operations`:

| part | instance |
|---|---|
| lease (IndexLease) | 2 checkouts, 2 leases, 2 attempts, 1 late request, 2 faults, 2 configurations; the first lease is drawn by the first checkout and deploys the first configuration, which loses nothing since both are alike |
| config (RuntimeConfig) | 2 administrators, 2 configurations, 4 leases, requests, synchronisations and setups |
| users (Onboarding) | 1 user (new, signed in, or signed out with a passkey and the stronger password), 2 passwords, a lenient and a strict policy, 4 calls or publications; of administration only publications, the rest being checked under config |
| teardown (Teardown) | a bucket and a table, 2 lives of the environment, with an index or without; files on disk; the evidence, and what is changed by hand, in the first life (`SeldomChanged`) |
| nuke (Nuke) | 1 environment and the shared index in 2 buckets, each stack with one resource that names records; 3 runs, checks, teardowns or deployments and 2 faults, but not more than 4 of both, 3 where a teardown is among them (`SeldomBoth`); three combinations of keys and secrets providers |

Sizes, in millions of distinct states: `capture` 3.2, `capture_races` 2.1, `capture_live`
0.7, `accounts` 2.0, `email` 4.4, `reset` 3.8, `reset_live` 0.9, `operations` 2.2. Every
run ends within four minutes with two workers.

What the properties say:

- *Capture.* `WorkMatchesState`: a state that something must move carries the
  work that moves it. `OneActiveWorker`: two live workers never process the same
  capture. `EvidenceHeld`: what a row still needs is in the
  bucket. `NoOrphans`: once the row is closed no request can begin to put anything into
  the bucket, and neither a worker nor a request that was done in its URL's time has left
  anything there; of a request that outlived its URL it says nothing, as
  `docs/id-capture.md:47` does not. `CardDataErased`, `OutboxMatchesRow`,
  `SettledFieldsStay` (a settled extraction is undone only by a new generation, a
  cancellation or an expiry; a saved review only by the last two or by a correction that
  was decided on the row it replaces and changes nothing else), `ReadyNearDeadline`
  (readiness is never later than the deadline plus one invocation), `ImplementsContract`,
  `ValidationSettles`, `ExtractionSettles`, `EverythingErased` (also what was late, by the
  lifecycle).
- *Admission.* `OneUploadSession`, `OneCapturePerKey`, `WithinDailyLimit`,
  `EvidenceVersionsOrdered` (a later capture has a later evidence version), and
  `CapturedIsDurable` (a creation based on an old account row does not undo
  the ready transaction).
- *E-mail.* `ClaimHeld`: between its claim and its answer nobody else moves the
  invocation's row. `OneAccount`, `GuessesCounted`, `RotationsSpaced`,
  `ConfirmedStays`.
- *Reset.* `OneWorker`, `QuietWhileClearing` (nothing can write while data is
  deleted), `ClearedWholly` (functions are restored only over empty stores),
  `OriginalRestored`, `NoStaleAccess` (no token of a deleted user passes the
  cut-off), `ResetCompletes`.
- *Lease.* `WorkHoldsLease`: a command that runs Pulumi holds the lock, at the revision of
  its receipt, which is nobody else's. `IndexFollows`: the index only starts to list what
  is deployed at that moment and never drops what still is; defaults only move to what a
  later lease deployed.
- *Configuration* (`AdministrationSound`): `HistoryTold`, `ManagerRemains`,
  `PoolStaysStrict`, `GrantsByManagers`, `DefaultsFenced`.
- *Enrolment* (`EnrollmentSound`): `OneSessionPerTicket`, `ToldTruly`, `FactsEarned`,
  `PasswordUnderPolicy`.
- *Teardown* (`TeardownSound`): `RemovedInOrder` and `RecordsInOrder` (the role, the
  entry, the stack, the GitHub environment and the DNS records go after the resources, the
  role before the stack, the stack before the GitHub environment), `CompleteMeansGone`,
  and `RecreatedUntouched` (a resumed teardown takes nothing from an environment that it
  has not inspected, previewed and had confirmed; the exception is one that has destroyed
  its own stack and meets one of which another teardown has left no resource: it goes on
  with what is around the stack).
- *Nuke.* `NukeSound`: `KeysRemembered`, `NothingForgotten`, `NukedMeansGone` (what
  "finished" leaves is only what nuke never knew: records nobody could read before what
  named them was destroyed, and keys of stacks a teardown removed), `CheckedTruly`.
  `RecoveryLast`: a state bucket goes only when everything that was ever known is gone, of
  all runs, a key only after every bucket.

## 4. Bounds

Times are scaled so that the order of the deployed numbers is kept, and every
inequality the code depends on is an assumption of the module that uses it.

| constant | deployed | instance |
|---|---|---|
| SessionLifetime / UrlLifetime / CleanupWait | 24 h / 5 min / 6 min | 2 / 1 / 4 |
| Lease, WorkerTimeout, ApiTimeout | 120 s, 90 s, 25 s | 2, 1, 1 |
| Backoff, RecoveryGrace, Retention | 60 s per attempt, 300 s, 7 days | 1, 1, 3 |
| MaxTime (capture) | unbounded | 9, or 20 where liveness is checked |
| MaxReviews (capture) | unbounded | 2: a review and its correction; 1; 0 in `capture_live` |
| MaxSlow (capture) | every upload | 0; 1 in `capture_races` and `capture_live` |
| ReclaimAfter, Timeout (e-mail) | 60 s, 25 s | 2, 1 |
| Lease, Timeout (reset) | 90 s, 60 s | 2, 1 |
| Drain, pause plus Linger (reset) | 420 s, 60 + 325 s | 2 or 3, 1 + 0 or 1 + 1 |

Those inequalities are `DeployedTimings` (CaptureLifecycle),
`ReclaimOutlivesHandler` (EmailProof), `LeaseOutlivesWorker` and
`DrainOutlastsCalls` (EnvReset). TLC evaluates them in every run.

A review writes only rows whose extraction is settled, and changes neither their work nor
their evidence, so the liveness properties lose nothing with none of them. An upload that
outlives its URL is left out of `capture` (`MaxSlow = 0`), whose properties are about rows.

One capture is enough in CaptureLifecycle because no action touches two rows;
the operations that do are in CaptureAdmission. Nine ticks cover a session that
is opened, expires or is cancelled, is cleaned up after its wait, fails once and
is retried. Two workers and two requests suffice for races on one row: a third
only sees what the second leaves. One item in each store is emptied in one page
or survives one, which is what the order of the phases is about; a page that
deletes in part is possible with one item, too. One or two faults are
placed at every point of every behaviour. The theorems remove these bounds for the
properties they state.

In the operators' modules there is no clock: a time-out is a request whose sender stopped
listening, an expiry an action that may happen at any moment. Two checkouts, two
administrators and two lives of an environment suffice for the races, each of which is
between what one side read and the other wrote since. `MaxLate = 1` allows one request to
be carried out after its sender went on; IndexProofs has any number. Three rounds of nuke
are a failed run, a teardown, deployment or check, and the run that finishes; two failures
are a read of records that fails and a destroy that stops after it.

Deadlock is not checked, because every model stops: captures are erased, proofs
expire, resets complete, clocks reach their bound.

## 5. Fairness

- `capture_live` uses `FairSpec`: weak fairness of the clock, of `Dispatch` for
  each capture (`infra/capture.go` sweeps every minute), of the reception of a
  capture's jobs (SQS delivers at least once), of the bucket's `Lifecycle`
  (`infra/capture.go:58`), and of the steps of live invocations (Lambda runs an
  invocation or kills it). Nothing is assumed of
  clients, and up to `MaxFaults` workers die. `MaxLag` keeps due work from
  waiting longer than one tick for the sweep and a worker.
- `reset_live` uses `PromptSpec`: a schedule starts the worker, live
  invocations finish their calls before the clock moves on (each of those
  actions is weakly fair; failing and dying are not), an administrator resumes a reset that stopped with
  an error, faults are bounded, and the clock does not pass due work.
  `ResetCompletes` bounds the duration by `Longest`: for each fault one lease,
  one drain and one wait for the queue. Without an administrator who resumes, a
  failed phase stays failed: the code means it to.

No liveness is claimed of the operators' commands: they go on only when somebody starts
them again.

## 6. What is proved

**Capture** (CaptureProofs). The invariant of CaptureLifecycle has four layers, all in
CaptureInvariant; each is inductive given those below it.

1. `Inv` is what the revision gives: `Typed`, `WorkIsDurable`,
   `CardDataGoes`, `OutboxIsAtomic`, `SettledStays`. The properties are not inductive by
   themselves: a process holds a row it decided on earlier, and nothing in them says
   what it may hold. `Inv` adds that every held row is `Fenced`: either its revision has
   been overtaken, so the conditional write fails, or it is a `Permitted` successor of the
   row that is there. `Keeps` says further that such a successor does not unpublish
   evidence. Each replacement of CaptureRecord is shown to preserve `RowOK` and to be
   permitted, once; each action then only has to say which replacement it holds. A review
   is the case of `SettledStays` that is about the held row: a correction may replace a
   settled review, and `ReviewSaved` says that it does so for the row it was decided on.
2. `LeaseInv` is what leases and time-outs give:
   `OneWorkerAtATime` and `ReadyInTime`. The row alone does not protect a worker: a
   cancellation takes it out of the lease. So a worker at work holds the row under a lease
   that ends after the worker does, *or* the capture was cancelled and its cleanup is due
   after the worker's end (`Outlasted`); and whoever can still write the row finds nobody
   at work on it, unless it writes a cancellation.
3. `TimelyInv` is what the waits before a cleanup give. `Puts` bounds
   when an image may still arrive, with a URL that was signed or that an invocation is
   about to sign after losing its race; whatever schedules a cleanup schedules it later.
   A validation that gives up is the case that needs an argument: it does so no earlier
   than its second attempt, and a first attempt with its backoff takes longer than any
   handler that was still going to sign.
4. `EvidenceInv` is what is in the bucket: the row, and every row
   that can be written over it, finds the images it needs (`Held`). From it
   follow `EvidenceIsHeld` and `NothingLeftBehind`. An upload that outlives its URL may
   put an image beside what any row needs (`StrayHeld`), so it never hurts `Held`;
   `NothingLeftBehind` is about the images that were timely and those of the workers.

`ContractImplemented` is the refinement of CaptureContract: every action of handlers,
workers, sweep and clients is one of the contract's steps or changes nothing the contract
sees. It uses the four layers; for instance a `ClientPut` is a step of the contract only
because a closed capture has no URL left (`TimelyInv`), and a `LatePut` is the contract's
`Stray` only because URLs are signed for captures that exist (`RowTimely`).

**Admission** (AdmissionProofs). `OneSession`, `OnePerKey`, `DailyLimitKept`,
`VersionsOrdered`, `MarkIsDurable`, `AdmissionTyped`, from `AdmissionInductive`. A creation
decides on reads of three rows that its transaction then partly repeats. AdmissionInvariant
says why what it does not repeat is still true: a revision of the account names one row
(`ReadOnce`), so a creation whose condition holds counts from the row that is there; and
the current capture it found closed to uploads never takes them again (`Admitted`),
though it may be finalizing again after a retry. `Counted` keeps the number of captures of
the account's last day at its counter and of every earlier day within the limit; that
those captures are finitely many is part of the invariant, because the theorem allows
infinitely many captures.

**E-mail** (EmailProofs). `EmailTyped`, `ClaimIsHeld`, `OneAccountEach`,
`GuessesAreCounted`, `RotationsAreSpaced`, `ConfirmedIsFinal`, from
`EmailInvariantHolds`. EmailInvariant says that a version names one row (what an
invocation holds is older than the stored row or is that row) and that, between
its claim and its answer, an invocation's row *is* the stored row. The second
rests on time: an invocation is over `Timeout` after it began, a claim is
reclaimed only `ReclaimAfter` later, and 25 s is less than 60 s.

**Environment reset** (EnvResetProofs). `ResetTyped`, `OneWorkerAtATime`,
`QuietWhenCleared`, `ClearedWhollyAlways`, `ConcurrencyRestored`,
`NoStaleAccessEver`, from `ResetInvariantHolds`. Two facts carry
EnvResetInvariant: a worker that holds the record is alive, so its lease has not
run out, so nobody else holds it and the record is still its own; and every
phase says something about the environment that only its holder can change.

**Registry and deployments** (IndexProofs). `IndexTyped`, `WorkerHoldsLease` and
`IndexFollowsStack`, from two inductive invariants. `LeaseInv` is needed because the lock
and the revision alone do not say that nobody can end a lease under its holder: requests
that were given up are still in flight. It adds that a request that would end a
lease was sent by a command past its work, and that no command under that token works
again (`LateIsPast`); that a revision is given to one lease (`Fenced`); and that a
teardown with the lease on disk keeps it while it does not run (`Holding`).
`FollowInv` adds that a receipt, and a request in flight, is right about the stack *if the
row still confirms its lease* (`FileCurrent`, `RequestCurrent`). It is inductive
because only the holder changes the stack, before it has asked for anything but the lease
(`WorkFollows`), and because a lease that is over never comes back at a revision
already given (`RowsDoNotReturn`). The theorems hold for any number of checkouts, leases,
attempts, late requests and faults: the bounds that IndexLease names appear in its guards
only.

**Runtime configuration** (ConfigProofs). `HistoryIsTold`, `ManagerAlwaysRemains`,
`PoolRemainsStrict`, `DefaultsAreFenced` and `GrantsAreManagers`, from `ConfigInv`. The
transactions compare revisions, never texts, so the history is kept only because whatever
a synchronization read is an entry of the history (`ReadSound`): a revision that is
current again stands for the same text. `AskSound` adds that a grant is asked for by
another than the one it is about, so whoever changes it still manages grants afterwards.
`PoolSound` is stronger than the property: the pool is strict as soon as a setup has set
the factors, so that it already is when the first grant is made. `AdministrationHolds`
states the five together, as `AdministrationSound`, which is what run `operations` checks;
`AdministrationUnderUsers` says the same of the specification in which users act
beside the administrators.

**Sign-in and enrolment** (ConfigProofs, since Onboarding extends RuntimeConfig).
`EnrollmentHolds`, from `OnboardingInvHolds`. A status is put together from five reads,
each of which may be old when the next is made. What makes the answer true is that
none of it is ever taken back: accounts gain passkeys and passwords, facts gain entries,
the history gains versions (`Kept`). `OnboardingInv` says of every call under way that
what it has read is still so (`VisitFacts`), that a call about to set a password has read
a policy of the history, and that one about to record the fact has set it. For the
ticket it says that the trigger's decision belongs to the one ticket of its number, used
and without a session so far (`GoodOnce`), which needs that numbers are never given twice
(`Apart`). That a policy is still the *current* one when the answer is given is
not claimed: the code does not promise it.

**Teardown** (TeardownProofs). `TeardownIsSound` (`RemovedInOrder`, `RecordsInOrder`,
`CompleteMeansGone`, `RecreatedUntouched` and the types) and `RecreatedIsUntouched`, from
`TeardownInvariant`. Nothing in the properties says what a checkpoint may hold, and a
resumed command believes every word of it; so `TeardownInv` is about the checkpoint
*wherever it is* (`kept`: the file, or the copy a save left beside it).

- `Chain`: its flags were set in order, and a lease was taken with a token.
- `Agrees`: if the environment that is there is the one it last inspected, each of its
  flags is true of that environment, and a lease it has is held until it deletes the
  entry. With a lease this is so because nobody else gets one in between (`LockIsOurs`);
  without an index only because a teardown from elsewhere removes what this one would have
  removed, and a setup that finds nothing begins another life (`SetupStep`,
  `ElsewhereStep`).
- `Older`: a checkpoint of an earlier life *that has a lease* has destroyed its stack. One
  without a lease need not have: another checkout may have taken the environment down and
  set it up again.
- `Inspected`: whoever passes the inspection either has nothing exported before it, or
  looks at the environment that is there, with all that is exported in its inventory. This
  is what protects a recreated environment from a stale checkpoint of either kind
  (`OnlyInspectedIsRemoved`): with "Destroyed" the look at the stack finds resources and
  stops; without it everything is inspected, shown and confirmed again.
- `OneCopy`, `IsAhead`: a command that runs knows at least what is on disk, and what it
  does after the confirmation it has saved up to the step before.
- `Reached`: each step is entered with the flags of those before it. It makes
  `RecordsInOrder` a matter of the step alone (`RemovedAfter`). `Inventoried`: what has
  left the state by this command and is not gone yet is in the checkpoint's inventory, so
  the last look (`Verified`), which asks for the inventory only, sees it (`AllGone`). What
  another checkout destroyed before this one ever looked is in no inventory here.

**Nuke** (NukeProofs). `NukeIsSound`, `RecoveryIsLast`, `DiskRemembers` and
`ThroughMeansGone`, from `NukeInvariant`. Results are forgotten with every run, so nothing
can rest on them but what the present run found; `NukeInv` says what the rest rests on.

- `Knows`: the receipt, its copy and the notes of the teardowns, taken together, name every
  target that is no stack any more, every resource that is in no state, and every record
  and key except those in `lost`. It is kept by every step because the receipt in hand
  never falls behind the one on disk and, once discovery is over, behind the notes
  (`Keeps`, `Noted`), and because what is learned of a stack is saved before it is
  destroyed (`Learnt`: a record may be unnamed at that point only as long as the resource
  that names it is in the state; its destruction makes it `lost` for good,
  `DnsStaysLost`).
- `ThroughIsGone`: as long as every result of the run is a success, each stack it is through
  with is gone with its resources, logs and records, `lost` ones apart. Stacks that are
  gone when their turn comes are the case that needs `Knows`: what they leave is found
  through the receipt, whether nuke or a teardown removed them.
- `Sees`: a run without a failure knows every target, since discovery found all stacks
  there are and the receipt or the notes name the others. With the two, `Recovers`: behind
  the gate `EverythingGone` holds, and stays so, because nobody deploys while buckets are deleted.
- `Placed` (a stack's bucket is there, what is in a state is up) and `OnDisk` (a receipt is
  in one place, and names the bucket of each target) are what those need; `Checked` does the
  same for a report that was looked at again.

`FailurePreserves` is not among them: run `nuke_failures` refutes it. What is proved names
the exceptions: records that could not be read before what named them was destroyed
(`"dns"` in `lost`), and keys of stacks that a teardown removed before nuke had read them
(`"torn"`). Of what a stack with an unknown secrets provider was encrypted with nothing is
claimed: nuke never has the name of such a key.

The proofs assume what the modules ASSUME of their constants, and nothing else:
numbers of captures, requests, invocations, functions, items, checkouts, administrators
and faults are arbitrary.

These are, where the code depends on them: `DeployedTimings` and `LifecycleConstants`
(a lease is longer than a worker may run and at least as long as a handler may; the wait
before a cleanup is longer than two handlers and a URL; a backoff is at least a handler;
a validation has two attempts or more), `RecordConstants`, `AdmissionConstants`,
`ReclaimOutlivesHandler`, `LeaseOutlivesWorker`, `DrainOutlastsCalls`, `NothingPublished`,
`PolicyAssumption`, `TeardownConstants` (the evidence bucket is one of the things) and
`NukeConstants` (each stack has a bucket, and a stack can deploy something). TLC
evaluates each of them in the runs.

Only model-checked: liveness (`ValidationSettles`, `ExtractionSettles`, `EverythingErased`,
`ResetCompletes`), which is out of the prover's reach: it has no rules for fairness. Every
safety and action property the runs check is a theorem.

## 7. Findings

1. `capture_deadline`. `capture/worker.go:164` reads the deadline after
   decoding, and the ready transaction checks the revision alone, so a row can
   become ready after its deadline. `docs/id-capture.md:35`: "Finalizing
   evidence cannot become ready after the 24-hour session deadline."
   `ReadyNearDeadline` bounds the overrun.
2. `email_answer`. When the creation of the account and the lookup after it
   both fail, `Confirm` answers "confirmed; sign in required"
   (`email/service.go:479-482`) although no account exists. The test
   `email/service_test.go:234` intends otherwise and covers only a lookup
   that succeeds.
3. `reset_retry`. `envreset/service.go:80` compares a start with the last
   operation only; an earlier one, repeated after a later reset completed,
   resets the environment again. `docs/environment-reset.md:15`: "Retrying the
   same operation does not start another reset."
4. `nuke_failures`. `destroyTarget` notes as failures DNS records it could not read and
   secrets of a provider it does not know
   (`tools/deploy/internal/workflow/nuke_target.go:78-84`), and goes on to destroy and
   remove the stack. A second run starts without results (`nuke.go:262`), finds the stack
   gone, which is a success, and deletes the bucket that held its state. The outcome is
   the same if the first run destroyed the stack in part: the second exports what is left,
   which names none of the destroyed identities' records (`nuke_target.go:241-316`), so its
   read succeeds with nothing learned. `tools/deploy/README.md:84`: "A failed or
   unverifiable earlier step preserves recovery buckets and keys".

Three more observations, for which no run is kept:

- *A lock without a receipt.* A begin whose connection was lost is sent again. When the
  second one is answered 409 because another checkout holds the lock, the command removes
  its receipt (`workflow/index_client.go`); the first request, if it is carried out late,
  may still take the lock once it is free, and then nobody has a receipt for it
  (`LockHasReceipt` of IndexLease states the contrary).
  `tools/deploy/internal/registry/client.go:34` says "Retrying the exact receipt is safe,
  including when the response was lost."; the way out is the administrator's repair of
  `docs/environment-index.md:121`, which the model includes as `Repair`.
- *DNS records of a resumed teardown.* The records to delete are looked up by the first
  run only; one that is added between two runs of a teardown is neither removed nor
  reported. `CompleteMeansGone` is stated of what was looked up.
- *The key of a stack that was torn down.* A teardown's receipt does not have the key its
  stack's secrets were encrypted with, and nuke discovers such keys from the stacks it reads
  (`tools/deploy/README.md:84`). A stack that a teardown from this checkout removed counts
  as captured (`nuke_discovery.go:49-66`, `:124-130`), so nuke finishes although that key was
  never looked for and stays enabled. `KeysRemembered` and `NukedMeansGone` except it
  (`"torn"`).

## 8. What is not modelled, and what may come next

Left out of the parts that are modelled:

- *Capture:* image contents, request signing, policies, status codes; answers to
  replayed requests; a handler reads the clock once; the dead-letter queue and
  the time to live of capture rows (sent jobs stay available for ever, which allows
  more deliveries than SQS would make). The bucket's lifecycle goes by age and is modelled
  for what a finished cleanup left: what it would take from a capture whose cleanup fails
  for days is left out. So are PUTs of a killed worker that S3 carries out after its end.
- *E-mail:* a link is known by its generation and cannot be guessed; a wrong
  link changes nothing; diagnostics are off; a Cognito call takes effect before
  its invocation ends; the row's time to live.
- *Reset:* validation of the request, the audit record, which self-sign-up check failed;
  the queue's wait is measured from the claim of its phase; `Start` and `Resume`
  are atomic because their write is conditional on all they read. An upload that was begun
  before a reset and outlives its URL is left out here: the bucket's lifecycle takes it.
- *Registry:* authentication, hashes (equal configurations have equal hashes), the public
  list's format. Requests are a set: two late requests of one tool that agree in all
  fields are one. The scope of `WorkHoldsLease` and `IndexFollows` is environments with an
  index: where `withIndex` has no client (`workflow/index_client.go:130-134`) a deployment
  runs without a lease and nothing here is claimed of two that do.
- *Configuration and enrolment:* the validation of values, digests of tickets, the
  cryptography of passkeys, the limits of Cognito's sessions.
- *Teardown:* no deployment runs while the command does: `docs/teardown.md:20` asks for
  it, and `Setup` keeps to it. The same is asked of other teardowns:
  one that runs elsewhere is modelled in its effects, between two runs of this one
  (`Elsewhere`), and a nuke from elsewhere not at all. One flag, `indexed`, stands for the
  stack's configuration of an index; it is not taken back. Resources of other providers in
  the stack are left out, since no infrastructure program of the repository has any.
- *Nuke:* nobody deploys while stacks are destroyed or buckets deleted
  (`tools/deploy/README.md:82`); in between one may, against that rule. Stacks that
  somebody removes by hand, or tears down from another checkout, take what they alone knew
  of logs and keys with them and are left out. `TearDown` is one action, once per stack, that ends as far as it came; records of a
  stack that is deployed again are the same records; `Stops` stands for every error before
  the first deletion, the second look at running deployments included (`nuke.go:300-305`).

Known limits of the code that no property covers:

- a teardown that had not destroyed its stack, resumed after the environment was taken down
  and set up again from elsewhere, takes down the new environment: the guards
  (`teardown.go:346-351`) ask only what this checkpoint says was done. It does so after a new
  inspection, preview and typed confirmation, which is what `RecreatedUntouched` states;
- one that had destroyed its stack, resumed when a teardown from elsewhere has emptied the
  new one, goes on with what is around it, but passes over a role that it deleted before:
  the last look then reports the role as remaining;
- the sweep reads ten pages of due work and stops at the first error of a send
  (`awscapture/store.go:184`), so a long backlog delays what is behind it;
- a finalisation repeated after cleanup no longer finds the selected uploads and is told
  of a conflict (`capture/service.go:266`);
- a resend is charged to the hour read before the lookups, sign-up and confirmation to
  the hour of the charge (`awsstore/store.go:66`);
- a claim interrupted less than a minute before its proof expires can be neither
  reclaimed nor resent (`email/service.go:387`): the user signs up again.

Not modelled:

- the guided setup of AWS and of the shared index (`bootstrap.go`, `aws_setup.go`,
  `index_setup.go`) and the removal of the shared index alone (`index_teardown.go`): prompts and
  one-shot calls whose control is the order of questions; they keep no receipt that a
  later step trusts, other than the ones above;
- the administrators' own passkeys (`adminapi/passkey.go`) and the forwarding of a reset
  (`adminapi/reset.go`): the former as in Onboarding, the latter a remote call of EnvReset's
  `Start`;
- the HTTP layers (decoding and status codes), the extraction provider (it answers or
  not: `Extract` allows both), e-mail delivery (`Send` may not happen),
  infrastructure programs (the numbers they set are constants here), and the vault, DNS,
  GitHub and build helpers (one-shot calls without state that outlives them).

What would add most next: the guided setup of the shared index and its removal, under the
same lease as IndexLease's commands, so that the argument of `WorkerHoldsLease` covers the
administrator's tools as well.
