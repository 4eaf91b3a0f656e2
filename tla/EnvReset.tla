------------------------------- MODULE EnvReset -------------------------------
(***************************************************************************)
(* The reset of one environment's data: package envreset, the Lambda that  *)
(* runs it (cmd/environment-reset) and the store and AWS calls behind it.  *)
(*                                                                         *)
(* One control record says which phase the reset is in.  A sweep starts    *)
(* the worker every minute; each step of the worker leases the record,     *)
(* calls AWS, and saves the next phase under the revision it leased.       *)
(* Several invocations can be running; each may die, or be killed by the   *)
(* Lambda timeout, between any two calls.  While they work, the            *)
(* application's functions run until they are paused, what was started     *)
(* before keeps writing for a while, and Cognito gives tokens to every     *)
(* user that still exists.                                                 *)
(*                                                                         *)
(* Every save is conditional on the revision, so reading the record and    *)
(* saving it is one action where nothing else is read in between (Start,   *)
(* Resume); the worker, whose lease counts from a clock read after the     *)
(* load, reads in one action and claims in another.                        *)
(***************************************************************************)
EXTENDS Integers, FiniteSets

CONSTANTS
    Functions,    \* the application's Lambda functions
    Original,     \* the reserved concurrency each was configured with
    Operations,   \* names the dashboard gives to resets
    NoOperation,  \* the name in a control record never written
    Workers,      \* invocations of the reset function that may overlap
    Timeout,      \* Lambda timeout of the reset function
    LoopFor,      \* how long one invocation starts new steps
    Lease,        \* how long a step holds the record
    Drain,        \* wait after the functions are paused
    QueueWait,    \* wait after the queues are purged
    Linger,       \* longest a function's call, and an upload address it
                  \* signed, can still write after the call began
    MaxItems,     \* bound: items in one store
    MaxFaults,    \* bound: failed calls and invocations that died early
    MaxTime       \* bound: the clock

Unreserved == -1  \* no concurrency is reserved
Missing    == -2  \* a snapshot holds no number for the function

ASSUME ResetConstants ==
    /\ NoOperation \notin Operations
    /\ Original \in [Functions -> Int]
    /\ \A f \in Functions : Original[f] >= Unreserved
    /\ {Timeout, LoopFor, Lease, Drain, QueueWait, Linger} \subseteq Nat
    /\ {MaxItems, MaxFaults, MaxTime} \subseteq Nat

\* The Lambda's 60 seconds end before the lease's 90 seconds do.
ASSUME LeaseOutlivesWorker == Timeout < Lease

\* A call that began just before its function was paused, by a worker that
\* took its whole 60 seconds to pause it, ends within the seven minutes: its own
\* 25 seconds and the 300 of an upload address (90 for the capture worker).
ASSUME DrainOutlastsCalls == Timeout + Linger < Drain

VARIABLES
    row,        \* the control record
    limit,      \* reserved concurrency of each function
    busyUntil,  \* the last moment at which calls made before a pause may write
    data,       \* how many items each store holds
    orphaned,   \* iat of the newest token whose user was deleted, or 0
    worker,     \* the invocations of the reset function
    started,    \* how many resets each operation has started
    faults,     \* how many faults there have been
    now

vars == <<row, limit, busyUntil, data, orphaned, worker, started,
          faults, now>>

Stores == {"users", "tables", "objects", "jobs"}

Phases == {"", "snapshot", "pause", "drain", "purge", "queue_wait", "users",
           "tables", "objects", "restore", "complete"}
Clearing == {"users", "tables", "objects"}
AtRest == {"", "complete"}

\* The phase that follows when a step has done what its phase is for.
Following == [snapshot |-> "pause", pause |-> "drain", drain |-> "purge",
              purge |-> "queue_wait", queue_wait |-> "users",
              users |-> "tables", tables |-> "objects", objects |-> "restore",
              restore |-> "complete"]

(***************************************************************************)
(* The control record.                                                     *)
(***************************************************************************)
Snapshots == [Functions -> Int]
NotRead == [f \in Functions |-> Missing]

\* validateSnapshot: there is a number for every function.
Valid(snapshot) == \A f \in Functions : snapshot[f] >= Unreserved

State == [revision   : Nat,
          operation  : Operations \cup {NoOperation},
          phase      : Phases,
          error      : BOOLEAN,
          due        : Nat,
          validAfter : Nat,
          lease      : Nat,
          saved      : Snapshots]

Absent == [revision |-> 0, operation |-> NoOperation, phase |-> "",
           error |-> FALSE, due |-> 0, validAfter |-> 0, lease |-> 0,
           saved |-> NotRead]

\* A token is accepted by the capture API: no reset is under way, and the token
\* was issued after the moment the last one finished deleting.
Admits(r, iat) ==
    /\ r.phase \in AtRest
    /\ r.validAfter = 0 \/ iat > r.validAfter

\* The record lets a worker take a step.
Workable_NoLease(r, t) ==
    /\ r.phase \notin AtRest
    /\ ~r.error
    /\ r.due <= t

Workable(r, t) ==
    /\ r.phase \notin AtRest
    /\ ~r.error
    /\ r.lease <= t
    /\ r.due <= t

(***************************************************************************)
(* The worker.                                                             *)
(***************************************************************************)
Worker == [pc     : {"off", "loaded", "calling", "repausing", "saving", "between"},
           begun  : Nat,             \* when the invocation started
           at     : Nat,             \* the clock Work read
           view   : State,           \* the record as loaded, then as leased
           todo   : SUBSET Functions,\* functions this step has yet to call for
           seen   : Snapshots,       \* concurrency read so far
           done   : BOOLEAN,         \* the phase has nothing left to do
           failed : BOOLEAN]

Off == [pc |-> "off", begun |-> 0, at |-> 0, view |-> Absent, todo |-> {},
        seen |-> NotRead, done |-> FALSE, failed |-> FALSE]

Init ==
    /\ row = Absent
    /\ limit = Original
    /\ busyUntil = 0
    /\ data = [k \in Stores |-> MaxItems]
    /\ orphaned = 0
    /\ worker = [w \in Workers |-> Off]
    /\ started = [o \in Operations |-> 0]
    /\ faults = 0
    /\ now = 1

(***************************************************************************)
(* The dashboard.                                                          *)
(***************************************************************************)
Start(o) ==
    /\ row.operation # o
    /\ row.phase \in AtRest
    /\ row' = [Absent EXCEPT !.revision = row.revision + 1,
                             !.operation = o,
                             !.phase = "snapshot",
                             !.validAfter = row.validAfter]
    /\ started' = [started EXCEPT ![o] = @ + 1]
    /\ UNCHANGED <<limit, busyUntil, data, orphaned, worker, faults, now>>

Resume ==
    /\ row.error
    /\ row.lease <= now
    /\ row' = [row EXCEPT !.error = FALSE, !.revision = @ + 1]
    /\ UNCHANGED <<limit, busyUntil, data, orphaned, worker, started, faults, now>>

(***************************************************************************)
(* A step of the worker: load, claim, call AWS, save.                      *)
(***************************************************************************)
Load(w) ==
    /\ \/ worker[w].pc = "off"
       \/ worker[w].pc = "between" /\ now < worker[w].begun + LoopFor
    /\ Workable(row, now)
    /\ worker' = [worker EXCEPT ![w] =
                    [Off EXCEPT !.pc = "loaded",
                                !.begun = IF worker[w].pc = "off"
                                          THEN now ELSE worker[w].begun,
                                !.at = now,
                                !.view = row]]
    /\ UNCHANGED <<row, limit, busyUntil, data, orphaned, started, faults, now>>

\* The functions the phase calls for, one at a time.
Calls_NoSnapshot(phase) == IF phase \in {"pause", "restore"} THEN Functions ELSE {}
Calls(phase) == IF phase \in {"snapshot", "pause", "restore"} THEN Functions ELSE {}

Claim(w) ==
    LET me == worker[w]
        claimed == [me.view EXCEPT !.revision = @ + 1, !.lease = me.at + Lease]
    IN  /\ me.pc = "loaded"
        /\ row.revision = me.view.revision
        /\ row' = claimed
        /\ worker' = [worker EXCEPT ![w] =
                        [me EXCEPT !.pc = "calling", !.view = claimed,
                                   !.todo = Calls(claimed.phase)]]
        /\ UNCHANGED <<limit, busyUntil, data, orphaned, started, faults, now>>

\* Another invocation saved first: the step ends with a conflict.
Conflict(w) ==
    /\ worker[w].pc \in {"loaded", "saving"}
    /\ row.revision # worker[w].view.revision
    /\ worker' = [worker EXCEPT ![w] = Off]
    /\ UNCHANGED <<row, limit, busyUntil, data, orphaned, started, faults, now>>

\* What restoring sets: with no number to put back, the setting is deleted.
Restored_Put(count) == IF count < 0 THEN 0 ELSE count
Restored(count) == IF count < 0 THEN Unreserved ELSE count

\* A function that was not paused may have been called until this moment, and
\* that call goes on.
SetLimit(f, count) ==
    /\ limit' = [limit EXCEPT ![f] = count]
    /\ busyUntil' = IF limit[f] # 0 THEN now + Linger ELSE busyUntil

\* Snapshot, Pause and Restore: one call of the Lambda API for each function.
CallFunction(w, f) ==
    LET me == worker[w]
    IN  /\ me.pc = "calling"
        /\ f \in me.todo
        /\ me.view.phase # "snapshot" => Valid(me.view.saved)
        /\ CASE me.view.phase = "pause" -> SetLimit(f, 0)
             [] me.view.phase = "restore" -> SetLimit(f, Restored(me.view.saved[f]))
             [] OTHER -> UNCHANGED <<limit, busyUntil>>
        /\ worker' = [worker EXCEPT ![w] =
             [me EXCEPT !.todo = @ \ {f},
                        !.seen = IF me.view.phase = "snapshot"
                                 THEN [@ EXCEPT ![f] = limit[f]]
                                 ELSE @]]
        /\ UNCHANGED <<row, data, orphaned, started, faults, now>>

\* Every call was made, or the phase makes none.
Called(w) ==
    LET me == worker[w]
    IN  /\ me.pc = "calling"
        /\ me.view.phase \notin Clearing \cup {"purge"}
        /\ me.todo = {}
        /\ worker' = [worker EXCEPT ![w] = [me EXCEPT !.pc = "saving", !.done = TRUE]]
        /\ UNCHANGED <<row, limit, busyUntil, data, orphaned, started, faults, now>>

Purge(w) ==
    LET me == worker[w]
    IN  /\ me.pc = "calling"
        /\ me.view.phase = "purge"
        /\ data' = [data EXCEPT !["jobs"] = 0]
        /\ worker' = [worker EXCEPT ![w] = [me EXCEPT !.pc = "saving", !.done = TRUE]]
        /\ UNCHANGED <<row, limit, busyUntil, orphaned, started, faults, now>>

\* A page was listed when the store held so many items: is the store empty?
Emptied_Deleted(before) == TRUE
Emptied(before) == before = 0

\* Clear: lists a page of a store and deletes what it listed.  It reports that
\* the store is empty only when the page was.  A delete may fail half way, and
\* DynamoDB may leave any of a batch unprocessed without an error.  Cognito may
\* have given a user a token up to the moment it deletes it: refreshing one calls
\* no function of ours.
ClearPage(w) ==
    LET me == worker[w]
        k == me.view.phase
    IN  /\ me.pc = "calling"
        /\ k \in Clearing
        /\ \E left \in 0..data[k], failed \in BOOLEAN :
             /\ LET stalled == left = data[k] /\ data[k] > 0
                IN  /\ stalled => failed \/ k = "tables"
                    /\ failed \/ stalled => faults < MaxFaults
                    /\ faults' = IF failed \/ stalled THEN faults + 1 ELSE faults
             /\ data' = [data EXCEPT ![k] = left]
             /\ worker' = [worker EXCEPT ![w] =
                  [me EXCEPT !.pc = "saving",
                             !.done = ~failed /\ Emptied(data[k]),
                             !.failed = failed]]
             /\ IF k = "users" /\ left < data[k]
                THEN orphaned' = now
                ELSE UNCHANGED orphaned
        /\ UNCHANGED <<row, limit, busyUntil, started, now>>

\* A call failed.  When functions were being restored, Work pauses them again.
Fail(w) ==
    LET me == worker[w]
    IN  /\ me.pc = "calling"
        /\ faults < MaxFaults
        /\ me.view.phase \notin {"drain", "queue_wait"}
        /\ faults' = faults + 1
        /\ worker' = [worker EXCEPT ![w] =
             [me EXCEPT !.pc = IF me.view.phase = "restore" THEN "repausing" ELSE "saving",
                        !.todo = IF me.view.phase = "restore" THEN Functions ELSE {},
                        !.failed = TRUE]]
        /\ UNCHANGED <<row, limit, busyUntil, data, orphaned, started, now>>

PauseAgain(w, f) ==
    LET me == worker[w]
    IN  /\ me.pc = "repausing"
        /\ f \in me.todo
        /\ SetLimit(f, 0)
        /\ worker' = [worker EXCEPT ![w].todo = @ \ {f}]
        /\ UNCHANGED <<row, data, orphaned, started, faults, now>>

\* Pausing again ended, or one of its calls failed: its error is ignored.
PausedAgain(w) ==
    LET me == worker[w]
    IN  /\ me.pc = "repausing"
        /\ worker' = [worker EXCEPT ![w] = [me EXCEPT !.pc = "saving", !.todo = {}]]
        /\ UNCHANGED <<row, limit, busyUntil, data, orphaned, started, faults, now>>

\* The phase a failed step leaves: restoring starts over from the pause.
PhaseAfterFailure_Failed(phase) == "failed"
PhaseAfterFailure(phase) == IF phase = "restore" THEN "pause" ELSE phase

\* When the phase that follows may begin.
DueAfter_NoDrain(me) ==
    IF me.view.phase = "purge" THEN me.at + QueueWait ELSE me.view.due
DueAfter(me) ==
    CASE me.view.phase = "pause" -> me.at + Drain
      [] me.view.phase = "purge" -> me.at + QueueWait
      [] OTHER -> me.view.due

\* The moment up to which tokens are refused from now on.
CutOff_Start(me) == IF me.view.phase = "snapshot" THEN me.at ELSE me.view.validAfter
CutOff(me) == IF me.view.phase = "objects" THEN me.at ELSE me.view.validAfter

\* What the step saves.
Outcome(me) ==
    LET saved == [me.view EXCEPT !.revision = @ + 1, !.lease = 0]
    IN  IF me.failed
        THEN [saved EXCEPT !.error = TRUE, !.phase = PhaseAfterFailure(@)]
        ELSE IF ~me.done THEN saved
        ELSE [saved EXCEPT !.phase = Following[@],
                           !.due = DueAfter(me),
                           !.validAfter = CutOff(me),
                           !.saved = IF me.view.phase = "snapshot" THEN me.seen ELSE @]

Save(w) ==
    LET me == worker[w]
    IN  /\ me.pc = "saving"
        /\ row.revision = me.view.revision
        /\ row' = Outcome(me)
        /\ worker' = [worker EXCEPT ![w] = [Off EXCEPT !.pc = "between", !.begun = me.begun]]
        /\ UNCHANGED <<limit, busyUntil, data, orphaned, started, faults, now>>

\* The loop of the invocation ended.
Finish(w) ==
    /\ worker[w].pc = "between"
    /\ worker' = [worker EXCEPT ![w] = Off]
    /\ UNCHANGED <<row, limit, busyUntil, data, orphaned, started, faults, now>>

\* The invocation dies, or a call of the store fails, before it saved.
Die(w) ==
    /\ worker[w].pc \notin {"off", "between"}
    /\ faults < MaxFaults
    /\ faults' = faults + 1
    /\ worker' = [worker EXCEPT ![w] = Off]
    /\ UNCHANGED <<row, limit, busyUntil, data, orphaned, started, now>>

(***************************************************************************)
(* The application around it.                                              *)
(***************************************************************************)
\* Something of the application is running: a function can be called, or a call
\* made before it was paused, or an upload address it signed, is still good.
\* (The capture API turns requests away while a reset runs; email sign-up and
\* its functions do not, so nothing is left out here.)
Busy ==
    \/ \E f \in Functions : limit[f] # 0
    \/ now <= busyUntil

\* It adds a user, a row, an object or a queued job.
Write(k) ==
    /\ Busy
    /\ data[k] < MaxItems
    /\ data' = [data EXCEPT ![k] = @ + 1]
    /\ UNCHANGED <<row, limit, busyUntil, orphaned, worker, started, faults, now>>

\* Time passes, and the Lambda service ends the invocations whose time is over.
Tick ==
    /\ now < MaxTime
    /\ now' = now + 1
    /\ worker' = [w \in Workers |->
                    IF worker[w].begun + Timeout < now + 1 THEN Off ELSE worker[w]]
    /\ UNCHANGED <<row, limit, busyUntil, data, orphaned, started, faults>>

WorkerStep(w) ==
    \/ Load(w)
    \/ Claim(w)
    \/ Conflict(w)
    \/ \E f \in Functions : CallFunction(w, f)
    \/ Called(w)
    \/ Purge(w)
    \/ ClearPage(w)
    \/ Fail(w)
    \/ \E f \in Functions : PauseAgain(w, f)
    \/ PausedAgain(w)
    \/ Save(w)
    \/ Finish(w)
    \/ Die(w)

Next ==
    \/ \E o \in Operations : Start(o)
    \/ Resume
    \/ \E w \in Workers : WorkerStep(w)
    \/ \E k \in Stores : Write(k)
    \/ Tick

Spec == Init /\ [][Next]_vars

(***************************************************************************)
(* Properties.                                                             *)
(***************************************************************************)
TypeOK ==
    /\ row \in State
    /\ limit \in [Functions -> Int]
    /\ busyUntil \in Nat
    /\ data \in [Stores -> Nat]
    /\ orphaned \in Nat
    /\ worker \in [Workers -> Worker]
    /\ started \in [Operations -> Nat]
    /\ faults \in Nat
    /\ now \in Nat

\* w has leased the record and may still call AWS.
Holds(w) == worker[w].pc \in {"calling", "repausing", "saving"}

\* Two invocations never call AWS for a reset at the same time, whatever dies
\* and however late a sweep comes: the lease of Work outlives the Lambda.
OneWorker ==
    \A w1, w2 \in Workers : Holds(w1) /\ Holds(w2) => w1 = w2

\* While queues are purged and data is deleted nothing can add any: every
\* function is paused, and what began before the pause has ended, an upload to
\* an address signed at the last moment included.  This is what the pause before
\* the drain, its seven minutes, and starting over when restoring fails are for.
QuietWhileClearing ==
    row.phase \in {"purge", "queue_wait"} \cup Clearing => ~Busy

\* The reset moves on to restoring the functions only when nothing is left of
\* what there was before: no user, row, object or queued job, however many pages
\* each took and wherever a page failed.
ClearedWholly ==
    [][row.phase # "restore" /\ row'.phase = "restore" =>
         \A k \in Stores : data'[k] = 0]_vars

\* When no reset is under way, every function has the concurrency it was
\* configured with, after any number of failed, repeated and half-done steps: the
\* concurrency is never read from a function the reset itself has paused.
OriginalRestored ==
    row.phase \in AtRest => limit = Original

\* No token of a user that a reset deleted is ever accepted by the capture API
\* again, even one that was issued while the reset was running.
NoStaleAccess ==
    orphaned > 0 => ~Admits(row, orphaned)

\* docs/environment-reset.md: "Retrying the same operation does not start
\* another reset."
OperationOnce ==
    \A o \in Operations : started[o] <= 1

(***************************************************************************)
(* Completion.  The schedule sweeps every minute, an invocation's calls      *)
(* take less than one unit, and the administrator resumes a failed reset:  *)
(* the clock does not pass while one of them is due.                       *)
(***************************************************************************)
Prompt ==
    /\ ~row.error
    /\ \A w \in Workers : worker[w].pc \in {"off", "between"}
    /\ ~Workable(row, now)

PromptSpec ==
    /\ Init
    /\ [][Next /\ (now' # now => Prompt)]_vars
    /\ WF_vars(Tick /\ Prompt)
    /\ WF_vars(Resume)
    /\ \A w \in Workers :
         /\ WF_vars(Load(w))
         /\ WF_vars(Claim(w))
         /\ WF_vars(Conflict(w))
         /\ \A f \in Functions : WF_vars(CallFunction(w, f))
         /\ WF_vars(Called(w))
         /\ WF_vars(Purge(w))
         /\ WF_vars(ClearPage(w))
         /\ WF_vars(PausedAgain(w))
         /\ WF_vars(Save(w))
         /\ WF_vars(Finish(w))

\* The longest a reset takes: each fault costs a lease, or starts it over.
Longest == (MaxFaults + 1) * (Lease + Drain + QueueWait + 1)

\* A reset that was started completes, whatever fails a bounded number of times
\* and wherever the worker dies: no lease, wait or error stays in its way.  (A
\* start so late that the bounded clock stops first is left out.)
ResetCompletes ==
    row.phase = "snapshot" /\ now + Longest <= MaxTime ~> row.phase = "complete"
================================================================================
