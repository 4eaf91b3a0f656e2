---------------------------- MODULE EnvResetProofs ----------------------------
(***************************************************************************)
(* The safety of EnvReset for every number of functions, workers, items    *)
(* and faults, and every timing that the assumptions of EnvReset allow.    *)
(*                                                                         *)
(* TypeStep proves that types are kept; the lemmas ...Rest prove, one      *)
(* action each, that the rest of the invariant is.  An action a worker     *)
(* takes while it holds the record goes through HolderStep: nobody else    *)
(* holds it, so only that worker's progress and the phase's facts are left *)
(* to show.                                                                *)
(***************************************************************************)
EXTENDS EnvResetInvariant, TLAPS

\* An absent record and an idle invocation are well typed.
LEMMA Blank ==
    /\ Absent \in State
    /\ Off \in Worker
  <1>1. NoOperation \in Operations \cup {NoOperation} /\ NotRead \in Snapshots
    BY DEF NotRead, Snapshots, Missing
  <1>2. Absent \in State
    BY <1>1 DEF Absent, State, Phases
  <1>3. Off \in Worker
    BY <1>1, <1>2 DEF Off, Worker
  <1> QED BY <1>2, <1>3

\* Work knows what follows every phase a worker can be in.
LEMMA Follows == \A p \in Phases \ AtRest : Following[p] \in Phases
  <1>1. /\ Following["snapshot"] = "pause" /\ Following["pause"] = "drain"
        /\ Following["drain"] = "purge" /\ Following["purge"] = "queue_wait"
        /\ Following["queue_wait"] = "users" /\ Following["users"] = "tables"
        /\ Following["tables"] = "objects" /\ Following["objects"] = "restore"
        /\ Following["restore"] = "complete"
    BY DEF Following
  <1> QED BY <1>1 DEF Phases, AtRest

\* The first state is well typed.
LEMMA TypeInit == Init => TypeOK
  <1> SUFFICES ASSUME Init PROVE TypeOK  OBVIOUS
  <1>1. Original \in [Functions -> Int] /\ MaxItems \in Nat
    BY ResetConstants
  <1>2. worker \in [Workers -> Worker] /\ row \in State
    BY Blank DEF Init
  <1> QED BY <1>1, <1>2 DEF Init, TypeOK

\* What the assumptions say of the constants.
LEMMA Constants ==
    /\ Timeout \in Nat /\ LoopFor \in Nat /\ Lease \in Nat /\ Drain \in Nat
    /\ QueueWait \in Nat /\ Linger \in Nat
    /\ Original \in [Functions -> Int]
    /\ \A f \in Functions : Original[f] >= -1
  BY ResetConstants DEF Unreserved

\* Every action keeps the types.
LEMMA TypeStep == Inv /\ [Next]_vars => TypeOK'
  <1> SUFFICES ASSUME Inv, [Next]_vars PROVE TypeOK'  OBVIOUS
  <1>0. TypeOK
    BY DEF Inv
  <1> USE <1>0 DEF TypeOK
  <1>1. ASSUME NEW o \in Operations, Start(o) PROVE TypeOK'
    <2>1. row' \in State
      <3>1. row.revision + 1 \in Nat /\ row.validAfter \in Nat
        BY DEF State
      <3>3. o \in Operations \cup {NoOperation} /\ "snapshot" \in Phases
        BY DEF Phases
      <3>2. row' = [Absent EXCEPT !.revision = row.revision + 1, !.operation = o,
                                  !.phase = "snapshot", !.validAfter = row.validAfter]
        BY <1>1 DEF Start
      <3> QED BY <3>1, <3>2, <3>3, Blank, Zenon DEF State
    <2> QED BY <1>1, <2>1 DEF Start
  <1>2. CASE Resume
    <2>1. row' \in State
      <3>1. row.revision + 1 \in Nat /\ FALSE \in BOOLEAN /\ row \in State
        BY DEF State
      <3>2. row' = [row EXCEPT !.error = FALSE, !.revision = row.revision + 1]
        BY <1>2 DEF Resume
      <3> QED BY <3>1, <3>2, Zenon DEF State
    <2> QED BY <1>2, <2>1 DEF Resume
  <1>3. ASSUME NEW w \in Workers, WorkerStep(w) PROVE TypeOK'
    <2> DEFINE me == worker[w]
    <2>0. me \in Worker /\ me.view \in State /\ me.view.saved \in Snapshots
          /\ me.seen \in Snapshots /\ me.at \in Nat /\ me.begun \in Nat
          /\ me.view.due \in Nat /\ me.view.validAfter \in Nat
      BY DEF Worker, State
    <2>1. CASE Load(w)
      <3>1. [Off EXCEPT !.pc = "loaded",
                        !.begun = IF me.pc = "off" THEN now ELSE me.begun,
                        !.at = now, !.view = row] \in Worker
        BY <2>0, Blank DEF Worker, Off
      <3> QED BY <2>1, <3>1 DEF Load
    <2>2. CASE Claim(w)
      <3> DEFINE claimed == [me.view EXCEPT !.revision = @ + 1, !.lease = me.at + Lease]
      <3>1. claimed \in State
        <4>1. me.view.revision + 1 \in Nat /\ me.at + Lease \in Nat
          BY <2>0, Constants DEF State
        <4>2. claimed = [me.view EXCEPT !.revision = me.view.revision + 1,
                                        !.lease = me.at + Lease]
          OBVIOUS
        <4> HIDE DEF claimed, me
        <4> QED BY <4>1, <4>2, <2>0, Zenon DEF State
      <3>2. Calls(claimed.phase) \in SUBSET Functions
        BY DEF Calls
      <3> HIDE DEF claimed
      <3>3. [me EXCEPT !.pc = "calling", !.view = claimed,
                       !.todo = Calls(claimed.phase)] \in Worker
        BY <2>0, <3>1, <3>2 DEF Worker
      <3>4. /\ row' = claimed
            /\ worker' = [worker EXCEPT ![w] =
                 [me EXCEPT !.pc = "calling", !.view = claimed,
                            !.todo = Calls(claimed.phase)]]
        BY <2>2 DEF Claim, claimed
      <3> QED BY <2>2, <3>1, <3>3, <3>4 DEF Claim
    <2>3. CASE Conflict(w) \/ Finish(w) \/ Die(w)
      BY <2>3, Blank DEF Conflict, Finish, Die
    <2>4. ASSUME NEW f \in Functions, CallFunction(w, f) PROVE TypeOK'
      <3>1. /\ limit' \in [Functions -> Int]
            /\ busyUntil' \in Nat
        BY <2>4, <2>0, Constants
        DEF CallFunction, SetLimit, Restored, Snapshots, Unreserved
      <3> DEFINE seen == IF me.view.phase = "snapshot"
                         THEN [me.seen EXCEPT ![f] = limit[f]] ELSE me.seen
      <3>2. seen \in Snapshots
        BY <2>0 DEF Snapshots
      <3>3. worker' = [worker EXCEPT ![w] =
                         [me EXCEPT !.todo = @ \ {f}, !.seen = seen]]
        BY <2>4 DEF CallFunction
      <3> HIDE DEF seen
      <3>4. [me EXCEPT !.todo = @ \ {f}, !.seen = seen] \in Worker
        BY <2>0, <3>2 DEF Worker
      <3> QED BY <2>4, <3>1, <3>3, <3>4 DEF CallFunction
    <2>5. CASE Called(w) \/ PausedAgain(w)
      <3>1. /\ [me EXCEPT !.pc = "saving", !.done = TRUE] \in Worker
            /\ [me EXCEPT !.pc = "saving", !.todo = {}] \in Worker
        BY <2>0 DEF Worker
      <3> QED BY <2>5, <3>1 DEF Called, PausedAgain
    <2>6. CASE Purge(w)
      <3>1. [me EXCEPT !.pc = "saving", !.done = TRUE] \in Worker
        BY <2>0 DEF Worker
      <3> QED BY <2>6, <3>1 DEF Purge
    <2>7. CASE ClearPage(w)
      <3> DEFINE k == me.view.phase
      <3>1. PICK left \in 0..data[k], failed \in BOOLEAN :
              /\ data' = [data EXCEPT ![k] = left]
              /\ faults' \in {faults, faults + 1}
              /\ worker' = [worker EXCEPT ![w] =
                   [me EXCEPT !.pc = "saving",
                              !.done = ~failed /\ Emptied(data[k]),
                              !.failed = failed]]
              /\ orphaned' \in {orphaned, now}
        BY <2>7 DEF ClearPage
      <3>2. k \in Stores
        BY <2>7 DEF ClearPage, Clearing, Stores
      <3>3. (~failed /\ Emptied(data[k])) \in BOOLEAN
        BY DEF Emptied
      <3>4. [me EXCEPT !.pc = "saving",
                       !.done = ~failed /\ Emptied(data[k]),
                       !.failed = failed] \in Worker
        BY <2>0, <3>3 DEF Worker
      <3>5. left \in Nat
        BY <3>1, <3>2
      <3> QED BY <2>7, <3>1, <3>2, <3>4, <3>5 DEF ClearPage
    <2>8. CASE Fail(w)
      <3> DEFINE pc == IF me.view.phase = "restore" THEN "repausing" ELSE "saving"
                 todo == IF me.view.phase = "restore" THEN Functions ELSE {}
      <3>1. [me EXCEPT !.pc = pc, !.todo = todo, !.failed = TRUE] \in Worker
        BY <2>0 DEF Worker
      <3> QED BY <2>8, <3>1 DEF Fail
    <2>9. ASSUME NEW f \in Functions, PauseAgain(w, f) PROVE TypeOK'
      <3>1. [me EXCEPT !.todo = @ \ {f}] \in Worker
        BY <2>0 DEF Worker
      <3>2. worker' = [worker EXCEPT ![w] = [me EXCEPT !.todo = @ \ {f}]]
        BY <2>9 DEF PauseAgain
      <3> QED BY <2>9, <3>1, <3>2, Constants DEF PauseAgain, SetLimit
    <2>10. CASE Save(w)
      <3>1. Outcome(me) \in State
        <4> DEFINE saved == [me.view EXCEPT !.revision = @ + 1, !.lease = 0]
        <4>1. saved \in State /\ saved.phase \in Phases
          <5>1. me.view.revision + 1 \in Nat /\ 0 \in Nat
            BY <2>0 DEF State
          <5>2. saved = [me.view EXCEPT !.revision = me.view.revision + 1, !.lease = 0]
            OBVIOUS
          <5> HIDE DEF saved, me
          <5>3. saved \in State
            BY <5>1, <5>2, <2>0, Zenon DEF State
          <5> QED BY <5>3 DEF State
        <4>2. saved.phase = me.view.phase /\ saved.saved = me.view.saved
          BY <2>0 DEF State
        <4> HIDE DEF saved
        <4>3. PhaseAfterFailure(saved.phase) \in Phases
          BY <4>1 DEF PhaseAfterFailure, Phases
        <4>4. DueAfter(me) \in Nat /\ CutOff(me) \in Nat
          BY <2>0, Constants DEF DueAfter, CutOff
        <4> DEFINE kept == IF me.view.phase = "snapshot" THEN me.seen ELSE saved.saved
        <4>5. kept \in Snapshots
          BY <2>0, <4>2
        <4>6. Following[saved.phase] \in Phases
          <5>1. me.view = row /\ row.phase \notin AtRest
            BY <2>10 DEF Inv, WorkerOK, Leased, Holds, Save
          <5>2. me.view.phase \in Phases \ AtRest
            BY <5>1 DEF State
          <5> QED BY <4>2, <5>2, Follows
        <4>7. Outcome(me) =
                IF me.failed
                THEN [saved EXCEPT !.error = TRUE,
                                   !.phase = PhaseAfterFailure(saved.phase)]
                ELSE IF ~me.done THEN saved
                ELSE [saved EXCEPT !.phase = Following[saved.phase],
                                   !.due = DueAfter(me),
                                   !.validAfter = CutOff(me),
                                   !.saved = kept]
          BY DEF Outcome, saved, kept
        <4> HIDE DEF kept, me
        <4>8. [saved EXCEPT !.error = TRUE,
                            !.phase = PhaseAfterFailure(saved.phase)] \in State
          BY <4>1, <4>3, Zenon DEF State
        <4>9. [saved EXCEPT !.phase = Following[saved.phase],
                            !.due = DueAfter(me), !.validAfter = CutOff(me),
                            !.saved = kept] \in State
          BY <4>1, <4>4, <4>5, <4>6, Zenon DEF State
        <4> QED BY <4>1, <4>7, <4>8, <4>9
      <3>2. [Off EXCEPT !.pc = "between", !.begun = me.begun] \in Worker
        BY <2>0, Blank DEF Worker, Off
      <3> QED BY <2>10, <3>1, <3>2 DEF Save
    <2> QED
      BY <1>3, <2>1, <2>2, <2>3, <2>4, <2>5, <2>6, <2>7, <2>8, <2>9, <2>10
      DEF WorkerStep
  <1>4. ASSUME NEW k \in Stores, Write(k) PROVE TypeOK'
    BY <1>4 DEF Write
  <1>5. CASE Tick
    BY <1>5, Blank DEF Tick
  <1>6. CASE UNCHANGED vars
    BY <1>6 DEF vars
  <1> QED
    BY <1>1, <1>2, <1>3, <1>4, <1>5, <1>6 DEF Next

\* The types that the other lemmas use.
LEMMA Typed ==
    ASSUME TypeOK
    PROVE  /\ now \in Nat /\ busyUntil \in Nat /\ orphaned \in Nat
           /\ row.revision \in Nat /\ row.due \in Nat /\ row.lease \in Nat
           /\ row.validAfter \in Nat /\ row.phase \in Phases
           /\ \A w \in Workers :
                /\ worker[w] \in Worker /\ worker[w].view \in State
                /\ worker[w].begun \in Nat /\ worker[w].at \in Nat
                /\ worker[w].view.revision \in Nat
  BY DEF TypeOK, State, Worker

\* The part of the invariant beyond the types.
Rest ==
    /\ \A w \in Workers : WorkerOK(w)
    /\ OneWorker
    /\ FunctionsOK
    /\ DataOK

\* The invariant holds of the first state.
LEMMA RestInit == Init => Rest
  <1> SUFFICES ASSUME Init PROVE Rest  OBVIOUS
  <1>1. \A w \in Workers : worker[w].pc = "off"
    BY DEF Init, Off
  <1>2. \A w \in Workers : WorkerOK(w)
    BY <1>1 DEF WorkerOK, Fresh, Living, Current, Leased, Progress, Holds
  <1>3. OneWorker
    BY <1>1 DEF OneWorker, Holds
  <1>4. row.phase = "" /\ row.validAfter = 0
    BY DEF Init, Absent
  <1>5. FunctionsOK
    <2>1. limit = Original /\ busyUntil = 0 /\ now = 1
      BY DEF Init
    <2>2. busyUntil <= now + Linger
      BY <2>1, Constants
    <2>3. /\ row.phase \in AtRest \cup {"snapshot"}
          /\ row.phase # "drain"
          /\ row.phase \notin {"purge", "queue_wait"} \cup Clearing
      BY <1>4 DEF AtRest, Clearing
    <2> QED BY <2>1, <2>2, <2>3 DEF FunctionsOK
  <1>6. DataOK
    <2>1. orphaned = 0 /\ now = 1
      BY DEF Init
    <2>2. 0 <= 0 /\ 0 <= 1
      OBVIOUS
    <2>3. orphaned <= row.validAfter /\ orphaned <= now
      BY <1>4, <2>1, <2>2, Zenon
    <2> QED BY <1>4, <2>3 DEF DataOK, AtRest, Clearing
  <1> QED BY <1>2, <1>3, <1>5, <1>6 DEF Rest

\* A worker that an action leaves alone stays as it was.
LEMMA Untouched ==
    ASSUME NEW v \in Workers, WorkerOK(v), worker'[v] = worker[v],
           UNCHANGED <<row, limit, data, orphaned, now>>
    PROVE  WorkerOK(v)'
  BY DEF WorkerOK, Fresh, Living, Current, Leased, Progress, Holds, Paused

\* Nothing is claimed of an invocation that is over.
LEMMA IdleOK ==
    ASSUME NEW v \in Workers, worker'[v] = Off
    PROVE  WorkerOK(v)' /\ ~Holds(v)'
  BY DEF Off, WorkerOK, Fresh, Living, Current, Leased, Progress, Holds

\* Start: the functions are as configured, so the next snapshot reads that.
LEMMA StartRest ==
    ASSUME Inv, NEW o \in Operations, Start(o)
    PROVE  Rest'
  <1> USE Typed DEF Inv
  <1>1. /\ row'.revision = row.revision + 1 /\ row'.phase = "snapshot"
        /\ row'.validAfter = row.validAfter
        /\ UNCHANGED <<limit, busyUntil, data, orphaned, worker, now>>
        /\ row.phase \in AtRest
    BY DEF Start, Absent
  <1>2. \A w \in Workers : ~Holds(w)
    BY <1>1 DEF WorkerOK, Leased
  <1>3. ASSUME NEW w \in Workers PROVE WorkerOK(w)'
    <2>1. Living(w)' /\ Fresh(w)'
      BY <1>1 DEF WorkerOK, Living, Fresh
    <2>2. Current(w)'
      BY <1>1 DEF WorkerOK, Current
    <2>3. Leased(w)' /\ Progress(w)'
      BY <1>1, <1>2 DEF Leased, Progress, Holds
    <2> QED BY <2>1, <2>2, <2>3 DEF WorkerOK
  <1>4. OneWorker'
    BY <1>1, <1>2 DEF OneWorker, Holds
  <1>5. FunctionsOK' /\ DataOK'
    BY <1>1 DEF FunctionsOK, DataOK, AtRest, Clearing, Paused
  <1> QED BY <1>3, <1>4, <1>5 DEF Rest

\* Resume: nobody holds a record whose step failed.
LEMMA ResumeRest ==
    ASSUME Inv, Resume
    PROVE  Rest'
  <1> USE Typed DEF Inv
  <1>1. /\ row'.revision = row.revision + 1 /\ row'.phase = row.phase
        /\ row'.validAfter = row.validAfter /\ row'.due = row.due
        /\ row'.saved = row.saved
        /\ UNCHANGED <<limit, busyUntil, data, orphaned, worker, now>>
        /\ row.error
    BY DEF Resume, TypeOK, State
  <1>2. \A w \in Workers : ~Holds(w)
    BY <1>1 DEF WorkerOK, Leased
  <1>3. ASSUME NEW w \in Workers PROVE WorkerOK(w)'
    <2>1. Living(w)' /\ Fresh(w)'
      BY <1>1 DEF WorkerOK, Living, Fresh
    <2>2. Current(w)'
      BY <1>1 DEF WorkerOK, Current
    <2>3. Leased(w)' /\ Progress(w)'
      BY <1>1, <1>2 DEF Leased, Progress, Holds
    <2> QED BY <2>1, <2>2, <2>3 DEF WorkerOK
  <1>4. OneWorker'
    BY <1>1, <1>2 DEF OneWorker, Holds
  <1>5. FunctionsOK' /\ DataOK'
    BY <1>1 DEF FunctionsOK, DataOK, Paused
  <1> QED BY <1>3, <1>4, <1>5 DEF Rest

\* Load: what is loaded is what is stored.
LEMMA LoadRest ==
    ASSUME Inv, NEW w \in Workers, Load(w)
    PROVE  Rest'
  <1> USE Typed DEF Inv
  <1>0. /\ worker \in [Workers -> Worker]
        /\ UNCHANGED <<row, limit, busyUntil, data, orphaned, now>>
    BY DEF Load, TypeOK
  <1>1. /\ worker'[w].pc = "loaded"
        /\ worker'[w].begun = IF worker[w].pc = "off" THEN now ELSE worker[w].begun
        /\ worker'[w].at = now
        /\ worker'[w].view = row
        /\ Workable(row, now)
        /\ worker[w].pc \in {"off", "between"}
        /\ ~worker'[w].done /\ ~worker'[w].failed
    BY <1>0 DEF Load, Off
  <1>2. \A v \in Workers : v # w => worker'[v] = worker[v]
    BY <1>0 DEF Load
  <1>3. ASSUME NEW v \in Workers PROVE WorkerOK(v)'
    <2>1. CASE v # w
      BY <2>1, <1>0, <1>2, Untouched
    <2>2. CASE v = w
      <3>1. Living(w)' /\ Fresh(w)'
        BY <1>0, <1>1, Constants DEF WorkerOK, Living, Fresh
      <3>2. Current(w)'
        <4>1. worker'[w].begun <= now
          BY <1>1 DEF WorkerOK, Living
        <4> QED BY <1>0, <1>1, <4>1 DEF Current, DataOK, Workable
      <3>3. Leased(w)' /\ Progress(w)'
        BY <1>1 DEF Leased, Progress, Holds
      <3> QED BY <2>2, <3>1, <3>2, <3>3 DEF WorkerOK
    <2> QED BY <2>1, <2>2
  <1>4. OneWorker'
    BY <1>1, <1>2 DEF OneWorker, Holds
  <1>5. FunctionsOK' /\ DataOK'
    BY <1>0 DEF FunctionsOK, DataOK, Paused
  <1> QED BY <1>3, <1>4, <1>5 DEF Rest

\* Nobody holds a record whose lease has run out.
LEMMA ClaimRest ==
    ASSUME Inv, NEW w \in Workers, Claim(w)
    PROVE  Rest'
  <1> USE Typed, Constants, LeaseOutlivesWorker DEF Inv
  <1>0. /\ worker \in [Workers -> Worker]
        /\ UNCHANGED <<limit, busyUntil, data, orphaned, now>>
        /\ worker[w].pc = "loaded"
        /\ row.revision = worker[w].view.revision
    BY DEF Claim, TypeOK
  <1>1. /\ worker[w].begun <= worker[w].at /\ worker[w].at <= now
        /\ worker[w].view = row
        /\ row.phase \notin AtRest /\ ~row.error
        /\ row.lease <= worker[w].at /\ row.due <= worker[w].at
        /\ row.phase \in {"tables", "objects"} => orphaned <= worker[w].at
    BY <1>0 DEF WorkerOK, Current, Workable
  <1>2. row' = [row EXCEPT !.revision = row.revision + 1,
                           !.lease = worker[w].at + Lease]
    BY <1>1 DEF Claim
  <1>3. /\ row'.revision = row.revision + 1 /\ row'.lease = worker[w].at + Lease
        /\ row'.phase = row.phase /\ row'.error = row.error
        /\ row'.due = row.due /\ row'.saved = row.saved
        /\ row'.validAfter = row.validAfter
    BY <1>2 DEF TypeOK, State
  <1>4. /\ worker'[w].pc = "calling" /\ worker'[w].view = row'
        /\ worker'[w].begun = worker[w].begun /\ worker'[w].at = worker[w].at
        /\ worker'[w].todo = Calls(row.phase)
        /\ worker'[w].done = worker[w].done /\ worker'[w].failed = worker[w].failed
        /\ \A v \in Workers : v # w => worker'[v] = worker[v]
    BY <1>0, <1>1, <1>2 DEF Claim, Worker
  <1>5. \A v \in Workers : ~Holds(v)
    <2> SUFFICES ASSUME NEW v \in Workers, Holds(v) PROVE FALSE  OBVIOUS
    <2>1. /\ now <= worker[v].begun + Timeout
          /\ worker[v].begun <= worker[v].at
          /\ row.lease = worker[v].at + Lease
      BY DEF WorkerOK, Living, Leased, Holds
    <2> QED BY <2>1, <1>1
  <1>6. ASSUME NEW v \in Workers PROVE WorkerOK(v)'
    <2>1. CASE v # w
      <3>1. Living(v)' /\ Fresh(v)'
        BY <2>1, <1>0, <1>4 DEF WorkerOK, Living, Fresh
      <3>2. Current(v)'
        <4>1. worker'[v] = worker[v] /\ worker[v].view.revision \in Nat
          BY <2>1, <1>4
        <4>2. CASE worker[v].pc = "loaded"
          <5>1. worker[v].view.revision < row'.revision
            BY <4>2, <1>3 DEF WorkerOK, Current
          <5>2. worker[v].view # row'
            BY <5>1, <4>1
          <5>3. /\ worker[v].begun <= worker[v].at /\ worker[v].at <= now
                /\ Workable(worker[v].view, worker[v].at)
            BY <4>2 DEF WorkerOK, Current
          <5>4. /\ worker[v].view.revision <= row'.revision
                /\ worker[v].view.revision # row'.revision
            BY <5>1, <4>1, <1>3
          <5> QED BY <4>1, <5>2, <5>3, <5>4, <1>0 DEF Current, Workable
        <4> QED BY <4>1, <4>2 DEF Current
      <3>3. Leased(v)' /\ Progress(v)'
        BY <2>1, <1>4, <1>5 DEF Leased, Progress, Holds
      <3> QED BY <3>1, <3>2, <3>3 DEF WorkerOK
    <2>2. CASE v = w
      <3>1. Living(w)' /\ Fresh(w)'
        BY <1>0, <1>4 DEF WorkerOK, Living, Fresh
      <3>2. Current(w)' /\ Leased(w)'
        BY <1>0, <1>1, <1>3, <1>4 DEF Current, Leased
      <3>3. Progress(w)'
        <4>1. ~worker[w].done /\ ~worker[w].failed
          BY <1>0 DEF WorkerOK, Fresh
        <4>2. /\ row.phase \in {"snapshot", "pause", "restore"} =>
                   worker'[w].todo = Functions
              /\ row'.phase = row.phase
          BY <1>3, <1>4 DEF Calls
        <4> QED BY <1>4, <4>1, <4>2 DEF Progress
      <3> QED BY <2>2, <3>1, <3>2, <3>3 DEF WorkerOK
    <2> QED BY <2>1, <2>2
  <1>7. OneWorker'
    BY <1>4, <1>5 DEF OneWorker, Holds
  <1>8. FunctionsOK' /\ DataOK'
    BY <1>0, <1>3 DEF FunctionsOK, DataOK, Paused
  <1> QED BY <1>6, <1>7, <1>8 DEF Rest

\* A step of w that only moves w on, leaving the record and the environment.
LEMMA ConflictRest ==
    ASSUME Inv, NEW w \in Workers, Conflict(w) \/ Finish(w) \/ Die(w)
    PROVE  Rest'
  <1> USE DEF Inv
  <1>0. /\ UNCHANGED <<row, limit, busyUntil, data, orphaned, now>>
        /\ worker'[w] = Off
        /\ \A v \in Workers : v # w => worker'[v] = worker[v]
    BY DEF Conflict, Finish, Die, TypeOK
  <1>1. ASSUME NEW v \in Workers PROVE WorkerOK(v)'
    BY <1>0, Untouched, IdleOK
  <1>2. OneWorker'
    BY <1>0, IdleOK DEF OneWorker, Holds
  <1>3. FunctionsOK' /\ DataOK'
    BY <1>0 DEF FunctionsOK, DataOK, Paused
  <1> QED BY <1>1, <1>2, <1>3 DEF Rest

\* What is left to show of a step that w takes while it holds the record: what
\* w itself has done, and the phase's facts.
LEMMA HolderStep ==
    ASSUME Inv, NEW w \in Workers, Holds(w),
           UNCHANGED <<row, now>>, orphaned' = orphaned \/ row.phase = "users",
           worker'[w].begun = worker[w].begun, worker'[w].at = worker[w].at,
           worker'[w].view = worker[w].view,
           worker'[w].pc \in {"calling", "repausing", "saving"},
           \A v \in Workers : v # w => worker'[v] = worker[v],
           Progress(w)', FunctionsOK', DataOK'
    PROVE  Rest'
  <1> USE DEF Inv
  <1>1. \A v \in Workers : v # w => ~Holds(v) /\ ~Holds(v)'
    BY DEF OneWorker, Holds
  <1>2. ASSUME NEW v \in Workers, v # w PROVE WorkerOK(v)'
    <2>1. worker'[v] = worker[v]
      BY <1>2
    <2>2. Living(v)' /\ Fresh(v)'
      BY <2>1 DEF WorkerOK, Living, Fresh
    <2>3. Current(v)'
      BY <2>1 DEF WorkerOK, Current, Workable
    <2>4. Leased(v)' /\ Progress(v)'
      BY <1>1, <1>2, <2>1 DEF Leased, Progress, Holds
    <2> QED BY <2>2, <2>3, <2>4 DEF WorkerOK
  <1>3. WorkerOK(w)'
    <2>1. worker'[w].pc # "loaded" /\ worker[w].pc # "off"
      BY DEF Holds
    <2>2. Living(w)' /\ Fresh(w)' /\ Current(w)'
      BY <2>1 DEF WorkerOK, Living, Fresh, Current
    <2>3. Leased(w)'
      BY DEF WorkerOK, Leased
    <2> QED BY <2>2, <2>3 DEF WorkerOK
  <1>4. OneWorker'
    BY <1>1 DEF OneWorker
  <1> QED BY <1>2, <1>3, <1>4 DEF Rest

\* An action that touches neither record nor environment keeps the phase's facts.
LEMMA Stable ==
    ASSUME Inv, UNCHANGED <<row, limit, busyUntil, data, orphaned, now>>
    PROVE  FunctionsOK' /\ DataOK'
  BY DEF Inv, FunctionsOK, DataOK, Paused

\* Snapshot, Pause and Restore come one function closer to their end.
LEMMA CallFunctionRest ==
    ASSUME Inv, NEW w \in Workers, NEW f \in Functions, CallFunction(w, f)
    PROVE  Rest'
  <1> USE Typed, Constants DEF Inv
  <1> DEFINE me == worker[w]
  <1>0. /\ worker \in [Workers -> Worker] /\ limit \in [Functions -> Int]
        /\ UNCHANGED <<row, data, orphaned, now>>
        /\ me.pc = "calling" /\ f \in me.todo
        /\ me \in Worker
    BY DEF CallFunction, TypeOK
  <1>1. Holds(w) /\ me.view = row
    BY <1>0 DEF Holds, WorkerOK, Leased
  <1>2. /\ me.todo \subseteq Calls(row.phase)
        /\ row.phase \in {"snapshot", "pause", "restore"}
        /\ ~me.done /\ ~me.failed
    BY <1>0 DEF WorkerOK, Progress, Calls
  <1>3. /\ worker'[w] = [me EXCEPT !.todo = @ \ {f},
                                   !.seen = IF row.phase = "snapshot"
                                            THEN [@ EXCEPT ![f] = limit[f]] ELSE @]
        /\ \A v \in Workers : v # w => worker'[v] = worker[v]
    BY <1>0, <1>1 DEF CallFunction
  <1>4. /\ worker'[w].begun = me.begun /\ worker'[w].at = me.at
        /\ worker'[w].view = me.view /\ worker'[w].pc = "calling"
        /\ worker'[w].todo = me.todo \ {f}
        /\ worker'[w].done = me.done /\ worker'[w].failed = me.failed
        /\ row.phase = "snapshot" => worker'[w].seen = [me.seen EXCEPT ![f] = limit[f]]
    BY <1>0, <1>3 DEF Worker
  <1>5. CASE row.phase = "snapshot"
    <2>1. UNCHANGED <<limit, busyUntil>>
      BY <1>5, <1>1 DEF CallFunction
    <2>2. limit = Original
      BY <1>5 DEF FunctionsOK
    <2>3. me.seen \in [Functions -> Int]
      BY <1>0 DEF Worker, Snapshots
    <2>4. \A g \in Functions \ worker'[w].todo : worker'[w].seen[g] = Original[g]
      BY <1>5, <1>0, <1>4, <2>2, <2>3 DEF WorkerOK, Progress
    <2>5. Progress(w)'
      BY <1>5, <1>0, <1>2, <1>4, <2>4 DEF Progress, Calls
    <2> QED BY <1>0, <1>1, <1>4, <1>3, <2>1, <2>5, Stable, HolderStep
  <1>6. CASE row.phase = "pause"
    <2>1. limit' = [limit EXCEPT ![f] = 0] /\ busyUntil' \in {busyUntil, now + Linger}
      BY <1>6, <1>1 DEF CallFunction, SetLimit
    <2>2. \A g \in Functions \ worker'[w].todo : limit'[g] = 0
      BY <1>6, <1>0, <1>4, <2>1 DEF WorkerOK, Progress
    <2>3. Progress(w)'
      BY <1>6, <1>0, <1>2, <1>4, <2>2 DEF Progress, Calls
    <2>4. FunctionsOK'
      <3>1. busyUntil <= now + Linger /\ busyUntil' <= now + Linger
        BY <2>1 DEF FunctionsOK
      <3>2. row.saved = Original
        BY <1>6 DEF FunctionsOK, AtRest
      <3>3. /\ row.phase \notin AtRest \cup {"snapshot"}
            /\ row.phase # "drain"
            /\ row.phase \notin {"purge", "queue_wait"} \cup Clearing
        BY <1>6 DEF AtRest, Clearing
      <3> QED BY <1>0, <3>1, <3>2, <3>3 DEF FunctionsOK
    <2>5. DataOK'
      BY <1>0 DEF DataOK
    <2> QED BY <1>0, <1>1, <1>4, <1>3, <2>3, <2>4, <2>5, HolderStep
  <1>7. CASE row.phase = "restore"
    <2>1. /\ limit' = [limit EXCEPT ![f] = Restored(row.saved[f])]
          /\ busyUntil' \in {busyUntil, now + Linger}
      BY <1>7, <1>1 DEF CallFunction, SetLimit
    <2>2. row.saved = Original
      BY <1>7 DEF FunctionsOK, AtRest
    <2>3. Restored(row.saved[f]) = Original[f]
      BY <2>2 DEF Restored, Unreserved
    <2>4. \A g \in Functions \ worker'[w].todo : limit'[g] = Original[g]
      BY <1>7, <1>0, <1>4, <2>1, <2>3 DEF WorkerOK, Progress
    <2>5. Progress(w)'
      BY <1>7, <1>0, <1>2, <1>4, <2>4 DEF Progress, Calls
    <2>6. FunctionsOK'
      <3>1. busyUntil <= now + Linger /\ busyUntil' <= now + Linger
        BY <2>1 DEF FunctionsOK
      <3>2. row.saved = Original
        BY <1>7 DEF FunctionsOK, AtRest
      <3>3. /\ row.phase \notin AtRest \cup {"snapshot"}
            /\ row.phase # "drain"
            /\ row.phase \notin {"purge", "queue_wait"} \cup Clearing
        BY <1>7 DEF AtRest, Clearing
      <3> QED BY <1>0, <3>1, <3>2, <3>3 DEF FunctionsOK
    <2>7. DataOK'
      BY <1>0 DEF DataOK
    <2> QED BY <1>0, <1>1, <1>4, <1>3, <2>5, <2>6, <2>7, HolderStep
  <1> QED BY <1>2, <1>5, <1>6, <1>7

\* A step with no function left to call for has done what its phase is for.
LEMMA CalledRest ==
    ASSUME Inv, NEW w \in Workers, Called(w)
    PROVE  Rest'
  <1> USE Typed, Constants DEF Inv
  <1> DEFINE me == worker[w]
  <1>0. /\ worker \in [Workers -> Worker] /\ limit \in [Functions -> Int]
        /\ UNCHANGED <<row, limit, busyUntil, data, orphaned, now>>
        /\ me.pc = "calling" /\ me.todo = {}
        /\ me \in Worker
    BY DEF Called, TypeOK
  <1>1. Holds(w) /\ me.view = row
    BY <1>0 DEF Holds, WorkerOK, Leased
  <1>2. /\ worker'[w] = [me EXCEPT !.pc = "saving", !.done = TRUE]
        /\ \A v \in Workers : v # w => worker'[v] = worker[v]
        /\ row.phase \notin Clearing \cup {"purge"}
    BY <1>0, <1>1 DEF Called
  <1>3. /\ worker'[w].begun = me.begun /\ worker'[w].at = me.at
        /\ worker'[w].view = me.view /\ worker'[w].pc = "saving"
        /\ worker'[w].seen = me.seen /\ worker'[w].failed = me.failed
    BY <1>0, <1>2 DEF Worker
  <1>4. /\ row.phase = "snapshot" => me.seen = Original
        /\ row.phase = "pause" => Paused
        /\ row.phase = "restore" => limit = Original
    <2>1. me.seen \in [Functions -> Int]
      BY <1>0 DEF Worker, Snapshots
    <2> QED BY <1>0, <2>1 DEF WorkerOK, Progress, Paused
  <1>5. Progress(w)'
    BY <1>0, <1>2, <1>3, <1>4 DEF Progress, Paused
  <1> QED BY <1>0, <1>1, <1>2, <1>3, <1>5, Stable, HolderStep

\* Purge empties the queues.
LEMMA PurgeRest ==
    ASSUME Inv, NEW w \in Workers, Purge(w)
    PROVE  Rest'
  <1> USE Typed DEF Inv
  <1> DEFINE me == worker[w]
  <1>0. /\ worker \in [Workers -> Worker] /\ data \in [Stores -> Nat]
        /\ UNCHANGED <<row, limit, busyUntil, orphaned, now>>
        /\ me.pc = "calling" /\ me \in Worker
        /\ data' = [data EXCEPT !["jobs"] = 0]
    BY DEF Purge, TypeOK
  <1>1. Holds(w) /\ me.view = row
    BY <1>0 DEF Holds, WorkerOK, Leased
  <1>2. /\ worker'[w] = [me EXCEPT !.pc = "saving", !.done = TRUE]
        /\ \A v \in Workers : v # w => worker'[v] = worker[v]
        /\ row.phase = "purge"
    BY <1>0, <1>1 DEF Purge
  <1>3. /\ worker'[w].begun = me.begun /\ worker'[w].at = me.at
        /\ worker'[w].view = me.view /\ worker'[w].pc = "saving"
    BY <1>0, <1>2 DEF Worker
  <1>4. data'["jobs"] = 0
    BY <1>0 DEF Stores
  <1>5. Progress(w)'
    BY <1>0, <1>2, <1>3, <1>4 DEF Progress, Clearing
  <1>6. FunctionsOK'
    BY <1>0 DEF FunctionsOK, Paused
  <1>7. DataOK'
    BY <1>0, <1>2 DEF DataOK, Clearing, AtRest
  <1> QED BY <1>0, <1>1, <1>2, <1>3, <1>5, <1>6, <1>7, HolderStep

\* Clear reports a store empty only when it is; it fills none.
LEMMA ClearPageRest ==
    ASSUME Inv, NEW w \in Workers, ClearPage(w)
    PROVE  Rest'
  <1> USE Typed DEF Inv
  <1> DEFINE me == worker[w]
  <1>0. /\ worker \in [Workers -> Worker] /\ data \in [Stores -> Nat]
        /\ UNCHANGED <<row, limit, busyUntil, now>>
        /\ me.pc = "calling" /\ me \in Worker
    BY DEF ClearPage, TypeOK
  <1>1. Holds(w) /\ me.view = row
    BY <1>0 DEF Holds, WorkerOK, Leased
  <1>2. row.phase \in Clearing
    BY <1>1 DEF ClearPage
  <1>3. PICK left \in 0..data[row.phase], failed \in BOOLEAN :
          /\ data' = [data EXCEPT ![row.phase] = left]
          /\ worker' = [worker EXCEPT ![w] =
               [me EXCEPT !.pc = "saving",
                          !.done = ~failed /\ Emptied(data[row.phase]),
                          !.failed = failed]]
          /\ orphaned' = orphaned \/ (row.phase = "users" /\ orphaned' = now)
    BY <1>1 DEF ClearPage
  <1>4. /\ worker'[w] = [me EXCEPT !.pc = "saving",
                           !.done = ~failed /\ Emptied(data[row.phase]),
                           !.failed = failed]
        /\ \A v \in Workers : v # w => worker'[v] = worker[v]
    BY <1>0, <1>3
  <1>5. /\ worker'[w].begun = me.begun /\ worker'[w].at = me.at
        /\ worker'[w].view = me.view /\ worker'[w].pc = "saving"
        /\ worker'[w].done = (~failed /\ Emptied(data[row.phase]))
    BY <1>0, <1>4 DEF Worker
  <1>6. row.phase \in Stores /\ left \in Nat /\ left <= data[row.phase]
    BY <1>2, <1>0, <1>3 DEF Clearing, Stores
  <1>7. \A k \in Stores : data[k] = 0 => data'[k] = 0
    BY <1>0, <1>3, <1>6
  <1>8. Progress(w)'
    BY <1>0, <1>2, <1>5, <1>6, <1>7 DEF Progress, Clearing, Emptied
  <1>9. FunctionsOK'
    BY <1>0 DEF FunctionsOK, Paused
  <1>10. DataOK'
    <2>1. orphaned' <= now
      BY <1>3 DEF DataOK
    <2>2. row.phase \notin AtRest \cup {"restore"}
      BY <1>2 DEF Clearing, AtRest
    <2>3. "jobs" \in Stores /\ "users" \in Stores /\ "tables" \in Stores
      BY DEF Stores
    <2> QED BY <1>0, <1>7, <2>1, <2>2, <2>3 DEF DataOK
  <1>11. orphaned' = orphaned \/ row.phase = "users"
    BY <1>3
  <1> HIDE DEF me
  <1> QED BY <1>0, <1>1, <1>4, <1>5, <1>8, <1>9, <1>10, <1>11, HolderStep DEF me

\* A failed step claims nothing.
LEMMA FailRest ==
    ASSUME Inv, NEW w \in Workers, Fail(w)
    PROVE  Rest'
  <1> USE DEF Inv
  <1> DEFINE me == worker[w]
  <1>0. /\ worker \in [Workers -> Worker]
        /\ UNCHANGED <<row, limit, busyUntil, data, orphaned, now>>
        /\ me.pc = "calling" /\ me \in Worker
    BY DEF Fail, TypeOK
  <1>1. Holds(w) /\ me.view = row /\ ~me.done
    BY <1>0 DEF Holds, WorkerOK, Leased, Progress
  <1>2. /\ worker'[w] =
             [me EXCEPT !.pc = IF row.phase = "restore" THEN "repausing" ELSE "saving",
                        !.todo = IF row.phase = "restore" THEN Functions ELSE {},
                        !.failed = TRUE]
        /\ \A v \in Workers : v # w => worker'[v] = worker[v]
    BY <1>0, <1>1 DEF Fail
  <1>3. /\ worker'[w].begun = me.begun /\ worker'[w].at = me.at
        /\ worker'[w].view = me.view
        /\ worker'[w].pc = IF row.phase = "restore" THEN "repausing" ELSE "saving"
        /\ worker'[w].done = me.done /\ worker'[w].failed
    BY <1>0, <1>2 DEF Worker
  <1>4. Progress(w)'
    BY <1>0, <1>1, <1>3 DEF Progress
  <1>5. worker'[w].pc \in {"calling", "repausing", "saving"}
    BY <1>3
  <1> QED BY <1>0, <1>1, <1>2, <1>3, <1>4, <1>5, Stable, HolderStep

\* Pausing again after a failed restore disturbs no fact of that phase.
LEMMA PauseAgainRest ==
    ASSUME Inv, NEW w \in Workers, NEW f \in Functions, PauseAgain(w, f)
    PROVE  Rest'
  <1> USE Typed, Constants DEF Inv
  <1> DEFINE me == worker[w]
  <1>0. /\ worker \in [Workers -> Worker]
        /\ UNCHANGED <<row, data, orphaned, now>>
        /\ me.pc = "repausing" /\ me \in Worker
        /\ busyUntil' \in {busyUntil, now + Linger}
    BY DEF PauseAgain, SetLimit, TypeOK
  <1>1. Holds(w) /\ row.phase = "restore" /\ me.failed /\ ~me.done
    BY <1>0 DEF Holds, WorkerOK, Progress
  <1>2. /\ worker'[w] = [me EXCEPT !.todo = @ \ {f}]
        /\ \A v \in Workers : v # w => worker'[v] = worker[v]
    BY <1>0 DEF PauseAgain
  <1>3. /\ worker'[w].begun = me.begun /\ worker'[w].at = me.at
        /\ worker'[w].view = me.view /\ worker'[w].pc = "repausing"
        /\ worker'[w].done = me.done /\ worker'[w].failed = me.failed
    BY <1>0, <1>2 DEF Worker
  <1>4. Progress(w)'
    BY <1>0, <1>1, <1>3 DEF Progress
  <1>5. FunctionsOK'
    <2>1. busyUntil' <= now + Linger
      BY <1>0 DEF FunctionsOK
    <2>2. row.saved = Original
      BY <1>1 DEF FunctionsOK, AtRest
    <2>3. /\ row.phase \notin AtRest \cup {"snapshot"}
          /\ row.phase # "drain"
          /\ row.phase \notin {"purge", "queue_wait"} \cup Clearing
      BY <1>1 DEF AtRest, Clearing
    <2> QED BY <1>0, <2>1, <2>2, <2>3 DEF FunctionsOK
  <1>6. DataOK'
    BY <1>0 DEF DataOK
  <1> QED BY <1>0, <1>1, <1>2, <1>3, <1>4, <1>5, <1>6, HolderStep

\* Nor does the end of it.
LEMMA PausedAgainRest ==
    ASSUME Inv, NEW w \in Workers, PausedAgain(w)
    PROVE  Rest'
  <1> USE DEF Inv
  <1> DEFINE me == worker[w]
  <1>0. /\ worker \in [Workers -> Worker]
        /\ UNCHANGED <<row, limit, busyUntil, data, orphaned, now>>
        /\ me.pc = "repausing" /\ me \in Worker
    BY DEF PausedAgain, TypeOK
  <1>1. Holds(w) /\ ~me.done
    BY <1>0 DEF Holds, WorkerOK, Progress
  <1>2. /\ worker'[w] = [me EXCEPT !.pc = "saving", !.todo = {}]
        /\ \A v \in Workers : v # w => worker'[v] = worker[v]
    BY <1>0 DEF PausedAgain
  <1>3. /\ worker'[w].begun = me.begun /\ worker'[w].at = me.at
        /\ worker'[w].view = me.view /\ worker'[w].pc = "saving"
        /\ worker'[w].done = me.done
    BY <1>0, <1>2 DEF Worker
  <1>4. Progress(w)'
    BY <1>1, <1>3 DEF Progress
  <1> QED BY <1>0, <1>1, <1>2, <1>3, <1>4, Stable, HolderStep

\* The application writes nothing while its data is deleted.
LEMMA WriteRest ==
    ASSUME Inv, NEW k \in Stores, Write(k)
    PROVE  Rest'
  <1> USE Typed DEF Inv
  <1>0. /\ UNCHANGED <<row, limit, busyUntil, orphaned, worker, now>>
        /\ Busy
    BY DEF Write
  <1>1. row.phase \notin {"purge", "queue_wait"} \cup Clearing
    BY <1>0 DEF FunctionsOK, Busy, Paused
  <1>2. ASSUME NEW w \in Workers PROVE WorkerOK(w)'
    <2>1. Fresh(w)' /\ Living(w)' /\ Current(w)' /\ Leased(w)'
      BY <1>0 DEF WorkerOK, Fresh, Living, Current, Leased, Holds, Workable
    <2>2. Progress(w)'
      BY <1>0, <1>1 DEF WorkerOK, Progress, Paused
    <2> QED BY <2>1, <2>2 DEF WorkerOK
  <1>3. OneWorker'
    BY <1>0 DEF OneWorker, Holds
  <1>4. FunctionsOK'
    BY <1>0 DEF FunctionsOK, Paused
  <1>5. DataOK'
    BY <1>0, <1>1 DEF DataOK, Clearing
  <1> QED BY <1>2, <1>3, <1>4, <1>5 DEF Rest

\* Time ends invocations before their lease ends.
LEMMA TickRest ==
    ASSUME Inv, Tick
    PROVE  Rest'
  <1> USE Typed, Constants DEF Inv
  <1>0. /\ UNCHANGED <<row, limit, busyUntil, data, orphaned>>
        /\ now' = now + 1
        /\ \A w \in Workers : worker'[w] = Off \/
             (worker'[w] = worker[w] /\ ~(worker[w].begun + Timeout < now + 1))
    BY DEF Tick
  <1>1. ASSUME NEW w \in Workers PROVE WorkerOK(w)' /\ (Holds(w)' => Holds(w))
    <2>1. CASE worker'[w] = Off
      BY <2>1, IdleOK
    <2>2. CASE worker'[w] = worker[w] /\ ~(worker[w].begun + Timeout < now + 1)
      <3>1. Fresh(w)' /\ Living(w)'
        BY <1>0, <2>2 DEF WorkerOK, Fresh, Living
      <3>2. Current(w)'
        BY <1>0, <2>2 DEF WorkerOK, Current, Workable
      <3>3. Leased(w)' /\ Progress(w)'
        BY <1>0, <2>2 DEF WorkerOK, Leased, Progress, Holds, Paused
      <3> QED BY <3>1, <3>2, <3>3, <2>2 DEF WorkerOK, Holds
    <2> QED BY <1>0, <2>1, <2>2
  <1>2. OneWorker'
    BY <1>1 DEF OneWorker
  <1>3. FunctionsOK'
    BY <1>0 DEF FunctionsOK, Paused
  <1>4. DataOK'
    BY <1>0 DEF DataOK
  <1> QED BY <1>1, <1>2, <1>3, <1>4 DEF Rest

\* What the record says after a step, in every phase it can have finished.
LEMMA Outcomes ==
    ASSUME Inv, NEW w \in Workers, Save(w)
    PROVE  /\ Holds(w) /\ worker[w].view = row /\ row.phase \notin AtRest
           /\ row'.revision = row.revision + 1
           /\ \/ /\ row'.phase = PhaseAfterFailure(row.phase)
                 /\ row'.due = row.due /\ row'.saved = row.saved
                 /\ row'.validAfter = row.validAfter
              \/ /\ row'.phase = row.phase
                 /\ row'.due = row.due /\ row'.saved = row.saved
                 /\ row'.validAfter = row.validAfter
              \/ /\ worker[w].done
                 /\ row'.phase = Following[row.phase]
                 /\ row'.due = DueAfter(worker[w])
                 /\ row'.validAfter = CutOff(worker[w])
                 /\ row'.saved = IF row.phase = "snapshot"
                                 THEN worker[w].seen ELSE row.saved
  <1> USE DEF Inv
  <1> DEFINE me == worker[w]
             saved == [row EXCEPT !.revision = row.revision + 1, !.lease = 0]
  <1>1. Holds(w) /\ me.view = row /\ row.phase \notin AtRest
    BY DEF Save, Holds, WorkerOK, Leased
  <1>2. /\ saved.revision = row.revision + 1 /\ saved.phase = row.phase
        /\ saved.due = row.due /\ saved.saved = row.saved
        /\ saved.validAfter = row.validAfter
        /\ DOMAIN saved = DOMAIN row
    BY DEF TypeOK, State
  <1>3. DOMAIN row = {"revision", "operation", "phase", "error", "due",
                      "validAfter", "lease", "saved"}
    BY DEF TypeOK, State
  <1>4. row' = IF me.failed
               THEN [saved EXCEPT !.error = TRUE, !.phase = PhaseAfterFailure(@)]
               ELSE IF ~me.done THEN saved
               ELSE [saved EXCEPT !.phase = Following[@],
                       !.due = DueAfter(me), !.validAfter = CutOff(me),
                       !.saved = IF row.phase = "snapshot" THEN me.seen ELSE @]
    BY <1>1 DEF Save, Outcome
  <1> HIDE DEF saved, me
  <1>5. CASE me.failed
    <2>1. row' = [saved EXCEPT !.error = TRUE, !.phase = PhaseAfterFailure(@)]
      BY <1>4, <1>5
    <2>2. /\ row'.revision = saved.revision /\ row'.due = saved.due
          /\ row'.saved = saved.saved /\ row'.validAfter = saved.validAfter
          /\ row'.phase = PhaseAfterFailure(saved.phase)
      BY <2>1, <1>2, <1>3
    <2> QED BY <2>2, <1>1, <1>2 DEF me
  <1>6. CASE ~me.failed /\ ~me.done
    BY <1>1, <1>2, <1>4, <1>6 DEF me
  <1>7. CASE ~me.failed /\ me.done
    <2> DEFINE kept == IF row.phase = "snapshot" THEN me.seen ELSE saved.saved
    <2>1. row' = [saved EXCEPT !.phase = Following[saved.phase],
                       !.due = DueAfter(me), !.validAfter = CutOff(me),
                       !.saved = kept]
      BY <1>4, <1>7
    <2> HIDE DEF kept
    <2>2. /\ row'.revision = saved.revision /\ row'.due = DueAfter(me)
          /\ row'.saved = kept /\ row'.validAfter = CutOff(me)
          /\ row'.phase = Following[saved.phase]
      BY <2>1, <1>2, <1>3
    <2> QED BY <2>2, <1>1, <1>2, <1>7 DEF me, kept
  <1> QED BY <1>5, <1>6, <1>7

\* Save: what the step has done is what the next phase relies on.
LEMMA SaveRest ==
    ASSUME Inv, NEW w \in Workers, Save(w)
    PROVE  Rest'
  <1> USE Typed, Constants, Outcomes DEF Inv
  <1> DEFINE me == worker[w]
  <1>0. /\ worker \in [Workers -> Worker]
        /\ UNCHANGED <<limit, busyUntil, data, orphaned, now>>
        /\ me.pc = "saving" /\ me \in Worker
    BY DEF Save, TypeOK
  <1>1. /\ worker'[w].pc = "between" /\ worker'[w].begun = me.begun
        /\ \A v \in Workers : v # w => worker'[v] = worker[v] /\ ~Holds(v)
    BY <1>0 DEF Save, Off, OneWorker
  <1>2. /\ me.begun <= me.at /\ me.at <= now /\ now <= me.begun + Timeout
        /\ row.due <= me.at
        /\ row.phase \in {"tables", "objects"} => orphaned <= me.at
        /\ me.at \in Nat
    BY DEF WorkerOK, Living, Leased, Holds
  <1>3. ASSUME NEW v \in Workers PROVE WorkerOK(v)' /\ ~Holds(v)'
    <2>1. CASE v = w
      <3>1. Fresh(w)' /\ Living(w)' /\ ~Holds(w)'
        BY <1>0, <1>1, <1>2 DEF Fresh, Living, Holds
      <3>2. Current(w)' /\ Leased(w)' /\ Progress(w)'
        BY <1>1, <3>1 DEF Current, Leased, Progress
      <3> QED BY <2>1, <3>1, <3>2 DEF WorkerOK
    <2>2. CASE v # w
      <3>1. worker'[v] = worker[v] /\ ~Holds(v) /\ ~Holds(v)'
        BY <2>2, <1>1 DEF Holds
      <3>2. Fresh(v)' /\ Living(v)' /\ Leased(v)' /\ Progress(v)'
        BY <1>0, <3>1 DEF WorkerOK, Fresh, Living, Leased, Progress, Holds
      <3>3. Current(v)'
        <4>1. CASE worker[v].pc = "loaded"
          <5>1. worker[v].view.revision < row'.revision
            BY <4>1 DEF WorkerOK, Current
          <5>2. worker[v].view # row'
            BY <5>1
          <5>3. /\ worker[v].begun <= worker[v].at /\ worker[v].at <= now
                /\ Workable(worker[v].view, worker[v].at)
            BY <4>1 DEF WorkerOK, Current
          <5>4. /\ worker[v].view.revision <= row'.revision
                /\ worker[v].view.revision # row'.revision
            BY <5>1
          <5> QED BY <3>1, <5>2, <5>3, <5>4, <1>0 DEF Current, Workable
        <4> QED BY <3>1, <4>1 DEF Current
      <3> QED BY <3>1, <3>2, <3>3 DEF WorkerOK
    <2> QED BY <2>1, <2>2
  <1>4. OneWorker'
    BY <1>3 DEF OneWorker
  <1>5. busyUntil <= now + Linger
    BY DEF FunctionsOK
  <1> DEFINE Same == row'.due = row.due /\ row'.saved = row.saved
                     /\ row'.validAfter = row.validAfter
  <1>6. CASE row'.phase = row.phase /\ Same
    BY <1>6, <1>0, <1>3, <1>4 DEF FunctionsOK, DataOK, Paused, Rest
  <1>7. CASE row'.phase = PhaseAfterFailure(row.phase) /\ Same
    <2>1. CASE row.phase = "restore"
      <3>1. row'.phase = "pause" /\ row'.saved = Original
        BY <1>7, <2>1 DEF PhaseAfterFailure, FunctionsOK, AtRest
      <3>2. FunctionsOK' /\ DataOK'
        BY <1>0, <1>5, <3>1 DEF FunctionsOK, DataOK, AtRest, Clearing
      <3> QED BY <1>3, <1>4, <3>2 DEF Rest
    <2>2. CASE row.phase # "restore"
      BY <1>6, <1>7, <2>2 DEF PhaseAfterFailure
    <2> QED BY <2>1, <2>2
  <1>8. CASE /\ me.done
             /\ row'.phase = Following[row.phase]
             /\ row'.due = DueAfter(me)
             /\ row'.validAfter = CutOff(me)
             /\ row'.saved = IF row.phase = "snapshot" THEN me.seen ELSE row.saved
    <2>0. row.phase \notin {"snapshot"} => row.saved = Original
      BY DEF FunctionsOK
    <2>1. CASE row.phase = "snapshot"
      <3>1. row'.phase = "pause" /\ row'.saved = Original
        BY <1>8, <1>0, <2>1 DEF Following, WorkerOK, Progress
      <3>2. FunctionsOK' /\ DataOK'
        BY <1>0, <1>5, <3>1 DEF FunctionsOK, DataOK, AtRest, Clearing
      <3> QED BY <1>3, <1>4, <3>2 DEF Rest
    <2>2. CASE row.phase = "pause"
      <3>1. row'.phase = "drain" /\ row'.saved = Original /\ Paused
        BY <1>8, <1>0, <2>0, <2>2 DEF Following, WorkerOK, Progress
      <3>2. row'.due = me.at + Drain
        BY <1>8, <2>2 DEF DueAfter
      <3>3. busyUntil < row'.due
        BY <1>2, <1>5, <3>2, DrainOutlastsCalls
      <3>4. FunctionsOK' /\ DataOK'
        BY <1>0, <1>5, <3>1, <3>3 DEF FunctionsOK, DataOK, AtRest, Clearing, Paused
      <3> QED BY <1>3, <1>4, <3>4 DEF Rest
    <2>3. CASE row.phase = "drain"
      <3>1. row'.phase = "purge" /\ row'.saved = Original /\ Paused
        BY <1>8, <2>0, <2>3 DEF Following, FunctionsOK
      <3>2. busyUntil < now
        BY <1>2, <2>3 DEF FunctionsOK
      <3>3. FunctionsOK' /\ DataOK'
        BY <1>0, <1>5, <3>1, <3>2 DEF FunctionsOK, DataOK, AtRest, Clearing, Paused
      <3> QED BY <1>3, <1>4, <3>3 DEF Rest
    <2>4. CASE row.phase \in {"purge", "queue_wait"} \cup Clearing
      <3>1. Paused /\ busyUntil < now /\ row'.saved = Original
        BY <2>0, <2>4, <1>8 DEF FunctionsOK, Clearing
      <3>2. /\ row.phase = "purge" => row'.phase = "queue_wait"
            /\ row.phase = "queue_wait" => row'.phase = "users"
            /\ row.phase = "users" => row'.phase = "tables"
            /\ row.phase = "tables" => row'.phase = "objects"
            /\ row.phase = "objects" => row'.phase = "restore"
        BY <1>8 DEF Following
      <3>3. row'.phase \in {"queue_wait", "users", "tables", "objects", "restore"}
        BY <2>4, <3>2 DEF Clearing
      <3>4. row'.phase \notin AtRest \cup {"snapshot"} /\ row'.phase # "drain"
        BY <3>3 DEF AtRest
      <3>5. FunctionsOK'
        BY <1>0, <1>5, <3>1, <3>4 DEF FunctionsOK, Paused
      <3>6. /\ row.phase = "purge" => data["jobs"] = 0
            /\ row.phase \in Clearing => data[row.phase] = 0
        BY <1>8, <1>0 DEF WorkerOK, Progress
      <3>7. /\ row'.phase = "restore" => row.phase = "objects"
            /\ row'.phase = "objects" => row.phase = "tables"
            /\ row'.phase = "tables" => row.phase = "users"
        BY <2>4, <3>2 DEF Clearing
      <3>8. row.phase = "objects" => orphaned <= row'.validAfter
        BY <1>2, <1>8 DEF CutOff
      <3>9. DataOK'
        <4>1. data["jobs"] = 0
          BY <2>4, <3>6 DEF DataOK
        <4>2. row'.phase \in {"tables", "objects"} => data["users"] = 0
          BY <3>6, <3>7 DEF DataOK, Clearing
        <4>3. row'.phase = "objects" => data["tables"] = 0
          BY <3>6, <3>7 DEF DataOK, Clearing
        <4>4. row'.phase \in AtRest \cup {"restore"} => orphaned <= row'.validAfter
          BY <3>4, <3>7, <3>8
        <4> QED BY <1>0, <4>1, <4>2, <4>3, <4>4 DEF DataOK
      <3> QED BY <1>3, <1>4, <3>5, <3>9 DEF Rest
    <2>5. CASE row.phase = "restore"
      <3>1. row'.phase = "complete" /\ limit = Original
        BY <1>8, <1>0, <2>5 DEF Following, WorkerOK, Progress
      <3>2. orphaned <= row'.validAfter
        BY <1>8, <2>5 DEF CutOff, DataOK
      <3>3. FunctionsOK' /\ DataOK'
        BY <1>0, <1>5, <3>1, <3>2 DEF FunctionsOK, DataOK, AtRest, Clearing
      <3> QED BY <1>3, <1>4, <3>3 DEF Rest
    <2> QED BY <2>1, <2>2, <2>3, <2>4, <2>5 DEF Phases, AtRest, Clearing
  <1> QED BY <1>6, <1>7, <1>8

\* Every step keeps the invariant.
LEMMA InvStep == Inv /\ [Next]_vars => Inv'
  <1> SUFFICES ASSUME Inv, [Next]_vars PROVE Inv'  OBVIOUS
  <1>1. TypeOK'
    BY TypeStep
  <1>2. Rest'
    <2>1. CASE \E o \in Operations : Start(o)
      BY <2>1, StartRest
    <2>2. CASE Resume
      BY <2>2, ResumeRest
    <2>3. ASSUME NEW w \in Workers, WorkerStep(w) PROVE Rest'
      BY <2>3, LoadRest, ClaimRest, ConflictRest, CallFunctionRest, CalledRest,
         PurgeRest, ClearPageRest, FailRest, PauseAgainRest, PausedAgainRest,
         SaveRest DEF WorkerStep
    <2>4. CASE \E k \in Stores : Write(k)
      BY <2>4, WriteRest
    <2>5. CASE Tick
      BY <2>5, TickRest
    <2>6. CASE UNCHANGED vars
      <3>1. UNCHANGED <<row, limit, busyUntil, data, orphaned, worker, now>>
        BY <2>6 DEF vars
      <3>2. \A w \in Workers : WorkerOK(w)'
        BY <3>1, Untouched DEF Inv
      <3>3. OneWorker'
        BY <3>1 DEF Inv, OneWorker, Holds
      <3> QED BY <3>1, <3>2, <3>3, Stable DEF Rest
    <2> QED BY <2>1, <2>2, <2>3, <2>4, <2>5, <2>6 DEF Next
  <1> QED BY <1>1, <1>2 DEF Inv, Rest

\* The inductive invariant holds of every reset, for any numbers of functions,
\* overlapping workers and faults, and any timings that the two assumptions allow.
THEOREM ResetInvariantHolds == Spec => []Inv
  <1>1. Init => Inv
    BY TypeInit, RestInit DEF Inv, Rest
  <1> QED BY <1>1, InvStep, PTL DEF Spec

\* The control record, the environment and the workers keep their types: a step
\* is never saved for a phase that Work does not know.
THEOREM ResetTyped == Spec => []TypeOK
  <1>1. Inv => TypeOK
    BY DEF Inv
  <1> QED BY <1>1, ResetInvariantHolds, PTL

\* The lease of Work is exclusive: it outlives the Lambda that took it.
THEOREM OneWorkerAtATime == Spec => []OneWorker
  <1>1. Inv => OneWorker
    BY DEF Inv
  <1> QED BY <1>1, ResetInvariantHolds, PTL

\* Nothing of the application runs while Purge and Clear delete its data.
THEOREM QuietWhenCleared == Spec => []QuietWhileClearing
  <1>1. Inv => QuietWhileClearing
    BY Typed DEF Inv, FunctionsOK, QuietWhileClearing, Busy, Paused
  <1> QED BY <1>1, ResetInvariantHolds, PTL

\* Restore puts back the concurrency that was configured before Pause.
THEOREM ConcurrencyRestored == Spec => []OriginalRestored
  <1>1. Inv => OriginalRestored
    BY DEF Inv, FunctionsOK, OriginalRestored
  <1> QED BY <1>1, ResetInvariantHolds, PTL

\* CheckToken refuses every token of a user that Clear deleted.
THEOREM NoStaleAccessEver == Spec => []NoStaleAccess
  <1>1. Inv => NoStaleAccess
    BY Typed DEF Inv, DataOK, NoStaleAccess, Admits
  <1> QED BY <1>1, ResetInvariantHolds, PTL

\* Work goes on to Restore only from an environment that Clear and Purge emptied.
THEOREM ClearedWhollyAlways == Spec => ClearedWholly
  <1> DEFINE Step == row.phase # "restore" /\ row'.phase = "restore" =>
                        \A k \in Stores : data'[k] = 0
  <1>1. Inv /\ [Next]_vars => [Step]_vars
    <2> SUFFICES ASSUME Inv, [Next]_vars, row.phase # "restore", row'.phase = "restore"
                 PROVE  \A k \in Stores : data'[k] = 0
      OBVIOUS
    <2>1. ASSUME NEW w \in Workers, Save(w) PROVE \A k \in Stores : data'[k] = 0
      <3>1. worker[w].done /\ "restore" = Following[row.phase]
            /\ row.phase \in Phases \ AtRest
        BY <2>1, Outcomes, Typed DEF PhaseAfterFailure, Inv
      <3>2. row.phase = "objects"
        <4>1. /\ Following["snapshot"] = "pause" /\ Following["pause"] = "drain"
              /\ Following["drain"] = "purge" /\ Following["purge"] = "queue_wait"
              /\ Following["queue_wait"] = "users" /\ Following["users"] = "tables"
              /\ Following["tables"] = "objects" /\ Following["restore"] = "complete"
          BY DEF Following
        <4> QED BY <3>1, <4>1 DEF Phases, AtRest
      <3>3. data["objects"] = 0
        BY <2>1, <3>1, <3>2 DEF Inv, WorkerOK, Progress, Save, Clearing
      <3>4. data["users"] = 0 /\ data["tables"] = 0 /\ data["jobs"] = 0
        BY <3>2 DEF Inv, DataOK, Clearing
      <3>5. UNCHANGED data
        BY <2>1 DEF Save
      <3> QED BY <3>3, <3>4, <3>5 DEF Stores
    <2>2. ASSUME NEW o \in Operations, Start(o) PROVE FALSE
      BY <2>2 DEF Start, Absent
    <2>3. CASE Resume
      BY <2>3 DEF Resume, Inv, TypeOK, State
    <2>4. ASSUME NEW w \in Workers, Claim(w) PROVE FALSE
      <3>1. worker[w].view = row
        BY <2>4 DEF Claim, Inv, WorkerOK, Current
      <3>2. row'.phase = row.phase
        BY <2>4, <3>1 DEF Claim, Inv, TypeOK, State
      <3> QED BY <3>2
    <2>5. CASE UNCHANGED row
      BY <2>5
    <2>6. ASSUME NEW w \in Workers, WorkerStep(w) PROVE \A k \in Stores : data'[k] = 0
      BY <2>6, <2>1, <2>4, <2>5
      DEF WorkerStep, Load, Conflict, CallFunction, Called, Purge, ClearPage,
          Fail, PauseAgain, PausedAgain, Finish, Die
    <2> QED BY <2>2, <2>3, <2>5, <2>6 DEF Next, Write, Tick, vars
  <1>2. Spec => [][Step]_vars
    BY <1>1, ResetInvariantHolds, PTL DEF Spec
  <1> QED BY <1>2 DEF ClearedWholly
================================================================================
