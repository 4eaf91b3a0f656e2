--------------------------- MODULE EnvResetInvariant ---------------------------
(***************************************************************************)
(* The inductive invariant behind the safety properties of EnvReset.       *)
(*                                                                         *)
(* Two facts carry it.  A worker that holds the record is alive, so its    *)
(* lease has not run out: nobody else holds the record, and the record is  *)
(* still the one it leased.  And every phase of the record says something  *)
(* of the environment, which the phase's one holder alone can change.      *)
(***************************************************************************)
EXTENDS EnvReset

Paused == \A f \in Functions : limit[f] = 0

\* An invocation lives no longer than its timeout.
Living(w) ==
    worker[w].pc # "off" =>
        /\ worker[w].begun <= now
        /\ now <= worker[w].begun + Timeout

\* What a worker loaded is what is stored, unless someone saved since.
Current(w) ==
    worker[w].pc = "loaded" =>
        /\ worker[w].begun <= worker[w].at
        /\ worker[w].at <= now
        /\ worker[w].view.revision <= row.revision
        /\ worker[w].view.revision = row.revision => worker[w].view = row
        /\ Workable(worker[w].view, worker[w].at)
        /\ worker[w].view = row /\ row.phase \in {"tables", "objects"} =>
             orphaned <= worker[w].at

\* What a worker leased is what is stored, until it saves.
Leased(w) ==
    Holds(w) =>
        /\ worker[w].begun <= worker[w].at
        /\ worker[w].at <= now
        /\ worker[w].view = row
        /\ row.lease = worker[w].at + Lease
        /\ row.phase \notin AtRest
        /\ ~row.error
        /\ row.due <= worker[w].at
        /\ row.phase \in {"tables", "objects"} => orphaned <= worker[w].at

\* How far a step has come.
Progress(w) ==
    /\ worker[w].pc = "calling" =>
         /\ ~worker[w].done /\ ~worker[w].failed
         /\ worker[w].todo \subseteq Calls(row.phase)
         /\ row.phase = "snapshot" =>
              \A f \in Functions \ worker[w].todo : worker[w].seen[f] = Original[f]
         /\ row.phase = "pause" =>
              \A f \in Functions \ worker[w].todo : limit[f] = 0
         /\ row.phase = "restore" =>
              \A f \in Functions \ worker[w].todo : limit[f] = Original[f]
    /\ worker[w].pc = "repausing" =>
         row.phase = "restore" /\ worker[w].failed /\ ~worker[w].done
    /\ worker[w].pc = "saving" /\ worker[w].done =>
         /\ row.phase = "snapshot" => worker[w].seen = Original
         /\ row.phase = "pause" => Paused
         /\ row.phase = "restore" => limit = Original
         /\ row.phase = "purge" => data["jobs"] = 0
         /\ row.phase \in Clearing => data[row.phase] = 0

\* A step begins with nothing done.
Fresh(w) == worker[w].pc = "loaded" => ~worker[w].done /\ ~worker[w].failed

WorkerOK(w) == Fresh(w) /\ Living(w) /\ Current(w) /\ Leased(w) /\ Progress(w)

\* What each phase says of the functions,
FunctionsOK ==
    /\ row.phase \in AtRest \cup {"snapshot"} => limit = Original
    /\ row.phase \notin AtRest \cup {"snapshot"} => row.saved = Original
    /\ row.phase = "drain" => Paused /\ busyUntil < row.due
    /\ row.phase \in {"purge", "queue_wait"} \cup Clearing =>
         Paused /\ busyUntil < now
    /\ busyUntil <= now + Linger

\* and of the data.
DataOK ==
    /\ row.phase \in {"queue_wait"} \cup Clearing => data["jobs"] = 0
    /\ row.phase \in {"tables", "objects"} => data["users"] = 0
    /\ row.phase = "objects" => data["tables"] = 0
    /\ row.phase \in AtRest \cup {"restore"} => orphaned <= row.validAfter
    /\ orphaned <= now

Inv ==
    /\ TypeOK
    /\ \A w \in Workers : WorkerOK(w)
    /\ OneWorker
    /\ FunctionsOK
    /\ DataOK
================================================================================
