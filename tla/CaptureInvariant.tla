-------------------------- MODULE CaptureInvariant --------------------------
(***************************************************************************)
(* Why the properties of CaptureLifecycle hold: its inductive invariant,   *)
(* in four layers.  Inv is what the revision gives: rows are consistent by *)
(* themselves, and whatever a process holds either can no longer be        *)
(* written or is a legitimate successor of the row that is there.          *)
(* LeaseInv adds what leases and timeouts give, TimelyInv what the waits   *)
(* before a cleanup give, and EvidenceInv what is in the bucket.           *)
(***************************************************************************)
EXTENDS CaptureLifecycle

Fenced(c, r) ==
  /\ r.Revision <= rec[c].Revision + 1
  /\ CanSwap(c, r) => Permitted(rec[c], r)

ApiOK(p) ==
  /\ RowOK(api[p].r)
  /\ api[p].pc \in {"recover", "swap"} =>
       /\ Fenced(api[p].id, api[p].r)
       /\ CanSwap(api[p].id, api[p].r) => Keeps(rec[api[p].id], api[p].r)

WorkerOK(w) ==
  LET c == worker[w].id  r == worker[w].r  pc == worker[w].pc
  IN /\ RowOK(r)
     /\ pc \in {"claim", "run"} /\ r.Work = "cleanup" => r.State = "expired"
     /\ pc = "wrote" => r.Work = "validate"
     /\ pc = "publish" => r.State = "ready" /\ r.Processed > 0
     /\ pc \in {"claim", "final", "publish"} => Fenced(c, r)
     /\ pc \in {"claim", "final"} /\ CanSwap(c, r) => Keeps(rec[c], r)
     /\ pc \in {"run", "wrote"} =>
          /\ r.Revision <= rec[c].Revision
          /\ r.Revision = rec[c].Revision => r = rec[c]

\* READY# and the row agree, as OutboxMatchesRow says.
Inv ==
  /\ TypeOK
  /\ \A c \in Captures : RowOK(rec[c])
  /\ OutboxMatchesRow
  /\ \A p \in Handlers : ApiOK(p)
  /\ \A w \in Workers : WorkerOK(w)
----------------------------------------------------------------------------
(***************************************************************************)
(* Why OneActiveWorker and ReadyNearDeadline hold.  A worker at work holds *)
(* the row under a lease that outlives it, or the capture was cancelled    *)
(* and its cleanup is due only after the worker's end.  Whoever can write  *)
(* the row next has nobody at work on it, but for a cancellation.          *)
(***************************************************************************)
Active(w) == worker[w].pc \in {"run", "wrote"}

ApiCanWrite(p) == api[p].pc \in {"recover", "swap"} /\ CanSwap(api[p].id, api[p].r)
WorkerCanWrite(w) ==
  worker[w].pc \in {"claim", "final", "publish"} /\ CanSwap(worker[w].id, worker[w].r)

Unfinished == {"uploading", "finalizing", "ready", "requires_recapture", "failed"}
Moves(from, to) ==
  \/ from \in {"uploading", "failed"} /\ to = "finalizing"
  \/ from = "finalizing" /\ to \in {"ready", "requires_recapture", "failed"}
  \/ from \in Unfinished /\ to = "cancelled"
  \/ from \in Unfinished \cup {"cancelled"} /\ to = "expired"

\* Row s may be written over row a: the state diagram, the deadline that never moves,
\* and no return from an erased capture.
Follows(a, s) ==
  /\ a.Work # "none"
  /\ s.ExpiresAt = a.ExpiresAt
  /\ s.State = a.State \/ Moves(a.State, s.State)
  /\ s.Work = "none" => a.State = "expired"

\* Worker v, at work on capture c, does not mind r being written.
Outlasted(v, r) ==
  r.State = "cancelled" /\ worker[v].end < r.Due /\ worker[v].r.Work # "cleanup"

CallOK(p) ==
  LET c == api[p].id  r == api[p].r  e == api[p].end
  IN /\ api[p].pc # "idle" => now <= e /\ e <= now + ApiTimeout
     /\ ApiCanWrite(p) =>
          /\ Follows(rec[c], r)
          /\ \A v \in Workers : Active(v) /\ worker[v].id = c => Outlasted(v, r)

LeaseOK(w) ==
  LET c == worker[w].id  r == worker[w].r  e == worker[w].end  pc == worker[w].pc
  IN /\ pc # "idle" => now <= e /\ e <= now + WorkerTimeout
     /\ pc \in {"claim", "run", "wrote"} => e < r.LeaseUntil /\ r.Work # "none"
     /\ Active(w) => rec[c] = r \/ Outlasted(w, rec[c])
     /\ WorkerCanWrite(w) =>
          /\ Follows(rec[c], r)
          /\ \A v \in Workers : Active(v) => worker[v].id # c
     /\ pc = "publish" =>
          /\ r.DeleteAfter < r.ExpiresAt + Retention
          /\ e < r.ExpiresAt + WorkerTimeout

LeaseInv ==
  /\ Inv
  /\ OneActiveWorker
  /\ \A p \in Handlers : CallOK(p)
  /\ \A w \in Workers : LeaseOK(w)

----------------------------------------------------------------------------
(***************************************************************************)
(* Why NoOrphans and EvidenceHeld hold.  Puts(c) bounds when an image may  *)
(* still arrive: with a URL that was signed, or that an invocation is      *)
(* about to sign.  Cleanup is due after all of them, whatever state it     *)
(* was scheduled from.                                                     *)
(***************************************************************************)
Signs(c) == {api[p].end : p \in {q \in Handlers : api[q].pc = "presign" /\ api[q].id = c}}
Puts(c) == {e + UrlLifetime : e \in Signs(c)} \cup {links[c][u] : u \in 1..MaxUploads}
Before(times, t) == \A x \in times : x < t

\* What row r schedules comes late enough at time t.  A validation gives up no earlier
\* than its second attempt, when everything has been signed.
Timely(r, signs, puts, t) ==
  /\ r.Work = "cleanup" => Before(puts, r.Due)
  /\ r.Work = "none" => Before(puts, t)
  /\ r.State = "uploading" => r.Attempts = 0 /\ r.Due = r.ExpiresAt + CleanupWait
  /\ r.State = "finalizing" =>
       /\ r.Attempts >= 1 => \A e \in signs : e <= r.Due
       /\ r.Attempts >= 2 => Before(puts, r.ExpiresAt + UrlLifetime)
  /\ r.State = "ready" => Before(puts, r.DeleteAfter)

\* While row a takes uploads, r, to be written by time e, allows for URLs yet to be signed.
Allows(a, r, e) ==
  a.State = "uploading" =>
    \/ r.State = "finalizing" /\ r.Attempts = 0
    \/ r.Work = "cleanup" /\ r.Due > e + ApiTimeout + UrlLifetime
    \/ r.Work = "cleanup" /\ r.Due = r.ExpiresAt + CleanupWait

RowTimely(c) ==
  /\ Timely(rec[c], Signs(c), Puts(c), now)
  /\ rec[c].State # "absent" => Before(Puts(c), rec[c].ExpiresAt + ApiTimeout + UrlLifetime)
  /\ \A u \in 1..MaxUploads : /\ links[c][u] <= now + UrlLifetime
                              /\ rec[c].State = "absent" => links[c][u] = 0

Signing(p) == api[p].pc = "presign" \/ (api[p].pc = "swap" /\ api[p].op = "upload")

CallTimely(c, p) ==
  LET r == api[p].r
  IN api[p].id = c =>
       /\ Signing(p) =>
            /\ rec[c].State # "absent" /\ r.State = "uploading" /\ r.ExpiresAt = rec[c].ExpiresAt
            /\ api[p].end < r.ExpiresAt + ApiTimeout
       /\ ApiCanWrite(p) =>
            Timely(r, Signs(c), Puts(c), now) /\ Allows(rec[c], r, api[p].end)

WorkTimely(c, w) ==
  LET r == worker[w].r
  IN worker[w].id = c =>
       /\ worker[w].pc \in {"claim", "run", "wrote"} =>
            /\ r.Work = "cleanup" => r.Due <= now
            /\ r.Work = "validate" => r.Attempts >= 1
       /\ WorkerCanWrite(w) =>
            Timely(r, Signs(c), Puts(c), now) /\ Allows(rec[c], r, worker[w].end)

TimelyInv ==
  /\ now > 0
  /\ \A c \in Captures :
       /\ RowTimely(c)
       /\ \A p \in Handlers : CallTimely(c, p)
       /\ \A w \in Workers : WorkTimely(c, w)

\* The images row r needs are there, and those it has given up are not.
Held(r, images, strays, processed) ==
  /\ r.State \in {"finalizing", "failed", "ready"} => r.Assets \subseteq images \cup strays
  /\ r.State = "ready" => r.Processed \in processed
  /\ r.Work = "none" => images = {} /\ processed = {}

RowHeld(c) == Held(rec[c], originals[c], late[c], derivatives[c])

CallHeld(c, p) ==
  ApiCanWrite(p) /\ api[p].id = c => Held(api[p].r, originals[c], late[c], derivatives[c])

WorkHeld(c, w) ==
  worker[w].id = c =>
    /\ WorkerCanWrite(w) => Held(worker[w].r, originals[c], late[c], derivatives[c])
    /\ worker[w].pc = "wrote" => worker[w].r.Generation \in derivatives[c]

EvidenceInv ==
  \A c \in Captures :
    /\ RowHeld(c)
    /\ \A p \in Handlers : CallHeld(c, p)
    /\ \A w \in Workers : WorkHeld(c, w)
============================================================================
