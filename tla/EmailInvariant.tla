--------------------------- MODULE EmailInvariant ---------------------------
(* The inductive invariant behind the safety theorems of EmailProof.       *)
EXTENDS EmailProof

\* A version names one row: what an invocation holds is older than the row
\* that is stored, or is that row.
Fenced(i) ==
  LET r == proofs[task[i].id]  t == task[i].t
  IN /\ t.Version <= r.Version
     /\ t.Version = r.Version => t = r

\* What every stored row satisfies.
RowOK(r) ==
  LET p == proofs[r]
  IN /\ p.Version = 0 => p = Absent
     /\ p.State = "absent" => p = Absent
     /\ p.Attempts <= MaxAttempts
     /\ wrong[r] = p.Attempts
     /\ p.State # "confirmed" => p.BHash = p.Generation
     /\ p.State = "confirmed" =>
          /\ p.Subject = r /\ users[p.Email] = r
          /\ p.BHash = 0 /\ p.CDigest = 0

\* What an invocation has established by the point it is at.
TaskOK(i) ==
  LET t == task[i].t  at == task[i].at
  IN /\ at # "idle" => now <= task[i].end /\ task[i].end <= now + Timeout
     /\ at \in {"guess", "miss"} => t.Attempts < MaxAttempts
     /\ at \in {"guess", "miss", "claim"} => t.State = "pending"
     /\ at \in {"resend", "charge", "rotate"} =>
          /\ t.State \in {"pending", "failed"}
          /\ t.Resends < MaxResends
          /\ task[i].read >= t.LastSent + Cooldown
     /\ at \in {"recover", "reclaim"} =>
          t.State = "confirming" /\ now >= t.ClaimedAt + ReclaimAfter
     /\ at \in Creating =>
          /\ proofs[task[i].id] = t
          /\ t.State = "confirming"
          /\ task[i].end <= t.ClaimedAt + Timeout
     /\ at = "done" => users[t.Email] = task[i].id
     /\ at = "session" => proofs[task[i].id] = t /\ t.State = "confirmed"

\* One confirmation at a time between a claim and its session.
Alone ==
  \A i, j \in Invocations :
    /\ task[i].at \in Creating \cup {"session"}
    /\ task[j].at \in Creating \cup {"session"}
    /\ task[i].id = task[j].id
    => i = j

\* A session is opened once, for the confirmed request, by its only claimant.
SessionOK(e) ==
  sessions[e] # 0 =>
    /\ sessions[e] = 1
    /\ users[e] \in Requests
    /\ proofs[users[e]].State = "confirmed"
    /\ \A i \in Invocations : task[i].at = "session" => task[i].id # users[e]

Inv ==
  /\ TypeOK
  /\ \A r \in Requests : RowOK(r)
  /\ \A i \in Invocations : Fenced(i) /\ TaskOK(i)
  /\ Alone
  /\ \A e \in Emails : SessionOK(e)
=============================================================================
