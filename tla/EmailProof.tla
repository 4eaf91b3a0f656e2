----------------------------- MODULE EmailProof -----------------------------
(***************************************************************************)
(* Sign-up by email (email/service.go over awsstore and awsidentity): a    *)
(* request is mailed a link (B) and a code (C), may be resent, and is      *)
(* confirmed once, by the device's own A with B or by typing C with B.     *)
(*                                                                         *)
(* An invocation loads the row, decides, and asks Store.Swap to replace    *)
(* the row if its version and state have not moved.  Between two calls to  *)
(* DynamoDB, Cognito or SES any other invocation may act, the clock may    *)
(* advance and the invocation may die; Lambda kills it at its timeout.     *)
(* A proof is known by the generation of the row that it was made for.     *)
(***************************************************************************)
EXTENDS Naturals, FiniteSets

CONSTANTS
  Requests,        \* request ids
  NoUser,          \* no Cognito user
  Emails,          \* addresses
  Sources,         \* caller addresses
  Invocations,     \* concurrent invocations of signup, resend and confirm
  ProofLife,       \* a proof's lifetime (600 s)
  Cooldown,        \* least time between two rotations (60 s)
  ReclaimAfter,    \* a claim this old is taken for interrupted (60 s)
  Timeout,         \* Lambda timeout of the three handlers (25 s)
  Hour,            \* length of a budget window (3600 s)
  MaxAttempts,     \* wrong codes per generation (5)
  MaxResends,      \* rotations per request (3)
  Limit,           \* Limit[k]: charges of kind k per window
  MaxTime          \* bound: the clock stops here

Kinds ==
  {"signup-source", "signup-email", "resend-source", "resend-email", "code-email"}

ASSUME EmailConstants ==
  /\ Requests # {} /\ Emails # {} /\ NoUser \notin Requests
  /\ ProofLife \in Nat /\ Cooldown \in Nat /\ ReclaimAfter \in Nat
  /\ Timeout \in Nat /\ Hour \in Nat \ {0}
  /\ MaxAttempts \in Nat \ {0} /\ MaxResends \in Nat
  /\ Limit \in [Kinds -> Nat]
  /\ MaxTime \in Nat

\* 25 seconds against 60 (the comment above the recovery in Confirm)
ASSUME ReclaimOutlivesHandler == Timeout < ReclaimAfter

VARIABLES
  now,       \* the clock
  proofs,    \* proofs[r]: the row of request r in the proof table
  users,     \* users[e]: the request that created e's Cognito user, if any
  sessions,  \* sessions[e]: token sets issued to e by confirmations
  mail,      \* <<r, g>>: generation g of r was delivered
  spent,     \* spent[k, who][w]: charges of budget k, who in window w
  wrong,     \* wrong[r]: "incorrect code" answers for the current generation
  told,      \* requests answered "confirmed; sign in required"
  task       \* task[i]: the invocation i

vars == <<now, proofs, users, sessions, mail, spent, wrong, told, task>>

AnEmail == CHOOSE e \in Emails : TRUE
AnId == CHOOSE r \in Requests : TRUE

States == {"absent", "pending", "confirming", "confirmed", "failed"}
Transaction ==
  [State: States, Email: Emails, Generation: Nat, Version: Nat, Attempts: Nat,
   Resends: Nat, Expires: Nat, LastSent: Nat, ClaimedAt: Nat,
   BHash: Nat, CDigest: Nat, Subject: Requests \cup {NoUser}]
Absent ==
  [State |-> "absent", Email |-> AnEmail, Generation |-> 0, Version |-> 0,
   Attempts |-> 0, Resends |-> 0, Expires |-> 0, LastSent |-> 0,
   ClaimedAt |-> 0, BHash |-> 0, CDigest |-> 0, Subject |-> NoUser]

Points ==
  {"idle", "signup", "put", "send",                       \* signup
   "resend", "charge", "rotate",                          \* resend (and send)
   "recover", "reclaim", "guess", "miss", "claim",        \* confirm
   "create", "fail", "answer", "done", "session"}
\* beside B, a confirmation gives A, the code C, or a wrong code
Given == {"A", "C", "other"}
\* t is the row that the invocation last read or wrote; read, the time that
\* Resend read with it
Task ==
  [at: Points, id: Requests, t: Transaction, email: Emails,
   proof: Given, read: Nat, end: Nat]
NoTask ==
  [at |-> "idle", id |-> AnId, t |-> Absent, email |-> AnEmail,
   proof |-> "A", read |-> 0, end |-> 0]

Windows == {t \div Hour : t \in 0..MaxTime}
Budgets ==
  {"signup-source", "resend-source"} \X Sources
    \cup {"signup-email", "resend-email", "code-email"} \X Emails

TypeOK ==
  /\ now \in 0..MaxTime
  /\ proofs \in [Requests -> Transaction]
  /\ users \in [Emails -> Requests \cup {NoUser}]
  /\ sessions \in [Emails -> Nat]
  /\ mail \subseteq Requests \X Nat
  /\ spent \in [Budgets -> [Windows -> Nat]]
  /\ wrong \in [Requests -> Nat]
  /\ told \subseteq Requests
  /\ task \in [Invocations -> Task]

Init ==
  /\ now = 0
  /\ proofs = [r \in Requests |-> Absent]
  /\ users = [e \in Emails |-> NoUser]
  /\ sessions = [e \in Emails |-> 0]
  /\ mail = {}
  /\ spent = [b \in Budgets |-> [w \in Windows |-> 0]]
  /\ wrong = [r \in Requests |-> 0]
  /\ told = {}
  /\ task = [i \in Invocations |-> NoTask]

-----------------------------------------------------------------------------
(* Rows.  Every writer builds the next row from the one it holds.          *)

(* FAULTY: a wrong code that leaves the version alone.                     *)
Missed_SameVersion(t) == [t EXCEPT !.Attempts = t.Attempts + 1]
(* FAULTY: the address stored where the subject belongs.                   *)
Done_Address(t, sub) ==
  [t EXCEPT !.State = "confirmed", !.Subject = t.Email, !.BHash = 0,
            !.CDigest = 0, !.Version = t.Version + 1]

Fresh(e) ==
  [Absent EXCEPT !.State = "pending", !.Email = e, !.Generation = 1,
                 !.Version = 1, !.Expires = now + ProofLife,
                 !.LastSent = now, !.BHash = 1, !.CDigest = 1]
Rotated(t, read) ==
  [t EXCEPT !.State = "pending", !.ClaimedAt = 0,
            !.Generation = t.Generation + 1, !.Version = t.Version + 1,
            !.Resends = t.Resends + 1, !.Attempts = 0,
            !.BHash = t.Generation + 1, !.CDigest = t.Generation + 1,
            !.Expires = read + ProofLife, !.LastSent = read]
Reclaimed(t) == [t EXCEPT !.State = "pending", !.Version = t.Version + 1]
Missed(t) ==
  [t EXCEPT !.Attempts = t.Attempts + 1, !.Version = t.Version + 1]
Claimed(t, at) ==
  [t EXCEPT !.State = "confirming", !.ClaimedAt = at, !.Version = t.Version + 1]
Broken(t) == [t EXCEPT !.State = "failed", !.Version = t.Version + 1]
Done(t, sub) ==
  [t EXCEPT !.State = "confirmed", !.Subject = sub, !.BHash = 0,
            !.CDigest = 0, !.Version = t.Version + 1]

(* FAULTY: the condition on the state without the version.                 *)
CanSwap_State(r, before) == proofs[r].State = before.State
\* Store.Swap: the condition on the stored row
CanSwap(r, before) ==
  /\ proofs[r].Version = before.Version
  /\ proofs[r].State = before.State
Swap(i, after) == proofs' = [proofs EXCEPT ![task[i].id] = after]
Holds(i) == CanSwap(task[i].id, task[i].t)

\* Store.Charge: the window of the time given, not of the time of the write
CanCharge(kind, who, at) == spent[<<kind, who>>][at \div Hour] < Limit[kind]
Charge(budgets, at) ==
  spent' = [b \in Budgets |-> [w \in Windows |->
              spent[b][w] + IF b \in budgets /\ w = at \div Hour THEN 1 ELSE 0]]

Eligible(e) == users[e] = NoUser

Go(i, at) == task' = [task EXCEPT ![i].at = at]
GoWith(i, at, t) == task' = [task EXCEPT ![i].at = at, ![i].t = t]
End(i) == task' = [task EXCEPT ![i] = NoTask]

-----------------------------------------------------------------------------
(* POST /signup                                                            *)

\* both budgets are charged before anything is looked up; the id is random
Signup(i, r, e, s) ==
  /\ task[i].at = "idle"
  /\ proofs[r] = Absent
  /\ \A j \in Invocations : task[j].at \in {"signup", "put"} => task[j].id # r
  /\ CanCharge("signup-source", s, now)
  /\ CanCharge("signup-email", e, now)
  /\ Charge({<<"signup-source", s>>, <<"signup-email", e>>}, now)
  /\ task' = [task EXCEPT ![i] = [NoTask EXCEPT !.at = "signup", !.id = r,
                                  !.email = e, !.end = now + Timeout]]
  /\ UNCHANGED <<now, proofs, users, sessions, mail, wrong, told>>

\* too many for this address: the source has paid all the same
SignupLimited(i, e, s) ==
  /\ task[i].at = "idle"
  /\ CanCharge("signup-source", s, now)
  /\ ~CanCharge("signup-email", e, now)
  /\ Charge({<<"signup-source", s>>}, now)
  /\ UNCHANGED <<now, proofs, users, sessions, mail, wrong, told, task>>

SignupLookup(i) ==
  /\ task[i].at = "signup"
  /\ IF Eligible(task[i].email) THEN Go(i, "put") ELSE End(i)
  /\ UNCHANGED <<now, proofs, users, sessions, mail, spent, wrong, told>>

SignupPut(i) ==
  /\ task[i].at = "put"
  /\ proofs[task[i].id] = Absent
  /\ Swap(i, Fresh(task[i].email))
  /\ GoWith(i, "send", Fresh(task[i].email))
  /\ UNCHANGED <<now, users, sessions, mail, spent, wrong, told>>

\* a failed delivery is masked: the request ends as Die ends it
Send(i) ==
  /\ task[i].at = "send"
  /\ mail' = mail \cup {<<task[i].id, task[i].t.Generation>>}
  /\ End(i)
  /\ UNCHANGED <<now, proofs, users, sessions, spent, wrong, told>>

-----------------------------------------------------------------------------
(* POST /resend                                                            *)

(* FAULTY: any state may be resent.                                        *)
Resendable_AnyState(t) == t.Resends < MaxResends /\ now >= t.LastSent + Cooldown
Resendable(t) ==
  /\ t.State \in {"pending", "failed"}
  /\ t.Resends < MaxResends
  /\ now >= t.LastSent + Cooldown

Resend(i, r, s) ==
  /\ task[i].at = "idle"
  /\ CanCharge("resend-source", s, now)
  /\ Charge({<<"resend-source", s>>}, now)
  /\ \/ /\ Resendable(proofs[r])
        /\ task' = [task EXCEPT ![i] =
             [NoTask EXCEPT
                !.at = IF proofs[r].State = "failed" THEN "resend" ELSE "charge",
                !.id = r, !.t = proofs[r], !.read = now, !.end = now + Timeout]]
     \/ ~Resendable(proofs[r]) /\ UNCHANGED task
  /\ UNCHANGED <<now, proofs, users, sessions, mail, wrong, told>>

\* a failed proof is replaced only while the address has no account
ResendLookup(i) ==
  /\ task[i].at = "resend"
  /\ IF Eligible(task[i].t.Email) THEN Go(i, "charge") ELSE End(i)
  /\ UNCHANGED <<now, proofs, users, sessions, mail, spent, wrong, told>>

ResendCharge(i) ==
  /\ task[i].at = "charge"
  /\ \/ /\ CanCharge("resend-email", task[i].t.Email, task[i].read)
        /\ Charge({<<"resend-email", task[i].t.Email>>}, task[i].read)
        /\ Go(i, "rotate")
     \/ /\ ~CanCharge("resend-email", task[i].t.Email, task[i].read)
        /\ End(i)
        /\ UNCHANGED spent
  /\ UNCHANGED <<now, proofs, users, sessions, mail, wrong, told>>

\* a conflict is answered "accepted", without a mail
Lose(i) == ~Holds(i) /\ End(i) /\ UNCHANGED <<proofs, wrong>>

Rotate(i) ==
  /\ task[i].at = "rotate"
  /\ \/ /\ Holds(i)
        /\ Swap(i, Rotated(task[i].t, task[i].read))
        /\ wrong' = [wrong EXCEPT ![task[i].id] = 0]
        /\ GoWith(i, "send", Rotated(task[i].t, task[i].read))
     \/ Lose(i)
  /\ UNCHANGED <<now, users, sessions, mail, spent, told>>

-----------------------------------------------------------------------------
(* POST /confirm                                                           *)

(* FAULTY: a claim of any age is taken for interrupted.                    *)
Interrupted_AnyAge(t, b) ==
  t.State = "confirming" /\ t.Expires > now /\ t.BHash = b
Interrupted(t, b) ==
  /\ t.State = "confirming"
  /\ now >= t.ClaimedAt + ReclaimAfter
  /\ t.Expires > now
  /\ t.BHash = b

Usable(t, b, proof) ==
  /\ t.State = "pending"
  /\ t.Expires > now
  /\ t.BHash = b
  /\ proof # "A" => t.Attempts < MaxAttempts
NextPoint(proof) == IF proof = "A" THEN "claim" ELSE "guess"

\* B is 32 random bytes, so it is one that was mailed; C may be a guess.  A
\* wrong A, or a row that is neither usable nor interrupted, changes nothing.
Confirm(i, r, b, proof) ==
  /\ task[i].at = "idle"
  /\ <<r, b>> \in mail
  /\ Interrupted(proofs[r], b) \/ Usable(proofs[r], b, proof)
  /\ task' = [task EXCEPT ![i] =
       [NoTask EXCEPT
          !.at = IF Interrupted(proofs[r], b) THEN "recover" ELSE NextPoint(proof),
          !.id = r, !.t = proofs[r], !.proof = proof, !.end = now + Timeout]]
  /\ UNCHANGED <<now, proofs, users, sessions, mail, spent, wrong, told>>

\* ErrSignInRequired, "confirmed; sign in required"
SignInRequired(i) == told' = told \cup {task[i].id} /\ End(i)

Recover(i) ==
  /\ task[i].at = "recover"
  /\ \/ Eligible(task[i].t.Email) /\ Go(i, "reclaim") /\ UNCHANGED told
     \/ ~Eligible(task[i].t.Email) /\ SignInRequired(i)
  /\ UNCHANGED <<now, proofs, users, sessions, mail, spent, wrong>>

Reclaim(i) ==
  /\ task[i].at = "reclaim"
  /\ \/ /\ Holds(i)
        /\ Swap(i, Reclaimed(task[i].t))
        /\ IF Usable(Reclaimed(task[i].t), task[i].t.BHash, task[i].proof)
           THEN GoWith(i, NextPoint(task[i].proof), Reclaimed(task[i].t))
           ELSE End(i)
        /\ UNCHANGED wrong
     \/ Lose(i)
  /\ UNCHANGED <<now, users, sessions, mail, spent, told>>

Guess(i) ==
  /\ task[i].at = "guess"
  /\ \/ /\ CanCharge("code-email", task[i].t.Email, now)
        /\ Charge({<<"code-email", task[i].t.Email>>}, now)
        /\ Go(i, IF task[i].proof = "C" THEN "claim" ELSE "miss")
     \/ /\ ~CanCharge("code-email", task[i].t.Email, now)
        /\ End(i)
        /\ UNCHANGED spent
  /\ UNCHANGED <<now, proofs, users, sessions, mail, wrong, told>>

\* only an attempt that was counted is answered "incorrect code"
Miss(i) ==
  /\ task[i].at = "miss"
  /\ \/ /\ Holds(i)
        /\ Swap(i, Missed(task[i].t))
        /\ wrong' = [wrong EXCEPT ![task[i].id] = @ + 1]
        /\ End(i)
     \/ Lose(i)
  /\ UNCHANGED <<now, users, sessions, mail, spent, told>>

Claim(i) ==
  /\ task[i].at = "claim"
  /\ \/ /\ Holds(i)
        /\ Swap(i, Claimed(task[i].t, now))
        /\ GoWith(i, "create", Claimed(task[i].t, now))
        /\ UNCHANGED wrong
     \/ Lose(i)
  /\ UNCHANGED <<now, users, sessions, mail, spent, told>>

(* FAULTY: an account that exists already counts as created.               *)
CanCreate_Existing(e) == TRUE
\* AdminCreateUser refuses a name that is taken
CanCreate(e) == users[e] = NoUser

Create(i) ==
  /\ task[i].at = "create"
  /\ CanCreate(task[i].t.Email)
  /\ users' = [users EXCEPT ![task[i].t.Email] = task[i].id]
  /\ Go(i, "done")
  /\ UNCHANGED <<now, proofs, sessions, mail, spent, wrong, told>>

\* an error, which the account may have been created in spite of
CreateFails(i) ==
  /\ task[i].at = "create"
  /\ \/ UNCHANGED users
     \/ /\ CanCreate(task[i].t.Email)
        /\ users' = [users EXCEPT ![task[i].t.Email] = task[i].id]
  /\ Go(i, "fail")
  /\ UNCHANGED <<now, proofs, sessions, mail, spent, wrong, told>>

\* whether the row can be marked failed or not, the account is looked up
Fail(i) ==
  /\ task[i].at = "fail"
  /\ \/ Holds(i) /\ Swap(i, Broken(task[i].t))
     \/ UNCHANGED proofs
  /\ Go(i, "answer")
  /\ UNCHANGED <<now, users, sessions, mail, spent, wrong, told>>

Answer(i) ==
  /\ task[i].at = "answer"
  /\ \/ Eligible(task[i].t.Email) /\ End(i) /\ UNCHANGED told  \* ErrUnusable
     \/ SignInRequired(i)      \* not eligible, or the lookup failed as well
  /\ UNCHANGED <<now, proofs, users, sessions, mail, spent, wrong>>

Finish(i) ==
  /\ task[i].at = "done"
  /\ \/ /\ Holds(i)
        /\ Swap(i, Done(task[i].t, users[task[i].t.Email]))
        /\ GoWith(i, "session", Done(task[i].t, users[task[i].t.Email]))
        /\ UNCHANGED told
     \/ UNCHANGED proofs /\ SignInRequired(i)     \* a conflict or an error
  /\ UNCHANGED <<now, users, sessions, mail, spent, wrong>>

\* a grant is stored, then exchanged for tokens through the custom challenge
OpenSession(i) ==
  /\ task[i].at = "session"
  /\ \/ /\ sessions' = [sessions EXCEPT ![task[i].t.Email] = @ + 1]
        /\ End(i)
        /\ UNCHANGED told
     \/ UNCHANGED sessions /\ SignInRequired(i)
  /\ UNCHANGED <<now, proofs, users, mail, spent, wrong>>

-----------------------------------------------------------------------------
\* a crash, the Lambda timeout, or a call that failed (its effect lost or
\* its answer lost): the invocation answers with an error and is gone
Die(i) ==
  /\ task[i].at # "idle"
  /\ End(i)
  /\ UNCHANGED <<now, proofs, users, sessions, mail, spent, wrong, told>>

Tick ==
  /\ now < MaxTime
  /\ \A i \in Invocations : task[i].at # "idle" => now < task[i].end
  /\ now' = now + 1
  /\ UNCHANGED <<proofs, users, sessions, mail, spent, wrong, told, task>>

Steps(i) ==
  \/ SignupLookup(i) \/ SignupPut(i) \/ Send(i)
  \/ ResendLookup(i) \/ ResendCharge(i) \/ Rotate(i)
  \/ Recover(i) \/ Reclaim(i) \/ Guess(i) \/ Miss(i) \/ Claim(i)
  \/ Create(i) \/ CreateFails(i) \/ Fail(i) \/ Answer(i)
  \/ Finish(i) \/ OpenSession(i)
  \/ Die(i)

Calls(i) ==
  \/ \E e \in Emails, s \in Sources :
       SignupLimited(i, e, s) \/ \E r \in Requests : Signup(i, r, e, s)
  \/ \E r \in Requests, s \in Sources : Resend(i, r, s)
  \/ \E m \in mail, proof \in Given : Confirm(i, m[1], m[2], proof)

Next == Tick \/ \E i \in Invocations : Steps(i) \/ Calls(i)

Spec == Init /\ [][Next]_vars

-----------------------------------------------------------------------------
(* What sign-up promises                                                   *)

Creating == {"create", "fail", "done"}

\* From its claim to the answer about the account, an invocation keeps the
\* row: nobody takes an interrupted claim over while the first claimant may
\* still be creating the account, and the claim is for the current B
\* (Confirm's recovery, its 60 seconds against Lambda's 25).
ClaimHeld ==
  \A i \in Invocations : task[i].at \in Creating =>
    /\ proofs[task[i].id] = task[i].t
    /\ task[i].t.State = "confirming"
    /\ task[i].t.BHash = task[i].t.Generation

\* An address is confirmed by one request, the one that created its account,
\* and that confirmation opens at most one session, once it is on record
\* (Confirm creates, marks, and only then asks for a session).
OneAccount ==
  /\ \A r \in Requests : proofs[r].State = "confirmed" =>
       /\ proofs[r].Subject = r
       /\ users[proofs[r].Email] = r
       /\ proofs[r].BHash = 0 /\ proofs[r].CDigest = 0
  /\ \A e \in Emails :
       /\ sessions[e] <= 1
       /\ sessions[e] = 1 => /\ users[e] \in Requests
                            /\ proofs[users[e]].State = "confirmed"

\* Concurrent wrong codes cannot share one attempt: whatever the order of
\* the loads and the swaps, no more than MaxAttempts of them are told wrong
\* for one generation (the attempt counter of Confirm).
GuessesCounted ==
  \A r \in Requests : wrong[r] = proofs[r].Attempts /\ wrong[r] <= MaxAttempts

\* Concurrent resends make one rotation: the proof changes at most MaxResends
\* times, a cooldown apart, and never under a running or settled confirmation
\* (the guard of Resend, evaluated on a row that may be stale by the swap).
RotationsSpaced ==
  [][\A r \in Requests :
       proofs[r] # Absent /\ <<proofs[r].Generation, proofs[r].LastSent>>
                              # <<proofs'[r].Generation, proofs'[r].LastSent>> =>
         /\ proofs[r].State \in {"pending", "failed"}
         /\ proofs'[r].Generation = proofs[r].Generation + 1
         /\ proofs'[r].Resends <= MaxResends
         /\ proofs'[r].LastSent >= proofs[r].LastSent + Cooldown]_vars

\* A confirmed proof is closed for good: no resend, retry or late writer
\* reopens it, whatever became of its session (TestSessionFailureClosesProof).
ConfirmedStays ==
  [][\A r \in Requests :
       proofs[r].State = "confirmed" => proofs'[r] = proofs[r]]_vars

\* "confirmed; sign in required" is answered only when there is an account
\* to sign in to (TestProviderCreationFailureDoesNotClaimAccountWasConfirmed).
\* The code does not keep this: see the run email_answer.
AnswersTruly ==
  \A r \in told : users[proofs[r].Email] # NoUser

=============================================================================
