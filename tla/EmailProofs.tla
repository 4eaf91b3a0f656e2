---------------------------- MODULE EmailProofs ----------------------------
(***************************************************************************)
(* Theorems about EmailProof for any number of requests, addresses and     *)
(* invocations, any limits and any timings in which an interrupted claim   *)
(* is reclaimed only after the timeout of a handler.                       *)
(***************************************************************************)
EXTENDS EmailInvariant, TLAPS

----------------------------------------------------------------------------
(* Types of rows and tasks.                                                *)

LEMMA AbsentTyped ==
  /\ AnEmail \in Emails /\ AnId \in Requests
  /\ Absent \in Transaction
  /\ NoTask \in Task
<1>1. AnEmail \in Emails /\ AnId \in Requests
  BY EmailConstants DEF AnEmail, AnId
<1>2. Absent \in Transaction
  BY <1>1 DEF Absent, Transaction, States
<1> QED
  BY <1>1, <1>2 DEF NoTask, Task, Points, Given

LEMMA Counts ==
  ASSUME NEW t \in Transaction, NEW at \in Nat
  PROVE  /\ 0 \in Nat /\ 1 \in Nat
         /\ t.Version + 1 \in Nat /\ t.Generation + 1 \in Nat
         /\ t.Resends + 1 \in Nat /\ t.Attempts + 1 \in Nat
         /\ at + ProofLife \in Nat /\ at + Timeout \in Nat
BY EmailConstants DEF Transaction

LEMMA RowTypes ==
  ASSUME NEW t \in Transaction, NEW at \in Nat, NEW sub \in Requests \cup {NoUser}
  PROVE  /\ Rotated(t, at) \in Transaction
         /\ Reclaimed(t) \in Transaction
         /\ Missed(t) \in Transaction
         /\ Claimed(t, at) \in Transaction
         /\ Broken(t) \in Transaction
         /\ Done(t, sub) \in Transaction
<1> USE Counts DEF Transaction, States
<1>1. Rotated(t, at) \in Transaction
  BY Zenon DEF Rotated
<1>2. Reclaimed(t) \in Transaction
  BY Zenon DEF Reclaimed
<1>3. Missed(t) \in Transaction
  BY Zenon DEF Missed
<1>4. Claimed(t, at) \in Transaction
  BY Zenon DEF Claimed
<1>5. Broken(t) \in Transaction
  BY Zenon DEF Broken
<1>6. Done(t, sub) \in Transaction
  BY Zenon DEF Done
<1> QED
  BY <1>1, <1>2, <1>3, <1>4, <1>5, <1>6

LEMMA FreshTyped ==
  ASSUME NEW e \in Emails, now \in Nat
  PROVE  Fresh(e) \in Transaction
<1>1. /\ Absent \in Transaction /\ now + ProofLife \in Nat /\ 1 \in Nat
  BY AbsentTyped, EmailConstants
<1> QED
  BY <1>1, Zenon DEF Fresh, Transaction, States

\* The budget table stays a table of counts.
LEMMA Charged ==
  ASSUME TypeOK, NEW budgets, NEW at, Charge(budgets, at)
  PROVE  spent' \in [Budgets -> [Windows -> Nat]]
<1>1. ASSUME NEW b \in Budgets, NEW w \in Windows
      PROVE  spent[b][w] + (IF b \in budgets /\ w = at \div Hour THEN 1 ELSE 0) \in Nat
  <2>1. spent[b][w] \in Nat
    BY DEF TypeOK
  <2> QED BY <2>1
<1> QED
  BY <1>1, Zenon DEF Charge

----------------------------------------------------------------------------
(* Steps of one invocation.                                                *)

Owning == Creating \cup {"session"}

\* What every step of i leaves alone, and the types it keeps.
Local(i) ==
  /\ now' = now
  /\ mail' \subseteq Requests \X Nat
  /\ spent' \in [Budgets -> [Windows -> Nat]]
  /\ told' \subseteq Requests
  /\ task' \in [Invocations -> Task]
  /\ \A j \in Invocations \ {i} : task'[j] = task[j]

\* i becomes the owner of a confirmation only by its claim.
KeepsOwner(i) ==
  /\ task'[i].at \in Owning => task[i].at \in Owning /\ task'[i].id = task[i].id
  /\ task'[i].at = "session" => task[i].at = "session"

\* A step that writes no row and creates no account.
LEMMA StepKeeps ==
  ASSUME Inv, NEW i \in Invocations, Local(i), KeepsOwner(i),
         UNCHANGED <<proofs, users, sessions, wrong>>,
         Fenced(i)', TaskOK(i)'
  PROVE  Inv'
<1>1. TypeOK'
  BY DEF Inv, TypeOK, Local
<1>2. ASSUME NEW r \in Requests PROVE RowOK(r)'
  BY DEF Inv, RowOK
<1>3. ASSUME NEW j \in Invocations PROVE Fenced(j)' /\ TaskOK(j)'
  <2>1. CASE j # i
    BY <2>1 DEF Inv, Local, Fenced, TaskOK
  <2> QED BY <2>1
<1>4. Alone'
  BY DEF Inv, Alone, Local, KeepsOwner, Owning
<1>5. ASSUME NEW e \in Emails PROVE SessionOK(e)'
  BY DEF Inv, SessionOK, Local, KeepsOwner, Owning
<1> QED
  BY <1>1, <1>2, <1>3, <1>4, <1>5 DEF Inv

\* Nobody else owns the confirmation of i's request.
Sole(i) ==
  \A j \in Invocations \ {i} :
    task[j].at \in Owning => task[j].id # task[i].id

\* A step that swaps the row of i's request for a next version s.
LEMMA WriteKeeps ==
  ASSUME Inv, NEW i \in Invocations, Local(i), Sole(i),
         NEW id \in Requests, id = task[i].id,
         UNCHANGED <<users, sessions>>,
         wrong' \in [Requests -> Nat],
         \A r \in Requests \ {id} : wrong'[r] = wrong[r],
         NEW s \in Transaction,
         proofs' = [proofs EXCEPT ![id] = s],
         s.Version = proofs[id].Version + 1,
         proofs[id].State # "confirmed",
         task'[i] = NoTask \/ (task'[i].id = id /\ task'[i].t = s),
         RowOK(id)', TaskOK(i)'
  PROVE  Inv'
<1>0. /\ proofs[id].Version \in Nat
      /\ proofs'[id] = s
      /\ \A r \in Requests \ {id} : proofs'[r] = proofs[r]
  BY DEF Inv, TypeOK, Task, Transaction
<1>1. TypeOK'
  BY <1>0 DEF Inv, TypeOK, Local
<1>2. ASSUME NEW r \in Requests PROVE RowOK(r)'
  <2>1. CASE r = id
    BY <2>1
  <2>2. CASE r # id
    <3>1. proofs'[r] = proofs[r] /\ wrong'[r] = wrong[r] /\ RowOK(r)
      BY <2>2, <1>0 DEF Inv
    <3> QED BY <3>1 DEF RowOK
  <2> QED BY <2>1, <2>2
<1>3. ASSUME NEW j \in Invocations PROVE Fenced(j)'
  <2>1. CASE j = i /\ task'[i] = NoTask
    <3>1. /\ proofs'[AnId] \in Transaction
          /\ proofs'[AnId].Version = 0 => proofs'[AnId] = Absent
      BY <1>1, <1>2, AbsentTyped DEF TypeOK, RowOK
    <3>2. NoTask.id = AnId /\ NoTask.t = Absent /\ Absent.Version = 0
      BY DEF NoTask, Absent
    <3> QED BY <2>1, <3>1, <3>2 DEF Fenced, Transaction
  <2>2. CASE j = i /\ task'[i].id = id /\ task'[i].t = s
    BY <2>2, <1>0 DEF Fenced
  <2>3. CASE j # i
    <3>1. /\ task'[j] = task[j]
          /\ task[j].t.Version <= proofs[task[j].id].Version
          /\ task[j].t.Version = proofs[task[j].id].Version => task[j].t = proofs[task[j].id]
          /\ task[j].id \in Requests /\ task[j].t.Version \in Nat
      BY <2>3 DEF Inv, Local, Fenced, TypeOK, Task, Transaction
    <3>2. CASE task[j].id = id
      <4>1. task[j].t.Version < s.Version
        BY <3>1, <3>2, <1>0
      <4> QED BY <3>1, <3>2, <4>1, <1>0 DEF Fenced
    <3>3. CASE task[j].id # id
      BY <3>1, <3>3, <1>0 DEF Fenced
    <3> QED BY <3>2, <3>3
  <2> QED BY <2>1, <2>2, <2>3
<1>4. ASSUME NEW j \in Invocations PROVE TaskOK(j)'
  <2>1. CASE j # i
    <3>1. task'[j] = task[j] /\ task[j].id \in Requests
      BY <2>1 DEF Inv, TypeOK, Task, Local
    <3>2. task[j].at \in Owning => proofs'[task[j].id] = proofs[task[j].id]
      BY <2>1, <3>1, <1>0 DEF Sole
    <3> QED BY <2>1, <3>1, <3>2 DEF Inv, Local, TaskOK, Owning
  <2> QED BY <2>1
<1>5. Alone'
  <2>1. task'[i].at \in Owning => task'[i].id = id
    BY DEF NoTask, Owning, Creating
  <2> QED BY <2>1 DEF Inv, Alone, Local, Sole, Owning
<1>6. ASSUME NEW e \in Emails PROVE SessionOK(e)'
  <2>1. SUFFICES ASSUME sessions[e] # 0
                 PROVE  SessionOK(e)'
    BY DEF SessionOK
  <2>2. /\ sessions[e] = 1 /\ users[e] \in Requests
        /\ proofs[users[e]].State = "confirmed"
        /\ \A j \in Invocations : task[j].at = "session" => task[j].id # users[e]
    BY <2>1 DEF Inv, SessionOK
  <2>3. users[e] # id /\ proofs'[users[e]] = proofs[users[e]]
    BY <2>2, <1>0
  <2>4. task'[i].at = "session" => task'[i].id # users[e]
    BY <2>3 DEF NoTask
  <2> QED BY <2>2, <2>3, <2>4 DEF SessionOK, Local
<1> QED
  BY <1>1, <1>2, <1>3, <1>4, <1>5, <1>6 DEF Inv

----------------------------------------------------------------------------
(* The three ways a task moves.                                            *)

LEMMA EndFacts ==
  ASSUME TypeOK, NEW i \in Invocations, End(i)
  PROVE  /\ task' \in [Invocations -> Task]
         /\ \A j \in Invocations \ {i} : task'[j] = task[j]
         /\ task'[i] = NoTask
BY AbsentTyped DEF TypeOK, End

LEMMA GoFacts ==
  ASSUME TypeOK, NEW i \in Invocations, NEW at \in Points, Go(i, at)
  PROVE  /\ task' \in [Invocations -> Task]
         /\ \A j \in Invocations \ {i} : task'[j] = task[j]
         /\ task'[i].at = at
         /\ task'[i].id = task[i].id /\ task'[i].t = task[i].t
         /\ task'[i].read = task[i].read /\ task'[i].end = task[i].end
<1>1. /\ task[i] \in Task
      /\ task' = [task EXCEPT ![i] = [task[i] EXCEPT !.at = at]]
  BY DEF TypeOK, Go
<1>2. [task[i] EXCEPT !.at = at] \in Task
  BY <1>1 DEF Task
<1> QED
  BY <1>1, <1>2 DEF TypeOK, Task

LEMMA GoWithFacts ==
  ASSUME TypeOK, NEW i \in Invocations, NEW at \in Points, NEW t \in Transaction,
         GoWith(i, at, t)
  PROVE  /\ task' \in [Invocations -> Task]
         /\ \A j \in Invocations \ {i} : task'[j] = task[j]
         /\ task'[i].at = at
         /\ task'[i].id = task[i].id /\ task'[i].t = t
         /\ task'[i].read = task[i].read /\ task'[i].end = task[i].end
<1>1. /\ task[i] \in Task
      /\ task' = [task EXCEPT ![i] = [task[i] EXCEPT !.at = at, !.t = t]]
  BY Zenon DEF TypeOK, GoWith
<1>2. [task[i] EXCEPT !.at = at, !.t = t] \in Task
  BY <1>1, Zenon DEF Task
<1> QED
  BY <1>1, <1>2 DEF TypeOK, Task

LEMMA IdleOK ==
  ASSUME TypeOK', \A r \in Requests : RowOK(r)', NEW i \in Invocations,
         task'[i] = NoTask
  PROVE  Fenced(i)' /\ TaskOK(i)'
<1>1. /\ proofs'[AnId] \in Transaction
      /\ proofs'[AnId].Version = 0 => proofs'[AnId] = Absent
  BY AbsentTyped DEF TypeOK, RowOK
<1>2. NoTask.at = "idle" /\ NoTask.id = AnId /\ NoTask.t = Absent /\ Absent.Version = 0
  BY DEF NoTask, Absent
<1> QED
  BY <1>1, <1>2 DEF Fenced, TaskOK, Transaction, Creating

\* An invocation that ends without a write.
LEMMA EndKeeps ==
  ASSUME Inv, NEW i \in Invocations, End(i),
         UNCHANGED <<now, proofs, users, sessions, wrong>>,
         mail' \subseteq Requests \X Nat, told' \subseteq Requests,
         spent' \in [Budgets -> [Windows -> Nat]]
  PROVE  Inv'
<1>1. TypeOK /\ Local(i) /\ task'[i] = NoTask
  BY EndFacts DEF Inv, Local
<1>2. TypeOK'
  BY <1>1 DEF TypeOK, Local
<1>3. \A r \in Requests : RowOK(r)'
  BY DEF Inv, RowOK
<1>4. KeepsOwner(i)
  BY <1>1 DEF KeepsOwner, NoTask, Owning, Creating
<1> QED
  BY <1>1, <1>2, <1>3, <1>4, IdleOK, StepKeeps

\* An invocation that goes on without a write.
LEMMA GoKeeps ==
  ASSUME Inv, NEW i \in Invocations, NEW at \in Points, Go(i, at),
         UNCHANGED <<now, proofs, users, sessions, wrong, mail, told>>,
         spent' \in [Budgets -> [Windows -> Nat]],
         TaskOK(i)', at \in Owning => task[i].at \in Owning, at # "session"
  PROVE  Inv'
<1>1. /\ TypeOK /\ Local(i)
      /\ task'[i].at = at /\ task'[i].id = task[i].id /\ task'[i].t = task[i].t
  BY GoFacts DEF Inv, TypeOK, Local
<1>2. Fenced(i)'
  BY <1>1 DEF Inv, Fenced
<1>3. KeepsOwner(i)
  BY <1>1 DEF KeepsOwner
<1> QED
  BY <1>1, <1>2, <1>3, StepKeeps

\* The fence: a row whose version and state have not moved is the row held.
LEMMA Holding ==
  ASSUME Inv, NEW i \in Invocations, Holds(i)
  PROVE  proofs[task[i].id] = task[i].t
BY DEF Inv, Fenced, Holds, CanSwap

LEMMA TaskTypes ==
  ASSUME TypeOK, NEW i \in Invocations
  PROVE  /\ task[i].id \in Requests /\ task[i].t \in Transaction
         /\ task[i].email \in Emails /\ task[i].t.Email \in Emails
         /\ task[i].read \in Nat /\ task[i].end \in Nat
         /\ task[i].at \in Points /\ task[i].proof \in Given
         /\ now \in Nat
BY EmailConstants DEF TypeOK, Task, Transaction

----------------------------------------------------------------------------
(* Calls, and the steps that write no row.                                 *)

\* An idle invocation starts on a row it has just read.
LEMMA CallKeeps ==
  ASSUME Inv, NEW i \in Invocations, task[i].at = "idle",
         NEW k \in Task, task' = [task EXCEPT ![i] = k],
         UNCHANGED <<now, proofs, users, sessions, wrong, mail, told>>,
         spent' \in [Budgets -> [Windows -> Nat]],
         k.at \notin Owning, k.t = Absent \/ k.t = proofs[k.id],
         TaskOK(i)'
  PROVE  Inv'
<1>1. task'[i] = k /\ Local(i) /\ KeepsOwner(i)
  BY DEF Inv, TypeOK, Local, KeepsOwner, Owning
<1>2. Fenced(i)'
  <2>1. /\ proofs[k.id] \in Transaction
        /\ proofs[k.id].Version = 0 => proofs[k.id] = Absent
    BY DEF Inv, TypeOK, RowOK, Task
  <2>2. Absent.Version = 0
    BY DEF Absent
  <2> QED BY <1>1, <2>1, <2>2 DEF Fenced, Transaction
<1> QED
  BY <1>1, <1>2, StepKeeps

LEMMA SignupKeeps ==
  ASSUME Inv, NEW i \in Invocations, NEW r \in Requests, NEW e \in Emails,
         NEW s \in Sources, Signup(i, r, e, s)
  PROVE  Inv'
<1> DEFINE k == [NoTask EXCEPT !.at = "signup", !.id = r, !.email = e,
                               !.end = now + Timeout]
<1>1. TypeOK /\ now + Timeout \in Nat /\ now \in Nat
  BY EmailConstants DEF Inv, TypeOK
<1>2. k \in Task
  <2>1. "signup" \in Points
    BY DEF Points
  <2> QED BY <1>1, <2>1, AbsentTyped, Zenon DEF Task
<1>3. spent' \in [Budgets -> [Windows -> Nat]]
  BY <1>1, Charged DEF Signup
<1>4. /\ task' = [task EXCEPT ![i] = k] /\ k.at = "signup" /\ k.t = Absent
      /\ k.end = now + Timeout
  BY DEF Signup, NoTask
<1>5. /\ task'[i].at = "signup" /\ task'[i].end = now + Timeout /\ now' = now
      /\ now <= now + Timeout /\ now + Timeout <= now + Timeout
  BY <1>1, <1>4, EmailConstants DEF TypeOK, Signup
<1>6. TaskOK(i)'
  <2> HIDE DEF k
  <2> QED BY <1>5 DEF TaskOK, Creating
<1> QED
  BY <1>2, <1>3, <1>4, <1>6, CallKeeps DEF Signup, Owning, Creating

LEMMA SignupLimitedKeeps ==
  ASSUME Inv, NEW i \in Invocations, NEW e \in Emails, NEW s \in Sources,
         SignupLimited(i, e, s)
  PROVE  Inv'
<1>1. TypeOK
  BY DEF Inv
<1>2. spent' \in [Budgets -> [Windows -> Nat]]
  BY <1>1, Charged DEF SignupLimited
<1>3. Local(i) /\ KeepsOwner(i)
  BY <1>1, <1>2 DEF Local, KeepsOwner, SignupLimited, TypeOK
<1>4. Fenced(i)' /\ TaskOK(i)'
  BY DEF Inv, Fenced, TaskOK, SignupLimited
<1> QED
  BY <1>3, <1>4, StepKeeps DEF SignupLimited

LEMMA ResendKeeps ==
  ASSUME Inv, NEW i \in Invocations, NEW r \in Requests, NEW s \in Sources,
         Resend(i, r, s)
  PROVE  Inv'
<1> DEFINE at == IF proofs[r].State = "failed" THEN "resend" ELSE "charge"
           k == [NoTask EXCEPT !.at = at, !.id = r, !.t = proofs[r],
                               !.read = now, !.end = now + Timeout]
<1>1. /\ TypeOK /\ now + Timeout \in Nat /\ now \in Nat /\ now <= now + Timeout
      /\ proofs[r] \in Transaction
  BY EmailConstants DEF Inv, TypeOK
<1>2. spent' \in [Budgets -> [Windows -> Nat]]
  BY <1>1, Charged DEF Resend
<1>3. CASE UNCHANGED task
  <2>1. Local(i) /\ KeepsOwner(i)
    BY <1>1, <1>2, <1>3 DEF Local, KeepsOwner, Resend, TypeOK
  <2>2. Fenced(i)' /\ TaskOK(i)'
    BY <1>3 DEF Inv, Fenced, TaskOK, Resend
  <2> QED BY <2>1, <2>2, StepKeeps DEF Resend
<1>4. CASE Resendable(proofs[r]) /\ task' = [task EXCEPT ![i] = k]
  <2>1. at \in Points /\ at \in {"resend", "charge"}
    BY DEF Points
  <2>2. k \in Task
    BY <1>1, <2>1, AbsentTyped, Zenon DEF Task
  <2>3. /\ k.at = at /\ k.id = r /\ k.t = proofs[r] /\ k.read = now
        /\ k.end = now + Timeout
    BY DEF NoTask
  <2>4. task'[i] = k /\ now' = now /\ now + Timeout <= now + Timeout
    BY <1>1, <1>4 DEF TypeOK, Resend
  <2>5. /\ task'[i].at = at /\ task'[i].t = proofs[r] /\ task'[i].read = now
        /\ task'[i].end = now + Timeout
    BY <2>3, <2>4
  <2>6. TaskOK(i)'
    <3> HIDE DEF k, at
    <3> QED BY <1>1, <1>4, <2>1, <2>4, <2>5 DEF TaskOK, Creating, Resendable
  <2> QED BY <1>2, <1>4, <2>1, <2>2, <2>3, <2>6, CallKeeps DEF Resend, Owning, Creating
<1> QED
  BY <1>3, <1>4 DEF Resend

LEMMA ConfirmKeeps ==
  ASSUME Inv, NEW i \in Invocations, NEW m \in mail, NEW proof \in Given,
         Confirm(i, m[1], m[2], proof)
  PROVE  Inv'
<1> DEFINE r == m[1]
           at == IF Interrupted(proofs[r], m[2]) THEN "recover" ELSE NextPoint(proof)
           k == [NoTask EXCEPT !.at = at, !.id = r, !.t = proofs[r],
                               !.proof = proof, !.end = now + Timeout]
<1>1. /\ TypeOK /\ now + Timeout \in Nat /\ now \in Nat /\ now <= now + Timeout
      /\ r \in Requests /\ proofs[r] \in Transaction
  BY EmailConstants DEF Inv, TypeOK
<1>2. at \in Points /\ at \in {"recover", "claim", "guess"}
  BY DEF Points, NextPoint
<1>3. k \in Task
  BY <1>1, <1>2, AbsentTyped, Zenon DEF Task
<1>4. k.at = at /\ k.id = r /\ k.t = proofs[r] /\ k.end = now + Timeout
  BY DEF NoTask
<1>5. task' = [task EXCEPT ![i] = k]
  BY DEF Confirm
<1>6. task'[i] = k /\ now' = now
  BY <1>1, <1>5 DEF TypeOK, Confirm
<1>7. /\ at = "recover" => /\ proofs[r].State = "confirming"
                          /\ now >= proofs[r].ClaimedAt + ReclaimAfter
      /\ at \in {"guess", "claim"} => proofs[r].State = "pending"
      /\ at = "guess" => proofs[r].Attempts < MaxAttempts
  BY DEF Confirm, Interrupted, Usable, NextPoint
<1>8. TaskOK(i)'
  BY <1>1, <1>2, <1>4, <1>6, <1>7 DEF TaskOK, Creating
<1>9. spent' \in [Budgets -> [Windows -> Nat]]
  BY <1>1 DEF Confirm, TypeOK
<1>10. /\ task[i].at = "idle"
       /\ UNCHANGED <<now, proofs, users, sessions, wrong, mail, told>>
  BY DEF Confirm
<1>11. k.at \notin Owning /\ k.t = proofs[k.id]
  <2> HIDE DEF k, at
  <2> QED BY <1>2, <1>4 DEF Owning, Creating
<1> QED
  <2> HIDE DEF k
  <2> QED BY <1>3, <1>5, <1>8, <1>9, <1>10, <1>11, CallKeeps

LEMMA LookupsKeep ==
  ASSUME Inv, NEW i \in Invocations,
         SignupLookup(i) \/ ResendLookup(i) \/ Recover(i) \/ Answer(i)
  PROVE  Inv'
<1>1. /\ TypeOK /\ TaskOK(i) /\ UNCHANGED <<now, proofs, users, sessions, wrong, mail, spent>>
      /\ {"put", "charge", "reclaim"} \subseteq Points
      /\ told \subseteq Requests /\ task[i].id \in Requests
  BY TaskTypes DEF Inv, SignupLookup, ResendLookup, Recover, Answer, Points, TypeOK
<1>2. CASE End(i) /\ told' \subseteq Requests
  BY <1>1, <1>2, EndKeeps DEF TypeOK
<1>3. ASSUME UNCHANGED told, NEW at \in {"put", "charge", "reclaim"}, Go(i, at),
             \/ task[i].at = "signup" /\ at = "put"
             \/ task[i].at = "resend" /\ at = "charge"
             \/ task[i].at = "recover" /\ at = "reclaim"
      PROVE  Inv'
  <2>1. /\ task'[i].at = at /\ task'[i].t = task[i].t
        /\ task'[i].read = task[i].read /\ task'[i].end = task[i].end
    BY <1>1, <1>3, GoFacts
  <2>2. TaskOK(i)'
    BY <1>1, <1>3, <2>1 DEF TaskOK, Creating
  <2> QED BY <1>1, <1>3, <2>2, GoKeeps DEF TypeOK, Owning, Creating
<1> QED
  BY <1>1, <1>2, <1>3 DEF SignupLookup, ResendLookup, Recover, Answer, SignInRequired

LEMMA ChargesKeep ==
  ASSUME Inv, NEW i \in Invocations, ResendCharge(i) \/ Guess(i)
  PROVE  Inv'
<1>1. /\ TypeOK /\ TaskOK(i) /\ UNCHANGED <<now, proofs, users, sessions, wrong, mail, told>>
      /\ {"rotate", "claim", "miss"} \subseteq Points
  BY DEF Inv, ResendCharge, Guess, Points
<1>2. spent' \in [Budgets -> [Windows -> Nat]]
  BY <1>1, Charged DEF ResendCharge, Guess, TypeOK
<1>3. CASE End(i)
  BY <1>1, <1>2, <1>3, EndKeeps DEF TypeOK
<1>4. ASSUME NEW at \in {"rotate", "claim", "miss"}, Go(i, at),
             \/ task[i].at = "charge" /\ at = "rotate"
             \/ task[i].at = "guess" /\ at \in {"claim", "miss"}
      PROVE  Inv'
  <2>1. /\ task'[i].at = at /\ task'[i].t = task[i].t
        /\ task'[i].read = task[i].read /\ task'[i].end = task[i].end
    BY <1>1, <1>4, GoFacts
  <2>2. TaskOK(i)'
    BY <1>1, <1>4, <2>1 DEF TaskOK, Creating
  <2> QED BY <1>1, <1>2, <1>4, <2>2, GoKeeps DEF Owning, Creating
<1> QED
  BY <1>1, <1>3, <1>4 DEF ResendCharge, Guess

LEMMA EndingsKeep ==
  ASSUME Inv, NEW i \in Invocations, Send(i) \/ Die(i)
  PROVE  Inv'
<1>1. TypeOK /\ task[i].id \in Requests /\ task[i].t.Generation \in Nat
  BY TaskTypes DEF Inv, Transaction
<1>2. mail' \subseteq Requests \X Nat
  BY <1>1 DEF Send, Die, TypeOK
<1>3. /\ End(i) /\ UNCHANGED <<now, proofs, users, sessions, wrong, told, spent>>
  BY DEF Send, Die
<1> QED
  BY <1>1, <1>2, <1>3, EndKeeps DEF TypeOK

LEMMA OpenSessionKeeps ==
  ASSUME Inv, NEW i \in Invocations, OpenSession(i)
  PROVE  Inv'
<1>1. /\ TypeOK /\ TaskOK(i) /\ task[i].id \in Requests /\ task[i].t.Email \in Emails
      /\ End(i) /\ task[i].at = "session"
      /\ UNCHANGED <<now, proofs, users, mail, spent, wrong>> /\ told' \subseteq Requests
  BY TaskTypes DEF Inv, OpenSession, SignInRequired, TypeOK
<1>2. CASE UNCHANGED sessions
  BY <1>1, <1>2, EndKeeps DEF TypeOK
<1>3. CASE sessions' = [sessions EXCEPT ![task[i].t.Email] = @ + 1]
  <2> DEFINE e0 == task[i].t.Email
  <2>1. /\ proofs[task[i].id] = task[i].t /\ task[i].t.State = "confirmed"
        /\ users[e0] = task[i].id
    BY <1>1 DEF Inv, TaskOK, RowOK
  <2>2. sessions[e0] = 0
    BY <1>1, <2>1 DEF Inv, SessionOK
  <2>3. /\ task'[i] = NoTask /\ task' \in [Invocations -> Task]
        /\ \A j \in Invocations \ {i} : task'[j] = task[j]
        /\ NoTask.at = "idle"
    BY <1>1, EndFacts DEF NoTask
  <2>4. TypeOK'
    BY <1>1, <1>3, <2>3 DEF TypeOK
  <2>5. \A r \in Requests : RowOK(r)'
    BY <1>1 DEF Inv, RowOK
  <2>6. ASSUME NEW j \in Invocations PROVE Fenced(j)' /\ TaskOK(j)'
    <3>1. CASE j = i
      BY <3>1, <2>3, <2>4, <2>5, IdleOK
    <3>2. CASE j # i
      BY <1>1, <2>3, <3>2 DEF Inv, Fenced, TaskOK
    <3> QED BY <3>1, <3>2
  <2>7. Alone'
    BY <2>3 DEF Inv, Alone, Creating
  <2>8. ASSUME NEW e \in Emails PROVE SessionOK(e)'
    <3>1. CASE e = e0
      <4>1. ASSUME NEW j \in Invocations, task'[j].at = "session"
            PROVE  task'[j].id # users[e0]
        <5>1. j # i /\ task'[j] = task[j] /\ task[j].at = "session"
          BY <4>1, <2>3
        <5>2. task[j].id # task[i].id
          BY <1>1, <5>1 DEF Inv, Alone
        <5> QED BY <5>1, <5>2, <2>1
      <4>2. sessions'[e0] = 1
        BY <1>1, <1>3, <2>2 DEF TypeOK
      <4> QED BY <1>1, <2>1, <3>1, <4>1, <4>2 DEF SessionOK
    <3>2. CASE e # e0
      BY <1>1, <1>3, <2>3, <3>2 DEF Inv, TypeOK, SessionOK
    <3> QED BY <3>1, <3>2
  <2> QED BY <2>4, <2>5, <2>6, <2>7, <2>8 DEF Inv
<1> QED
  BY <1>2, <1>3 DEF OpenSession

\* Cognito accepts the name: the account is the claimant's.
LEMMA CreateKeeps ==
  ASSUME Inv, NEW i \in Invocations, Create(i) \/ CreateFails(i)
  PROVE  Inv'
<1>1. /\ TypeOK /\ TaskOK(i) /\ task[i].id \in Requests /\ task[i].t.Email \in Emails
      /\ task[i].at = "create"
      /\ UNCHANGED <<now, proofs, sessions, mail, spent, wrong, told>>
      /\ "fail" \in Points /\ "done" \in Points
  BY TaskTypes DEF Inv, Create, CreateFails, Points
<1>2. CASE UNCHANGED users /\ Go(i, "fail")
  <2>1. /\ task'[i].at = "fail" /\ task'[i].t = task[i].t /\ task'[i].id = task[i].id
        /\ task'[i].end = task[i].end
    BY <1>1, <1>2, GoFacts
  <2>2. TaskOK(i)'
    BY <1>1, <2>1, <1>2 DEF TaskOK, Creating
  <2> QED BY <1>1, <1>2, <2>2, GoKeeps DEF TypeOK, Owning, Creating
<1>3. ASSUME NEW at \in {"fail", "done"}, Go(i, at), CanCreate(task[i].t.Email),
             users' = [users EXCEPT ![task[i].t.Email] = task[i].id]
      PROVE  Inv'
  <2> DEFINE e0 == task[i].t.Email
  <2>1. /\ users[e0] = NoUser /\ users'[e0] = task[i].id
        /\ \A e \in Emails \ {e0} : users'[e] = users[e]
        /\ users' \in [Emails -> Requests \cup {NoUser}]
    BY <1>1, <1>3 DEF CanCreate, TypeOK
  <2>2. /\ task' \in [Invocations -> Task]
        /\ \A j \in Invocations \ {i} : task'[j] = task[j]
        /\ task'[i].at = at /\ task'[i].id = task[i].id /\ task'[i].t = task[i].t
        /\ task'[i].end = task[i].end
    BY <1>1, <1>3, GoFacts
  <2>3. TypeOK'
    BY <1>1, <2>1, <2>2 DEF TypeOK
  <2>4. ASSUME NEW r \in Requests PROVE RowOK(r)'
    <3>1. proofs[r].Email \in Emails /\ RowOK(r)
      BY DEF Inv, TypeOK, Transaction
    <3>2. proofs[r].State = "confirmed" => users'[proofs[r].Email] = r
      BY <3>1, <2>1, EmailConstants DEF RowOK
    <3> QED BY <1>1, <3>1, <3>2 DEF RowOK
  <2>5. ASSUME NEW j \in Invocations PROVE Fenced(j)' /\ TaskOK(j)'
    <3>1. CASE j = i
      <4>1. Fenced(i) /\ TaskOK(i)
        BY DEF Inv
      <4> QED BY <1>1, <2>1, <2>2, <3>1, <4>1 DEF Fenced, TaskOK, Creating
    <3>2. CASE j # i
      <4>1. /\ task'[j] = task[j] /\ Fenced(j) /\ TaskOK(j)
            /\ task[j].t.Email \in Emails /\ task[j].id \in Requests
        BY <1>1, <2>2, <3>2, TaskTypes DEF Inv
      <4>2. task[j].at = "done" => users'[task[j].t.Email] = task[j].id
        BY <4>1, <2>1, EmailConstants DEF TaskOK
      <4> QED BY <1>1, <4>1, <4>2 DEF Fenced, TaskOK
    <3> QED BY <3>1, <3>2
  <2>6. Alone'
    BY <1>1, <2>2 DEF Inv, Alone, Creating
  <2>7. ASSUME NEW e \in Emails PROVE SessionOK(e)'
    <3>1. SessionOK(e)
      BY DEF Inv
    <3>2. e = e0 => sessions[e] = 0
      BY <3>1, <2>1, EmailConstants DEF SessionOK
    <3>3. e # e0 => users'[e] = users[e]
      BY <2>1
    <3> QED BY <1>1, <2>2, <3>1, <3>2, <3>3 DEF SessionOK
  <2> QED BY <2>3, <2>4, <2>5, <2>6, <2>7 DEF Inv
<1> QED
  BY <1>2, <1>3 DEF Create, CreateFails

\* Time does not pass the end of an invocation.
LEMMA TickKeeps ==
  ASSUME Inv, Tick
  PROVE  Inv'
<1>1. /\ UNCHANGED <<proofs, users, sessions, mail, spent, wrong, told, task>>
      /\ now' = now + 1 /\ now \in 0..MaxTime /\ now < MaxTime /\ MaxTime \in Nat
  BY EmailConstants DEF Tick, Inv, TypeOK
<1>2. TypeOK'
  BY <1>1 DEF Inv, TypeOK
<1>3. ASSUME NEW i \in Invocations PROVE Fenced(i)' /\ TaskOK(i)'
  <2>1. /\ task[i].end \in Nat /\ task[i].t.ClaimedAt \in Nat /\ TaskOK(i) /\ Fenced(i)
        /\ task[i].at # "idle" => now < task[i].end
        /\ ReclaimAfter \in Nat /\ Timeout \in Nat
    BY EmailConstants DEF Inv, TypeOK, Task, Transaction, Tick
  <2>2. /\ task[i].at # "idle" => now' <= task[i].end
        /\ task[i].end <= now + Timeout => task[i].end <= now' + Timeout
        /\ now >= task[i].t.ClaimedAt + ReclaimAfter
             => now' >= task[i].t.ClaimedAt + ReclaimAfter
    BY <1>1, <2>1
  <2> QED BY <1>1, <2>1, <2>2 DEF Fenced, TaskOK
<1>4. /\ \A r \in Requests : RowOK(r)'
      /\ Alone'
      /\ \A e \in Emails : SessionOK(e)'
  BY <1>1 DEF Inv, RowOK, Alone, SessionOK
<1> QED
  BY <1>2, <1>3, <1>4 DEF Inv

----------------------------------------------------------------------------
(* Writes.                                                                 *)

LEMMA HeldRow ==
  ASSUME Inv, NEW i \in Invocations, Holds(i)
  PROVE  /\ task[i].id \in Requests
         /\ proofs[task[i].id] = task[i].t
         /\ task[i].t \in Transaction
         /\ RowOK(task[i].id) /\ TaskOK(i) /\ TypeOK
BY Holding, TaskTypes DEF Inv

\* A row that is not claimed has no owner.
LEMMA UnclaimedIsSole ==
  ASSUME Inv, NEW i \in Invocations,
         proofs[task[i].id].State \notin {"confirming", "confirmed"}
  PROVE  Sole(i)
BY DEF Inv, TaskOK, Sole, Owning

\* A claimant is its row's only owner.
LEMMA ClaimantIsSole ==
  ASSUME Inv, NEW i \in Invocations, task[i].at \in Creating
  PROVE  Sole(i)
BY DEF Inv, Alone, Sole, Owning

\* When a claim is old enough to be reclaimed, its claimant is gone: this is
\* where the timings enter.
LEMMA ReclaimerIsSole ==
  ASSUME Inv, NEW i \in Invocations, task[i].at = "reclaim", Holds(i)
  PROVE  Sole(i)
<1> SUFFICES ASSUME NEW j \in Invocations \ {i}, task[j].at \in Owning,
                    task[j].id = task[i].id
             PROVE  FALSE
  BY DEF Sole
<1>1. /\ proofs[task[i].id] = task[i].t /\ task[i].t.State = "confirming"
      /\ now >= task[i].t.ClaimedAt + ReclaimAfter
  BY HeldRow DEF TaskOK
<1>2. TaskOK(j) /\ task[j].at # "idle" /\ task[j].end \in Nat /\ now \in Nat
  BY TaskTypes DEF Inv, Owning, Creating
<1>3. task[j].at \in Creating
  BY <1>1, <1>2 DEF TaskOK, Owning
<1>4. /\ now <= task[j].end /\ task[j].t = task[i].t
      /\ task[j].end <= task[i].t.ClaimedAt + Timeout
  BY <1>1, <1>2, <1>3 DEF TaskOK
<1>5. task[i].t.ClaimedAt \in Nat
  BY HeldRow DEF Transaction
<1> QED
  BY <1>1, <1>2, <1>4, <1>5, EmailConstants, ReclaimOutlivesHandler

\* The write of a held row and the task that follows it.
LEMMA HeldWriteKeeps ==
  ASSUME Inv, NEW i \in Invocations, Holds(i), Sole(i),
         task[i].t.State # "confirmed",
         UNCHANGED <<now, users, sessions, mail, spent, told>>,
         NEW s \in Transaction, Swap(i, s), s.Version = task[i].t.Version + 1,
         wrong' \in [Requests -> Nat],
         \A r \in Requests \ {task[i].id} : wrong'[r] = wrong[r],
         NEW id \in Requests, id = task[i].id, RowOK(id)',
         NEW at \in Points,
         \/ End(i)
         \/ GoWith(i, at, s) /\ TaskOK(i)'
  PROVE  Inv'
<1>1. TypeOK /\ proofs[id] = task[i].t /\ proofs' = [proofs EXCEPT ![id] = s]
  BY HeldRow DEF Swap
<1>2. CASE End(i)
  <2>1. Local(i) /\ task'[i] = NoTask
    BY <1>1, <1>2, EndFacts DEF Local, TypeOK
  <2>2. TaskOK(i)'
    BY <2>1 DEF TaskOK, NoTask, Creating
  <2> QED BY <1>1, <2>1, <2>2, WriteKeeps
<1>3. CASE GoWith(i, at, s) /\ TaskOK(i)'
  <2>1. Local(i) /\ task'[i].id = id /\ task'[i].t = s
    BY <1>1, <1>3, GoWithFacts DEF Local, TypeOK
  <2> QED BY <1>1, <1>3, <2>1, WriteKeeps
<1> QED
  BY <1>2, <1>3

LEMMA LoseKeeps ==
  ASSUME Inv, NEW i \in Invocations, Lose(i),
         UNCHANGED <<now, users, sessions, mail, spent, told>>
  PROVE  Inv'
BY EndKeeps DEF Lose, Inv, TypeOK

LEMMA SignupPutKeeps ==
  ASSUME Inv, NEW i \in Invocations, SignupPut(i)
  PROVE  Inv'
<1> DEFINE id == task[i].id
           s == Fresh(task[i].email)
<1>1. /\ TypeOK /\ TaskOK(i) /\ RowOK(id) /\ id \in Requests
      /\ s \in Transaction /\ "send" \in Points /\ proofs[id] = Absent
  BY TaskTypes, FreshTyped DEF Inv, SignupPut, Points
<1>2. /\ s.State = "pending" /\ s.Version = 1 /\ s.Generation = 1 /\ s.BHash = 1
      /\ s.Attempts = 0 /\ Absent.Version = 0 /\ Absent.State = "absent"
      /\ Absent.Attempts = 0
  BY DEF Fresh, Absent
<1>3. /\ Local(i) /\ task'[i].id = id /\ task'[i].t = s /\ task'[i].at = "send"
      /\ task'[i].end = task[i].end
  BY <1>1, GoWithFacts DEF Local, SignupPut, TypeOK
<1>4. Sole(i)
  BY <1>1, <1>2, UnclaimedIsSole
<1>5. proofs'[id] = s /\ proofs' = [proofs EXCEPT ![id] = s] /\ wrong' = wrong
  BY <1>1 DEF SignupPut, Swap, TypeOK
<1>6. ASSUME NEW r \in Requests, r = id PROVE RowOK(r)'
  <2>1. MaxAttempts \in Nat
    BY EmailConstants
  <2> QED BY <1>1, <1>2, <1>5, <1>6, <2>1 DEF RowOK
<1>7. TaskOK(i)'
  BY <1>1, <1>3 DEF TaskOK, Creating, SignupPut
<1>8. /\ s.Version = proofs[id].Version + 1 /\ proofs[id].State # "confirmed"
      /\ wrong' \in [Requests -> Nat] /\ \A r \in Requests \ {id} : wrong'[r] = wrong[r]
      /\ UNCHANGED <<users, sessions>>
  BY <1>1, <1>2, <1>5 DEF TypeOK, SignupPut
<1>9. PICK r \in Requests : r = id
  BY <1>1
<1>10. RowOK(r)' /\ r = task[i].id
  BY <1>6, <1>9
<1> HIDE DEF s
<1> QED
  BY <1>1, <1>3, <1>4, <1>5, <1>7, <1>8, <1>9, <1>10, WriteKeeps

LEMMA RotateKeeps ==
  ASSUME Inv, NEW i \in Invocations, Rotate(i)
  PROVE  Inv'
<1>1. CASE Lose(i)
  BY <1>1, LoseKeeps DEF Rotate
<1>2. ASSUME Holds(i), NEW s, s = Rotated(task[i].t, task[i].read), Swap(i, s),
             wrong' = [wrong EXCEPT ![task[i].id] = 0], GoWith(i, "send", s)
      PROVE  Inv'
  <2> DEFINE t == task[i].t
  <2>1. /\ TypeOK /\ RowOK(task[i].id) /\ TaskOK(i) /\ t \in Transaction
        /\ task[i].id \in Requests /\ proofs[task[i].id] = t
    BY <1>2, HeldRow
  <2>2. s \in Transaction /\ "send" \in Points
    BY <1>2, <2>1, RowTypes, TaskTypes, EmailConstants DEF Points, Transaction
  <2>3. /\ s.State = "pending" /\ s.Version = t.Version + 1 /\ s.Attempts = 0
        /\ s.BHash = s.Generation
    BY <1>2, <2>1 DEF Rotated, Transaction
  <2>4. t.State \in {"pending", "failed"}
    BY <2>1 DEF TaskOK, Rotate
  <2>5. Sole(i)
    BY <2>1, <2>4, UnclaimedIsSole
  <2>6. ASSUME NEW id \in Requests, id = task[i].id PROVE RowOK(id)'
    <3>1. proofs'[id] = s /\ wrong'[id] = 0 /\ s.Version # 0 /\ MaxAttempts \in Nat
      BY <1>2, <2>1, <2>3, <2>6, EmailConstants DEF Swap, TypeOK, Transaction
    <3> QED BY <3>1, <2>3 DEF RowOK
  <2>7. TaskOK(i)'
    <3>1. task'[i].at = "send" /\ task'[i].end = task[i].end /\ now' = now
      BY <1>2, <2>1, <2>2, GoWithFacts DEF Rotate
    <3> QED BY <2>1, <3>1 DEF TaskOK, Creating, Rotate
  <2> QED BY <1>2, <2>1, <2>2, <2>3, <2>4, <2>5, <2>6, <2>7, HeldWriteKeeps DEF Rotate, TypeOK
<1> QED
  BY <1>1, <1>2 DEF Rotate

LEMMA ReclaimKeeps ==
  ASSUME Inv, NEW i \in Invocations, Reclaim(i)
  PROVE  Inv'
<1>1. CASE Lose(i)
  BY <1>1, LoseKeeps DEF Reclaim
<1>2. ASSUME Holds(i), NEW s, s = Reclaimed(task[i].t), Swap(i, s), UNCHANGED wrong,
             IF Usable(s, task[i].t.BHash, task[i].proof)
             THEN GoWith(i, NextPoint(task[i].proof), s) ELSE End(i)
      PROVE  Inv'
  <2> DEFINE t == task[i].t
             at == NextPoint(task[i].proof)
  <2>1. /\ TypeOK /\ RowOK(task[i].id) /\ TaskOK(i) /\ t \in Transaction
        /\ task[i].id \in Requests /\ proofs[task[i].id] = t
    BY <1>2, HeldRow
  <2>2. s \in Transaction /\ at \in Points
    BY <1>2, <2>1, RowTypes, EmailConstants, 0 \in Nat DEF Points, NextPoint
  <2>3. /\ s.State = "pending" /\ s.Version = t.Version + 1 /\ s.Attempts = t.Attempts
        /\ s.BHash = t.BHash /\ s.Generation = t.Generation
    BY <1>2, <2>1 DEF Reclaimed, Transaction
  <2>4. t.State = "confirming"
    BY <2>1 DEF TaskOK, Reclaim
  <2>5. Sole(i)
    BY <1>2, ReclaimerIsSole DEF Reclaim
  <2>6. ASSUME NEW id \in Requests, id = task[i].id PROVE RowOK(id)'
    <3>1. proofs'[id] = s /\ s.Version # 0
      BY <1>2, <2>1, <2>3, <2>6 DEF Swap, TypeOK, Transaction
    <3> QED BY <1>2, <3>1, <2>1, <2>3, <2>4, <2>6 DEF RowOK
  <2>7. ASSUME GoWith(i, at, s), Usable(s, t.BHash, task[i].proof) PROVE TaskOK(i)'
    <3>1. task'[i].at = at /\ task'[i].t = s /\ task'[i].end = task[i].end /\ now' = now
      BY <2>7, <2>1, <2>2, GoWithFacts DEF Reclaim
    <3>2. at \in {"guess", "claim"} /\ (at = "guess" => s.Attempts < MaxAttempts)
      BY <2>7 DEF Usable, NextPoint
    <3> QED BY <2>1, <2>3, <3>1, <3>2 DEF TaskOK, Creating, Reclaim
  <2> QED
    BY <1>2, <2>1, <2>2, <2>3, <2>4, <2>5, <2>6, <2>7, HeldWriteKeeps DEF Reclaim, TypeOK
<1> QED
  BY <1>1, <1>2 DEF Reclaim

LEMMA MissKeeps ==
  ASSUME Inv, NEW i \in Invocations, Miss(i)
  PROVE  Inv'
<1>1. CASE Lose(i)
  BY <1>1, LoseKeeps DEF Miss
<1>2. ASSUME Holds(i), NEW s, s = Missed(task[i].t), Swap(i, s), End(i),
             wrong' = [wrong EXCEPT ![task[i].id] = @ + 1]
      PROVE  Inv'
  <2> DEFINE t == task[i].t
  <2>1. /\ TypeOK /\ RowOK(task[i].id) /\ TaskOK(i) /\ t \in Transaction
        /\ task[i].id \in Requests /\ proofs[task[i].id] = t
    BY <1>2, HeldRow
  <2>2. s \in Transaction /\ "idle" \in Points
    BY <1>2, <2>1, RowTypes, EmailConstants, 0 \in Nat DEF Points
  <2>3. /\ s.State = t.State /\ s.Version = t.Version + 1 /\ s.Attempts = t.Attempts + 1
        /\ s.BHash = t.BHash /\ s.Generation = t.Generation
    BY <1>2, <2>1 DEF Missed, Transaction
  <2>4. t.State = "pending" /\ t.Attempts < MaxAttempts
    BY <2>1 DEF TaskOK, Miss
  <2>5. Sole(i)
    BY <2>1, <2>4, UnclaimedIsSole
  <2>6. ASSUME NEW id \in Requests, id = task[i].id PROVE RowOK(id)'
    <3>1. /\ proofs'[id] = s /\ s.Version # 0 /\ wrong'[id] = wrong[id] + 1
          /\ t.Attempts \in Nat /\ MaxAttempts \in Nat
      BY <1>2, <2>1, <2>3, <2>6, EmailConstants DEF Swap, TypeOK, Transaction
    <3> QED BY <3>1, <2>1, <2>3, <2>4, <2>6 DEF RowOK
  <2>7. wrong' \in [Requests -> Nat] /\ \A r \in Requests \ {task[i].id} : wrong'[r] = wrong[r]
    BY <1>2, <2>1 DEF TypeOK
  <2> QED BY <1>2, <2>1, <2>2, <2>3, <2>4, <2>5, <2>6, <2>7, HeldWriteKeeps DEF Miss
<1> QED
  BY <1>1, <1>2 DEF Miss

LEMMA ClaimKeeps ==
  ASSUME Inv, NEW i \in Invocations, Claim(i)
  PROVE  Inv'
<1>1. CASE Lose(i)
  BY <1>1, LoseKeeps DEF Claim
<1>2. ASSUME Holds(i), NEW s, s = Claimed(task[i].t, now), Swap(i, s), UNCHANGED wrong,
             GoWith(i, "create", s)
      PROVE  Inv'
  <2> DEFINE t == task[i].t
  <2>1. /\ TypeOK /\ RowOK(task[i].id) /\ TaskOK(i) /\ t \in Transaction
        /\ task[i].id \in Requests /\ proofs[task[i].id] = t /\ now \in Nat
    BY <1>2, HeldRow, TaskTypes
  <2>2. s \in Transaction /\ "create" \in Points
    BY <1>2, <2>1, RowTypes, EmailConstants DEF Points
  <2>3. /\ s.State = "confirming" /\ s.Version = t.Version + 1 /\ s.Attempts = t.Attempts
        /\ s.BHash = t.BHash /\ s.Generation = t.Generation /\ s.ClaimedAt = now
    BY <1>2, <2>1 DEF Claimed, Transaction
  <2>4. t.State = "pending"
    BY <2>1 DEF TaskOK, Claim
  <2>5. Sole(i)
    BY <2>1, <2>4, UnclaimedIsSole
  <2>6. ASSUME NEW id \in Requests, id = task[i].id PROVE RowOK(id)'
    <3>1. proofs'[id] = s /\ s.Version # 0
      BY <1>2, <2>1, <2>3, <2>6 DEF Swap, TypeOK, Transaction
    <3> QED BY <1>2, <3>1, <2>1, <2>3, <2>4, <2>6 DEF RowOK
  <2>7. TaskOK(i)'
    <3>1. /\ task'[i].at = "create" /\ task'[i].id = task[i].id /\ task'[i].t = s
          /\ task'[i].end = task[i].end /\ now' = now
      BY <1>2, <2>1, <2>2, GoWithFacts DEF Claim
    <3>2. proofs'[task[i].id] = s
      BY <1>2, <2>1 DEF Swap, TypeOK
    <3>3. now <= task[i].end /\ task[i].end <= now + Timeout
      BY <2>1 DEF TaskOK, Claim
    <3> QED BY <2>1, <2>3, <3>1, <3>2, <3>3 DEF TaskOK, Creating
  <2> QED BY <1>2, <2>1, <2>2, <2>3, <2>4, <2>5, <2>6, <2>7, HeldWriteKeeps DEF Claim, TypeOK
<1> QED
  BY <1>1, <1>2 DEF Claim

LEMMA FailKeeps ==
  ASSUME Inv, NEW i \in Invocations, Fail(i)
  PROVE  Inv'
<1>0. "answer" \in Points /\ TypeOK /\ TaskOK(i) /\ task[i].at = "fail" /\ Go(i, "answer")
      /\ UNCHANGED <<now, users, sessions, mail, spent, wrong, told>>
  BY DEF Inv, Fail, Points
<1>1. /\ task'[i].at = "answer" /\ task'[i].id = task[i].id /\ task'[i].t = task[i].t
      /\ task'[i].end = task[i].end
  BY <1>0, GoFacts
<1>2. TaskOK(i)'
  BY <1>0, <1>1 DEF TaskOK, Creating
<1>3. CASE UNCHANGED proofs
  BY <1>0, <1>2, <1>3, GoKeeps DEF TypeOK, Owning, Creating
<1>4. ASSUME Holds(i), NEW s, s = Broken(task[i].t), Swap(i, s)
      PROVE  Inv'
  <2> DEFINE t == task[i].t
  <2>1. /\ RowOK(task[i].id) /\ t \in Transaction
        /\ task[i].id \in Requests /\ proofs[task[i].id] = t
    BY <1>4, HeldRow
  <2>2. s \in Transaction
    BY <1>4, <2>1, RowTypes, EmailConstants, 0 \in Nat
  <2>3. /\ s.State = "failed" /\ s.Version = t.Version + 1 /\ s.Attempts = t.Attempts
        /\ s.BHash = t.BHash /\ s.Generation = t.Generation
    BY <1>4, <2>1 DEF Broken, Transaction
  <2>4. t.State = "confirming"
    BY <1>0 DEF TaskOK, Creating
  <2>5. Sole(i)
    BY <1>0, ClaimantIsSole DEF Creating
  <2>6. ASSUME NEW r \in Requests PROVE RowOK(r)'
    <3>1. CASE r = task[i].id
      <4>1. proofs'[r] = s /\ s.Version # 0
        BY <1>4, <2>1, <2>3, <3>1, <1>0 DEF Swap, TypeOK, Transaction
      <4> QED BY <1>0, <4>1, <2>1, <2>3, <2>4, <3>1 DEF RowOK
    <3>2. CASE r # task[i].id
      <4>1. proofs'[r] = proofs[r] /\ RowOK(r)
        BY <1>4, <2>1, <3>2, <1>0 DEF Swap, TypeOK, Inv
      <4> QED BY <1>0, <4>1 DEF RowOK
    <3> QED BY <3>1, <3>2
  <2>7. /\ proofs' \in [Requests -> Transaction] /\ proofs'[task[i].id] = s
        /\ \A r \in Requests \ {task[i].id} : proofs'[r] = proofs[r]
    BY <1>0, <1>4, <2>1, <2>2 DEF Swap, TypeOK
  <2>8. TypeOK' /\ \A j \in Invocations \ {i} : task'[j] = task[j]
    BY <1>0, <2>7, GoFacts DEF TypeOK
  <2>9. ASSUME NEW j \in Invocations PROVE Fenced(j)' /\ TaskOK(j)'
    <3>1. /\ Fenced(j) /\ TaskOK(j) /\ task[j].id \in Requests
          /\ task[j].t \in Transaction /\ task[j].t.Version \in Nat
          /\ t.Version \in Nat /\ task'[j].id = task[j].id /\ task'[j].t = task[j].t
      BY <1>0, <1>1, <2>1, <2>8, TaskTypes DEF Inv, Transaction
    <3>2. Fenced(j)'
      <4>1. CASE task[j].id = task[i].id
        BY <2>1, <2>3, <2>7, <3>1, <4>1 DEF Fenced
      <4>2. CASE task[j].id # task[i].id
        BY <2>7, <3>1, <4>2 DEF Fenced
      <4> QED BY <4>1, <4>2
    <3>3. TaskOK(j)'
      <4>1. CASE j = i
        BY <1>2, <4>1
      <4>2. CASE j # i
        <5>1. task[j].at \in Owning => proofs'[task[j].id] = proofs[task[j].id]
          BY <2>5, <2>7, <3>1, <4>2 DEF Sole
        <5> QED BY <1>0, <2>8, <3>1, <4>2, <5>1 DEF TaskOK, Owning
      <4> QED BY <4>1, <4>2
    <3> QED BY <3>2, <3>3
  <2>10. Alone'
    BY <1>1, <2>8 DEF Inv, Alone, Creating
  <2>11. ASSUME NEW e \in Emails PROVE SessionOK(e)'
    <3>1. SessionOK(e) /\ \A r \in Requests : proofs[r].State = "confirmed" => proofs'[r] = proofs[r]
      BY <2>1, <2>4, <2>7 DEF Inv
    <3> QED BY <1>0, <1>1, <2>8, <3>1 DEF SessionOK
  <2> QED BY <2>6, <2>8, <2>9, <2>10, <2>11 DEF Inv
<1> QED
  BY <1>3, <1>4 DEF Fail

LEMMA FinishKeeps ==
  ASSUME Inv, NEW i \in Invocations, Finish(i)
  PROVE  Inv'
<1>0. /\ TypeOK /\ TaskOK(i) /\ task[i].at = "done" /\ task[i].id \in Requests
      /\ UNCHANGED <<now, users, sessions, mail, spent, wrong>>
  BY TaskTypes DEF Inv, Finish
<1>1. CASE UNCHANGED proofs /\ SignInRequired(i)
  <2>1. End(i) /\ told' \subseteq Requests
    BY <1>0, <1>1 DEF SignInRequired, TypeOK
  <2> QED BY <1>0, <1>1, <2>1, EndKeeps DEF TypeOK
<1>2. ASSUME Holds(i), NEW s, s = Done(task[i].t, users[task[i].t.Email]), Swap(i, s),
             GoWith(i, "session", s), UNCHANGED told
      PROVE  Inv'
  <2> DEFINE t == task[i].t
  <2>1. /\ RowOK(task[i].id) /\ t \in Transaction /\ proofs[task[i].id] = t
    BY <1>2, HeldRow
  <2>2. users[t.Email] = task[i].id /\ t.State = "confirming"
    BY <1>0 DEF TaskOK, Creating
  <2>3. s \in Transaction /\ "session" \in Points
    BY <1>0, <1>2, <2>1, <2>2, RowTypes, EmailConstants, 0 \in Nat DEF Points
  <2>4. /\ s.State = "confirmed" /\ s.Version = t.Version + 1 /\ s.Attempts = t.Attempts
        /\ s.BHash = 0 /\ s.CDigest = 0 /\ s.Subject = task[i].id /\ s.Email = t.Email
    BY <1>2, <2>1, <2>2 DEF Done, Transaction
  <2>5. Sole(i)
    BY <1>0, ClaimantIsSole DEF Creating
  <2>6. ASSUME NEW id \in Requests, id = task[i].id PROVE RowOK(id)'
    <3>0. t.Version \in Nat /\ proofs \in [Requests -> Transaction]
      BY <1>0, <2>1 DEF TypeOK, Transaction
    <3>1. proofs'[id] = s
      <4>1. proofs' = [proofs EXCEPT ![task[i].id] = s]
        BY <1>2 DEF Swap
      <4> QED BY <4>1, <2>6, <3>0
    <3>4. s.Version # 0
      <4>1. s.Version = t.Version + 1
        BY <2>4
      <4> HIDE DEF t
      <4> QED BY <4>1, <3>0
    <3>2. wrong' = wrong /\ users' = users
      BY <1>0, <1>2
    <3>3. wrong[id] = t.Attempts /\ t.Attempts <= MaxAttempts /\ users[t.Email] = id
      BY <2>1, <2>2, <2>6 DEF RowOK
    <3> QED BY <3>1, <3>2, <3>3, <3>4, <2>4, <2>6 DEF RowOK
  <2>7. TaskOK(i)'
    <3>1. /\ task'[i].at = "session" /\ task'[i].id = task[i].id /\ task'[i].t = s
          /\ task'[i].end = task[i].end
      BY <1>0, <1>2, <2>3, GoWithFacts
    <3>2. proofs'[task[i].id] = s
      BY <1>0, <1>2 DEF Swap, TypeOK
    <3> QED BY <1>0, <2>4, <3>1, <3>2 DEF TaskOK, Creating
  <2> QED BY <1>0, <1>2, <2>1, <2>2, <2>3, <2>4, <2>5, <2>6, <2>7, HeldWriteKeeps DEF TypeOK
<1> QED
  BY <1>1, <1>2 DEF Finish

----------------------------------------------------------------------------
(* Theorems.                                                               *)

LEMMA InvInit == Init => Inv
<1> SUFFICES ASSUME Init PROVE Inv
  OBVIOUS
<1>1. TypeOK
  BY AbsentTyped, EmailConstants DEF Init, TypeOK
<1>2. /\ Absent.Version = 0 /\ Absent.State = "absent" /\ Absent.Attempts = 0
      /\ Absent.BHash = 0 /\ Absent.Generation = 0
      /\ NoTask.at = "idle" /\ NoTask.t = Absent /\ NoTask.id \in Requests
  BY AbsentTyped DEF Absent, NoTask
<1>3. \A r \in Requests : RowOK(r)
  BY <1>2, EmailConstants DEF Init, RowOK
<1>4. \A i \in Invocations : Fenced(i) /\ TaskOK(i)
  BY <1>2 DEF Init, Fenced, TaskOK, Creating
<1>5. Alone /\ \A e \in Emails : SessionOK(e)
  BY <1>2 DEF Init, Alone, SessionOK, Creating
<1> QED
  BY <1>1, <1>3, <1>4, <1>5 DEF Inv

LEMMA InvNext == ASSUME Inv, Next PROVE Inv'
<1>1. CASE Tick
  BY <1>1, TickKeeps
<1>2. ASSUME NEW i \in Invocations, Steps(i)
      PROVE  Inv'
  BY <1>2, LookupsKeep, ChargesKeep, EndingsKeep, OpenSessionKeeps, CreateKeeps,
     SignupPutKeeps, RotateKeeps, ReclaimKeeps, MissKeeps, ClaimKeeps, FailKeeps,
     FinishKeeps DEF Steps
<1>3. ASSUME NEW i \in Invocations, Calls(i)
      PROVE  Inv'
  BY <1>3, SignupKeeps, SignupLimitedKeeps, ResendKeeps, ConfirmKeeps DEF Calls
<1> QED
  BY <1>1, <1>2, <1>3 DEF Next

\* Inv is inductive: version and state fence every write, and a claim
\* outlives its claimant.
THEOREM EmailInvariantHolds == Spec => []Inv
<1>1. Init => Inv
  BY InvInit
<1>2. Inv /\ [Next]_vars => Inv'
  <2>1. ASSUME Inv, UNCHANGED vars PROVE Inv'
    <3>1. TypeOK' /\ Alone'
      BY <2>1 DEF vars, Inv, TypeOK, Alone
    <3>2. \A r \in Requests : RowOK(r)'
      BY <2>1 DEF vars, Inv, RowOK
    <3>3. \A i \in Invocations : Fenced(i)' /\ TaskOK(i)'
      BY <2>1 DEF vars, Inv, Fenced, TaskOK
    <3>4. \A e \in Emails : SessionOK(e)'
      BY <2>1 DEF vars, Inv, SessionOK
    <3> QED BY <3>1, <3>2, <3>3, <3>4 DEF Inv
  <2> QED BY <2>1, InvNext
<1> QED
  BY <1>1, <1>2, PTL DEF Spec

\* The table holds rows of Transaction's shape, and every invocation is at a
\* known point of signup, resend or confirm.
THEOREM EmailTyped == Spec => []TypeOK
<1>1. Inv => TypeOK
  BY DEF Inv
<1> QED
  BY <1>1, EmailInvariantHolds, PTL

\* No retry of an interrupted confirmation overtakes the invocation that
\* claimed it, and a claim is for the proof that was mailed last.
THEOREM ClaimIsHeld == Spec => []ClaimHeld
<1>1. Inv => ClaimHeld
  BY DEF Inv, ClaimHeld, TaskOK, RowOK, Creating, TypeOK, Task
<1> QED
  BY <1>1, EmailInvariantHolds, PTL

\* However many requests an address makes, one of them is confirmed, with the
\* account it created itself, and it opens at most one session.
THEOREM OneAccountEach == Spec => []OneAccount
<1>1. Inv => OneAccount
  BY DEF Inv, OneAccount, RowOK, SessionOK, TypeOK
<1> QED
  BY <1>1, EmailInvariantHolds, PTL

\* Concurrent wrong codes each use up an attempt of their own.
THEOREM GuessesAreCounted == Spec => []GuessesCounted
<1>1. Inv => GuessesCounted
  BY DEF Inv, GuessesCounted, RowOK
<1> QED
  BY <1>1, EmailInvariantHolds, PTL

----------------------------------------------------------------------------
(* What one step may do to a row.                                          *)

Moves(p, q) ==
  /\ p.State # "confirmed"
  /\ \/ p = Absent
     \/ q.Generation = p.Generation /\ q.LastSent = p.LastSent
     \/ /\ p.State \in {"pending", "failed"}
        /\ q.Generation = p.Generation + 1
        /\ q.Resends <= MaxResends
        /\ q.LastSent >= p.LastSent + Cooldown

LEMMA StepMoves ==
  ASSUME Inv, Next, NEW r \in Requests
  PROVE  proofs'[r] = proofs[r] \/ Moves(proofs[r], proofs'[r])
<1>1. ASSUME NEW i \in Invocations, NEW s, Swap(i, s), Moves(proofs[task[i].id], s)
      PROVE  proofs'[r] = proofs[r] \/ Moves(proofs[r], proofs'[r])
  BY <1>1 DEF Swap, Inv, TypeOK
<1>2. ASSUME NEW i \in Invocations, SignupPut(i)
      PROVE  proofs'[r] = proofs[r] \/ Moves(proofs[r], proofs'[r])
  <2>1. Moves(Absent, Fresh(task[i].email))
    BY DEF Moves, Absent
  <2> QED BY <1>1, <1>2, <2>1 DEF SignupPut
<1>3. ASSUME NEW i \in Invocations, Rotate(i)
      PROVE  proofs'[r] = proofs[r] \/ Moves(proofs[r], proofs'[r])
  <2>1. CASE Holds(i) /\ Swap(i, Rotated(task[i].t, task[i].read))
    <3> DEFINE t == task[i].t
               s == Rotated(t, task[i].read)
    <3>1. proofs[task[i].id] = t /\ t \in Transaction /\ TaskOK(i) /\ task[i].at = "rotate"
      BY <1>3, <2>1, HeldRow DEF Rotate
    <3>2. /\ s.Generation = t.Generation + 1 /\ s.Resends = t.Resends + 1
          /\ s.LastSent = task[i].read
      BY <3>1 DEF Rotated, Transaction
    <3>3. s.Resends <= MaxResends /\ s.LastSent >= t.LastSent + Cooldown
      BY <3>1, <3>2, EmailConstants DEF TaskOK, Transaction
    <3>4. t.State \in {"pending", "failed"}
      BY <3>1 DEF TaskOK
    <3>5. Moves(t, s)
      <4> HIDE DEF s
      <4> QED BY <3>2, <3>3, <3>4 DEF Moves
    <3> QED BY <1>1, <2>1, <3>1, <3>5
  <2>2. CASE UNCHANGED proofs
    BY <2>2
  <2> QED BY <1>3, <2>1, <2>2 DEF Rotate, Lose
<1>4. ASSUME NEW i \in Invocations, Holds(i), NEW s, Swap(i, s),
             task[i].t.State # "confirmed",
             s.Generation = task[i].t.Generation, s.LastSent = task[i].t.LastSent
      PROVE  proofs'[r] = proofs[r] \/ Moves(proofs[r], proofs'[r])
  <2>1. Moves(proofs[task[i].id], s)
    BY <1>4, HeldRow DEF Moves
  <2> QED BY <1>1, <1>4, <2>1
<1>5. ASSUME NEW i \in Invocations,
             Reclaim(i) \/ Miss(i) \/ Claim(i) \/ Fail(i) \/ Finish(i)
      PROVE  proofs'[r] = proofs[r] \/ Moves(proofs[r], proofs'[r])
  <2>1. task[i].t.State # "confirmed" /\ task[i].t \in Transaction
    BY <1>5, TaskTypes DEF Inv, TaskOK, Reclaim, Miss, Claim, Fail, Finish, Creating
  <2>2. CASE UNCHANGED proofs
    BY <2>2
  <2>3. ASSUME NEW s, Holds(i), Swap(i, s),
               \/ s = Reclaimed(task[i].t) \/ s = Missed(task[i].t)
               \/ s = Claimed(task[i].t, now) \/ s = Broken(task[i].t)
               \/ s = Done(task[i].t, users[task[i].t.Email])
        PROVE  proofs'[r] = proofs[r] \/ Moves(proofs[r], proofs'[r])
    <3>1. s.Generation = task[i].t.Generation /\ s.LastSent = task[i].t.LastSent
      BY <2>1, <2>3 DEF Reclaimed, Missed, Claimed, Broken, Done, Transaction
    <3> QED BY <1>4, <2>1, <2>3, <3>1
  <2> QED
    BY <1>5, <2>2, <2>3 DEF Reclaim, Miss, Claim, Fail, Finish, Lose
<1>6. ASSUME NEW i \in Invocations, Steps(i)
      PROVE  proofs'[r] = proofs[r] \/ Moves(proofs[r], proofs'[r])
  BY <1>2, <1>3, <1>5, <1>6 DEF Steps, SignupLookup, Send, ResendLookup, ResendCharge,
     Recover, Guess, Create, CreateFails, Answer, OpenSession, Die
<1>7. ASSUME NEW i \in Invocations, Calls(i)
      PROVE  proofs'[r] = proofs[r]
  BY <1>7 DEF Calls, Signup, SignupLimited, Resend, Confirm
<1>8. CASE Tick
  BY <1>8 DEF Tick
<1> QED
  BY <1>6, <1>7, <1>8 DEF Next

\* Rotations of a proof stay within their number and apart in time, whichever
\* resends run at once.
THEOREM RotationsAreSpaced == Spec => RotationsSpaced
<1>1. ASSUME Inv, [Next]_vars
      PROVE  [\A r \in Requests :
                proofs[r] # Absent /\ <<proofs[r].Generation, proofs[r].LastSent>>
                                       # <<proofs'[r].Generation, proofs'[r].LastSent>> =>
                  /\ proofs[r].State \in {"pending", "failed"}
                  /\ proofs'[r].Generation = proofs[r].Generation + 1
                  /\ proofs'[r].Resends <= MaxResends
                  /\ proofs'[r].LastSent >= proofs[r].LastSent + Cooldown]_vars
  BY <1>1, StepMoves DEF Moves
<1> QED
  BY <1>1, EmailInvariantHolds, PTL DEF Spec, RotationsSpaced

\* A confirmed proof is never reopened.
THEOREM ConfirmedIsFinal == Spec => ConfirmedStays
<1>1. ASSUME Inv, [Next]_vars
      PROVE  [\A r \in Requests :
                proofs[r].State = "confirmed" => proofs'[r] = proofs[r]]_vars
  BY <1>1, StepMoves DEF Moves
<1> QED
  BY <1>1, EmailInvariantHolds, PTL DEF Spec, ConfirmedStays
=============================================================================
