----------------------------- MODULE IndexProofs -----------------------------
(* What holds of every deployment under an index lease, for any number of checkouts,
   attempts, late requests and faults.

   Whoever works holds the lease because of three facts, each kept by every step:
     - a request that would end a lease was sent by a command that is past its work, and
       no command under that token ever works again (LateIsPast);
     - a revision is given to one lease only, the one that holds the lock while the row
       is at it (Fenced);
     - a teardown that has the lease on disk, and has not destroyed the stack, keeps it
       whether or not its command runs (Holding).

   The index follows the stack because a receipt, and a request, whose lease the row
   still confirms is right about the stack (FollowInv): only the holder of the lease
   changes the stack, before it asks for anything else, and a lease that is over never
   comes back at a revision already given (NoReturn). *)
EXTENDS IndexLease, TLAPS

----------------------------------------------------------------------------
\* Types.

\* What the handlers make of a row is a row.
LEMMA RowTyped ==
  ASSUME NEW rw \in Row, NEW q \in Requests, NEW seen \in Texts, NEW since \in Nat
  PROVE  /\ Begun(rw, q.token) \in Row /\ Published(rw, q, seen, since) \in Row
         /\ Retired(rw) \in Row /\ Removed(rw, q) \in Row /\ Abandoned(rw, q) \in Row
         /\ Listed(rw) \in Texts /\ [rw EXCEPT !.Lock = 0, !.Revision = @ + 1] \in Row
<1>1. q.token \in Nat /\ q.revision \in Nat /\ q.content \in Texts
  BY DEF Requests
<1>2. rw.Revision + 1 \in Nat
  BY DEF Row
<1>3. Begun(rw, q.token) \in Row
  BY <1>1, <1>2 DEF Begun, Row
<1>4. Published(rw, q, seen, since) \in Row
  BY <1>1 DEF Published, Row, Texts
<1>5. Retired(rw) \in Row
  BY DEF Retired, Row
<1>6. Removed(rw, q) \in Row
  BY <1>1 DEF Removed, Row
<1>7. Abandoned(rw, q) \in Row
  BY <1>1 DEF Abandoned, Row
<1>8. Listed(rw) \in Texts
  BY DEF Listed, Row, Texts
<1>9. [rw EXCEPT !.Lock = 0, !.Revision = @ + 1] \in Row
  BY <1>2 DEF Row
<1> QED BY <1>3, <1>4, <1>5, <1>6, <1>7, <1>8, <1>9

\* Receipts and commands have their types, however they are written.
LEMMA NoFileTyped == NoFile \in Files
BY DEF NoFile, Files, Texts, Kinds

LEMMA AtTyped == ASSUME NEW p \in Places PROVE At(p) \in Commands
BY DEF At, Commands

LEMMA AfterTyped ==
  ASSUME TypeOK, NEW t \in Tools, NEW yes \in BOOLEAN, NEW revision \in Nat
  PROVE  After(t, yes, revision).file \in Files /\ After(t, yes, revision).tool \in Commands
<1> DEFINE f == file[t]
           place == tool[t].at
<1>1. f \in Files
  BY DEF TypeOK
<1>2. [f EXCEPT !.revision = revision] \in Files /\ [f EXCEPT !.retired = TRUE] \in Files
  BY <1>1 DEF Files
<1>3. \A p \in {"reserved", "idle", "release", "publish", "delete"} : At(p) \in Commands
  BY AtTyped DEF Places, Calling
<1>4. NoFile \in Files
  BY NoFileTyped
<1> HIDE DEF f, place
<1>5. /\ After(t, yes, revision).file \in {f, NoFile, [f EXCEPT !.revision = revision],
                                          [f EXCEPT !.retired = TRUE]}
      /\ After(t, yes, revision).tool \in {At("reserved"), At("idle"), At("release"),
                                          At("publish"), At("delete")}
  BY DEF After, f, place
<1> QED BY <1>1, <1>2, <1>3, <1>4, <1>5

LEMMA AnswerTyped ==
  ASSUME TypeOK, NEW q \in Requests, NEW yes \in BOOLEAN, NEW revision \in Nat,
         Answer(q, yes, revision)
  PROVE  file' \in [Tools -> Files] /\ tool' \in [Tools -> Commands]
<1>1. q.tool \in Tools
  BY DEF Requests
<1>2. CASE ~q.heard
  BY <1>2 DEF Answer, TypeOK
<1>3. CASE q.heard
  <2>1. /\ After(q.tool, yes, revision).file \in Files
        /\ After(q.tool, yes, revision).tool \in Commands
    BY <1>1, AfterTyped
  <2>2. /\ file' = [file EXCEPT ![q.tool] = After(q.tool, yes, revision).file]
        /\ tool' = [tool EXCEPT ![q.tool] = After(q.tool, yes, revision).tool]
    BY <1>3 DEF Answer
  <2> QED BY <2>1, <2>2 DEF TypeOK
<1> QED BY <1>2, <1>3

\* An answered request is gone; one that goes on is a request.
LEMMA AnsweredTyped ==
  ASSUME TypeOK, NEW q \in requests, NEW yes \in BOOLEAN, NEW revision \in Nat,
         Answered(q, yes, revision)
  PROVE  file' \in [Tools -> Files] /\ tool' \in [Tools -> Commands]
         /\ requests' \subseteq Requests
<1>1. q \in Requests
  BY DEF TypeOK
<1>2. file' \in [Tools -> Files] /\ tool' \in [Tools -> Commands]
  BY <1>1, AnswerTyped DEF Answered
<1> QED BY <1>2 DEF Answered, TypeOK

LEMMA GoesTyped ==
  ASSUME TypeOK, NEW q \in requests, NEW next \in Requests, Goes(q, next)
  PROVE  file' \in [Tools -> Files] /\ tool' \in [Tools -> Commands]
         /\ requests' \subseteq Requests
BY DEF Goes, TypeOK

LEMMA RequestMoves ==
  ASSUME NEW q \in Requests, NEW seen \in Texts, NEW since \in Nat
  PROVE  /\ \A a \in {"sent", "read", "refused"} : [q EXCEPT !.at = a] \in Requests
         /\ [q EXCEPT !.at = "read", !.seen = seen, !.since = since] \in Requests
         /\ [q EXCEPT !.at = "read", !.since = since] \in Requests
         /\ [q EXCEPT !.heard = FALSE] \in Requests
BY DEF Requests

LEMMA HandlersTyped ==
  ASSUME TypeOK, NEW q \in requests,
         \/ ReadBegin(q) \/ WriteBegin(q) \/ RereadBegin(q)
         \/ ReadChange(q) \/ WriteChange(q) \/ ReadDefaults(q) \/ WriteDefaults(q)
  PROVE  TypeOK'
<1>1. q \in Requests /\ q.token \in Nat /\ q.revision \in Nat /\ q.content \in Texts
      /\ q.seen \in Texts /\ q.since \in Nat
  BY DEF TypeOK, Requests
<1>2. row \in Row /\ row.Revision \in Nat /\ row.Revision + 1 \in Nat /\ row.Since \in Nat
      /\ Listed(row) \in Texts /\ synced.Generation \in Nat
  BY <1>1, RowTyped DEF TypeOK, Row
<1>3. \A next \in Requests : Goes(q, next) =>
        file' \in [Tools -> Files] /\ tool' \in [Tools -> Commands] /\ requests' \subseteq Requests
  BY GoesTyped
<1>4. \A yes \in BOOLEAN, revision \in Nat : Answered(q, yes, revision) =>
        file' \in [Tools -> Files] /\ tool' \in [Tools -> Commands] /\ requests' \subseteq Requests
  BY AnsweredTyped
<1>5. 0 \in Nat /\ (row.Lock = q.token) \in BOOLEAN
      /\ (synced = [Generation |-> q.revision, Text |-> q.content]) \in BOOLEAN
  OBVIOUS
<1>6. /\ \A a \in {"sent", "read", "refused"} : [q EXCEPT !.at = a] \in Requests
      /\ [q EXCEPT !.at = "read", !.seen = Listed(row), !.since = row.Since] \in Requests
      /\ [q EXCEPT !.at = "read", !.since = synced.Generation] \in Requests
  BY <1>1, <1>2, RequestMoves
<1>7. CASE ReadBegin(q)
  <2>1. /\ file' \in [Tools -> Files] /\ tool' \in [Tools -> Commands]
        /\ requests' \subseteq Requests
    <3>1. CASE Answered(q, TRUE, row.Revision)
      BY <3>1, <1>2, <1>4
    <3>2. CASE Answered(q, FALSE, 0)
      BY <3>2, <1>4, <1>5
    <3>3. CASE Goes(q, [q EXCEPT !.at = "read"])
      BY <3>3, <1>3, <1>6
    <3> QED BY <3>1, <3>2, <3>3, <1>7 DEF ReadBegin
  <2> QED BY <2>1, <1>7 DEF ReadBegin, TypeOK
<1>8. CASE WriteBegin(q)
  <2>1. CASE Answer(q, TRUE, row.Revision + 1) /\ row' = Begun(row, q.token)
    <3>1. file' \in [Tools -> Files] /\ tool' \in [Tools -> Commands]
      BY <2>1, <1>1, <1>2, AnswerTyped
    <3>2. row' \in Row
      BY <2>1, <1>1, <1>2, RowTyped
    <3>3. requests' \subseteq Requests
      BY <2>1, <1>3, <1>6, <1>8 DEF WriteBegin, TypeOK, Answered
    <3> QED BY <3>1, <3>2, <3>3, <1>8 DEF WriteBegin, TypeOK
  <2>2. CASE Goes(q, [q EXCEPT !.at = "refused"]) /\ UNCHANGED row
    <3>1. /\ file' \in [Tools -> Files] /\ tool' \in [Tools -> Commands]
          /\ requests' \subseteq Requests
      BY <2>2, <1>3, <1>6
    <3> QED BY <2>2, <3>1, <1>8 DEF WriteBegin, TypeOK
  <2> QED BY <2>1, <2>2, <1>8 DEF WriteBegin, Answered
<1>9. CASE RereadBegin(q)
  <2>1. Answered(q, row.Lock = q.token, row.Revision)
    BY <1>9 DEF RereadBegin
  <2>2. /\ file' \in [Tools -> Files] /\ tool' \in [Tools -> Commands]
        /\ requests' \subseteq Requests
    BY <2>1, <1>2, <1>4, <1>5
  <2> QED BY <2>2, <1>9 DEF RereadBegin, TypeOK
<1>10. CASE ReadChange(q)
  <2>1. /\ file' \in [Tools -> Files] /\ tool' \in [Tools -> Commands]
        /\ requests' \subseteq Requests
    <3>1. CASE Answered(q, FALSE, 0) \/ Answered(q, TRUE, 0)
      BY <3>1, <1>4, <1>5
    <3>2. CASE Goes(q, [q EXCEPT !.at = "read", !.seen = Listed(row), !.since = row.Since])
      BY <3>2, <1>3, <1>6
    <3> QED BY <3>1, <3>2, <1>10 DEF ReadChange
  <2> QED BY <2>1, <1>10 DEF ReadChange, TypeOK
<1>11. CASE WriteChange(q)
  <2>1. Answered(q, FALSE, 0) \/ Answered(q, TRUE, 0)
    BY <1>11 DEF WriteChange
  <2>2. /\ file' \in [Tools -> Files] /\ tool' \in [Tools -> Commands]
        /\ requests' \subseteq Requests
    BY <2>1, <1>4, <1>5
  <2>3. /\ Published(row, q, q.seen, q.since) \in Row /\ Retired(row) \in Row
        /\ Removed(row, q) \in Row /\ Abandoned(row, q) \in Row
    BY <1>1, <1>2, RowTyped
  <2>4. row' \in Row
    BY <2>3, <1>2, <1>11 DEF WriteChange
  <2> QED BY <2>2, <2>4, <1>11 DEF WriteChange, TypeOK
<1>12. CASE ReadDefaults(q)
  <2>1. /\ file' \in [Tools -> Files] /\ tool' \in [Tools -> Commands]
        /\ requests' \subseteq Requests
    <3>1. CASE Answered(q, synced = [Generation |-> q.revision, Text |-> q.content], 0)
      BY <3>1, <1>4, <1>5
    <3>2. CASE Goes(q, [q EXCEPT !.at = "read", !.since = synced.Generation])
      BY <3>2, <1>3, <1>6
    <3> QED BY <3>1, <3>2, <1>12 DEF ReadDefaults
  <2> QED BY <2>1, <1>12 DEF ReadDefaults, TypeOK
<1>13. CASE WriteDefaults(q)
  <2>1. /\ file' \in [Tools -> Files] /\ tool' \in [Tools -> Commands]
        /\ requests' \subseteq Requests
    <3>1. Answered(q, FALSE, 0) \/ Answered(q, TRUE, 0)
      BY <1>13 DEF WriteDefaults
    <3> QED BY <3>1, <1>4, <1>5
  <2>2. synced' \in [Generation : Nat, Text : Texts]
    <3>1. [Generation |-> q.revision, Text |-> q.content] \in [Generation : Nat, Text : Texts]
      BY <1>1
    <3> QED BY <3>1, <1>13 DEF WriteDefaults, TypeOK
  <2> QED BY <2>1, <2>2, <1>13 DEF WriteDefaults, TypeOK
<1> QED BY <1>7, <1>8, <1>9, <1>10, <1>11, <1>12, <1>13

LEMMA ClientTyped ==
  ASSUME TypeOK, NEW t \in Tools,
         \/ Send(t) \/ GiveUp(t) \/ Crash(t) \/ \E q \in requests : Lose(q)
  PROVE  TypeOK'
<1>1. /\ file[t] \in Files /\ tool[t] \in Commands /\ tool[t].at \in Places
      /\ tool[t].tries + 1 \in Nat /\ faults + 1 \in Nat /\ At("idle") \in Commands
  BY AtTyped DEF TypeOK, Commands, Places
<1>2. ASSUME NEW q \in requests, Unheard(q) PROVE requests' \subseteq Requests
  <2>1. [q EXCEPT !.heard = FALSE] \in Requests
    BY DEF TypeOK, Requests
  <2> QED BY <2>1, <1>2 DEF Unheard, TypeOK
<1>3. CASE Send(t)
  <2>1. /\ file[t].token \in Nat /\ file[t].revision \in Nat /\ file[t].config \in Texts
        /\ Nothing \in Texts /\ 0 \in Nat
    BY <1>1 DEF Files, Texts
  <2>2. OpOf(tool[t].at) \in Operations
    BY <1>3 DEF Send, OpOf, Operations, Calling
  <2> DEFINE q == [tool |-> t, op |-> OpOf(tool[t].at), token |-> file[t].token,
                   revision |-> file[t].revision, content |-> file[t].config,
                   at |-> "sent", seen |-> Nothing, since |-> 0, heard |-> TRUE]
  <2>7. q \in Requests
    BY <2>1, <2>2 DEF Requests
  <2>8. requests' = requests \cup {q}
    BY <1>3 DEF Send
  <2> HIDE DEF q
  <2>3. requests' \subseteq Requests
    BY <2>7, <2>8 DEF TypeOK
  <2>4. [tool[t] EXCEPT !.tries = @ + 1] \in Commands
    BY <1>1 DEF Commands
  <2>5. tool' = [tool EXCEPT ![t] = [tool[t] EXCEPT !.tries = @ + 1]]
    BY <1>3 DEF Send
  <2>6. tool' \in [Tools -> Commands]
    BY <2>4, <2>5 DEF TypeOK
  <2> QED BY <2>3, <2>6, <1>3 DEF Send, TypeOK
<1>4. CASE GiveUp(t)
  BY <1>1, <1>4 DEF GiveUp, TypeOK
<1>5. CASE Crash(t)
  <2>1. requests' \subseteq Requests
    BY <1>2, <1>5 DEF Crash, TypeOK
  <2> QED BY <2>1, <1>1, <1>5 DEF Crash, TypeOK
<1>6. ASSUME NEW q \in requests, Lose(q) PROVE TypeOK'
  <2>1. requests' \subseteq Requests
    BY <1>2, <1>6 DEF Lose
  <2> QED BY <2>1, <1>1, <1>6 DEF Lose, TypeOK
<1> QED BY <1>3, <1>4, <1>5, <1>6

LEMMA CommandsTyped ==
  ASSUME TypeOK, NEW t \in Tools,
         \/ \E kind \in Kinds : Begin(t, kind)
         \/ \E c \in Contents : Deploy(t, c)
         \/ DeployFails(t) \/ Destroy(t) \/ SaveWork(t) \/ ReadOutputs(t)
         \/ Resume(t) \/ Release(t) \/ LoseReceipt(t)
  PROVE  TypeOK'
<1>1. /\ file[t] \in Files /\ drawn + 1 \in Nat /\ faults + 1 \in Nat /\ stack \in Texts
      /\ NoFile \in Files /\ Nothing \in Texts /\ Contents \subseteq Texts
  BY NoFileTyped DEF TypeOK, Texts
<1>2. \A place \in Places : At(place) \in Commands
  BY AtTyped
<1>3. \A k \in Kinds : [NoFile EXCEPT !.token = drawn + 1, !.kind = k] \in Files
  BY <1>1 DEF Files
<1>4. [file[t] EXCEPT !.done = TRUE] \in Files /\ [file[t] EXCEPT !.config = stack] \in Files
  BY <1>1 DEF Files
<1>5. ASSUME NEW kind \in Kinds, Begin(t, kind) PROVE TypeOK'
  BY <1>1, <1>2, <1>3, <1>5 DEF Begin, TypeOK, Places, Calling
<1>6. ASSUME NEW c \in Contents, Deploy(t, c) PROVE TypeOK'
  BY <1>1, <1>2, <1>6 DEF Deploy, TypeOK, Places, Calling
<1>7. CASE DeployFails(t)
  BY <1>1, <1>2, <1>7 DEF DeployFails, TypeOK, Places, Calling
<1>8. CASE Destroy(t)
  BY <1>1, <1>2, <1>8 DEF Destroy, TypeOK, Places, Calling
<1>9. CASE SaveWork(t)
  <2>1. file' = [file EXCEPT ![t] = [file[t] EXCEPT !.done = TRUE]]
    BY <1>9 DEF SaveWork
  <2>2. file' \in [Tools -> Files]
    BY <2>1, <1>4 DEF TypeOK
  <2>3. tool' \in [Tools -> Commands]
    BY <1>2, <1>9 DEF SaveWork, TypeOK, Places, Calling
  <2> QED BY <2>2, <2>3, <1>9 DEF SaveWork, TypeOK
<1>10. CASE ReadOutputs(t)
  <2>1. file' = [file EXCEPT ![t] = [file[t] EXCEPT !.config = stack]]
    BY <1>10 DEF ReadOutputs
  <2>2. file' \in [Tools -> Files]
    BY <2>1, <1>4 DEF TypeOK
  <2>3. tool' \in [Tools -> Commands]
    BY <1>2, <1>10 DEF ReadOutputs, TypeOK, Places, Calling
  <2> QED BY <2>2, <2>3, <1>10 DEF ReadOutputs, TypeOK
<1>11. CASE Resume(t)
  <2>1. \E place \in Places : tool' = [tool EXCEPT ![t] = At(place)]
    BY <1>11 DEF Resume, Places, Calling
  <2>2. tool' \in [Tools -> Commands]
    BY <2>1, <1>2 DEF TypeOK
  <2> QED BY <2>2, <1>11 DEF Resume, TypeOK
<1>12. CASE Release(t)
  BY <1>2, <1>12 DEF Release, TypeOK, Places, Calling
<1>13. CASE LoseReceipt(t)
  BY <1>1, <1>13 DEF LoseReceipt, TypeOK
<1> QED BY <1>5, <1>6, <1>7, <1>8, <1>9, <1>10, <1>11, <1>12, <1>13

\* Every step keeps the types.
LEMMA StepTyped == TypeOK /\ [Next]_vars => TypeOK'
<1> SUFFICES ASSUME TypeOK, [Next]_vars PROVE TypeOK'
  OBVIOUS
<1>1. ASSUME NEW q \in requests,
             \/ ReadBegin(q) \/ WriteBegin(q) \/ RereadBegin(q)
             \/ ReadChange(q) \/ WriteChange(q) \/ ReadDefaults(q) \/ WriteDefaults(q)
      PROVE TypeOK'
  BY <1>1, HandlersTyped
<1>2. ASSUME NEW q \in requests, Lose(q) PROVE TypeOK'
  <2>1. q.tool \in Tools
    BY DEF TypeOK, Requests
  <2> QED BY <2>1, <1>2, ClientTyped
<1>3. ASSUME NEW t \in Tools, Send(t) \/ GiveUp(t) \/ Crash(t) PROVE TypeOK'
  BY <1>3, ClientTyped
<1>4. ASSUME NEW t \in Tools,
             \/ \E kind \in Kinds : Begin(t, kind)
             \/ \E c \in Contents : Deploy(t, c)
             \/ DeployFails(t) \/ Destroy(t) \/ SaveWork(t) \/ ReadOutputs(t)
             \/ Resume(t) \/ Release(t) \/ LoseReceipt(t)
      PROVE TypeOK'
  BY <1>4, CommandsTyped
<1>5. CASE Repair
  <2>1. row' = [row EXCEPT !.Lock = 0, !.Revision = @ + 1]
    BY <1>5 DEF Repair
  <2>2. row \in Row /\ row.Revision + 1 \in Nat /\ 0 \in Nat
    BY DEF TypeOK, Row
  <2>3. row' \in Row
    BY <2>1, <2>2, Zenon DEF Row
  <2> QED BY <2>3, <1>5 DEF Repair, TypeOK
<1>6. CASE UNCHANGED vars
  BY <1>6 DEF vars, TypeOK
<1> QED BY <1>1, <1>2, <1>3, <1>4, <1>5, <1>6 DEF Next

LEMMA InitTyped == Init => TypeOK
<1> SUFFICES ASSUME Init PROVE TypeOK
  OBVIOUS
<1>1. NoFile \in Files /\ At("idle") \in Commands
  BY NoFileTyped, AtTyped DEF Places
<1>2. row \in Row
  BY DEF Init, NoRow, Row
<1> QED BY <1>1, <1>2 DEF Init, TypeOK, Texts

\* Rows, receipts, commands and requests keep their types, in particular a lock is a
\* token or none, and never a null (registry/registry.go change).
THEOREM IndexTyped == Spec => []TypeOK
BY InitTyped, StepTyped, PTL DEF Spec

----------------------------------------------------------------------------
\* The inductive invariant.

\* Where a command is fits its receipt.
Fits(f, place) ==
  /\ f.kind = "teardown" \/ f.revision # 0 \/ f.done \/ place # "idle" => f.token # 0
  /\ f.done => f.revision # 0
  /\ place = "begin" => f.revision = 0
  /\ place \in {"reserved", "worked"} => f.revision # 0
  /\ place \in {"begin", "reserved", "worked"} /\ f.kind = "teardown" => ~f.done
  /\ place \in {"rebegin", "abandon", "release", "defaults", "publish", "outputs"}
       => f.kind = "deploy"
  /\ place \in {"retire", "delete"} => f.kind = "teardown" /\ f.done

\* A command that has the lease and is not past its work, or will have it when resumed.
Holding(f, place) ==
  place \in {"reserved", "worked"} \/ (f.kind = "teardown" /\ f.revision # 0 /\ ~f.done)
Holds(rw, f, place) == Holding(f, place) => rw.Lock = f.token /\ rw.Revision = f.revision

\* No later lease has the revision of a receipt.
Fenced(rw, f) ==
  f.revision # 0 =>
    /\ f.revision <= rw.Revision
    /\ f.revision = rw.Revision => rw.Lock \in {0, f.token}

\* Before its work a command has asked for nothing but the lease, under its token.
BeforeWork(f, place) ==
  place \in {"begin", "reserved", "worked"} \/ (f.kind = "teardown" /\ ~f.done)
LateIsPast(q, f, place) == q.op # "begin" /\ q.token = f.token => ~BeforeWork(f, place)

\* What a tool listens to is the change it is at.
Heard(q, f, place) ==
  q.heard => place \in Calling /\ q.op = OpOf(place) /\ q.token = f.token

RowSound(rw) == rw.Lock # 0 => rw.Revision # 0
ToolsSound(rw, fl, tl, dr) ==
  /\ \A t \in Tools : /\ Fits(fl[t], tl[t].at) /\ Holds(rw, fl[t], tl[t].at)
                      /\ Fenced(rw, fl[t]) /\ fl[t].token <= dr
  /\ \A t, u \in Tools : t # u =>
       /\ fl[t].token # 0 => fl[t].token # fl[u].token
       /\ fl[t].revision # 0 => fl[t].revision # fl[u].revision
RequestsSound(rq, fl, tl, dr) ==
  /\ \A q \in rq : /\ q.token # 0 /\ q.token <= dr
                   /\ Heard(q, fl[q.tool], tl[q.tool].at)
                   /\ \A t \in Tools : LateIsPast(q, fl[t], tl[t].at)
  /\ \A q, o \in rq : q.heard /\ o.heard /\ q.tool = o.tool => q = o

LeaseInv ==
  /\ TypeOK /\ RowSound(row)
  /\ ToolsSound(row, file, tool, drawn)
  /\ RequestsSound(requests, file, tool, drawn)

----------------------------------------------------------------------------
\* Requests come and go.

LEMMA FewerRequests ==
  ASSUME NEW rq, NEW rq2 \in SUBSET rq, NEW fl, NEW tl, NEW dr,
         RequestsSound(rq, fl, tl, dr)
  PROVE  RequestsSound(rq2, fl, tl, dr)
BY DEF RequestsSound

\* A request goes on, or its sender no longer listens.
LEMMA RequestReplaced ==
  ASSUME NEW rq, NEW q \in rq, NEW n, NEW fl, NEW tl, NEW dr,
         RequestsSound(rq, fl, tl, dr),
         n.tool = q.tool, n.op = q.op, n.token = q.token, n.heard => q.heard
  PROVE  RequestsSound((rq \ {q}) \cup {n}, fl, tl, dr)
<1> DEFINE rq2 == (rq \ {q}) \cup {n}
<1>1. ASSUME NEW o \in rq2
      PROVE  /\ o.token # 0 /\ o.token <= dr
             /\ Heard(o, fl[o.tool], tl[o.tool].at)
             /\ \A t \in Tools : LateIsPast(o, fl[t], tl[t].at)
  <2>1. CASE o \in rq
    BY <2>1 DEF RequestsSound
  <2>2. CASE o = n
    BY <2>2 DEF RequestsSound, Heard, LateIsPast
  <2> QED BY <2>1, <2>2
<1>2. ASSUME NEW o \in rq2, NEW p \in rq2, o.heard, p.heard, o.tool = p.tool PROVE o = p
  BY <1>2 DEF RequestsSound
<1> QED BY <1>1, <1>2 DEF RequestsSound

----------------------------------------------------------------------------
\* The row changes.

\* A lease is taken.
LEMMA RowBegun ==
  ASSUME NEW rw \in Row, NEW k \in Nat \ {0}, NEW fl \in [Tools -> Files], NEW tl, NEW dr,
         ToolsSound(rw, fl, tl, dr), rw.Lock = 0
  PROVE  RowSound(Begun(rw, k)) /\ ToolsSound(Begun(rw, k), fl, tl, dr)
<1> DEFINE rw2 == Begun(rw, k)
<1>1. rw2.Lock = k /\ rw2.Revision = rw.Revision + 1 /\ rw.Revision \in Nat
  BY DEF Begun, Row
<1>2. ASSUME NEW t \in Tools
      PROVE  /\ Fits(fl[t], tl[t].at) /\ Holds(rw2, fl[t], tl[t].at) /\ Fenced(rw2, fl[t])
             /\ fl[t].token <= dr
  <2>1. fl[t].revision \in Nat
    BY DEF Files
  <2>2. Fits(fl[t], tl[t].at) /\ Holds(rw, fl[t], tl[t].at) /\ Fenced(rw, fl[t])
        /\ fl[t].token <= dr
    BY DEF ToolsSound
  <2>3. ~Holding(fl[t], tl[t].at)
    BY <2>2 DEF Holds, Fits, Holding
  <2>4. Fenced(rw2, fl[t])
    BY <1>1, <2>1, <2>2 DEF Fenced
  <2> QED BY <2>2, <2>3, <2>4 DEF Holds
<1>3. RowSound(rw2)
  BY <1>1 DEF RowSound
<1> HIDE DEF rw2
<1> QED BY <1>2, <1>3 DEF ToolsSound, rw2

\* A lock that no tool before its work holds may go, and the revision may grow.
LEMMA RowReleased ==
  ASSUME NEW rw \in Row, NEW rw2 \in Row, NEW fl \in [Tools -> Files], NEW tl, NEW dr,
         RowSound(rw), ToolsSound(rw, fl, tl, dr),
         rw2.Lock \in {0, rw.Lock}, rw2.Revision >= rw.Revision,
         \A t \in Tools : fl[t].token = rw.Lock => ~Holding(fl[t], tl[t].at)
  PROVE  RowSound(rw2) /\ ToolsSound(rw2, fl, tl, dr)
<1>1. rw.Revision \in Nat /\ rw2.Revision \in Nat
  BY DEF Row
<1>2. ASSUME NEW t \in Tools
      PROVE  /\ Fits(fl[t], tl[t].at) /\ Holds(rw2, fl[t], tl[t].at) /\ Fenced(rw2, fl[t])
             /\ fl[t].token <= dr
  <2>1. fl[t].revision \in Nat
    BY DEF Files
  <2>2. Fits(fl[t], tl[t].at) /\ Holds(rw, fl[t], tl[t].at) /\ Fenced(rw, fl[t])
        /\ fl[t].token <= dr
    BY DEF ToolsSound
  <2>3. ~Holding(fl[t], tl[t].at)
    BY <2>2 DEF Holds
  <2>4. Fenced(rw2, fl[t])
    BY <1>1, <2>1, <2>2 DEF Fenced
  <2> QED BY <2>2, <2>3, <2>4 DEF Holds
<1>3. RowSound(rw2)
  BY <1>1 DEF RowSound
<1> QED BY <1>2, <1>3 DEF ToolsSound

----------------------------------------------------------------------------
\* A tool that listens to nothing moves.

LEMMA ToolMoves ==
  ASSUME NEW rw, NEW fl \in [Tools -> Files], NEW tl \in [Tools -> Commands], NEW rq \in SUBSET Requests,
         NEW dr \in Nat, NEW dr2 \in Nat, dr <= dr2,
         ToolsSound(rw, fl, tl, dr), RequestsSound(rq, fl, tl, dr),
         NEW t \in Tools, NEW f2 \in Files, NEW c2,
         \A q \in rq : ~(q.heard /\ q.tool = t),
         Fits(f2, c2.at), Holds(rw, f2, c2.at), Fenced(rw, f2), f2.token <= dr2,
         f2.token \in {0, fl[t].token} \/ f2.token > dr,
         \A u \in Tools \ {t} : f2.revision # 0 => f2.revision # fl[u].revision,
         BeforeWork(f2, c2.at) /\ f2.token = fl[t].token => BeforeWork(fl[t], tl[t].at)
  PROVE  /\ ToolsSound(rw, [fl EXCEPT ![t] = f2], [tl EXCEPT ![t] = c2], dr2)
         /\ RequestsSound(rq, [fl EXCEPT ![t] = f2], [tl EXCEPT ![t] = c2], dr2)
<1> DEFINE fl2 == [fl EXCEPT ![t] = f2]
           tl2 == [tl EXCEPT ![t] = c2]
<1>1. fl2[t] = f2 /\ tl2[t] = c2
      /\ \A u \in Tools \ {t} : fl2[u] = fl[u] /\ tl2[u] = tl[u]
  OBVIOUS
<1>2. \A u \in Tools : fl[u].token \in Nat /\ fl[u].token <= dr
  BY DEF ToolsSound, Files
<1>3. f2.token \in Nat /\ \A q \in rq : q.token \in Nat /\ q.tool \in Tools
  BY DEF Files, Requests
<1> HIDE DEF fl2, tl2
<1>4. ASSUME NEW u \in Tools
      PROVE  /\ Fits(fl2[u], tl2[u].at) /\ Holds(rw, fl2[u], tl2[u].at)
             /\ Fenced(rw, fl2[u]) /\ fl2[u].token <= dr2
  <2>1. CASE u = t
    BY <2>1, <1>1
  <2>2. CASE u # t
    <3>1. /\ Fits(fl[u], tl[u].at) /\ Holds(rw, fl[u], tl[u].at)
          /\ Fenced(rw, fl[u]) /\ fl[u].token <= dr2
      BY <1>2 DEF ToolsSound
    <3> QED BY <3>1, <2>2, <1>1
  <2> QED BY <2>1, <2>2
<1>5. \A u \in Tools \ {t} : f2.token # 0 => f2.token # fl[u].token
  <2> TAKE u \in Tools \ {t}
  <2> HAVE f2.token # 0
  <2>1. CASE f2.token = fl[t].token
    BY <2>1 DEF ToolsSound
  <2>2. CASE f2.token > dr
    BY <2>2, <1>2, <1>3
  <2> QED BY <2>1, <2>2
<1>6. ASSUME NEW u \in Tools, NEW w \in Tools, u # w
      PROVE  /\ fl2[u].token # 0 => fl2[u].token # fl2[w].token
             /\ fl2[u].revision # 0 => fl2[u].revision # fl2[w].revision
  <2>1. CASE u = t
    BY <2>1, <1>6, <1>1, <1>5
  <2>2. CASE w = t
    BY <2>2, <1>6, <1>1, <1>5
  <2>3. CASE u # t /\ w # t
    BY <2>3, <1>6, <1>1 DEF ToolsSound
  <2> QED BY <2>1, <2>2, <2>3
<1>7. ToolsSound(rw, fl2, tl2, dr2)
  BY <1>4, <1>6 DEF ToolsSound
<1>8. ASSUME NEW q \in rq
      PROVE  /\ q.token # 0 /\ q.token <= dr2
             /\ Heard(q, fl2[q.tool], tl2[q.tool].at)
             /\ \A u \in Tools : LateIsPast(q, fl2[u], tl2[u].at)
  <2>1. /\ q.token # 0 /\ q.token <= dr /\ Heard(q, fl[q.tool], tl[q.tool].at)
        /\ \A u \in Tools : LateIsPast(q, fl[u], tl[u].at)
    BY DEF RequestsSound
  <2>2. q.token <= dr2
    BY <2>1, <1>3
  <2>3. Heard(q, fl2[q.tool], tl2[q.tool].at)
    BY <2>1, <1>1, <1>3 DEF Heard
  <2>4. LateIsPast(q, f2, c2.at)
    <3>1. CASE f2.token = fl[t].token
      BY <3>1, <2>1 DEF LateIsPast
    <3>2. CASE f2.token = 0 \/ f2.token > dr
      BY <3>2, <2>1, <1>3 DEF LateIsPast
    <3> QED BY <3>1, <3>2
  <2>5. \A u \in Tools : LateIsPast(q, fl2[u], tl2[u].at)
    BY <2>1, <2>4, <1>1
  <2> QED BY <2>1, <2>2, <2>3, <2>5
<1>9. RequestsSound(rq, fl2, tl2, dr2)
  BY <1>8 DEF RequestsSound
<1> QED BY <1>7, <1>9 DEF fl2, tl2

----------------------------------------------------------------------------
\* An answer reaches the tool that asked, or nobody.

\* the receipt and the place an answer leads to
LEMMA AfterSound ==
  ASSUME TypeOK, NEW rw \in Row, RowSound(rw), ToolsSound(rw, file, tool, drawn),
         NEW q \in Requests, q.heard, Heard(q, file[q.tool], tool[q.tool].at), q.token # 0,
         NEW yes \in BOOLEAN, NEW revision \in Nat,
         yes /\ q.op = "begin" => rw.Lock = q.token /\ rw.Revision = revision,
         NEW f2, f2 = After(q.tool, yes, revision).file,
         NEW c2, c2 = After(q.tool, yes, revision).tool
  PROVE  /\ Fits(f2, c2.at) /\ Holds(rw, f2, c2.at) /\ Fenced(rw, f2)
         /\ f2.token \in {0, file[q.tool].token}
         /\ \A u \in Tools \ {q.tool} : f2.revision # 0 => f2.revision # file[u].revision
         /\ BeforeWork(f2, c2.at) /\ f2.token = file[q.tool].token
              => BeforeWork(file[q.tool], tool[q.tool].at)
<1> DEFINE t == q.tool
           f == file[t]
           place == tool[t].at
<1>1. t \in Tools /\ f \in Files /\ f.revision \in Nat /\ f.token \in Nat
  BY DEF TypeOK, Requests, Files
<1>2. place \in Calling /\ q.op = OpOf(place) /\ q.token = f.token
  BY DEF Heard
<1>3. Fits(f, place) /\ Holds(rw, f, place) /\ Fenced(rw, f)
  BY <1>1 DEF ToolsSound
<1>4. \A u \in Tools \ {t} : f.revision # 0 => f.revision # file[u].revision
  BY <1>1 DEF ToolsSound
<1>5. NoFile.token = 0 /\ NoFile.revision = 0 /\ NoFile.kind = "deploy" /\ ~NoFile.done
  BY DEF NoFile
<1>6. \A p : At(p).at = p
  BY DEF At
<1>7. CASE yes /\ place \in {"begin", "rebegin"}
  <2>1. rw.Lock = f.token /\ rw.Revision = revision /\ revision # 0 /\ f.token # 0
    BY <1>2, <1>7 DEF OpOf, RowSound
  <2>2. ASSUME NEW u \in Tools \ {t} PROVE revision # file[u].revision
    <3>1. Fenced(rw, file[u]) /\ f.token # file[u].token
      BY <1>1, <2>1 DEF ToolsSound
    <3> QED BY <3>1, <2>1 DEF Fenced
  <2>3. /\ f2 = [f EXCEPT !.revision = revision]
        /\ c2 = At(IF place = "begin" THEN "reserved" ELSE "release")
    BY <1>7 DEF After
  <2>4. /\ f2.token = f.token /\ f2.revision = revision /\ f2.kind = f.kind
        /\ f2.done = f.done
    BY <2>3, <1>1 DEF Files
  <2>5. c2.at = IF place = "begin" THEN "reserved" ELSE "release"
    BY <2>3, <1>6
  <2>6. Fits(f2, c2.at)
    BY <2>1, <2>4, <2>5, <1>3, <1>7 DEF Fits
  <2>7. Holds(rw, f2, c2.at) /\ Fenced(rw, f2)
    BY <2>1, <2>4, <1>1 DEF Holds, Fenced
  <2>8. BeforeWork(f2, c2.at) => BeforeWork(f, place)
    BY <2>4, <2>5, <1>7 DEF BeforeWork
  <2> QED BY <2>2, <2>4, <2>6, <2>7, <2>8
<1>8. CASE f2 = NoFile /\ c2 = At("idle")
  <2>1. c2.at = "idle"
    BY <1>6, <1>8
  <2> QED BY <2>1, <1>5, <1>8, <1>1 DEF Fits, Holds, Holding, Fenced, BeforeWork
<1>9. CASE f2 = f /\ c2 = At("idle")
  <2>1. c2.at = "idle"
    BY <1>6, <1>9
  <2>2. Fits(f2, c2.at) /\ Holds(rw, f2, c2.at) /\ Fenced(rw, f2)
    BY <2>1, <1>3, <1>9 DEF Fits, Holds, Holding
  <2> QED BY <2>1, <2>2, <1>4, <1>9 DEF BeforeWork
<1>10. CASE place = "defaults" /\ f2 = f /\ c2 = At("publish")
  <2>1. c2.at = "publish"
    BY <1>6, <1>10
  <2>2. Fits(f2, c2.at) /\ Holds(rw, f2, c2.at) /\ Fenced(rw, f2)
    BY <2>1, <1>3, <1>10 DEF Fits, Holds, Holding
  <2> QED BY <2>1, <2>2, <1>4, <1>10 DEF BeforeWork
<1>11. CASE place = "retire" /\ f2 = [f EXCEPT !.retired = TRUE] /\ c2 = At("delete")
  <2>1. c2.at = "delete"
    BY <1>6, <1>11
  <2>2. /\ f2.token = f.token /\ f2.revision = f.revision /\ f2.kind = f.kind
        /\ f2.done = f.done
    BY <1>11, <1>1 DEF Files
  <2>3. Fits(f2, c2.at) /\ Holds(rw, f2, c2.at) /\ Fenced(rw, f2)
    BY <2>1, <2>2, <1>3, <1>11 DEF Fits, Holds, Holding, Fenced
  <2> QED BY <2>1, <2>2, <2>3, <1>4, <1>11 DEF BeforeWork
<1>12. \/ yes /\ place \in {"begin", "rebegin"}
       \/ f2 = NoFile /\ c2 = At("idle")
       \/ f2 = f /\ c2 = At("idle")
       \/ place = "defaults" /\ f2 = f /\ c2 = At("publish")
       \/ place = "retire" /\ f2 = [f EXCEPT !.retired = TRUE] /\ c2 = At("delete")
  BY <1>2 DEF After, Calling
<1> QED BY <1>7, <1>8, <1>9, <1>10, <1>11, <1>12

LEMMA AnswerSound ==
  ASSUME TypeOK, NEW rw \in Row, RowSound(rw), ToolsSound(rw, file, tool, drawn),
         RequestsSound(requests, file, tool, drawn),
         NEW q \in requests, NEW yes \in BOOLEAN, NEW revision \in Nat,
         yes /\ q.op = "begin" => rw.Lock = q.token /\ rw.Revision = revision,
         Answer(q, yes, revision)
  PROVE  /\ ToolsSound(rw, file', tool', drawn)
         /\ RequestsSound(requests \ {q}, file', tool', drawn)
<1>1. RequestsSound(requests \ {q}, file, tool, drawn)
  BY FewerRequests
<1>2. CASE ~q.heard
  BY <1>1, <1>2 DEF Answer
<1>3. CASE q.heard
  <2> DEFINE t == q.tool
             f2 == After(t, yes, revision).file
             c2 == After(t, yes, revision).tool
  <2>1. /\ q \in Requests /\ t \in Tools /\ drawn \in Nat /\ requests \ {q} \in SUBSET Requests
        /\ file \in [Tools -> Files] /\ tool \in [Tools -> Commands]
        /\ file[t].token <= drawn /\ file[t].token \in Nat
    BY DEF TypeOK, Requests, ToolsSound, Files
  <2>2. Heard(q, file[t], tool[t].at) /\ q.token # 0
    BY DEF RequestsSound
  <2>3. f2 \in Files
    BY <2>1, AfterTyped
  <2>4. /\ Fits(f2, c2.at) /\ Holds(rw, f2, c2.at) /\ Fenced(rw, f2)
        /\ f2.token \in {0, file[t].token}
        /\ \A u \in Tools \ {t} : f2.revision # 0 => f2.revision # file[u].revision
        /\ BeforeWork(f2, c2.at) /\ f2.token = file[t].token
             => BeforeWork(file[t], tool[t].at)
    BY <2>1, <2>2, <1>3, AfterSound
  <2>5. f2.token <= drawn
    BY <2>1, <2>4
  <2>6. \A o \in requests \ {q} : ~(o.heard /\ o.tool = t)
    BY <1>3 DEF RequestsSound
  <2>7. file' = [file EXCEPT ![t] = f2] /\ tool' = [tool EXCEPT ![t] = c2]
    BY <1>3 DEF Answer
  <2> HIDE DEF f2, c2, t
  <2>8. drawn <= drawn
    BY <2>1
  <2>9. /\ ToolsSound(rw, [file EXCEPT ![t] = f2], [tool EXCEPT ![t] = c2], drawn)
        /\ RequestsSound(requests \ {q}, [file EXCEPT ![t] = f2], [tool EXCEPT ![t] = c2], drawn)
    BY <1>1, <2>1, <2>3, <2>4, <2>5, <2>6, <2>8, ToolMoves
  <2> QED BY <2>7, <2>9
<1> QED BY <1>2, <1>3

----------------------------------------------------------------------------
\* The handlers.

LEMMA GoesSound ==
  ASSUME LeaseInv, NEW q \in requests, NEW n, Goes(q, n),
         n.tool = q.tool, n.op = q.op, n.token = q.token, n.heard = q.heard
  PROVE  RequestsSound(requests', file', tool', drawn) /\ UNCHANGED <<file, tool>>
<1>1. RequestsSound((requests \ {q}) \cup {n}, file, tool, drawn)
  BY RequestReplaced DEF LeaseInv
<1> QED BY <1>1 DEF Goes

LEMMA AnsweredSound ==
  ASSUME LeaseInv, NEW q \in requests, NEW yes \in BOOLEAN, NEW revision \in Nat,
         Answered(q, yes, revision),
         yes /\ q.op = "begin" => row.Lock = q.token /\ row.Revision = revision
  PROVE  /\ ToolsSound(row, file', tool', drawn)
         /\ RequestsSound(requests', file', tool', drawn)
<1>1. TypeOK /\ row \in Row /\ RowSound(row) /\ ToolsSound(row, file, tool, drawn)
      /\ RequestsSound(requests, file, tool, drawn)
  BY DEF LeaseInv, TypeOK
<1>2. Answer(q, yes, revision) /\ requests' = requests \ {q}
  BY DEF Answered
<1>3. /\ ToolsSound(row, file', tool', drawn)
      /\ RequestsSound(requests \ {q}, file', tool', drawn)
  BY <1>1, <1>2, AnswerSound
<1> QED BY <1>2, <1>3

LEMMA BeginSound ==
  ASSUME LeaseInv, NEW q \in requests, ReadBegin(q) \/ WriteBegin(q) \/ RereadBegin(q),
         TypeOK'
  PROVE  LeaseInv'
<1>1. /\ q \in Requests /\ q.token \in Nat \ {0} /\ row \in Row /\ row.Revision \in Nat
      /\ RowSound(row) /\ ToolsSound(row, file, tool, drawn)
      /\ file \in [Tools -> Files] /\ 0 \in Nat /\ row.Revision + 1 \in Nat
  BY DEF LeaseInv, TypeOK, Requests, RequestsSound, Row
<1>2. \A a \in {"read", "refused"} :
        LET n == [q EXCEPT !.at = a] IN
        n.tool = q.tool /\ n.op = q.op /\ n.token = q.token /\ n.heard = q.heard
  BY <1>1 DEF Requests
<1>3. ASSUME NEW a \in {"read", "refused"}, Goes(q, [q EXCEPT !.at = a]), row' = row,
             drawn' = drawn
      PROVE  LeaseInv'
  <2>1. RequestsSound(requests', file', tool', drawn) /\ UNCHANGED <<file, tool>>
    BY <1>2, <1>3, GoesSound
  <2> QED BY <2>1, <1>1, <1>3 DEF LeaseInv
<1>4. ASSUME NEW yes \in BOOLEAN, NEW revision \in Nat, Answered(q, yes, revision),
             yes => row.Lock = q.token /\ row.Revision = revision, row' = row, drawn' = drawn
      PROVE  LeaseInv'
  <2>1. /\ ToolsSound(row, file', tool', drawn)
        /\ RequestsSound(requests', file', tool', drawn)
    BY <1>4, AnsweredSound
  <2> QED BY <2>1, <1>1, <1>4 DEF LeaseInv
<1>5. CASE ReadBegin(q)
  BY <1>1, <1>3, <1>4, <1>5 DEF ReadBegin
<1>6. CASE RereadBegin(q)
  <2>1. (row.Lock = q.token) \in BOOLEAN
    OBVIOUS
  <2>2. Answered(q, row.Lock = q.token, row.Revision) /\ row' = row /\ drawn' = drawn
    BY <1>6 DEF RereadBegin
  <2> QED BY <2>1, <2>2, <1>1, <1>4
<1>7. CASE WriteBegin(q)
  <2>1. CASE Free(row, q.token) /\ row' = Begun(row, q.token)
             /\ Answered(q, TRUE, row.Revision + 1)
    <3>1. RowSound(row') /\ ToolsSound(row', file, tool, drawn)
      BY <2>1, <1>1, RowBegun DEF Free
    <3>2. row' \in Row
      BY DEF TypeOK
    <3>3. row'.Lock = q.token /\ row'.Revision = row.Revision + 1
      BY <2>1, <1>1 DEF Begun, Row
    <3>4. Answer(q, TRUE, row.Revision + 1) /\ requests' = requests \ {q}
      BY <2>1 DEF Answered
    <3>5. TypeOK /\ RequestsSound(requests, file, tool, drawn)
      BY DEF LeaseInv
    <3>6. /\ ToolsSound(row', file', tool', drawn)
          /\ RequestsSound(requests \ {q}, file', tool', drawn)
      BY <3>1, <3>2, <3>3, <3>4, <3>5, <1>1, AnswerSound
    <3> QED BY <3>1, <3>4, <3>6, <1>7 DEF LeaseInv, WriteBegin
  <2>2. CASE Goes(q, [q EXCEPT !.at = "refused"]) /\ row' = row
    BY <2>2, <1>3, <1>7 DEF WriteBegin
  <2> QED BY <2>1, <2>2, <1>7 DEF WriteBegin, Answered
<1> QED BY <1>5, <1>6, <1>7

LEMMA ChangeSound ==
  ASSUME LeaseInv, NEW q \in requests,
         ReadChange(q) \/ WriteChange(q) \/ ReadDefaults(q) \/ WriteDefaults(q),
         TypeOK'
  PROVE  LeaseInv'
<1>1. /\ q \in Requests /\ q.op # "begin" /\ row \in Row /\ row.Revision \in Nat
      /\ RowSound(row) /\ ToolsSound(row, file, tool, drawn) /\ 0 \in Nat
      /\ file \in [Tools -> Files] /\ drawn' = drawn
  BY DEF LeaseInv, TypeOK, Row, ReadChange, WriteChange, ReadDefaults, WriteDefaults
<1>2. ASSUME NEW yes \in BOOLEAN, Answered(q, yes, 0), row' = row PROVE LeaseInv'
  <2>1. /\ ToolsSound(row, file', tool', drawn)
        /\ RequestsSound(requests', file', tool', drawn)
    BY <1>1, <1>2, AnsweredSound
  <2> QED BY <2>1, <1>1, <1>2 DEF LeaseInv
<1>3. ASSUME NEW n, Goes(q, n), row' = row,
             n.tool = q.tool, n.op = q.op, n.token = q.token, n.heard = q.heard
      PROVE  LeaseInv'
  <2>1. RequestsSound(requests', file', tool', drawn) /\ UNCHANGED <<file, tool>>
    BY <1>3, GoesSound
  <2> QED BY <2>1, <1>1, <1>3 DEF LeaseInv
<1>4. CASE ReadChange(q)
  <2> DEFINE n == [q EXCEPT !.at = "read", !.seen = Listed(row), !.since = row.Since]
  <2>1. n.tool = q.tool /\ n.op = q.op /\ n.token = q.token /\ n.heard = q.heard
    BY <1>1 DEF Requests
  <2>2. row' = row /\ (Answered(q, FALSE, 0) \/ Answered(q, TRUE, 0) \/ Goes(q, n))
    BY <1>4 DEF ReadChange
  <2> QED BY <2>1, <2>2, <1>2, <1>3
<1>5. CASE ReadDefaults(q)
  <2> DEFINE n == [q EXCEPT !.at = "read", !.since = synced.Generation]
             same == synced = [Generation |-> q.revision, Text |-> q.content]
  <2>1. n.tool = q.tool /\ n.op = q.op /\ n.token = q.token /\ n.heard = q.heard
    BY <1>1 DEF Requests
  <2>2. row' = row /\ same \in BOOLEAN /\ (Answered(q, same, 0) \/ Goes(q, n))
    BY <1>5 DEF ReadDefaults
  <2> HIDE DEF same, n
  <2> QED BY <2>1, <2>2, <1>2, <1>3
<1>6. CASE WriteDefaults(q)
  BY <1>2, <1>6 DEF WriteDefaults
<1>7. CASE WriteChange(q)
  <2>1. CASE Answered(q, FALSE, 0) /\ row' = row
    BY <2>1, <1>2
  <2>2. CASE Owned(row, q) /\ Answered(q, TRUE, 0)
             /\ row' \in {Published(row, q, q.seen, q.since), Retired(row), Removed(row, q),
                          Abandoned(row, q)}
    <3>1. row'.Lock \in {0, row.Lock} /\ row'.Revision = row.Revision
      BY <2>2, <1>1 DEF Published, Retired, Removed, Abandoned, Row
    <3>2. ASSUME NEW t \in Tools, file[t].token = row.Lock
          PROVE  ~Holding(file[t], tool[t].at)
      <4>1. LateIsPast(q, file[t], tool[t].at)
        BY DEF LeaseInv, RequestsSound
      <4>2. ~BeforeWork(file[t], tool[t].at)
        BY <4>1, <3>2, <2>2, <1>1 DEF LateIsPast, Owned
      <4> QED BY <4>2 DEF BeforeWork, Holding
    <3>3. row' \in Row /\ row'.Revision >= row.Revision
      BY <3>1, <1>1 DEF TypeOK
    <3>4. RowSound(row') /\ ToolsSound(row', file, tool, drawn)
      BY <3>1, <3>2, <3>3, <1>1, RowReleased
    <3>5. Answer(q, TRUE, 0) /\ requests' = requests \ {q}
      BY <2>2 DEF Answered
    <3>6. TypeOK /\ RequestsSound(requests, file, tool, drawn)
      BY DEF LeaseInv
    <3>7. /\ ToolsSound(row', file', tool', drawn)
          /\ RequestsSound(requests \ {q}, file', tool', drawn)
      BY <3>3, <3>4, <3>5, <3>6, <1>1, AnswerSound
    <3> QED BY <3>4, <3>5, <3>7, <1>1 DEF LeaseInv
  <2> QED BY <2>1, <2>2, <1>7 DEF WriteChange
<1> QED BY <1>4, <1>5, <1>6, <1>7

----------------------------------------------------------------------------
\* The client and the commands.

\* A tool that listens to nothing moves, and the row stays.
LEMMA MoveSound ==
  ASSUME LeaseInv, TypeOK', row' = row, drawn <= drawn',
         RequestsSound(requests', file, tool, drawn),
         NEW t \in Tools, NEW f2 \in Files, NEW c2,
         file' = [file EXCEPT ![t] = f2], tool' = [tool EXCEPT ![t] = c2],
         \A q \in requests' : ~(q.heard /\ q.tool = t),
         Fits(f2, c2.at), Holds(row, f2, c2.at), Fenced(row, f2), f2.token <= drawn',
         f2.token \in {0, file[t].token} \/ f2.token > drawn,
         f2.revision \in {0, file[t].revision},
         BeforeWork(f2, c2.at) /\ f2.token = file[t].token => BeforeWork(file[t], tool[t].at)
  PROVE  LeaseInv'
<1>1. /\ file \in [Tools -> Files] /\ tool \in [Tools -> Commands]
      /\ requests' \in SUBSET Requests /\ drawn \in Nat /\ drawn' \in Nat
      /\ ToolsSound(row, file, tool, drawn)
  BY DEF LeaseInv, TypeOK
<1>2. \A u \in Tools \ {t} : f2.revision # 0 => f2.revision # file[u].revision
  BY <1>1 DEF ToolsSound
<1>3. /\ ToolsSound(row, [file EXCEPT ![t] = f2], [tool EXCEPT ![t] = c2], drawn')
      /\ RequestsSound(requests', [file EXCEPT ![t] = f2], [tool EXCEPT ![t] = c2], drawn')
  BY <1>1, <1>2, ToolMoves
<1> QED BY <1>3 DEF LeaseInv

\* What holds of a tool and its receipt, and that one away from Calling listens to nothing.
LEMMA ToolFacts ==
  ASSUME LeaseInv, NEW t \in Tools
  PROVE  /\ file[t] \in Files /\ tool[t] \in Commands
         /\ file[t].token \in Nat /\ file[t].token <= drawn /\ drawn \in Nat
         /\ Fits(file[t], tool[t].at) /\ Holds(row, file[t], tool[t].at)
         /\ Fenced(row, file[t])
         /\ RequestsSound(requests, file, tool, drawn)
         /\ tool[t].at \notin Calling => \A q \in requests : ~(q.heard /\ q.tool = t)
         /\ file = [file EXCEPT ![t] = file[t]] /\ tool = [tool EXCEPT ![t] = tool[t]]
<1>1. file[t] \in Files /\ tool[t] \in Commands /\ file[t].token \in Nat /\ drawn \in Nat
  BY DEF LeaseInv, TypeOK, Files
<1>2. /\ file[t].token <= drawn /\ Fits(file[t], tool[t].at)
      /\ Holds(row, file[t], tool[t].at) /\ Fenced(row, file[t])
  BY DEF LeaseInv, ToolsSound
<1>3. RequestsSound(requests, file, tool, drawn)
  BY DEF LeaseInv
<1>4. tool[t].at \notin Calling => \A q \in requests : ~(q.heard /\ q.tool = t)
  BY <1>3 DEF RequestsSound, Heard
<1>5. file = [file EXCEPT ![t] = file[t]] /\ tool = [tool EXCEPT ![t] = tool[t]]
  BY DEF LeaseInv, TypeOK
<1> QED BY <1>1, <1>2, <1>3, <1>4, <1>5

\* The place of a tool changes to one at which nothing is held that was not before.
LEMMA PlaceSound ==
  ASSUME LeaseInv, TypeOK', row' = row, drawn' = drawn, NEW t \in Tools, NEW p \in Places,
         NEW f2 \in Files, file' = [file EXCEPT ![t] = f2],
         tool' = [tool EXCEPT ![t] = At(p)],
         RequestsSound(requests', file, tool, drawn),
         \A q \in requests' : ~(q.heard /\ q.tool = t),
         f2.token = file[t].token, f2.revision = file[t].revision, f2.kind = file[t].kind,
         Fits(f2, p),
         Holding(f2, p) => Holding(file[t], tool[t].at),
         BeforeWork(f2, p) => BeforeWork(file[t], tool[t].at)
  PROVE  LeaseInv'
<1>1. /\ file[t].token <= drawn /\ drawn \in Nat
      /\ Holds(row, file[t], tool[t].at) /\ Fenced(row, file[t])
  BY ToolFacts
<1>2. At(p).at = p
  BY DEF At
<1>3. Holds(row, f2, p) /\ Fenced(row, f2)
  BY <1>1 DEF Holds, Fenced
<1> DEFINE c2 == At(p)
<1>4. /\ Fits(f2, c2.at) /\ Holds(row, f2, c2.at)
      /\ BeforeWork(f2, c2.at) /\ f2.token = file[t].token => BeforeWork(file[t], tool[t].at)
  BY <1>2, <1>3
<1>5. /\ drawn <= drawn' /\ f2.token <= drawn' /\ tool' = [tool EXCEPT ![t] = c2]
      /\ (f2.token \in {0, file[t].token} \/ f2.token > drawn)
      /\ f2.revision \in {0, file[t].revision}
  BY <1>1
<1> HIDE DEF c2
<1> QED BY <1>3, <1>4, <1>5, MoveSound

LEMMA UnheardSound ==
  ASSUME LeaseInv, NEW q \in requests, Unheard(q)
  PROVE  /\ RequestsSound(requests', file, tool, drawn)
         /\ \A o \in requests' : ~(o.heard /\ o.tool = q.tool) \/ (o \in requests /\ o # q)
<1>1. CASE requests' = requests \ {q}
  BY <1>1, FewerRequests DEF LeaseInv
<1>2. CASE requests' = (requests \ {q}) \cup {[q EXCEPT !.heard = FALSE]}
  <2> DEFINE n == [q EXCEPT !.heard = FALSE]
  <2>1. n.tool = q.tool /\ n.op = q.op /\ n.token = q.token /\ ~n.heard
    BY DEF LeaseInv, TypeOK, Requests
  <2> HIDE DEF n
  <2>2. RequestsSound((requests \ {q}) \cup {n}, file, tool, drawn)
    BY <2>1, RequestReplaced DEF LeaseInv
  <2> QED BY <2>1, <2>2, <1>2 DEF n
<1> QED BY <1>1, <1>2 DEF Unheard

LEMMA ClientSound ==
  ASSUME LeaseInv, TypeOK', NEW t \in Tools,
         \/ Send(t) \/ GiveUp(t) \/ Crash(t) \/ \E q \in requests : Lose(q)
  PROVE  LeaseInv'
<1>1. /\ file[t] \in Files /\ tool[t] \in Commands /\ Fits(file[t], tool[t].at)
      /\ RequestsSound(requests, file, tool, drawn)
      /\ file = [file EXCEPT ![t] = file[t]] /\ "idle" \in Places /\ drawn \in Nat
      /\ file[t].token \in Nat /\ file[t].token <= drawn
  BY ToolFacts DEF Places
<1>2. Fits(file[t], "idle") /\ (Holding(file[t], "idle") => Holding(file[t], tool[t].at))
      /\ (BeforeWork(file[t], "idle") => BeforeWork(file[t], tool[t].at))
  BY <1>1 DEF Fits, Holding, BeforeWork
<1>3. CASE Send(t)
  <2> DEFINE n == [tool |-> t, op |-> OpOf(tool[t].at), token |-> file[t].token,
                   revision |-> file[t].revision, content |-> file[t].config,
                   at |-> "sent", seen |-> Nothing, since |-> 0, heard |-> TRUE]
  <2>1. requests' = requests \cup {n} /\ tool[t].at \in Calling
        /\ \A o \in requests : ~(o.heard /\ o.tool = t)
    BY <1>3 DEF Send, Listening
  <2>2. n.tool = t /\ n.op = OpOf(tool[t].at) /\ n.token = file[t].token
    OBVIOUS
  <2> HIDE DEF n
  <2>3. UNCHANGED <<row, file, drawn>> /\ \A u \in Tools : tool'[u].at = tool[u].at
    BY <1>1, <1>3 DEF Send, LeaseInv, TypeOK, Commands
  <2>4. n.token # 0 /\ n.token <= drawn
    BY <2>1, <2>2, <1>1 DEF Fits, Calling
  <2>5. n.op # "begin" => ~BeforeWork(file[t], tool[t].at)
    BY <2>1, <2>2, <1>1 DEF Fits, Calling, OpOf, BeforeWork
  <2>6. ASSUME NEW u \in Tools PROVE LateIsPast(n, file[u], tool[u].at)
    <3>1. u # t => file[t].token # file[u].token
      BY <2>2, <2>4 DEF LeaseInv, ToolsSound
    <3> QED BY <3>1, <2>2, <2>5 DEF LateIsPast
  <2>7. \A o \in requests : o.tool \in Tools
    BY DEF LeaseInv, TypeOK, Requests
  <2>8. RequestsSound(requests', file', tool', drawn')
    <3>1. ASSUME NEW o \in requests'
          PROVE  /\ o.token # 0 /\ o.token <= drawn
                 /\ Heard(o, file[o.tool], tool'[o.tool].at)
                 /\ \A u \in Tools : LateIsPast(o, file[u], tool'[u].at)
      <4>1. CASE o = n
        BY <4>1, <2>1, <2>2, <2>3, <2>4, <2>6 DEF Heard
      <4>2. CASE o \in requests
        BY <4>2, <2>3, <2>7, <1>1 DEF RequestsSound
      <4> QED BY <4>1, <4>2, <2>1
    <3>2. ASSUME NEW o \in requests', NEW p \in requests', o.heard, p.heard, o.tool = p.tool
          PROVE  o = p
      BY <3>2, <2>1, <2>2, <1>1 DEF RequestsSound
    <3> QED BY <3>1, <3>2, <2>3 DEF RequestsSound
  <2>9. ToolsSound(row', file', tool', drawn')
    BY <2>3 DEF LeaseInv, ToolsSound
  <2> QED BY <2>3, <2>8, <2>9 DEF LeaseInv
<1>4. CASE GiveUp(t)
  <2>1. \A o \in requests' : ~(o.heard /\ o.tool = t)
    BY <1>4 DEF GiveUp, Listening
  <2>2. /\ row' = row /\ drawn' = drawn /\ requests' = requests
        /\ file' = [file EXCEPT ![t] = file[t]] /\ tool' = [tool EXCEPT ![t] = At("idle")]
    BY <1>1, <1>4 DEF GiveUp
  <2> QED BY <2>1, <2>2, <1>1, <1>2, PlaceSound
<1>5. CASE Crash(t)
  <2>1. /\ RequestsSound(requests', file, tool, drawn)
        /\ \A o \in requests' : ~(o.heard /\ o.tool = t)
    <3>1. CASE Listening(t)
      <4>1. PICK q \in requests : q.tool = t /\ q.heard /\ Unheard(q)
        BY <3>1, <1>5 DEF Crash
      <4>2. \A o \in requests : o.heard /\ o.tool = t => o = q
        BY <4>1, <1>1 DEF RequestsSound
      <4> QED BY <4>1, <4>2, UnheardSound
    <3>2. CASE ~Listening(t)
      BY <3>2, <1>1, <1>5 DEF Crash, Listening
    <3> QED BY <3>1, <3>2
  <2>2. /\ row' = row /\ drawn' = drawn
        /\ file' = [file EXCEPT ![t] = file[t]] /\ tool' = [tool EXCEPT ![t] = At("idle")]
    BY <1>1, <1>5 DEF Crash
  <2> QED BY <2>1, <2>2, <1>1, <1>2, PlaceSound
<1>6. ASSUME NEW q \in requests, Lose(q) PROVE LeaseInv'
  <2>1. RequestsSound(requests', file, tool, drawn)
    BY <1>6, UnheardSound DEF Lose
  <2> QED BY <2>1, <1>6 DEF Lose, LeaseInv
<1> QED BY <1>3, <1>4, <1>5, <1>6

LEMMA CommandsSound ==
  ASSUME LeaseInv, TypeOK', NEW t \in Tools,
         \/ \E kind \in Kinds : Begin(t, kind)
         \/ \E c \in Contents : Deploy(t, c)
         \/ DeployFails(t) \/ Destroy(t) \/ SaveWork(t) \/ ReadOutputs(t)
         \/ Resume(t) \/ Release(t) \/ LoseReceipt(t)
  PROVE  LeaseInv'
<1> DEFINE f == file[t]
           place == tool[t].at
<1>1. /\ f \in Files /\ Fits(f, place) /\ Holds(row, f, place)
      /\ Fenced(row, f) /\ RequestsSound(requests, file, tool, drawn)
      /\ file = [file EXCEPT ![t] = f] /\ tool = [tool EXCEPT ![t] = tool[t]]
      /\ drawn \in Nat /\ f.token \in Nat /\ f.token <= drawn
  BY ToolFacts
<1>2. place \notin Calling => \A q \in requests : ~(q.heard /\ q.tool = t)
  BY ToolFacts
<1>3. \A p : At(p).at = p
  BY DEF At
<1>4. ASSUME NEW p \in Places, tool' = [tool EXCEPT ![t] = At(p)], place \notin Calling,
             row' = row, drawn' = drawn, file' = file, requests' = requests,
             Fits(f, p), Holding(f, p) => Holding(f, place),
             BeforeWork(f, p) => BeforeWork(f, place)
      PROVE  LeaseInv'
  BY <1>1, <1>2, <1>4, PlaceSound
<1>5. ASSUME NEW kind \in Kinds, Begin(t, kind) PROVE LeaseInv'
  <2> DEFINE f2 == [NoFile EXCEPT !.token = drawn + 1, !.kind = kind]
  <2>1. /\ f2.token = drawn + 1 /\ f2.revision = 0 /\ ~f2.done /\ f2.kind = kind
        /\ f2.token # 0 /\ f2.token > drawn /\ f2.token <= drawn + 1 /\ drawn <= drawn + 1
    BY <1>1 DEF NoFile
  <2> DEFINE c2 == At("begin")
  <2>2. f2 \in Files
    <3>1. drawn + 1 \in Nat /\ NoFile \in Files
      BY <1>1, NoFileTyped
    <3> QED BY <3>1 DEF Files
  <2>3. Fits(f2, "begin") /\ Holds(row, f2, "begin") /\ Fenced(row, f2)
        /\ f2.token # file[t].token
    BY <2>1, <1>1 DEF Fits, Holds, Holding, Fenced
  <2>4. /\ file' = [file EXCEPT ![t] = f2] /\ tool' = [tool EXCEPT ![t] = c2]
        /\ row' = row /\ requests' = requests /\ drawn' = drawn + 1 /\ place \notin Calling
    BY <1>5 DEF Begin, Calling
  <2>5. \A q \in requests' : ~(q.heard /\ q.tool = t)
    BY <2>4, <1>2
  <2>6. c2.at = "begin"
    BY <1>3
  <2> HIDE DEF f2, c2
  <2>7. /\ Fits(f2, c2.at) /\ Holds(row, f2, c2.at) /\ f2.token # file[t].token
        /\ RequestsSound(requests', file, tool, drawn)
        /\ drawn <= drawn' /\ f2.token <= drawn' /\ f2.token > drawn
        /\ f2.revision \in {0, file[t].revision}
    BY <2>1, <2>3, <2>4, <2>6, <1>1
  <2> QED BY <2>2, <2>3, <2>4, <2>5, <2>7, MoveSound
<1>6. ASSUME \/ \E c \in Contents : Deploy(t, c)
             \/ Destroy(t)
      PROVE  LeaseInv'
  <2>1. /\ tool' = [tool EXCEPT ![t] = At("worked")] /\ place = "reserved" /\ row' = row
        /\ drawn' = drawn /\ file' = file /\ requests' = requests
    BY <1>6 DEF Deploy, Destroy
  <2> QED BY <2>1, <1>1, <1>4 DEF Fits, Holding, BeforeWork, Places, Calling
<1>7. CASE DeployFails(t)
  <2>1. /\ tool' = [tool EXCEPT ![t] = At("abandon")] /\ place = "reserved" /\ row' = row
        /\ f.kind = "deploy" /\ drawn' = drawn /\ file' = file /\ requests' = requests
    BY <1>7 DEF DeployFails
  <2> QED BY <2>1, <1>1, <1>4 DEF Fits, Holding, BeforeWork, Places, Calling
<1>8. CASE SaveWork(t)
  <2> DEFINE f2 == [f EXCEPT !.done = TRUE]
             p == IF f.kind = "deploy" THEN "outputs" ELSE "retire"
  <2>1. /\ f2 \in Files /\ f2.token = f.token /\ f2.revision = f.revision
        /\ f2.kind = f.kind /\ f2.done /\ f.kind \in Kinds
    BY <1>1 DEF Files
  <2>2. /\ file' = [file EXCEPT ![t] = f2] /\ tool' = [tool EXCEPT ![t] = At(p)]
        /\ place = "worked" /\ row' = row /\ drawn' = drawn /\ requests' = requests
    BY <1>8 DEF SaveWork
  <2>3. /\ p \in Places /\ Fits(f2, p) /\ ~BeforeWork(f2, p) /\ ~Holding(f2, p)
    BY <2>1, <2>2, <1>1 DEF Fits, Holding, BeforeWork, Places, Calling, Kinds
  <2>4. \A q \in requests' : ~(q.heard /\ q.tool = t)
    BY <2>2, <1>2 DEF Calling
  <2> HIDE DEF f2, p
  <2> QED BY <2>1, <2>2, <2>3, <2>4, <1>1, PlaceSound
<1>9. CASE ReadOutputs(t)
  <2> DEFINE f2 == [f EXCEPT !.config = stack]
  <2>1. /\ f2 \in Files /\ f2.token = f.token /\ f2.revision = f.revision
        /\ f2.kind = f.kind /\ f2.done = f.done
    BY <1>1 DEF Files, LeaseInv, TypeOK
  <2>2. PICK p \in {"defaults", "publish"} : tool' = [tool EXCEPT ![t] = At(p)]
    BY <1>9 DEF ReadOutputs
  <2>3. /\ file' = [file EXCEPT ![t] = f2] /\ place = "outputs" /\ row' = row
        /\ drawn' = drawn /\ requests' = requests
    BY <1>9 DEF ReadOutputs
  <2>4. p \in Places /\ Fits(f2, p) /\ ~BeforeWork(f2, p) /\ ~Holding(f2, p)
    BY <2>1, <2>3, <1>1 DEF Fits, Holding, BeforeWork, Places, Calling
  <2>5. \A q \in requests' : ~(q.heard /\ q.tool = t)
    BY <2>3, <1>2 DEF Calling
  <2> HIDE DEF f2
  <2> QED BY <2>1, <2>2, <2>3, <2>4, <2>5, <1>1, PlaceSound
<1>10. CASE Resume(t)
  <2>1. /\ place = "idle" /\ f.token # 0 /\ row' = row /\ drawn' = drawn /\ file' = file
        /\ requests' = requests
    BY <1>10 DEF Resume
  <2>2. CASE f.kind = "deploy" /\ f.done
    <3>1. PICK p \in {"outputs", "defaults", "publish"} : tool' = [tool EXCEPT ![t] = At(p)]
      BY <2>2, <1>10 DEF Resume
    <3>2. p \in Places /\ Fits(f, p) /\ ~BeforeWork(f, p) /\ ~Holding(f, p)
      BY <2>1, <2>2, <3>1, <1>1 DEF Fits, Holding, BeforeWork, Places, Calling
    <3> QED BY <2>1, <3>1, <3>2, <1>4 DEF Calling
  <2>3. CASE f.kind = "teardown"
    <3> DEFINE p == IF f.revision = 0 THEN "begin" ELSE IF ~f.done THEN "reserved"
                    ELSE IF ~f.retired THEN "retire" ELSE "delete"
    <3>1. tool' = [tool EXCEPT ![t] = At(p)]
      BY <2>3, <1>10 DEF Resume
    <3>2. /\ p \in Places /\ Fits(f, p) /\ (BeforeWork(f, p) => BeforeWork(f, place))
          /\ (Holding(f, p) => Holding(f, place))
      BY <2>1, <2>3, <1>1 DEF Fits, Holding, BeforeWork, Places, Calling
    <3> HIDE DEF p
    <3> QED BY <2>1, <3>1, <3>2, <1>4 DEF Calling
  <2> QED BY <2>2, <2>3, <1>10 DEF Resume
<1>11. CASE Release(t)
  <2> DEFINE p == IF f.revision = 0 THEN "rebegin" ELSE "release"
  <2>1. /\ tool' = [tool EXCEPT ![t] = At(p)] /\ place = "idle" /\ row' = row
        /\ f.kind = "deploy" /\ f.token # 0 /\ drawn' = drawn /\ file' = file
        /\ requests' = requests
    BY <1>11 DEF Release
  <2>2. p \in Places /\ Fits(f, p) /\ ~BeforeWork(f, p) /\ ~Holding(f, p)
    BY <2>1, <1>1 DEF Fits, Holding, BeforeWork, Places, Calling
  <2> HIDE DEF p
  <2> QED BY <2>1, <2>2, <1>4 DEF Calling
<1>12. CASE LoseReceipt(t)
  <2>1. /\ file' = [file EXCEPT ![t] = NoFile] /\ tool' = [tool EXCEPT ![t] = tool[t]]
        /\ place = "idle" /\ row' = row /\ drawn' = drawn /\ requests' = requests
    BY <1>1, <1>12 DEF LoseReceipt
  <2>2. /\ NoFile \in Files /\ NoFile.token = 0 /\ NoFile.revision = 0
        /\ NoFile.kind = "deploy" /\ ~NoFile.done
    BY NoFileTyped DEF NoFile
  <2>3. /\ Fits(NoFile, "idle") /\ Holds(row, NoFile, "idle") /\ Fenced(row, NoFile)
        /\ ~BeforeWork(NoFile, "idle")
    BY <2>2 DEF Fits, Holds, Holding, Fenced, BeforeWork
  <2>4. \A q \in requests' : ~(q.heard /\ q.tool = t)
    BY <2>1, <1>2 DEF Calling
  <2> DEFINE c2 == tool[t]
  <2>5. /\ tool' = [tool EXCEPT ![t] = c2] /\ c2.at = "idle"
        /\ RequestsSound(requests', file, tool, drawn)
        /\ NoFile.token <= drawn' /\ drawn <= drawn'
        /\ NoFile.token \in {0, file[t].token} /\ NoFile.revision \in {0, file[t].revision}
    BY <2>1, <2>2, <1>1
  <2> HIDE DEF c2
  <2>6. Fits(NoFile, c2.at) /\ Holds(row, NoFile, c2.at) /\ ~BeforeWork(NoFile, c2.at)
    BY <2>3, <2>5
  <2> QED BY <2>1, <2>2, <2>3, <2>4, <2>5, <2>6, MoveSound
<1> QED BY <1>5, <1>6, <1>7, <1>8, <1>9, <1>10, <1>11, <1>12

\* The administrator's repair takes a lock that no receipt names.
LEMMA RepairSound == ASSUME LeaseInv, TypeOK', Repair PROVE LeaseInv'
<1>1. /\ row \in Row /\ row' \in Row /\ row.Revision \in Nat /\ file \in [Tools -> Files]
      /\ RowSound(row) /\ ToolsSound(row, file, tool, drawn)
  BY DEF LeaseInv, TypeOK, Row
<1>2. row'.Lock = 0 /\ row'.Revision = row.Revision + 1
  BY <1>1 DEF Repair, Row
<1>3. row'.Revision >= row.Revision
  BY <1>1, <1>2
<1>4. \A t \in Tools : file[t].token = row.Lock => ~Holding(file[t], tool[t].at)
  BY DEF Repair
<1>5. RowSound(row') /\ ToolsSound(row', file, tool, drawn)
  BY <1>1, <1>2, <1>3, <1>4, RowReleased
<1> QED BY <1>5 DEF Repair, LeaseInv

----------------------------------------------------------------------------
LEMMA InitSound == Init => LeaseInv
<1> SUFFICES ASSUME Init PROVE LeaseInv
  OBVIOUS
<1>1. \A t \in Tools : file[t] = NoFile /\ tool[t].at = "idle"
  BY DEF Init, At
<1>2. NoFile.token = 0 /\ NoFile.revision = 0 /\ NoFile.kind = "deploy" /\ ~NoFile.done
  BY DEF NoFile
<1>3. row.Lock = 0 /\ requests = {} /\ drawn = 0
  BY DEF Init, NoRow
<1>4. ToolsSound(row, file, tool, drawn)
  BY <1>1, <1>2, <1>3 DEF ToolsSound, Fits, Holds, Holding, Fenced
<1>5. RowSound(row) /\ RequestsSound(requests, file, tool, drawn)
  BY <1>3 DEF RowSound, RequestsSound
<1> QED BY <1>4, <1>5, InitTyped DEF LeaseInv

LEMMA StepSound == LeaseInv /\ [Next]_vars => LeaseInv'
<1> SUFFICES ASSUME LeaseInv, [Next]_vars PROVE LeaseInv'
  OBVIOUS
<1>1. TypeOK'
  BY StepTyped DEF LeaseInv
<1>2. ASSUME NEW q \in requests, ReadBegin(q) \/ WriteBegin(q) \/ RereadBegin(q)
      PROVE  LeaseInv'
  BY <1>1, <1>2, BeginSound
<1>3. ASSUME NEW q \in requests,
             ReadChange(q) \/ WriteChange(q) \/ ReadDefaults(q) \/ WriteDefaults(q)
      PROVE  LeaseInv'
  BY <1>1, <1>3, ChangeSound
<1>4. ASSUME NEW q \in requests, Lose(q) PROVE LeaseInv'
  <2>1. q.tool \in Tools
    BY DEF LeaseInv, TypeOK, Requests
  <2> QED BY <2>1, <1>1, <1>4, ClientSound
<1>5. ASSUME NEW t \in Tools, Send(t) \/ GiveUp(t) \/ Crash(t) PROVE LeaseInv'
  BY <1>1, <1>5, ClientSound
<1>6. ASSUME NEW t \in Tools,
             \/ \E kind \in Kinds : Begin(t, kind)
             \/ \E c \in Contents : Deploy(t, c)
             \/ DeployFails(t) \/ Destroy(t) \/ SaveWork(t) \/ ReadOutputs(t)
             \/ Resume(t) \/ Release(t) \/ LoseReceipt(t)
      PROVE  LeaseInv'
  BY <1>1, <1>6, CommandsSound
<1>7. CASE Repair
  BY <1>1, <1>7, RepairSound
<1>8. CASE UNCHANGED vars
  BY <1>1, <1>8 DEF vars, LeaseInv
<1> QED BY <1>2, <1>3, <1>4, <1>5, <1>6, <1>7, <1>8 DEF Next

\* The inductive invariant holds of every behaviour: late requests are past their work,
\* revisions are given once, and a teardown keeps its lease until it has destroyed.
THEOREM LeaseInvHolds == Spec => []LeaseInv
BY InitSound, StepSound, PTL DEF Spec

\* Whoever runs Pulumi holds the index lease at the revision of its own receipt, for any
\* number of checkouts, attempts, late requests and crashes (registry/registry.go change,
\* workflow/index_client.go).
THEOREM WorkerHoldsLease == Spec => []WorkHoldsLease
<1>1. LeaseInv => WorkHoldsLease
  <2> SUFFICES ASSUME LeaseInv PROVE WorkHoldsLease
    OBVIOUS
  <2>1. OwnRevision
    BY DEF LeaseInv, ToolsSound, OwnRevision
  <2>2. \A t \in Tools : Exclusive(t)
    BY DEF LeaseInv, ToolsSound, Holds, Holding, Exclusive
  <2> QED BY <2>1, <2>2 DEF WorkHoldsLease
<1> QED BY <1>1, LeaseInvHolds, PTL
----------------------------------------------------------------------------
\* The index and the defaults follow what is deployed.

\* A receipt that still has its lease is right about the stack; so is a request.
FileCurrent(rw, st, f) ==
  rw.Lock = f.token /\ rw.Revision = f.revision /\ f.token # 0 =>
    /\ f.kind = "teardown" /\ f.done => st = Nothing
    /\ f.config # Nothing => f.config = st
RequestCurrent(rw, st, q) ==
  q.op # "begin" =>
    /\ q.revision <= rw.Revision
    /\ Owned(rw, q) => /\ q.op \in {"defaults", "publish"} => q.content = st
                       /\ q.op \in {"retire", "delete"} => st = Nothing
    /\ q.op = "defaults" /\ q.at = "read" => q.since < q.revision

\* The outputs are read after the work, and before anything is published.
ReadInOrder(f, place) ==
  /\ f.config # Nothing => f.done /\ f.kind = "deploy"
  /\ place \in {"begin", "rebegin", "reserved", "worked"} => ~f.done
  /\ place = "outputs" => f.done
  /\ place \in {"defaults", "publish"} => f.config # Nothing

\* A teardown that has destroyed the stack, and has not said so yet.
Destroyed(st, f, place) == place = "worked" /\ f.kind = "teardown" => st = Nothing

ToolFollows(rw, st, f, place) ==
  FileCurrent(rw, st, f) /\ ReadInOrder(f, place) /\ Destroyed(st, f, place)

\* The inductive invariant under which the index follows the stack.
FollowInv ==
  /\ LeaseInv
  /\ \A t \in Tools : ToolFollows(row, stack, file[t], tool[t].at)
  /\ \A q \in requests : RequestCurrent(row, stack, q)

\* A lease that is over does not come back at a revision already given.
NoReturn(rw, rw2) ==
  /\ rw.Revision <= rw2.Revision
  /\ \A k \in Nat \ {0}, v \in Nat :
       rw2.Lock = k /\ rw2.Revision = v /\ v <= rw.Revision
         => rw.Lock = k /\ rw.Revision = v

LEMMA RowsDoNotReturn ==
  ASSUME NEW rw \in Row, NEW rw2 \in Row,
         \/ rw2.Revision = rw.Revision /\ rw2.Lock \in {0, rw.Lock}
         \/ rw2.Revision = rw.Revision + 1
  PROVE  NoReturn(rw, rw2)
<1>1. rw.Revision \in Nat /\ rw2.Revision \in Nat
  BY DEF Row
<1> QED BY <1>1 DEF NoReturn

\* Receipts and requests stay right while the stack does, whatever becomes of the row.
LEMMA FilesStayCurrent ==
  ASSUME FollowInv, NEW rw2 \in Row, NoReturn(row, rw2), NEW t \in Tools
  PROVE  ToolFollows(rw2, stack, file[t], tool[t].at)
<1>1. /\ file[t].token \in Nat /\ file[t].revision \in Nat /\ row.Revision \in Nat
      /\ ToolFollows(row, stack, file[t], tool[t].at) /\ Fenced(row, file[t])
  BY DEF FollowInv, LeaseInv, TypeOK, Files, Row, ToolsSound
<1>2. file[t].revision <= row.Revision
  BY <1>1 DEF Fenced
<1> QED BY <1>1, <1>2 DEF ToolFollows, FileCurrent, NoReturn

LEMMA RequestsStayCurrent ==
  ASSUME FollowInv, NEW rw2 \in Row, NoReturn(row, rw2), NEW q \in requests
  PROVE  RequestCurrent(rw2, stack, q)
<1>1. /\ q.token \in Nat \ {0} /\ q.revision \in Nat /\ row.Revision \in Nat
      /\ rw2.Revision \in Nat /\ RequestCurrent(row, stack, q)
  BY DEF FollowInv, LeaseInv, TypeOK, Requests, Row, RequestsSound
<1> QED BY <1>1 DEF RequestCurrent, NoReturn, Owned

\* What an answer makes of a receipt is right too.
LEMMA AnswerFollows ==
  ASSUME FollowInv, NEW rw2 \in Row, NoReturn(row, rw2),
         NEW q \in requests, NEW yes \in BOOLEAN, NEW revision \in Nat,
         Answer(q, yes, revision), NEW u \in Tools
  PROVE  ToolFollows(rw2, stack, file'[u], tool'[u].at)
<1>1. ToolFollows(rw2, stack, file[u], tool[u].at)
  BY FilesStayCurrent
<1>2. CASE ~q.heard \/ u # q.tool
  <2>1. file'[u] = file[u] /\ tool'[u] = tool[u]
    BY <1>2 DEF Answer, FollowInv, LeaseInv, TypeOK
  <2> QED BY <1>1, <2>1
<1>3. CASE q.heard /\ u = q.tool
  <2> DEFINE f == file[u]
             place == tool[u].at
             f2 == After(u, yes, revision).file
             c2 == After(u, yes, revision).tool
  <2>1. /\ file'[u] = f2 /\ tool'[u] = c2 /\ f \in Files
        /\ Fits(f, place) /\ place \in Calling
    <3>1. Heard(q, file[q.tool], tool[q.tool].at)
      BY DEF FollowInv, LeaseInv, RequestsSound
    <3> QED BY <1>3, <3>1 DEF Answer, FollowInv, LeaseInv, TypeOK, ToolsSound, Heard
  <2>2. \A p : At(p).at = p
    BY DEF At
  <2>3. NoFile.token = 0 /\ NoFile.config = Nothing /\ ~NoFile.done
    BY DEF NoFile
  <2>4. \/ /\ place \in {"begin", "rebegin"} /\ f2 = [f EXCEPT !.revision = revision]
           /\ c2 = At(IF place = "begin" THEN "reserved" ELSE "release")
        \/ f2 = NoFile /\ c2 = At("idle")
        \/ f2 = f /\ c2 = At("idle")
        \/ place = "defaults" /\ f2 = f /\ c2 = At("publish")
        \/ place = "retire" /\ f2 = [f EXCEPT !.retired = TRUE] /\ c2 = At("delete")
    BY <2>1 DEF After, Calling
  <2> HIDE DEF f2, c2
  <2>5. CASE /\ place \in {"begin", "rebegin"} /\ f2 = [f EXCEPT !.revision = revision]
             /\ c2 = At(IF place = "begin" THEN "reserved" ELSE "release")
    <3>1. f2.done = f.done /\ f2.config = f.config /\ f2.kind = f.kind
      BY <2>1, <2>5 DEF Files
    <3>2. c2.at \in {"reserved", "release"}
      BY <2>2, <2>5
    <3>3. ~f.done /\ f.config = Nothing
      BY <1>1, <1>3, <2>5 DEF ToolFollows, ReadInOrder
    <3> QED BY <3>1, <3>2, <3>3, <2>1, <1>3 DEF ToolFollows, FileCurrent, ReadInOrder, Destroyed
  <2>6. CASE f2 = NoFile /\ c2 = At("idle")
    BY <2>1, <2>2, <2>3, <2>6 DEF ToolFollows, FileCurrent, ReadInOrder, Destroyed
  <2>7. CASE f2 = f /\ c2 = At("idle")
    BY <2>1, <2>2, <2>7, <1>1 DEF ToolFollows, FileCurrent, ReadInOrder, Destroyed
  <2>8. CASE place = "defaults" /\ f2 = f /\ c2 = At("publish")
    BY <2>1, <2>2, <2>8, <1>1 DEF ToolFollows, FileCurrent, ReadInOrder, Destroyed
  <2>9. CASE place = "retire" /\ f2 = [f EXCEPT !.retired = TRUE] /\ c2 = At("delete")
    <3>1. /\ f2.done = f.done /\ f2.config = f.config /\ f2.kind = f.kind
          /\ f2.token = f.token /\ f2.revision = f.revision
      BY <2>1, <2>9 DEF Files
    <3>2. c2.at = "delete"
      BY <2>2, <2>9
    <3> QED BY <3>1, <3>2, <2>1, <1>1 DEF ToolFollows, FileCurrent, ReadInOrder, Destroyed
  <2> QED BY <2>4, <2>5, <2>6, <2>7, <2>8, <2>9
<1> QED BY <1>2, <1>3

\* What a handler's step makes of the row; only defaults leave it alone.
LEMMA HandlerRows ==
  ASSUME FollowInv, TypeOK', NEW q \in requests,
         \/ ReadBegin(q) \/ WriteBegin(q) \/ RereadBegin(q)
         \/ ReadChange(q) \/ WriteChange(q) \/ ReadDefaults(q) \/ WriteDefaults(q)
  PROVE  row' \in Row /\ NoReturn(row, row') /\ stack' = stack
<1>1. row \in Row /\ row' \in Row /\ row.Revision \in Nat
  BY DEF FollowInv, LeaseInv, TypeOK, Row
<1>2. CASE ReadBegin(q) \/ RereadBegin(q) \/ ReadChange(q) \/ ReadDefaults(q) \/ WriteDefaults(q)
  <2>1. row' = row /\ stack' = stack
    BY <1>2 DEF ReadBegin, RereadBegin, ReadChange, ReadDefaults, WriteDefaults
  <2> QED BY <2>1, <1>1, RowsDoNotReturn
<1>3. CASE WriteBegin(q)
  <2>1. stack' = stack /\ (row' = row \/ row' = Begun(row, q.token))
    BY <1>3 DEF WriteBegin
  <2>2. row' = row \/ row'.Revision = row.Revision + 1
    BY <2>1, <1>1 DEF Begun, Row
  <2> QED BY <2>1, <2>2, <1>1, RowsDoNotReturn
<1>4. CASE WriteChange(q)
  <2>1. stack' = stack
        /\ row' \in {row, Published(row, q, q.seen, q.since), Retired(row), Removed(row, q),
                     Abandoned(row, q)}
    BY <1>4 DEF WriteChange
  <2>2. row'.Lock \in {0, row.Lock} /\ row'.Revision = row.Revision
    BY <2>1, <1>1 DEF Published, Retired, Removed, Abandoned, Row
  <2> QED BY <2>1, <2>2, <1>1, RowsDoNotReturn
<1> QED BY <1>2, <1>3, <1>4

LEMMA HandlersFollow ==
  ASSUME FollowInv, TypeOK', LeaseInv', NEW q \in requests,
         \/ ReadBegin(q) \/ WriteBegin(q) \/ RereadBegin(q)
         \/ ReadChange(q) \/ WriteChange(q) \/ ReadDefaults(q) \/ WriteDefaults(q)
  PROVE  FollowInv'
<1>1. row' \in Row /\ NoReturn(row, row') /\ stack' = stack
  BY HandlerRows
<1>2. q \in Requests /\ row.Revision \in Nat /\ 0 \in Nat /\ row.Revision + 1 \in Nat
      /\ (row.Lock = q.token) \in BOOLEAN
      /\ (synced = [Generation |-> q.revision, Text |-> q.content]) \in BOOLEAN
  BY DEF FollowInv, LeaseInv, TypeOK, Row
<1> DEFINE Moved(n) == /\ n.op = q.op /\ n.token = q.token /\ n.revision = q.revision
                       /\ n.content = q.content
                       /\ n.op = "defaults" /\ n.at = "read" => n.since < n.revision
<1>3. \/ \E yes \in BOOLEAN, revision \in Nat :
           Answer(q, yes, revision) /\ requests' = requests \ {q}
      \/ \E n : Goes(q, n) /\ Moved(n)
  <2>1. CASE ReadBegin(q) \/ RereadBegin(q) \/ WriteBegin(q)
    <3>1. \A a \in {"read", "refused"} : Moved([q EXCEPT !.at = a])
      BY <1>2, <2>1 DEF Requests, ReadBegin, RereadBegin, WriteBegin
    <3> HIDE DEF Moved
    <3>2. CASE ReadBegin(q)
      BY <3>1, <3>2, <1>2 DEF ReadBegin, Answered
    <3>3. CASE RereadBegin(q)
      BY <3>3, <1>2 DEF RereadBegin, Answered
    <3>4. CASE WriteBegin(q)
      BY <3>1, <3>4, <1>2 DEF WriteBegin, Answered
    <3> QED BY <3>2, <3>3, <3>4, <2>1
  <2>2. CASE ReadChange(q)
    <3> DEFINE n == [q EXCEPT !.at = "read", !.seen = Listed(row), !.since = row.Since]
    <3>1. Moved(n)
      BY <1>2, <2>2 DEF Requests, ReadChange
    <3>2. Answered(q, FALSE, 0) \/ Answered(q, TRUE, 0) \/ Goes(q, n)
      BY <2>2 DEF ReadChange
    <3> HIDE DEF Moved, n
    <3> QED BY <3>1, <3>2, <1>2 DEF Answered
  <2>3. CASE WriteChange(q) \/ WriteDefaults(q)
    <3>1. Answered(q, FALSE, 0) \/ Answered(q, TRUE, 0)
      BY <2>3 DEF WriteChange, WriteDefaults
    <3> QED BY <3>1, <1>2 DEF Answered
  <2>4. CASE ReadDefaults(q)
    <3> DEFINE n == [q EXCEPT !.at = "read", !.since = synced.Generation]
               same == synced = [Generation |-> q.revision, Text |-> q.content]
    <3>1. Answered(q, same, 0) \/ (Goes(q, n) /\ synced.Generation < q.revision)
      BY <2>4 DEF ReadDefaults
    <3>2. synced.Generation < q.revision => Moved(n)
      BY <1>2 DEF Requests
    <3>3. same \in BOOLEAN
      OBVIOUS
    <3> HIDE DEF Moved, n, same
    <3> QED BY <3>1, <3>2, <3>3, <1>2 DEF Answered
  <2> QED BY <2>1, <2>2, <2>3, <2>4
<1>4. ASSUME NEW u \in Tools PROVE ToolFollows(row', stack', file'[u], tool'[u].at)
  <2>1. CASE \E n : Goes(q, n)
    <3>1. file' = file /\ tool' = tool
      BY <2>1 DEF Goes
    <3> QED BY <3>1, <1>1, FilesStayCurrent
  <2>2. CASE \E yes \in BOOLEAN, revision \in Nat : Answer(q, yes, revision)
    BY <2>2, <1>1, AnswerFollows
  <2> QED BY <2>1, <2>2, <1>3
<1>5. ASSUME NEW o \in requests' PROVE RequestCurrent(row', stack', o)
  <2>1. CASE o \in requests
    BY <2>1, <1>1, RequestsStayCurrent
  <2>2. CASE o \notin requests
    <3>1. Moved(o)
      BY <2>2, <1>3 DEF Goes
    <3>2. RequestCurrent(row', stack', q)
      BY <1>1, RequestsStayCurrent
    <3> QED BY <3>1, <3>2 DEF RequestCurrent, Owned
  <2> QED BY <2>1, <2>2
<1> QED BY <1>4, <1>5 DEF FollowInv

\* One tool moves, what is deployed and the row stay.
LEMMA ToolMovesFollow ==
  ASSUME FollowInv, LeaseInv', NEW t \in Tools, NEW f2, NEW c2,
         row' = row, stack' = stack,
         file' = [file EXCEPT ![t] = f2], tool' = [tool EXCEPT ![t] = c2],
         ToolFollows(row, stack, f2, c2.at),
         \A o \in requests' : RequestCurrent(row, stack, o)
  PROVE  FollowInv'
<1>1. \A u \in Tools : \/ file'[u] = file[u] /\ tool'[u] = tool[u]
                       \/ file'[u] = f2 /\ tool'[u] = c2
  BY DEF FollowInv, LeaseInv, TypeOK
<1> QED BY <1>1 DEF FollowInv

LEMMA UnheardFollows ==
  ASSUME FollowInv, NEW q \in requests, Unheard(q)
  PROVE  \A o \in requests' : RequestCurrent(row, stack, o)
<1> DEFINE n == [q EXCEPT !.heard = FALSE]
<1>1. RequestCurrent(row, stack, n)
  <2>1. /\ n.op = q.op /\ n.token = q.token /\ n.revision = q.revision
        /\ n.content = q.content /\ n.at = q.at /\ n.since = q.since
    BY DEF FollowInv, LeaseInv, TypeOK, Requests
  <2>2. RequestCurrent(row, stack, q)
    BY DEF FollowInv
  <2> HIDE DEF n
  <2> QED BY <2>1, <2>2 DEF RequestCurrent, Owned
<1>2. requests' \subseteq requests \cup {n}
  BY DEF Unheard
<1> HIDE DEF n
<1> QED BY <1>1, <1>2 DEF FollowInv

\* What a tool asks for is right about the stack when it is sent.
LEMMA ClientFollows ==
  ASSUME FollowInv, LeaseInv', NEW t \in Tools,
         \/ Send(t) \/ GiveUp(t) \/ Crash(t) \/ \E q \in requests : Lose(q)
  PROVE  FollowInv'
<1> DEFINE f == file[t]
           place == tool[t].at
<1>1. /\ f \in Files /\ Fits(f, place) /\ Fenced(row, f)
      /\ ToolFollows(row, stack, f, place)
      /\ file = [file EXCEPT ![t] = f] /\ tool = [tool EXCEPT ![t] = tool[t]]
      /\ \A o \in requests : RequestCurrent(row, stack, o)
  BY ToolFacts DEF FollowInv
<1>2. At("idle").at = "idle" /\ ToolFollows(row, stack, f, "idle")
  BY <1>1 DEF At, ToolFollows, ReadInOrder, Destroyed
<1>3. CASE Send(t)
  <2> DEFINE n == [tool |-> t, op |-> OpOf(place), token |-> f.token,
                   revision |-> f.revision, content |-> f.config,
                   at |-> "sent", seen |-> Nothing, since |-> 0, heard |-> TRUE]
  <2>1. requests' = requests \cup {n} /\ place \in Calling /\ row' = row /\ stack' = stack
        /\ file' = [file EXCEPT ![t] = f]
        /\ tool' = [tool EXCEPT ![t] = [tool[t] EXCEPT !.tries = @ + 1]]
    BY <1>1, <1>3 DEF Send
  <2>2. [tool[t] EXCEPT !.tries = @ + 1].at = place
    BY DEF FollowInv, LeaseInv, TypeOK, Commands
  <2>3. RequestCurrent(row, stack, n)
    <3>1. /\ n.op = OpOf(place) /\ n.token = f.token /\ n.revision = f.revision
          /\ n.content = f.config /\ n.at = "sent"
      OBVIOUS
    <3> HIDE DEF n
    <3>2. f.token # 0 /\ f.revision \in Nat /\ row.Revision \in Nat
      BY <1>1, <2>1 DEF Fits, Calling, Files, FollowInv, LeaseInv, TypeOK, Row
    <3>3. f.revision <= row.Revision
      BY <1>1, <3>2 DEF Fenced
    <3>4. n.op \in {"defaults", "publish"} => f.config # Nothing
      BY <1>1, <2>1, <3>1 DEF OpOf, Calling, ToolFollows, ReadInOrder
    <3>5. n.op \in {"retire", "delete"} => f.kind = "teardown" /\ f.done
      BY <1>1, <2>1, <3>1 DEF OpOf, Calling, Fits
    <3>6. Owned(row, n) => /\ n.op \in {"defaults", "publish"} => f.config = stack
                           /\ n.op \in {"retire", "delete"} => stack = Nothing
      BY <1>1, <3>1, <3>2, <3>4, <3>5 DEF Owned, ToolFollows, FileCurrent
    <3> QED BY <3>1, <3>3, <3>6 DEF RequestCurrent
  <2> HIDE DEF n
  <2>4. \A o \in requests' : RequestCurrent(row, stack, o)
    BY <1>1, <2>1, <2>3
  <2> DEFINE c2 == [tool[t] EXCEPT !.tries = @ + 1]
  <2>5. ToolFollows(row, stack, f, c2.at) /\ tool' = [tool EXCEPT ![t] = c2]
    BY <1>1, <2>1, <2>2
  <2> HIDE DEF c2
  <2> QED BY <2>1, <2>4, <2>5, ToolMovesFollow
<1>4. CASE GiveUp(t)
  <2>1. /\ row' = row /\ stack' = stack /\ requests' = requests
        /\ file' = [file EXCEPT ![t] = f] /\ tool' = [tool EXCEPT ![t] = At("idle")]
    BY <1>1, <1>4 DEF GiveUp
  <2> QED BY <2>1, <1>1, <1>2, ToolMovesFollow
<1>5. CASE Crash(t)
  <2>1. /\ row' = row /\ stack' = stack
        /\ file' = [file EXCEPT ![t] = f] /\ tool' = [tool EXCEPT ![t] = At("idle")]
    BY <1>1, <1>5 DEF Crash
  <2>2. \A o \in requests' : RequestCurrent(row, stack, o)
    BY <1>1, <1>5, UnheardFollows DEF Crash
  <2> QED BY <2>1, <2>2, <1>2, ToolMovesFollow
<1>6. ASSUME NEW q \in requests, Lose(q) PROVE FollowInv'
  <2>1. \A o \in requests' : RequestCurrent(row, stack, o)
    BY <1>6, UnheardFollows DEF Lose
  <2>2. row' = row /\ stack' = stack /\ file' = file /\ tool' = tool
    BY <1>6 DEF Lose
  <2> QED BY <2>1, <2>2 DEF FollowInv
<1> QED BY <1>3, <1>4, <1>5, <1>6

\* Whoever changes what is deployed is the only one whom the row would still believe.
LEMMA WorkFollows ==
  ASSUME FollowInv, LeaseInv', NEW t \in Tools, NEW place \in {"worked", "abandon"},
         tool[t].at = "reserved", tool' = [tool EXCEPT ![t] = At(place)],
         row' = row, file' = file, requests' = requests,
         Destroyed(stack', file[t], place)
  PROVE  FollowInv'
<1>1. /\ file[t].token # 0 /\ row.Lock = file[t].token /\ Fits(file[t], "reserved")
      /\ ReadInOrder(file[t], "reserved")
  BY ToolFacts DEF FollowInv, Fits, Holds, Holding, ToolFollows
<1>2. At(place).at = place
  BY DEF At
<1>3. ASSUME NEW u \in Tools PROVE ToolFollows(row', stack', file'[u], tool'[u].at)
  <2>1. CASE u = t
    <3>1. tool'[u].at = place /\ file'[u] = file[t]
      BY <1>2, <2>1 DEF FollowInv, LeaseInv, TypeOK
    <3>2. ~file[t].done /\ file[t].config = Nothing
      BY <1>1 DEF ReadInOrder
    <3> QED BY <3>1, <3>2 DEF ToolFollows, FileCurrent, ReadInOrder, Destroyed
  <2>2. CASE u # t
    <3>1. file'[u] = file[u] /\ tool'[u].at = tool[u].at
      BY <2>2 DEF FollowInv, LeaseInv, TypeOK
    <3>2. row.Lock # file[u].token
      BY <1>1, <2>2 DEF FollowInv, LeaseInv, ToolsSound
    <3>3. tool[u].at # "worked"
      BY <3>2, ToolFacts DEF FollowInv, Holds, Holding
    <3>4. ReadInOrder(file[u], tool[u].at)
      BY DEF FollowInv, ToolFollows
    <3> QED BY <3>1, <3>2, <3>3, <3>4 DEF ToolFollows, FileCurrent, Destroyed
  <2> QED BY <2>1, <2>2
<1>4. ASSUME NEW o \in requests' PROVE RequestCurrent(row', stack', o)
  <2>1. RequestCurrent(row, stack, o) /\ LateIsPast(o, file[t], tool[t].at)
    BY DEF FollowInv, LeaseInv, RequestsSound
  <2>2. o.op # "begin" => ~Owned(row, o)
    BY <1>1, <2>1 DEF LateIsPast, BeforeWork, Owned
  <2> QED BY <2>1, <2>2 DEF RequestCurrent, Owned
<1> QED BY <1>3, <1>4 DEF FollowInv

LEMMA CommandsFollow ==
  ASSUME FollowInv, LeaseInv', NEW t \in Tools,
         \/ \E kind \in Kinds : Begin(t, kind)
         \/ \E c \in Contents : Deploy(t, c)
         \/ DeployFails(t) \/ Destroy(t) \/ SaveWork(t) \/ ReadOutputs(t)
         \/ Resume(t) \/ Release(t) \/ LoseReceipt(t)
  PROVE  FollowInv'
<1> DEFINE f == file[t]
           place == tool[t].at
<1>1. /\ f \in Files /\ Fits(f, place) /\ ToolFollows(row, stack, f, place)
      /\ file = [file EXCEPT ![t] = f] /\ tool = [tool EXCEPT ![t] = tool[t]]
      /\ \A o \in requests : RequestCurrent(row, stack, o)
  BY ToolFacts DEF FollowInv
<1>2. \A p : At(p).at = p
  BY DEF At
<1>3. NoFile.config = Nothing /\ ~NoFile.done /\ NoFile.token = 0 /\ NoFile \in Files
  BY NoFileTyped DEF NoFile
<1>4. ASSUME NEW f2, NEW p, row' = row, stack' = stack, requests' = requests,
             file' = [file EXCEPT ![t] = f2], tool' = [tool EXCEPT ![t] = At(p)],
             ToolFollows(row, stack, f2, p)
      PROVE  FollowInv'
  BY <1>1, <1>2, <1>4, ToolMovesFollow
<1>5. ASSUME NEW kind \in Kinds, Begin(t, kind) PROVE FollowInv'
  <2> DEFINE f2 == [NoFile EXCEPT !.token = drawn + 1, !.kind = kind]
  <2>1. ~f2.done /\ f2.config = Nothing
    BY <1>3 DEF NoFile
  <2>2. /\ file' = [file EXCEPT ![t] = f2] /\ tool' = [tool EXCEPT ![t] = At("begin")]
        /\ row' = row /\ requests' = requests /\ stack' = stack
    BY <1>5 DEF Begin
  <2> HIDE DEF f2
  <2>3. ToolFollows(row, stack, f2, "begin")
    BY <2>1 DEF ToolFollows, FileCurrent, ReadInOrder, Destroyed
  <2> QED BY <2>2, <2>3, <1>4
<1>6. ASSUME NEW c \in Contents, Deploy(t, c) PROVE FollowInv'
  BY <1>6, WorkFollows DEF Deploy, Destroyed
<1>7. CASE DeployFails(t)
  BY <1>7, WorkFollows DEF DeployFails, Destroyed
<1>8. CASE Destroy(t)
  BY <1>8, WorkFollows DEF Destroy, Destroyed
<1>9. CASE SaveWork(t)
  <2> DEFINE f2 == [f EXCEPT !.done = TRUE]
             p == IF f.kind = "deploy" THEN "outputs" ELSE "retire"
  <2>1. /\ f2.token = f.token /\ f2.revision = f.revision /\ f2.kind = f.kind /\ f2.done
        /\ f2.config = f.config /\ f.kind \in Kinds
    BY <1>1 DEF Files
  <2>2. /\ file' = [file EXCEPT ![t] = f2] /\ tool' = [tool EXCEPT ![t] = At(p)]
        /\ place = "worked" /\ row' = row /\ stack' = stack /\ requests' = requests
    BY <1>9 DEF SaveWork
  <2>3. p \in {"outputs", "retire"}
    OBVIOUS
  <2> HIDE DEF f2, p
  <2>4. f.config = Nothing /\ (f.kind = "teardown" => stack = Nothing)
    BY <1>1, <2>2 DEF ToolFollows, ReadInOrder, Destroyed
  <2>5. ToolFollows(row, stack, f2, p)
    BY <2>1, <2>3, <2>4 DEF ToolFollows, FileCurrent, ReadInOrder, Destroyed
  <2> QED BY <2>2, <2>5, <1>4
<1>10. CASE ReadOutputs(t)
  <2> DEFINE f2 == [f EXCEPT !.config = stack]
  <2>1. /\ f2.kind = f.kind /\ f2.done = f.done /\ f2.config = stack
    BY <1>1 DEF Files
  <2>2. PICK p \in {"defaults", "publish"} : tool' = [tool EXCEPT ![t] = At(p)]
    BY <1>10 DEF ReadOutputs
  <2>3. /\ file' = [file EXCEPT ![t] = f2] /\ place = "outputs" /\ stack # Nothing
        /\ row' = row /\ stack' = stack /\ requests' = requests
    BY <1>10 DEF ReadOutputs
  <2>4. f.done /\ f.kind = "deploy"
    BY <1>1, <2>3 DEF ToolFollows, ReadInOrder, Fits
  <2> HIDE DEF f2
  <2>5. ToolFollows(row, stack, f2, p)
    BY <2>1, <2>3, <2>4 DEF ToolFollows, FileCurrent, ReadInOrder, Destroyed
  <2> QED BY <2>2, <2>3, <2>5, <1>4
<1>11. CASE Resume(t)
  <2>1. /\ row' = row /\ stack' = stack /\ file' = [file EXCEPT ![t] = f]
        /\ requests' = requests /\ FileCurrent(row, stack, f)
    BY <1>1, <1>11 DEF Resume, ToolFollows
  <2>2. CASE f.kind = "deploy" /\ f.done
    <3>1. PICK p \in {"outputs", "defaults", "publish"} :
            tool' = [tool EXCEPT ![t] = At(p)] /\ (p # "outputs" => f.config # Nothing)
      BY <2>2, <1>11 DEF Resume
    <3>2. ToolFollows(row, stack, f, p)
      BY <1>1, <2>1, <2>2, <3>1 DEF ToolFollows, ReadInOrder, Destroyed
    <3> QED BY <2>1, <3>1, <3>2, <1>4
  <2>3. CASE f.kind = "teardown"
    <3> DEFINE p == IF f.revision = 0 THEN "begin" ELSE IF ~f.done THEN "reserved"
                    ELSE IF ~f.retired THEN "retire" ELSE "delete"
    <3>1. tool' = [tool EXCEPT ![t] = At(p)]
      BY <2>3, <1>11 DEF Resume
    <3>2. ToolFollows(row, stack, f, p)
      BY <1>1, <2>1, <2>3 DEF ToolFollows, ReadInOrder, Destroyed, Fits
    <3> HIDE DEF p
    <3> QED BY <2>1, <3>1, <3>2, <1>4
  <2> QED BY <2>2, <2>3, <1>11 DEF Resume
<1>12. CASE Release(t)
  <2> DEFINE p == IF f.revision = 0 THEN "rebegin" ELSE "release"
  <2>1. /\ tool' = [tool EXCEPT ![t] = At(p)] /\ row' = row /\ stack' = stack
        /\ file' = [file EXCEPT ![t] = f] /\ requests' = requests
    BY <1>1, <1>12 DEF Release
  <2>2. ToolFollows(row, stack, f, p)
    BY <1>1 DEF ToolFollows, ReadInOrder, Destroyed, Fits
  <2> HIDE DEF p
  <2> QED BY <2>1, <2>2, <1>4
<1>13. CASE LoseReceipt(t)
  <2>1. /\ file' = [file EXCEPT ![t] = NoFile] /\ tool' = [tool EXCEPT ![t] = tool[t]]
        /\ place = "idle" /\ row' = row /\ stack' = stack /\ requests' = requests
    BY <1>1, <1>13 DEF LoseReceipt
  <2>2. ToolFollows(row, stack, NoFile, tool[t].at)
    BY <2>1, <1>3 DEF ToolFollows, FileCurrent, ReadInOrder, Destroyed
  <2> QED BY <2>1, <2>2, <1>1, ToolMovesFollow
<1> QED BY <1>5, <1>6, <1>7, <1>8, <1>9, <1>10, <1>11, <1>12, <1>13

LEMMA RepairFollows == ASSUME FollowInv, LeaseInv', Repair PROVE FollowInv'
<1>1. row \in Row /\ row' \in Row /\ row'.Revision = row.Revision + 1
  BY DEF FollowInv, LeaseInv, TypeOK, Repair, Row
<1>2. NoReturn(row, row')
  BY <1>1, RowsDoNotReturn
<1>3. stack' = stack /\ file' = file /\ tool' = tool /\ requests' = requests
  BY DEF Repair
<1> QED BY <1>1, <1>2, <1>3, FilesStayCurrent, RequestsStayCurrent DEF FollowInv

LEMMA InitFollows == Init => FollowInv
<1> SUFFICES ASSUME Init PROVE FollowInv
  OBVIOUS
<1>1. \A t \in Tools : file[t] = NoFile /\ tool[t].at = "idle"
  BY DEF Init, At
<1>2. NoFile.config = Nothing /\ ~NoFile.done
  BY DEF NoFile
<1>3. \A t \in Tools : ToolFollows(row, stack, file[t], tool[t].at)
  BY <1>1, <1>2 DEF ToolFollows, FileCurrent, ReadInOrder, Destroyed
<1> QED BY <1>3, InitSound DEF Init, FollowInv

LEMMA StepFollows == FollowInv /\ [Next]_vars => FollowInv'
<1> SUFFICES ASSUME FollowInv, [Next]_vars PROVE FollowInv'
  OBVIOUS
<1>1. LeaseInv' /\ TypeOK'
  BY StepSound DEF FollowInv, LeaseInv
<1>2. ASSUME NEW q \in requests,
             \/ ReadBegin(q) \/ WriteBegin(q) \/ RereadBegin(q)
             \/ ReadChange(q) \/ WriteChange(q) \/ ReadDefaults(q) \/ WriteDefaults(q)
      PROVE  FollowInv'
  BY <1>1, <1>2, HandlersFollow
<1>3. ASSUME NEW q \in requests, Lose(q) PROVE FollowInv'
  <2>1. q.tool \in Tools
    BY DEF FollowInv, LeaseInv, TypeOK, Requests
  <2> QED BY <2>1, <1>1, <1>3, ClientFollows
<1>4. ASSUME NEW t \in Tools, Send(t) \/ GiveUp(t) \/ Crash(t) PROVE FollowInv'
  BY <1>1, <1>4, ClientFollows
<1>5. ASSUME NEW t \in Tools,
             \/ \E kind \in Kinds : Begin(t, kind)
             \/ \E c \in Contents : Deploy(t, c)
             \/ DeployFails(t) \/ Destroy(t) \/ SaveWork(t) \/ ReadOutputs(t)
             \/ Resume(t) \/ Release(t) \/ LoseReceipt(t)
      PROVE FollowInv'
  BY <1>1, <1>5, CommandsFollow
<1>6. CASE Repair
  BY <1>1, <1>6, RepairFollows
<1>7. CASE UNCHANGED vars
  BY <1>1, <1>7 DEF vars, FollowInv
<1> QED BY <1>2, <1>3, <1>4, <1>5, <1>6, <1>7 DEF Next

\* What a step writes to the index, or to the defaults, is what is deployed.
LEMMA StepWritesTheStack ==
  FollowInv /\ [Next]_vars => [ListsTheDeployed /\ DefaultsFollow]_vars
<1> SUFFICES ASSUME FollowInv, Next PROVE ListsTheDeployed /\ DefaultsFollow
  BY DEF vars
<1>1. row \in Row /\ synced.Generation \in Nat
  BY DEF FollowInv, LeaseInv, TypeOK
<1>2. ASSUME NEW q \in requests, WriteBegin(q) PROVE ListsTheDeployed /\ DefaultsFollow
  <2>1. synced' = synced /\ (row' = row \/ row' = Begun(row, q.token))
    BY <1>2 DEF WriteBegin
  <2>2. Listed(row') = Listed(row)
    BY <2>1, <1>1 DEF Begun, Listed, Row
  <2> QED BY <2>1, <2>2 DEF ListsTheDeployed, DefaultsFollow
<1>3. ASSUME NEW q \in requests, WriteChange(q) PROVE ListsTheDeployed /\ DefaultsFollow
  <2>1. synced' = synced /\ RequestCurrent(row, stack, q)
    BY <1>3 DEF WriteChange, FollowInv
  <2>2. CASE row' = row
    BY <2>1, <2>2 DEF ListsTheDeployed, DefaultsFollow
  <2>3. CASE Owned(row, q) /\ q.op = "publish" /\ row' = Published(row, q, q.seen, q.since)
    <3>1. Listed(row') = q.content
      BY <2>3, <1>1 DEF Published, Listed, Row
    <3> QED BY <2>1, <2>3, <3>1 DEF RequestCurrent, ListsTheDeployed, DefaultsFollow
  <2>4. CASE /\ Owned(row, q) /\ q.op \in {"retire", "delete"}
             /\ row' \in {Retired(row), Removed(row, q)}
    <3>1. Listed(row') = Nothing
      BY <2>4, <1>1 DEF Retired, Removed, Listed, Row
    <3> QED BY <2>1, <2>4, <3>1 DEF RequestCurrent, ListsTheDeployed, DefaultsFollow
  <2>5. CASE row' = Abandoned(row, q)
    <3>1. Listed(row') = Listed(row)
      BY <2>5, <1>1 DEF Abandoned, Listed, Row
    <3> QED BY <2>1, <3>1 DEF ListsTheDeployed, DefaultsFollow
  <2> QED BY <2>2, <2>3, <2>4, <2>5, <1>3 DEF WriteChange
<1>4. ASSUME NEW q \in requests, WriteDefaults(q) PROVE ListsTheDeployed /\ DefaultsFollow
  <2>1. row' = row /\ RequestCurrent(row, stack, q) /\ q.op = "defaults" /\ q.at = "read"
    BY <1>4 DEF WriteDefaults, FollowInv
  <2>2. CASE /\ Owned(row, q) /\ synced.Generation = q.since
             /\ synced' = [Generation |-> q.revision, Text |-> q.content]
    <3>1. synced'.Generation = q.revision /\ synced'.Text = q.content
      BY <2>2
    <3>2. q.since < q.revision /\ q.content = stack
      BY <2>1, <2>2 DEF RequestCurrent
    <3>3. q.revision \in Nat /\ q.since \in Nat
      BY DEF FollowInv, LeaseInv, TypeOK, Requests
    <3> QED BY <2>1, <2>2, <3>1, <3>2, <3>3 DEF ListsTheDeployed, DefaultsFollow
  <2>3. CASE synced' = synced
    BY <2>1, <2>3 DEF ListsTheDeployed, DefaultsFollow
  <2> QED BY <2>2, <2>3, <1>4 DEF WriteDefaults
<1>5. CASE Repair
  <2>1. synced' = synced /\ row' = [row EXCEPT !.Lock = 0, !.Revision = @ + 1]
    BY <1>5 DEF Repair
  <2>2. Listed(row') = Listed(row)
    BY <2>1, <1>1 DEF Listed, Row
  <2> QED BY <2>1, <2>2 DEF ListsTheDeployed, DefaultsFollow
<1>6. ASSUME row' = row, synced' = synced PROVE ListsTheDeployed /\ DefaultsFollow
  BY <1>6 DEF ListsTheDeployed, DefaultsFollow
<1>7. ASSUME NEW q \in requests,
             \/ ReadBegin(q) \/ RereadBegin(q) \/ ReadChange(q) \/ ReadDefaults(q) \/ Lose(q)
      PROVE  row' = row /\ synced' = synced
  BY <1>7 DEF ReadBegin, RereadBegin, ReadChange, ReadDefaults, Lose
<1>8. ASSUME NEW t \in Tools,
             \/ Send(t) \/ GiveUp(t)
             \/ \E kind \in Kinds : Begin(t, kind)
             \/ \E c \in Contents : Deploy(t, c)
             \/ DeployFails(t) \/ Destroy(t) \/ SaveWork(t) \/ ReadOutputs(t)
             \/ Resume(t) \/ Release(t) \/ Crash(t) \/ LoseReceipt(t)
      PROVE  row' = row /\ synced' = synced
  BY <1>8 DEF Send, GiveUp, Begin, Deploy, DeployFails, Destroy, SaveWork, ReadOutputs,
              Resume, Release, Crash, LoseReceipt
<1> QED BY <1>2, <1>3, <1>4, <1>5, <1>6, <1>7, <1>8 DEF Next

\* The index never starts to list anything but what is deployed at that moment, nor drops
\* what still is, and the defaults only move to what a later lease deployed, whatever is
\* repeated, late or lost (registry/registry.go publish, retire and delete;
\* runtimeconfig/store.go SyncDefaults).
THEOREM IndexFollowsStack == Spec => IndexFollows
BY InitFollows, StepFollows, StepWritesTheStack, PTL DEF Spec, IndexFollows
=============================================================================
