------------------------------ MODULE IndexLease ------------------------------
(* Deployments of one environment under the lease of its index row.

   The registry's handlers read the row and then write it under a condition
   (registry/registry.go change).  The tools send a change up to three times
   (tools/deploy/internal/registry/client.go), so a request whose answer was lost, or
   that was cut off by the network, may still be carried out while its sender has sent
   another, gone on, or crashed.  Around the lease every tool keeps a receipt on its own
   disk (tools/deploy/internal/workflow/index_client.go; a teardown keeps it in its
   checkpoint, teardown.go), which is all that survives a crash.

   stack is what is deployed in the cloud; it belongs to no lease: whoever runs Pulumi
   changes it. *)
EXTENDS RegistryRow, FiniteSets

CONSTANTS Tools,        \* checkouts from which the commands are run
          Attempts,     \* how often the client sends one change
          MaxTokens,    \* bound: leases ever asked for
          MaxLate,      \* bound: requests in flight whose sender no longer listens
          MaxFaults     \* bound: connections lost, commands that die, disks lost

ASSUME AttemptsAssumption == Attempts \in Nat \ {0}

VARIABLES row, stack, synced, file, tool, requests, drawn, faults

vars == <<row, stack, synced, file, tool, requests, drawn, faults>>

Kinds == {"deploy", "teardown"}
Texts == Contents \cup {Nothing}

\* index-publication.<env>.local.json, or the teardown's checkpoint.  config is Config
\* once Ready; done is Deployed, or Destroyed; retired is IndexRetired.
Files == [token : Nat, revision : Nat, kind : Kinds, done : BOOLEAN,
          config : Texts, retired : BOOLEAN]
NoFile == [token |-> 0, revision |-> 0, kind |-> "deploy", done |-> FALSE,
           config |-> Nothing, retired |-> FALSE]

\* Where a command is.  At a calling place it has a change to send or to hear about.
Calling == {"begin", "rebegin", "abandon", "release", "defaults", "publish", "retire", "delete"}
Places == Calling \cup {"idle", "reserved", "worked", "outputs"}
Commands == [at : Places, tries : Nat]
At(p) == [at |-> p, tries |-> 0]

Requests == [tool : Tools, op : Operations, token : Nat, revision : Nat, content : Texts,
             at : {"sent", "read", "refused"}, seen : Texts, since : Nat, heard : BOOLEAN]

OpOf(p) == CASE p = "rebegin" -> "begin" [] p = "release" -> "abandon" [] OTHER -> p

----------------------------------------------------------------------------
\* The registry's handlers.  Answer(q, yes, revision) tells the tool, if it still listens.

Init ==
  /\ row = NoRow
  /\ stack = Nothing
  /\ synced = [Generation |-> 0, Text |-> Nothing]
  /\ file = [t \in Tools |-> NoFile]
  /\ tool = [t \in Tools |-> At("idle")]
  /\ requests = {}
  /\ drawn = 0
  /\ faults = 0

\* what the command does with the answer to its change, and what it saves first
After(t, yes, revision) ==
  LET f == file[t]  p == tool[t].at IN
  CASE p = "begin" /\ yes ->
         [file |-> [f EXCEPT !.revision = revision], tool |-> At("reserved")]
    [] p = "begin" /\ ~yes /\ f.kind = "deploy" -> [file |-> NoFile, tool |-> At("idle")]
    [] p = "rebegin" /\ yes ->
         [file |-> [f EXCEPT !.revision = revision], tool |-> At("release")]
    [] p = "defaults" /\ yes -> [file |-> f, tool |-> At("publish")]
    [] p = "retire" /\ yes -> [file |-> [f EXCEPT !.retired = TRUE], tool |-> At("delete")]
    [] p \in {"abandon", "release", "publish", "delete"} /\ yes ->
         [file |-> NoFile, tool |-> At("idle")]
    [] OTHER -> [file |-> f, tool |-> At("idle")]

Answer(q, yes, revision) ==
  IF q.heard
  THEN /\ file' = [file EXCEPT ![q.tool] = After(q.tool, yes, revision).file]
       /\ tool' = [tool EXCEPT ![q.tool] = After(q.tool, yes, revision).tool]
  ELSE UNCHANGED <<file, tool>>

Answered(q, yes, revision) ==
  /\ requests' = requests \ {q}
  /\ Answer(q, yes, revision)

\* The handler goes on with what it has read.
Goes(q, next) ==
  /\ requests' = (requests \ {q}) \cup {next}
  /\ UNCHANGED <<file, tool>>

\* get, and the answers that need no write
ReadBegin(q) ==
  /\ q.op = "begin" /\ q.at = "sent"
  /\ \/ row.Lock = q.token /\ Answered(q, TRUE, row.Revision)
     \/ row.Lock # q.token /\ row.LastToken = q.token /\ Answered(q, FALSE, 0)
     \/ row.Lock # q.token /\ row.LastToken # q.token /\ Goes(q, [q EXCEPT !.at = "read"])
  /\ UNCHANGED <<row, stack, synced, drawn, faults>>

WriteBegin(q) ==
  /\ q.op = "begin" /\ q.at = "read"
  /\ \/ /\ Free(row, q.token)
        /\ row' = Begun(row, q.token)
        /\ Answered(q, TRUE, row.Revision + 1)
     \/ /\ ~Free(row, q.token)
        /\ Goes(q, [q EXCEPT !.at = "refused"])
        /\ UNCHANGED row
  /\ UNCHANGED <<stack, synced, drawn, faults>>

\* The row is read again: another attempt of this request may have taken the lock.
RereadBegin(q) ==
  /\ q.op = "begin" /\ q.at = "refused"
  /\ Answered(q, row.Lock = q.token, row.Revision)
  /\ UNCHANGED <<row, stack, synced, drawn, faults>>

ReadChange(q) ==
  /\ q.op \in {"publish", "retire", "delete", "abandon"} /\ q.at = "sent"
  /\ \/ row.Revision # q.revision /\ Answered(q, FALSE, 0)
     \/ row.Revision = q.revision /\ Settled(row, q) /\ Answered(q, TRUE, 0)
     \/ /\ row.Revision = q.revision /\ ~Settled(row, q)
        /\ Goes(q, [q EXCEPT !.at = "read", !.seen = Listed(row), !.since = row.Since])
  /\ UNCHANGED <<row, stack, synced, drawn, faults>>

WriteChange(q) ==
  /\ q.op \in {"publish", "retire", "delete", "abandon"} /\ q.at = "read"
  /\ \/ /\ Owned(row, q)
        /\ row' = CASE q.op = "publish" -> Published(row, q, q.seen, q.since)
                    [] q.op = "retire" -> Retired(row)
                    [] q.op = "delete" -> Removed(row, q)
                    [] OTHER -> Abandoned(row, q)
        /\ Answered(q, TRUE, 0)
     \/ ~Owned(row, q) /\ Answered(q, FALSE, 0) /\ UNCHANGED row
  /\ UNCHANGED <<stack, synced, drawn, faults>>

\* SyncDefaults; an administrator's override is the subject of RuntimeConfig
ReadDefaults(q) ==
  /\ q.op = "defaults" /\ q.at = "sent"
  /\ \/ /\ synced.Generation >= q.revision
        /\ Answered(q, synced = [Generation |-> q.revision, Text |-> q.content], 0)
     \/ /\ synced.Generation < q.revision
        /\ Goes(q, [q EXCEPT !.at = "read", !.since = synced.Generation])
  /\ UNCHANGED <<row, stack, synced, drawn, faults>>

\* one transaction over the index row and the configuration
WriteDefaults(q) ==
  /\ q.op = "defaults" /\ q.at = "read"
  /\ \/ /\ Owned(row, q) /\ synced.Generation = q.since
        /\ synced' = [Generation |-> q.revision, Text |-> q.content]
        /\ Answered(q, TRUE, 0)
     \/ /\ ~Owned(row, q) \/ synced.Generation # q.since
        /\ Answered(q, FALSE, 0)
        /\ UNCHANGED synced
  /\ UNCHANGED <<row, stack, drawn, faults>>

----------------------------------------------------------------------------
\* The client.

Listening(t) == \E q \in requests : q.tool = t /\ q.heard

Send(t) ==
  /\ tool[t].at \in Calling /\ tool[t].tries < Attempts /\ ~Listening(t)
  /\ tool' = [tool EXCEPT ![t].tries = @ + 1]
  /\ requests' = requests \cup
       {[tool |-> t, op |-> OpOf(tool[t].at), token |-> file[t].token,
         revision |-> file[t].revision, content |-> file[t].config,
         at |-> "sent", seen |-> Nothing, since |-> 0, heard |-> TRUE]}
  /\ UNCHANGED <<row, stack, synced, file, drawn, faults>>

\* The sender of q no longer listens: the request is never carried out, or still is.
Unheard(q) ==
  \/ requests' = requests \ {q}
  \/ /\ Cardinality({late \in requests : ~late.heard}) < MaxLate
     /\ requests' = (requests \ {q}) \cup {[q EXCEPT !.heard = FALSE]}

\* The connection fails, or the gateway answers 5xx or 429.
Lose(q) ==
  /\ q.heard /\ faults < MaxFaults
  /\ faults' = faults + 1
  /\ Unheard(q)
  /\ UNCHANGED <<row, stack, synced, file, tool, drawn>>

\* After the last attempt the command ends and keeps its receipt.
GiveUp(t) ==
  /\ tool[t].at \in Calling /\ tool[t].tries = Attempts /\ ~Listening(t)
  /\ tool' = [tool EXCEPT ![t] = At("idle")]
  /\ UNCHANGED <<row, stack, synced, file, requests, drawn, faults>>

----------------------------------------------------------------------------
\* The commands.

\* The receipt is on disk before the first request leaves.
Begin(t, kind) ==
  /\ tool[t].at = "idle" /\ file[t].token = 0 /\ drawn < MaxTokens
  /\ drawn' = drawn + 1
  /\ file' = [file EXCEPT ![t] = [NoFile EXCEPT !.token = drawn + 1, !.kind = kind]]
  /\ tool' = [tool EXCEPT ![t] = At("begin")]
  /\ UNCHANGED <<row, stack, synced, requests, faults>>

\* With the lease: a setup or a deployment runs Pulumi, or gives the lease back.
Deploy(t, c) ==
  /\ tool[t].at = "reserved" /\ file[t].kind = "deploy"
  /\ stack' = c
  /\ tool' = [tool EXCEPT ![t] = At("worked")]
  /\ UNCHANGED <<row, synced, file, requests, drawn, faults>>

\* failed halfway, or nothing to deploy: abandon
DeployFails(t) ==
  /\ tool[t].at = "reserved" /\ file[t].kind = "deploy"
  /\ \E c \in Contents \cup {stack} : stack' = c
  /\ tool' = [tool EXCEPT ![t] = At("abandon")]
  /\ UNCHANGED <<row, synced, file, requests, drawn, faults>>

Destroy(t) ==
  /\ tool[t].at = "reserved" /\ file[t].kind = "teardown"
  /\ stack' = Nothing
  /\ tool' = [tool EXCEPT ![t] = At("worked")]
  /\ UNCHANGED <<row, synced, file, requests, drawn, faults>>

SaveWork(t) ==
  /\ tool[t].at = "worked"
  /\ file' = [file EXCEPT ![t].done = TRUE]
  /\ tool' = [tool EXCEPT ![t] = At(IF file[t].kind = "deploy" THEN "outputs" ELSE "retire")]
  /\ UNCHANGED <<row, stack, synced, requests, drawn, faults>>

\* The stack's outputs become the configuration to publish; an older stack has no defaults.
ReadOutputs(t) ==
  /\ tool[t].at = "outputs" /\ stack # Nothing
  /\ file' = [file EXCEPT ![t].config = stack]
  /\ \E p \in {"defaults", "publish"} : tool' = [tool EXCEPT ![t] = At(p)]
  /\ UNCHANGED <<row, stack, synced, requests, drawn, faults>>

\* FAULTY variant: a publication is resumed without the outputs having been read.
Resume_Unread(t) ==
  LET f == file[t] IN
  /\ tool[t].at = "idle" /\ f.token # 0
  /\ \/ /\ f.kind = "deploy" /\ f.done
        /\ \E p \in {"defaults", "publish"} :
             tool' = [tool EXCEPT ![t] = At(p)]
     \/ /\ f.kind = "teardown"
        /\ tool' = [tool EXCEPT ![t] = At(
             IF f.revision = 0 THEN "begin" ELSE IF ~f.done THEN "reserved"
             ELSE IF ~f.retired THEN "retire" ELSE "delete")]
  /\ UNCHANGED <<row, stack, synced, file, requests, drawn, faults>>
\* The next command in a checkout with a receipt takes up where the last one ended.
Resume(t) ==
  LET f == file[t] IN
  /\ tool[t].at = "idle" /\ f.token # 0
  /\ \/ /\ f.kind = "deploy" /\ f.done
        /\ \E p \in IF f.config = Nothing THEN {"outputs"} ELSE {"defaults", "publish"} :
             tool' = [tool EXCEPT ![t] = At(p)]
     \/ /\ f.kind = "teardown"
        /\ tool' = [tool EXCEPT ![t] = At(
             IF f.revision = 0 THEN "begin" ELSE IF ~f.done THEN "reserved"
             ELSE IF ~f.retired THEN "retire" ELSE "delete")]
  /\ UNCHANGED <<row, stack, synced, file, requests, drawn, faults>>

\* -release-index-lock; a begin whose answer was lost is asked again first
Release(t) ==
  /\ tool[t].at = "idle" /\ file[t].token # 0 /\ file[t].kind = "deploy"
  /\ tool' = [tool EXCEPT ![t] = At(IF file[t].revision = 0 THEN "rebegin" ELSE "release")]
  /\ UNCHANGED <<row, stack, synced, file, requests, drawn, faults>>

\* A command dies, or ends at an error of Pulumi; what it sent may still be carried out.
\* The operator removes the .lock file it left before the next one.
Crash(t) ==
  /\ tool[t].at # "idle" /\ faults < MaxFaults
  /\ faults' = faults + 1
  /\ tool' = [tool EXCEPT ![t] = At("idle")]
  /\ IF Listening(t) THEN \E q \in requests : q.tool = t /\ q.heard /\ Unheard(q)
     ELSE UNCHANGED requests
  /\ UNCHANGED <<row, stack, synced, file, drawn>>

\* The disk with the receipt is lost.
LoseReceipt(t) ==
  /\ tool[t].at = "idle" /\ file[t].token # 0 /\ faults < MaxFaults
  /\ faults' = faults + 1
  /\ file' = [file EXCEPT ![t] = NoFile]
  /\ UNCHANGED <<row, stack, synced, tool, requests, drawn>>

\* The administrator's repair of a lock whose receipt is irretrievably lost
\* (docs/environment-index.md); no code of the repository does it.
Repair ==
  /\ row.Lock # 0 /\ \A t \in Tools : file[t].token # row.Lock
  /\ row' = [row EXCEPT !.Lock = 0, !.Revision = @ + 1]
  /\ UNCHANGED <<stack, synced, file, tool, requests, drawn, faults>>

Next ==
  \/ \E q \in requests :
       \/ ReadBegin(q) \/ WriteBegin(q) \/ RereadBegin(q)
       \/ ReadChange(q) \/ WriteChange(q) \/ ReadDefaults(q) \/ WriteDefaults(q)
       \/ Lose(q)
  \/ \E t \in Tools :
       \/ Send(t) \/ GiveUp(t)
       \/ \E kind \in Kinds : Begin(t, kind)
       \/ \E c \in Contents : Deploy(t, c)
       \/ DeployFails(t) \/ Destroy(t) \/ SaveWork(t) \/ ReadOutputs(t)
       \/ Resume(t) \/ Release(t) \/ Crash(t) \/ LoseReceipt(t)
  \/ Repair

Spec == Init /\ [][Next]_vars

----------------------------------------------------------------------------
\* Properties.

TypeOK ==
  /\ row \in Row /\ stack \in Texts
  /\ synced \in [Generation : Nat, Text : Texts]
  /\ file \in [Tools -> Files] /\ tool \in [Tools -> Commands]
  /\ requests \subseteq Requests
  /\ drawn \in Nat /\ faults \in Nat

\* Whoever runs Pulumi holds the lease, at the revision of its receipt, which no other
\* receipt has: no two commands ever change one environment, whatever was sent again or
\* carried out late, and a fence tells any two leases apart.
Exclusive(t) ==
  tool[t].at \in {"reserved", "worked"}
    => row.Lock = file[t].token /\ row.Revision = file[t].revision
OwnRevision ==
  \A t, u \in Tools : file[t].revision = file[u].revision /\ file[t].revision # 0 => t = u
WorkHoldsLease == OwnRevision /\ \A t \in Tools : Exclusive(t)

\* The index never starts to list anything but what is deployed at that moment, and never
\* drops what still is; runtime defaults only move to a later deployment, and to what it
\* deployed: a stale or repeated writer changes nothing.
ListsTheDeployed == Listed(row') # Listed(row) => Listed(row') = stack
DefaultsFollow ==
  synced' # synced => synced'.Generation > synced.Generation /\ synced'.Text = stack
IndexFollows == [][ListsTheDeployed /\ DefaultsFollow]_vars

\* A lock nobody has a receipt for blocks the environment until an administrator
\* repairs it.
LockHasReceipt == row.Lock # 0 => \E t \in Tools : file[t].token = row.Lock
=============================================================================
