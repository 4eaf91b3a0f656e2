-------------------------------- MODULE Nuke --------------------------------
(* Everything the project ever deployed is removed from one checkout
   (tools/deploy/internal/workflow nuke*.go): every environment's stack and the shared
   index's, what they left outside their stacks, and LAST the buckets that hold their
   state and the keys that encrypt it.

   Unlike a teardown the command does not stop at a failure: every step writes a result
   into the receipt r, which is saved each time, and the last phase is entered only when
   every result of this run is a success.  A run that failed or died is simply run again;
   it forgets the results and keeps what it knows: targets, inventories and keys.  What
   the teardowns of this checkout knew it takes from their receipts, notes. *)
EXTENDS Naturals, FiniteSets

CONSTANTS Targets,      \* the stacks: environments and the shared index
          Apps,         \* the environments
          Resources,    \* what a stack can deploy
          Named,        \* and what of it names DNS records the stack does not manage
          Buckets, Home,\* the state buckets, and the one each stack is kept in
          Settings,     \* what the stacks' secrets and the buckets are encrypted with
          MaxRounds,    \* bounds: how many runs, checks and deployments there are,
          MaxFailures   \* and how often something fails, is not readable or dies

\* A key is known by whom it encrypts, so a bucket is not called like a stack.
ASSUME NukeConstants ==
  /\ Apps \subseteq Targets /\ Home \in [Targets -> Buckets]
  /\ Resources # {} /\ Targets \cap Buckets = {}
  /\ Named \subseteq Targets \X Resources
  /\ MaxRounds \in Nat /\ MaxFailures \in Nat

VARIABLES stacks, state, up, fading, logs, dns, hosts, local, buckets, keys,
          secrets, sealed, notes, place, on, did, r, broken, saved, bak, locked,
          failures, rounds, lost, nuked, checked

outside == <<logs, dns, hosts, local>>
recovery == <<buckets, keys>>
setting == <<secrets, sealed, notes>>
disk == <<saved, bak, locked>>
seen == <<rounds, lost, nuked, checked>>
nukeVars == <<stacks, state, up, fading, logs, dns, hosts, local, buckets, keys, secrets,
              sealed, notes, place, on, did, r, broken, saved, bak, locked, failures, rounds,
              lost, nuked, checked>>

Ours == Targets \X Resources
Of(t) == {t} \X Resources
\* A key is known by whom it encrypts: a stack's secrets or a bucket.  It is enabled
\* while it is in keys; a key of the receipt that is not is pending deletion.
Secrets == {"passphrase", "kms", "other"}
ASSUME SettingsAssumption ==
  Settings \subseteq [secrets : [Targets -> Secrets], sealed : SUBSET Buckets]

\* What a result is about, and can be looked at again later, ...
Artifacts == ({"aws", "stack", "host", "local"} \X Targets) \cup ({"dns"} \X Ours)
               \cup ({"bucket"} \X Buckets) \cup ({"key"} \X (Targets \cup Buckets))
\* ... and what only says that something went wrong.
Remarks == {<<"discovery", "failed">>}
             \cup ({"inventory", "secrets", "dns inventory"} \X Targets)
             \cup ({"recovery"} \X (Targets \cup Buckets))

Receipt == [Targets : SUBSET Targets, Captured : SUBSET Targets, Inventory : SUBSET Ours,
            Desired : SUBSET Ours, Environments : SUBSET Apps,
            Backends : SUBSET Buckets, Keys : SUBSET (Targets \cup Buckets),
            Good : SUBSET Artifacts, Bad : SUBSET (Artifacts \cup Remarks),
            Absent : SUBSET Artifacts, Remain : SUBSET Artifacts,
            Unverified : SUBSET (Artifacts \cup Remarks)]
\* Good and Bad are Results; the last three are CheckResults.
NoReceipt == [f \in {"Targets", "Captured", "Inventory", "Desired", "Environments",
                     "Backends", "Keys", "Good", "Bad", "Absent", "Remain",
                     "Unverified"} |-> {}]

\* What the receipts of this checkout's teardowns say: nuke only reads them.
Notes == [Captured : SUBSET Targets, Inventory : SUBSET Ours, Desired : SUBSET Ours]

\* what the functions of a stack logged, and its tables were backed up to
Logged(t) == t \in logs

\* Is it there?  A key pending deletion still is.
Present(a) ==
  CASE a[1] = "aws" -> (Of(a[2]) \cap (up \cup fading)) # {} \/ Logged(a[2])
    [] a[1] = "stack" -> a[2] \in stacks
    [] a[1] = "dns" -> a[2] \in dns
    [] a[1] = "host" -> a[2] \in hosts
    [] a[1] = "local" -> a[2] \in local
    [] a[1] = "bucket" -> a[2] \in buckets
    [] a[1] = "key" -> TRUE

NukeInit ==
  /\ stacks = Targets /\ state = Ours /\ up = Ours /\ fading = {}
  /\ logs = Targets /\ dns = Named /\ hosts = Apps /\ local \in {{}, Targets}
  /\ \E s \in Settings : secrets = s.secrets /\ sealed = s.sealed
  /\ buckets = {Home[t] : t \in Targets}
  /\ keys = {t \in Targets : secrets[t] = "kms"} \cup (sealed \cap buckets)
  /\ notes = [f \in {"Captured", "Inventory", "Desired"} |-> {}]
  /\ place = "idle" /\ on = {} /\ did = {}
  /\ r = NoReceipt /\ broken = FALSE /\ saved = NoReceipt /\ bak = NoReceipt
  /\ locked = FALSE
  /\ failures = 0 /\ rounds = 0 /\ lost = {} /\ nuked = FALSE /\ checked = FALSE

----------------------------------------------------------------------------
\* The receipt.

Faulty(n) == failures + n <= MaxFailures /\ failures' = failures + n

\* record and save, whole; a save that fails is remembered and blocks the recovery phase
Recorded(new, failed) ==
  /\ r' = new
  /\ \/ /\ saved' = new /\ bak' = NoReceipt /\ UNCHANGED broken
        /\ Faulty(IF failed THEN 1 ELSE 0)
     \/ broken' = TRUE /\ UNCHANGED <<saved, bak>> /\ Faulty(IF failed THEN 2 ELSE 1)
  /\ UNCHANGED locked

\* nukeSuccessful: an allowlist
Successful(receipt) == receipt.Bad = {}

With(receipt, good, bad) == [receipt EXCEPT !.Good = @ \cup good, !.Bad = @ \cup bad]

\* FAULTY variant: the new run's receipt starts empty.
Resumed_Fresh(receipt) == NoReceipt
\* The results are read again; the inventories are kept.
Resumed(receipt) ==
  [receipt EXCEPT !.Good = {}, !.Bad = {}, !.Absent = {}, !.Remain = {},
                  !.Unverified = {}]

----------------------------------------------------------------------------
\* The command.

NukeStart ==
  /\ place = "idle" /\ ~locked /\ bak = NoReceipt
  /\ rounds < MaxRounds /\ rounds' = rounds + 1
  /\ locked' = TRUE /\ r' = Resumed(saved) /\ broken' = FALSE
  /\ place' = "discover"
  /\ UNCHANGED <<stacks, state, up, fading, outside, recovery, setting, on, did, saved,
                 bak, failures, lost, nuked, checked>>

CommandEnds == place' = "idle" /\ r' = NoReceipt /\ on' = {} /\ did' = {} /\ broken' = FALSE

\* Not confirmed, or a deployment is running: nothing was deleted yet.
Stops ==
  /\ place \in {"discover", "confirm"} \/ (place = "targets" /\ did = {})
  /\ CommandEnds /\ locked' = FALSE
  /\ UNCHANGED <<stacks, state, up, fading, outside, recovery, setting, saved, bak,
                 failures, seen>>

\* The lock file stays; a save is cut off between the two renamings.
NukeCrash ==
  /\ place # "idle" /\ CommandEnds /\ Faulty(1)
  /\ \/ UNCHANGED <<saved, bak>>
     \/ saved # NoReceipt /\ saved' = NoReceipt /\ bak' = saved
  /\ UNCHANGED <<stacks, state, up, fading, outside, recovery, setting, locked, seen>>

\* The operator, once no process runs, removes the lock file and puts .bak back.
Unlock ==
  /\ place = "idle" /\ locked /\ locked' = FALSE
  /\ IF bak = NoReceipt THEN UNCHANGED <<saved, bak>>
     ELSE saved' = bak /\ bak' = NoReceipt
  /\ UNCHANGED <<stacks, state, up, fading, outside, recovery, setting, place, on, did, r,
                 broken, failures, seen>>

\* the stacks in the state buckets that are known
StacksIn(homes, denied) ==
  IF denied = "stacks" THEN {} ELSE {t \in stacks : Home[t] \in homes}

\* addTarget, addBackend: what was known of a target before is kept, and what a teardown
\* wrote down of it is added.
Merged(receipt, targets, homes) ==
  [receipt EXCEPT !.Targets = @ \cup targets, !.Backends = @ \cup homes,
                  !.Captured = @ \cup notes.Captured,
                  !.Inventory = @ \cup notes.Inventory,
                  !.Desired = @ \cup notes.Desired]

\* The old receipt, the local records and receipts, the GitHub environments and the state
\* buckets there are; one source may not answer.
Found(denied) ==
  LET remote == IF denied = "github" THEN {} ELSE hosts
      named == r.Targets \cup local \cup notes.Captured \cup remote
      homes == r.Backends \cup {Home[t] : t \in named}
                 \cup (IF denied = "buckets" THEN {} ELSE buckets)
  IN Merged([r EXCEPT !.Environments = @ \cup remote],
            named \cup StacksIn(homes, denied), homes)

Discover ==
  /\ place = "discover"
  /\ \E denied \in {"none", "github", "buckets", "stacks"} :
       LET found == Found(denied)
           gone == {"bucket"} \X (found.Backends \ buckets)
           bad == IF denied = "none" THEN {} ELSE {<<"discovery", "failed">>}
       IN IF gone \cup bad = {} THEN r' = found /\ UNCHANGED <<broken, disk, failures>>
          ELSE Recorded(With(found, gone, bad), bad # {})
  /\ place' = "confirm"
  /\ UNCHANGED <<stacks, state, up, fading, outside, recovery, setting, on, did, seen>>

Confirm ==
  /\ place = "confirm"
  /\ saved' = r /\ bak' = NoReceipt
  /\ place' = "targets"
  /\ UNCHANGED <<stacks, state, up, fading, outside, recovery, setting, on, did, r,
                 broken, locked, failures, seen>>

\* the environments before the shared index
Turn(t) == t \in r.Targets \ did /\ (t \in Apps \/ r.Targets \cap Apps \subseteq did)

\* the key and the records that its export names, those of a Route 53 zone apart: what is
\* destroyed already names nothing
KeyOf(t) == IF secrets[t] = "kms" THEN {t} ELSE {}
RecordsOf(t) == Of(t) \cap state \cap Named

\* FAULTY variant: nothing is kept of a stack before it is destroyed.
Learned_Late(t, named, blind) == [r EXCEPT !.Captured = @ \cup {t}]
\* What is learned from the stack before anything of it is destroyed.  Records that
\* cannot be read and a secrets provider that is not known are failures, and no more.
Learned(t, named, blind) ==
  [r EXCEPT !.Captured = @ \cup {t},
            !.Inventory = @ \cup (Of(t) \cap state),
            !.Desired = @ \cup named,
            !.Keys = @ \cup KeyOf(t),
            !.Bad = @ \cup (IF blind THEN {<<"dns inventory", t>>} ELSE {})
                      \cup (IF secrets[t] = "other" THEN {<<"secrets", t>>} ELSE {})]

\* lost is history: records not named when their stack was last read, records nobody can
\* name any more since what named them is destroyed, and keys no receipt has
Misses(t, named) ==
  (lost \ ({"unnamed"} \X Of(t)))
    \cup ({"unnamed"} \X (RecordsOf(t) \ (r.Desired \cup named)))
    \cup (IF secrets[t] = "other" THEN {<<"key", t>>} ELSE {})

\* destroyTarget up to the save of what it learned; a read of the records that fails
\* may have named some
Capture(t) ==
  /\ place = "targets" /\ Turn(t)
  /\ t \in stacks
  /\ \E named \in SUBSET RecordsOf(t), blind \in BOOLEAN :
       /\ blind \/ named = RecordsOf(t)
       /\ r' = Learned(t, named, blind) /\ saved' = r' /\ bak' = NoReceipt
       /\ lost' = Misses(t, named) /\ Faulty(IF blind THEN 1 ELSE 0)
  /\ on' = {t} /\ place' = "destroy"
  /\ UNCHANGED <<stacks, state, up, fading, outside, recovery, setting, did, broken,
                 locked, rounds, nuked, checked>>

\* The stack is not there; or it cannot be read, is somebody else's, is in use, or what
\* was learned cannot be saved.
PassOver(t) ==
  /\ place = "targets" /\ Turn(t)
  /\ \/ t \notin stacks /\ Recorded(With(r, {<<"stack", t>>}, {}), FALSE)
     \/ Recorded(With(r, {}, {<<"stack", t>>}), TRUE)
  /\ on' = {t} /\ place' = "finish"
  /\ UNCHANGED <<stacks, state, up, fading, outside, recovery, setting, did, seen>>

\* once the guards of whatever the stack manages are lifted
Destroyable == {x \in state : x[1] \in on}

\* The buckets are purged, and pulumi destroy --continue-on-error
\* removes one resource or another; what is removed may be seen for a while.
DestroyOne(x) ==
  /\ place = "destroy" /\ x \in Destroyable
  /\ state' = state \ {x} /\ up' = up \ {x} /\ fading' = fading \cup {x}
  /\ lost' = lost \cup {<<"dns", f[2]>> : f \in lost \cap {<<"unnamed", x>>}}
  /\ UNCHANGED <<stacks, outside, recovery, setting, place, on, did, r, broken, disk,
                 failures, rounds, nuked, checked>>

\* ensureDestroyed: nothing but the stack and its providers is left in the export.
Emptied(t) == Of(t) \cap state = {}

\* the end of destroyTarget
DestroyEnds(t) ==
  /\ place = "destroy" /\ t \in on
  /\ \/ /\ Emptied(t) /\ stacks' = stacks \ {t}
        /\ Recorded(With(r, {<<"stack", t>>}, {}), FALSE)
     \/ Recorded(With(r, {}, {<<"stack", t>>}), TRUE) /\ UNCHANGED stacks
  /\ place' = "finish"
  /\ UNCHANGED <<state, up, fading, outside, recovery, setting, on, did, seen>>

\* what each cleanup leaves: of the logs, if the resources are verified gone, and of the
\* records, if there is a Cloudflare token
LogsLeft(t, gone) == IF gone /\ Of(t) \cap r.Inventory # {} THEN logs \ {t} ELSE logs
RecordsLeft(t, token) == IF token THEN dns \ (Of(t) \cap r.Desired) ELSE dns

\* A stack that was gone before it was ever read says nothing of what it left.
Uncertain(t) == IF t \in r.Captured THEN {} ELSE {<<"inventory", t>>}

\* finishTarget: every resource ever found of it, what it logged and its records
FinishTarget(t, readable, token) ==
  LET mine == Of(t) \cap r.Inventory
      gone == readable /\ mine \cap (up \cup fading) = {}
      aws == IF mine = {} THEN {} ELSE {<<"aws", t>>}
      records == {"dns"} \X (Of(t) \cap r.Desired)
  IN /\ place = "finish" /\ t \in on
     /\ logs' = LogsLeft(t, gone) /\ dns' = RecordsLeft(t, token)
     /\ Recorded(With(r, (IF gone THEN aws ELSE {}) \cup (IF token THEN records ELSE {}),
                         (IF gone THEN {} ELSE aws) \cup (IF token THEN {} ELSE records)
                           \cup Uncertain(t)),
                 (mine # {} /\ ~readable) \/ (records # {} /\ ~token))
     /\ did' = did \cup {t} /\ on' = {} /\ place' = "targets"
     /\ UNCHANGED <<stacks, state, up, fading, hosts, local, recovery, setting, seen>>

\* cleanupEnvironments: roles and GitHub environments, as far as they can be removed;
\* the local records only if everything so far succeeded
CleanEnvironments ==
  LET mine == r.Environments \cup (r.Targets \cap Apps) IN
  /\ place = "targets" /\ r.Targets \subseteq did
  /\ \E kept \in SUBSET mine :
       LET after == With(r, {"host"} \X (mine \ kept), {"host"} \X kept)
           tidy == Successful(after)
       IN /\ hosts' = (hosts \ mine) \cup (hosts \cap kept)
          /\ local' = IF tidy THEN local \ r.Targets ELSE local
          /\ Recorded(IF tidy THEN With(after, {"local"} \X r.Targets, {}) ELSE after,
                      kept # {})
  /\ place' = "preflight"
  /\ UNCHANGED <<stacks, state, up, fading, logs, dns, recovery, setting, on, did, seen>>

\* FAULTY variant: no gate before the last phase.
Released_Always(receipt) == TRUE
Released(receipt) == Successful(receipt) /\ ~broken

\* the buckets that still hold a stack
Crowded(bs) == {b \in bs : \E t \in stacks : Home[t] = b}

\* nukeDescribeKey: a key that is not enabled is pending deletion, or gone
Pending(ks) == {"key"} \X (ks \ keys)

\* A bucket or a key at a time may be refused: it holds foreign objects, or is not
\* confirmed.
Refusals(bs, ks) == {{}} \cup {{x} : x \in bs \cup ks}

\* the first part of cleanupRecovery, which deletes nothing: the buckets hold no stack
\* and nothing foreign, and every key is known and confirmed to be the project's alone
Preflight ==
  LET there == r.Backends \cap buckets
      found == [r EXCEPT !.Keys = @ \cup (sealed \cap there)]
  IN /\ place = "preflight" /\ Released(r)
     /\ \E refused \in Refusals(there, found.Keys \cap keys) :
          LET bad == {"recovery"} \X (Crowded(there) \cup refused)
              after == With(found, Pending(found.Keys), bad)
          IN /\ place' = IF bad = {} THEN "buckets" ELSE "end"
             /\ IF bad = {} THEN r' = after /\ saved' = after /\ bak' = NoReceipt
                                 /\ UNCHANGED <<broken, locked, failures>>
                ELSE Recorded(after, refused # {})
     /\ UNCHANGED <<stacks, state, up, fading, outside, recovery, setting, on, did, seen>>

\* Recovery is not reached, or the keys found cannot be saved.
Withheld ==
  /\ place = "preflight"
  /\ \/ ~Released(r) /\ UNCHANGED <<broken, failures>>
     \/ broken' = TRUE /\ Faulty(1)
  /\ place' = "end"
  /\ UNCHANGED <<stacks, state, up, fading, outside, recovery, setting, on, did, r, disk,
                 seen>>

\* One bucket after the other is purged and deleted, up to the first failure.
DeleteBucket(b) ==
  /\ place = "buckets" /\ b \in r.Backends \ did
  /\ did' = did \cup {b} /\ on' = on
  /\ \/ buckets' = buckets \ {b} /\ Recorded(With(r, {<<"bucket", b>>}, {}), FALSE)
        /\ place' = IF broken' THEN "end" ELSE place
     \/ /\ UNCHANGED buckets /\ Recorded(With(r, {}, {<<"bucket", b>>}), TRUE)
        /\ place' = "end"
  /\ UNCHANGED <<stacks, state, up, fading, outside, keys, setting, seen>>

BucketsDone(receipt) == receipt.Backends \subseteq did

\* The keys, each tried whatever became of the others
ScheduleKey(k) ==
  /\ place = "buckets" /\ BucketsDone(r) /\ k \in r.Keys \cap keys
  /\ <<"key", k>> \notin r.Bad
  /\ \/ keys' = keys \ {k} /\ Recorded(With(r, {<<"key", k>>}, {}), FALSE)
     \/ UNCHANGED keys /\ Recorded(With(r, {}, {<<"key", k>>}), TRUE)
  /\ UNCHANGED <<stacks, state, up, fading, outside, buckets, setting, place, on, did,
                 seen>>

\* reportRetainedRecovery
Retained(receipt) ==
  With(receipt, ({"bucket"} \X (receipt.Backends \ buckets)) \cup Pending(receipt.Keys),
       ({"bucket"} \X (receipt.Backends \cap buckets))
         \cup ({"key"} \X (receipt.Keys \cap keys)))

\* What is left is reported, and the command ends.
End ==
  /\ \/ place = "end"
     \/ /\ place = "buckets" /\ BucketsDone(r)
        /\ \A k \in r.Keys \cap keys : <<"key", k>> \in r.Bad
  /\ nuked' = (nuked \/ (Successful(r) /\ ~broken))
  /\ IF Successful(r) /\ ~broken THEN UNCHANGED saved
     ELSE saved' \in {saved, Retained(r)}
  /\ CommandEnds /\ locked' = FALSE /\ bak' = IF saved' = saved THEN bak ELSE NoReceipt
  /\ UNCHANGED <<stacks, state, up, fading, outside, recovery, setting, failures, rounds,
                 lost, checked>>

----------------------------------------------------------------------------
\* The report is checked, and nothing is deleted.

\* Without a token the records, and without GitHub access the environments, are not
\* verifiable; a remark never is.
Unreadable(blind) == Remarks \cup {a \in Artifacts : a[1] \in blind}

\* FAULTY variant: what a fast check does not read again is dropped.
Kept_Remaining(receipt) == receipt.Absent
\* A fast check keeps what was absent or not verifiable.
Kept(receipt) == receipt.Absent \cup receipt.Unverified

Check(fast, blind) ==
  LET read == IF fast THEN saved.Remain ELSE saved.Good \cup saved.Bad
      clear == {a \in read \ Unreadable(blind) : ~Present(a)}
      dark == read \cap Unreadable(blind)
      kept == IF fast THEN Kept(saved) ELSE {}
  IN /\ place = "idle" /\ ~locked /\ bak = NoReceipt
     /\ saved.Good \cup saved.Bad # {}
     /\ fast => saved.Absent \cup saved.Remain \cup saved.Unverified # {}
     /\ saved' = [saved EXCEPT !.Absent = clear \cup (kept \cap saved.Absent),
                               !.Remain = read \ (clear \cup dark),
                               !.Unverified = dark \cup (kept \cap saved.Unverified)]
     /\ checked' = (checked \/ ~fast)
     /\ rounds < MaxRounds /\ rounds' = rounds + 1
     /\ UNCHANGED <<stacks, state, up, fading, outside, recovery, setting, place, on, did,
                    r, broken, bak, locked, failures, lost, nuked>>

----------------------------------------------------------------------------
\* The others.

\* A teardown of one stack from this checkout, as far as it came (Teardown.tla has its
\* steps).  Its receipt keeps the resources and the records, not the key.
TearDown(t) ==
  /\ place = "idle" /\ rounds < MaxRounds /\ rounds' = rounds + 1
  /\ t \in stacks \ notes.Captured /\ (t \in Apps => t \in hosts)
  /\ notes' = [Captured |-> notes.Captured \cup {t},
               Inventory |-> notes.Inventory \cup (Of(t) \cap state),
               Desired |-> notes.Desired \cup RecordsOf(t)]
  /\ \E gone \in SUBSET (Of(t) \cap state) :
       /\ state' = state \ gone /\ up' = up \ gone /\ fading' = fading \cup gone
       /\ \/ UNCHANGED <<stacks, outside, lost>>
          \/ /\ Of(t) \cap state' = {} /\ stacks' = stacks \ {t}
             /\ dns' \in {dns, dns \ RecordsOf(t)}
             /\ \E all \in BOOLEAN : /\ hosts' = IF all THEN hosts \ {t} ELSE hosts
                                    /\ local' = IF all THEN local \ {t} ELSE local
             /\ lost' = lost \cup ({"torn"} \X (KeyOf(t) \ (saved.Keys \cup bak.Keys)))
             /\ UNCHANGED logs
  /\ UNCHANGED <<recovery, secrets, sealed, place, on, did, r, broken, disk, failures,
                 nuked, checked>>

Fade(x) ==
  /\ x \in fading /\ fading' = fading \ {x}
  /\ UNCHANGED <<stacks, state, up, outside, recovery, setting, place, on, did, r, broken,
                 disk, failures, seen>>

\* A deployment, from elsewhere: before a run, or during one, against the rule, once the
\* run is through with the stacks.  While buckets are deleted nobody deploys.
Redeploy(t) ==
  /\ place \in {"idle", "preflight"} /\ rounds < MaxRounds
  /\ Of(t) \cap state # Of(t)
  /\ secrets[t] = "kms" => t \in keys
  /\ Home[t] \in sealed => Home[t] \in keys
  /\ stacks' = stacks \cup {t} /\ state' = state \cup Of(t) /\ up' = up \cup Of(t)
  /\ fading' = fading \ Of(t)
  /\ logs' = logs \cup {t} /\ buckets' = buckets \cup {Home[t]}
  /\ dns' = dns \cup (Of(t) \cap Named) /\ hosts' = hosts \cup ({t} \cap Apps)
  /\ rounds' = rounds + 1 /\ nuked' = FALSE /\ checked' = FALSE
  /\ UNCHANGED <<local, keys, setting, place, on, did, r, broken, disk, failures, lost>>

NukeNext ==
  \/ NukeStart \/ Stops \/ NukeCrash \/ Unlock \/ Discover \/ Confirm
  \/ CleanEnvironments \/ Preflight \/ Withheld \/ End
  \/ \E t \in Targets : \/ Capture(t) \/ PassOver(t) \/ DestroyEnds(t)
                        \/ TearDown(t) \/ Redeploy(t)
                        \/ \E readable, token \in BOOLEAN : FinishTarget(t, readable, token)
  \/ \E x \in Ours : DestroyOne(x) \/ Fade(x)
  \/ \E b \in Buckets : DeleteBucket(b)
  \/ \E k \in Targets \cup Buckets : ScheduleKey(k)
  \/ \E fast \in BOOLEAN, blind \in SUBSET {"dns", "host"} : Check(fast, blind)

NukeSpec == NukeInit /\ [][NukeNext]_nukeVars

----------------------------------------------------------------------------
\* Properties.

NukeTypeOK ==
  /\ stacks \subseteq Targets /\ {state, up, fading} \subseteq SUBSET Ours
  /\ UNION {logs, local} \subseteq Targets /\ dns \subseteq Named /\ hosts \subseteq Apps
  /\ buckets \subseteq Buckets /\ keys \subseteq Targets \cup Buckets
  /\ secrets \in [Targets -> Secrets] /\ sealed \subseteq Buckets
  /\ place \in {"idle", "discover", "confirm", "targets", "destroy", "finish",
                "preflight", "buckets", "end"}
  /\ on \subseteq Targets /\ did \subseteq Targets \cup Buckets
  /\ {broken, locked, nuked, checked} \subseteq BOOLEAN
  /\ {r, saved, bak} \subseteq Receipt /\ notes \in Notes
  /\ failures \in 0..MaxFailures /\ rounds \in 0..MaxRounds
  /\ lost \subseteq ({"unnamed", "dns"} \X Ours) \cup ({"key", "torn"} \X Targets)

\* Everything any run was to remove is gone.  Of records that could not be read before
\* what names them was destroyed nuke knows nothing.
EverythingGone ==
  /\ stacks = {} /\ up = {} /\ fading = {} /\ logs = {} /\ hosts = {}
  /\ \A x \in dns : <<"dns", x>> \in lost

\* Of every step: a state bucket goes only after every stack, resource, log, role and
\* record is gone -- of all runs, not of the one that deletes it -- and a key only after
\* every bucket.
RecoveryLast ==
  [][/\ buckets' \subseteq buckets /\ buckets' # buckets => EverythingGone
     /\ ~(keys \subseteq keys') => buckets = {}]_nukeVars

\* The key of a stack that is gone, and of a bucket that is gone, is in the receipt, or in
\* its copy, until it is pending deletion: losing the bucket never loses the key.  The
\* exception is the key of a stack that a teardown removed, which nobody remembers.
KeysRemembered ==
  \A k \in keys \ (stacks \cup buckets) :
    k \in saved.Keys \cup bak.Keys \/ <<"torn", k>> \in lost

\* What is in no stack's state any more is in a saved inventory.
NothingForgotten ==
  up \cup fading \subseteq
    state \cup saved.Inventory \cup bak.Inventory \cup notes.Inventory

\* "Nuke finished" means it: everything is gone and every key pending, whatever earlier
\* runs failed at, until somebody deploys again.  What it leaves is what it never knew.
NukedMeansGone ==
  nuked => EverythingGone /\ buckets = {} /\ \A k \in keys : <<"torn", k>> \in lost

\* A report whose checks, full and fast, found everything absent is right about it.
CheckedTruly ==
  checked /\ saved.Absent # {} /\ saved.Remain \cup saved.Unverified = {} =>
    \A a \in saved.Good \cup saved.Bad : a \notin Remarks /\ ~Present(a)

\* What nuke has yet to remove it remembers, and what it reports gone is gone.
NukeSound ==
  /\ NukeTypeOK
  /\ KeysRemembered /\ NothingForgotten
  /\ NukedMeansGone /\ CheckedTruly

\* "A failed or unverifiable earlier step preserves recovery buckets and keys"
FailurePreserves ==
  \A f \in lost : /\ f[1] = "dns" => Home[f[2][1]] \in buckets
                 /\ f[1] = "key" => Home[f[2]] \in buckets
=============================================================================
