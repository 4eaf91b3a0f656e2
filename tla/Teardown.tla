------------------------------ MODULE Teardown ------------------------------
(* One environment is taken down from one checkout (tools/deploy/internal/workflow
   teardown*.go), by a command that may stop or die at any moment and is started again,
   while the environment is deployed, changed and set up anew by others
   (setup_lifecycle.go).

   The command works through steps in a fixed order.  What it learned and did is in p;
   every step is followed by a save of p, and what it did without saving is done all the
   same.  entry is the environment's row of the index, whose lease the command holds until
   it is done; each change of it is one action here, its retries are the subject of
   IndexLease.  An environment that no index lists (indexed) has no lease: the command goes
   on without. *)
EXTENDS RegistryRow, FiniteSets

CONSTANTS Things,       \* what the stack can deploy
          Bucket,       \* the one of them that holds identity evidence
          MaxLives      \* bound: how often the environment is created

ASSUME TeardownConstants == Bucket \in Things /\ MaxLives \in Nat \ {0}

VARIABLES things, exported, stackUp, evidence, records, role, github, files, indexed,
          entry, life, step, p, unsaved, checkpoint, backup, lockFile

cloud == <<things, exported, stackUp, evidence, records, role, github, files>>
listing == <<indexed, entry>>
checkpoints == <<checkpoint, backup, lockFile>>
teardownVars == <<things, exported, stackUp, evidence, records, role, github, files,
                  indexed, entry, life, step, p, unsaved, checkpoint, backup, lockFile>>

Flags == {"Destroyed", "IndexRetired", "DNSDone", "DNSSkipped", "RoleDone", "StackRemoved",
          "CleanupDone", "LocalDone", "Complete"}
\* Life is history: the life of the environment when the stack was last inspected with
\* something left to destroy.
Progress == [Done : SUBSET Flags, Inventory : SUBSET Things, Desired : BOOLEAN,
             Zone : BOOLEAN, Token : Nat, Revision : Nat, Life : Nat]
NoCheckpoint == [Done |-> {}, Inventory |-> {}, Desired |-> FALSE, Zone |-> FALSE,
                 Token |-> 0, Revision |-> 0, Life |-> 0]
IsSaved == checkpoint.Life # 0

\* what follows each step, and the flag by which the step is known to be done
Follows == [inspect |-> "dnschoice", dnschoice |-> "confirm", confirm |-> "index",
            index |-> "begin", begin |-> "destroy",
            destroy |-> "retire", retire |-> "dns", dns |-> "role", role |-> "stack",
            stack |-> "github", github |-> "local", local |-> "validate",
            validate |-> "delete"]
FlagOf == [destroy |-> "Destroyed", retire |-> "IndexRetired", role |-> "RoleDone",
           stack |-> "StackRemoved", github |-> "CleanupDone", local |-> "LocalDone"]
Steps == DOMAIN Follows \cup {"idle", "delete"}

Request(op) == [op |-> op, token |-> p.Token, revision |-> p.Revision, content |-> Nothing]

TeardownInit ==
  /\ exported \in (SUBSET Things) \ {{}} /\ stackUp = TRUE /\ evidence \in BOOLEAN
  /\ things = [x \in Things |-> IF x \in exported THEN "up" ELSE "gone"]
  /\ records \in BOOLEAN /\ role = "ours" /\ github = "ours" /\ files \in BOOLEAN
  /\ indexed \in BOOLEAN
  /\ \E c \in Contents :
       entry = IF indexed
               THEN Published(Begun(NoRow, 1), [token |-> 1, revision |-> 1, content |-> c],
                              Nothing, 0)
               ELSE NoRow
  /\ life = 1
  /\ step = "idle" /\ p = NoCheckpoint /\ unsaved = FALSE
  /\ checkpoint = NoCheckpoint /\ backup = NoCheckpoint /\ lockFile = FALSE

----------------------------------------------------------------------------
\* The command.

Completed == "Complete" \in checkpoint.Done

\* It takes the lock file and the checkpoint, or begins one.
TeardownStart ==
  /\ step = "idle" /\ ~lockFile /\ ~Completed
  /\ ~IsSaved => backup.Life = 0 /\ github # "none"
  /\ IsSaved => github # "changed"
  /\ lockFile' = TRUE
  /\ p' = IF IsSaved THEN checkpoint ELSE [NoCheckpoint EXCEPT !.Life = life]
  /\ step' = "inspect"
  /\ UNCHANGED <<cloud, listing, life, unsaved, checkpoint, backup>>

\* runTeardownSteps stops at the first error, and so does everything before it.
TeardownStops ==
  /\ step # "idle"
  /\ step' = "idle" /\ p' = NoCheckpoint /\ unsaved' = FALSE /\ lockFile' = FALSE
  /\ UNCHANGED <<cloud, listing, life, checkpoint, backup>>

\* The lock file stays; a save is cut off between the two renamings.
TeardownCrash ==
  /\ step # "idle"
  /\ step' = "idle" /\ p' = NoCheckpoint /\ unsaved' = FALSE
  /\ \/ UNCHANGED <<checkpoint, backup>>
     \/ unsaved /\ IsSaved /\ checkpoint' = NoCheckpoint /\ backup' = checkpoint
  /\ UNCHANGED <<cloud, listing, life, lockFile>>

\* The operator, once no process runs, removes the lock file and puts .bak back.
TeardownUnlock ==
  /\ step = "idle" /\ lockFile
  /\ lockFile' = FALSE
  /\ IF IsSaved THEN UNCHANGED <<checkpoint, backup>>
     ELSE checkpoint' = backup /\ backup' = NoCheckpoint
  /\ UNCHANGED <<cloud, listing, life, step, p, unsaved>>

\* teardownProgress.save, whole
Save ==
  /\ unsaved
  /\ unsaved' = FALSE /\ checkpoint' = p /\ backup' = NoCheckpoint
  /\ UNCHANGED <<cloud, listing, life, step, p, lockFile>>

AtStep(s) == step = s /\ ~unsaved
Advances == step' = Follows[step]
Did(flag) == p' = [p EXCEPT !.Done = @ \cup {flag}] /\ Advances /\ unsaved' = TRUE
Skips == p' = p /\ Advances /\ unsaved' = FALSE

\* An inventory grows with every run until the stack is destroyed; the DNS records are
\* looked up by the first one only.
InventoryWith(found) == p.Inventory \cup found
Desired == IF IsSaved THEN p.Desired ELSE records

\* its tags, trust and policies are those that setup gave it
RoleIsOurs == role # "changed"

\* The stack must be there unless it was destroyed before, and not be there again.
Inspect ==
  /\ AtStep("inspect")
  /\ IF stackUp
     THEN /\ "StackRemoved" \notin p.Done
          /\ "Destroyed" \in p.Done => exported = {}
          /\ p' = IF "Destroyed" \in p.Done THEN p
                  ELSE [p EXCEPT !.Inventory = InventoryWith(exported),
                                 !.Desired = Desired, !.Life = life]
     ELSE "Destroyed" \in p.Done /\ p' = p
  /\ "RoleDone" \notin p.Done => RoleIsOurs
  /\ Advances
  /\ UNCHANGED <<cloud, listing, life, unsaved, checkpoints>>

\* Cloudflare is skipped, or a zone and the records to delete are chosen.
ChooseDNS ==
  /\ AtStep("dnschoice")
  /\ \/ ("DNSDone" \in p.Done \/ "DNSSkipped" \in p.Done \/ ~p.Desired) /\ p' = p
     \/ /\ "DNSDone" \notin p.Done /\ "DNSSkipped" \notin p.Done /\ p.Desired
        /\ \/ p' = [p EXCEPT !.Done = @ \cup {"DNSSkipped"}]
           \/ p' = [p EXCEPT !.Zone = TRUE]
  /\ Advances
  /\ UNCHANGED <<cloud, listing, life, unsaved, checkpoints>>

\* The preview was read and the environment's name typed; from here on p is saved.
ConfirmTeardown ==
  /\ AtStep("confirm")
  /\ p' = p /\ Advances /\ unsaved' = TRUE
  /\ UNCHANGED <<cloud, listing, life, checkpoints>>

\* indexClientFromConfig: without a token the stack's configuration says whether there
\* is an index, as long as there is a stack.
HasIndex == p.Token # 0 \/ (indexed /\ stackUp /\ "StackRemoved" \notin p.Done)

\* The token is on disk before it is used; one that was not is never heard of again.
DrawToken ==
  /\ AtStep("index") /\ Advances
  /\ IF HasIndex /\ p.Token = 0
     THEN p' = [p EXCEPT !.Token = 2 * p.Life] /\ unsaved' = TRUE
     ELSE UNCHANGED <<p, unsaved>>
  /\ UNCHANGED <<cloud, listing, life, checkpoints>>

Lease ==
  /\ AtStep("begin") /\ p.Token # 0 /\ Advances /\ unsaved' = TRUE
  /\ \/ p.Revision # 0 /\ UNCHANGED <<entry, p>>
     \/ /\ p.Revision = 0 /\ entry.Lock = p.Token
        /\ p' = [p EXCEPT !.Revision = entry.Revision] /\ UNCHANGED entry
     \/ /\ p.Revision = 0 /\ Free(entry, p.Token)
        /\ entry' = Begun(entry, p.Token) /\ p' = [p EXCEPT !.Revision = entry'.Revision]
  /\ UNCHANGED <<cloud, indexed, life, checkpoints>>

\* No index: no lease, and no retirement.
Unregistered ==
  /\ step \in {"begin", "retire"} /\ ~unsaved /\ p.Token = 0
  /\ Skips
  /\ UNCHANGED <<cloud, listing, life, checkpoints>>

\* A step done before is passed over; so is what was never wanted.
Skip ==
  /\ step \in DOMAIN FlagOf /\ ~unsaved /\ FlagOf[step] \in p.Done
  /\ Skips
  /\ UNCHANGED <<cloud, listing, life, checkpoints>>

\* purgeEvidence, after the bucket's name was typed too
Purge ==
  /\ AtStep("destroy") /\ "Destroyed" \notin p.Done /\ evidence /\ Bucket \in exported
  /\ evidence' = FALSE
  /\ UNCHANGED <<things, exported, stackUp, records, role, github, files, listing, life,
                 step, p, unsaved, checkpoints>>

\* pulumi destroy removes one resource after the other, as far as it gets; what is
\* removed may be seen for a while.
DestroyThing(x) ==
  /\ AtStep("destroy") /\ "Destroyed" \notin p.Done /\ x \in exported
  /\ x = Bucket => ~evidence
  /\ exported' = exported \ {x} /\ things' = [things EXCEPT ![x] = "fading"]
  /\ UNCHANGED <<stackUp, evidence, records, role, github, files, listing, life, step, p,
                 unsaved, checkpoints>>

\* FAULTY variant: the exit code of pulumi destroy is enough.
Destroyed_Exit(resources) == TRUE
\* ensureDestroyed: nothing but the stack and its providers is left in the export.
Destroyed(resources) == resources = {}

StackDestroyed ==
  /\ AtStep("destroy") /\ "Destroyed" \notin p.Done
  /\ Destroyed(exported)
  /\ Did("Destroyed")
  /\ UNCHANGED <<cloud, listing, life, checkpoints>>

\* The index stops listing the environment and the lease is kept.
Retire ==
  /\ AtStep("retire") /\ p.Token # 0 /\ "IndexRetired" \notin p.Done
  /\ Owned(entry, Request("retire")) /\ entry' = Retired(entry)
  /\ Did("IndexRetired")
  /\ UNCHANGED <<cloud, indexed, life, checkpoints>>

\* cleanupTeardownDNS; a skipped phase is not a completed one
CleanDNS ==
  /\ AtStep("dns")
  /\ IF {"DNSDone", "DNSSkipped"} \cap p.Done # {} THEN Skips /\ UNCHANGED records
     ELSE records' = (records /\ ~p.Zone) /\ Did("DNSDone")
  /\ UNCHANGED <<things, exported, stackUp, evidence, role, github, files, listing, life,
                 checkpoints>>

\* deleteTeardownRole: only a role that is wholly this environment's
DeleteRole ==
  /\ AtStep("role") /\ "RoleDone" \notin p.Done
  /\ RoleIsOurs /\ role' = "none"
  /\ Did("RoleDone")
  /\ UNCHANGED <<things, exported, stackUp, evidence, records, github, files, listing, life,
                 checkpoints>>

\* pulumi stack rm refuses a stack with resources.
RemoveStack ==
  /\ AtStep("stack") /\ "StackRemoved" \notin p.Done
  /\ exported = {} /\ stackUp' = FALSE
  /\ Did("StackRemoved")
  /\ UNCHANGED <<things, exported, evidence, records, role, github, files, listing, life,
                 checkpoints>>

DeleteGithub ==
  /\ AtStep("github") /\ "CleanupDone" \notin p.Done
  /\ github # "changed" /\ github' = "none"
  /\ Did("CleanupDone")
  /\ UNCHANGED <<things, exported, stackUp, evidence, records, role, files, listing, life,
                 checkpoints>>

\* cleanupTeardownLocal
CleanLocal ==
  /\ AtStep("local") /\ "LocalDone" \notin p.Done
  /\ files' = FALSE
  /\ Did("LocalDone")
  /\ UNCHANGED <<things, exported, stackUp, evidence, records, role, github, listing, life,
                 checkpoints>>

\* what the provider answers when asked for it, and what the index lists
Gone(x) == things[x] = "gone"
Unlisted == Listed(entry) = Nothing

\* verifyTeardown: everything in the inventory, and everything outside the stack
Verified ==
  /\ \A x \in p.Inventory : Gone(x)
  /\ role = "none" /\ ~stackUp /\ github = "none" /\ ~files
  /\ "DNSSkipped" \in p.Done \/ (p.Desired => ~records)
  /\ p.Token # 0 => Unlisted

\* finalizeTeardownValidation looks up to three times: it may wait here, or stop.
Validate ==
  /\ AtStep("validate") /\ Verified
  /\ p' = p /\ Advances /\ unsaved' = TRUE
  /\ UNCHANGED <<cloud, listing, life, checkpoints>>

DeleteEntry ==
  /\ AtStep("delete") /\ "Complete" \notin p.Done
  /\ \/ p.Token = 0 /\ UNCHANGED entry
     \/ /\ p.Token # 0 /\ entry.Revision = p.Revision
        /\ \/ Settled(entry, Request("delete")) /\ UNCHANGED entry
           \/ Owned(entry, Request("delete")) /\ entry' = Removed(entry, Request("delete"))
  /\ p' = [p EXCEPT !.Done = @ \cup {"Complete"}] /\ unsaved' = TRUE
  /\ UNCHANGED <<cloud, indexed, life, step, checkpoints>>

----------------------------------------------------------------------------
\* The others.

ThingFades(x) ==
  /\ things[x] \in {"fading", "elsewhere"} /\ things' = [things EXCEPT ![x] = "gone"]
  /\ UNCHANGED <<exported, stackUp, evidence, records, role, github, files, listing, life,
                 step, p, unsaved, checkpoints>>

\* somebody edits the GitHub environment, attaches a policy to the role, or takes it back
Meddle ==
  /\ \/ github # "none" /\ github' \in {"ours", "changed"} /\ UNCHANGED role
     \/ role # "none" /\ role' \in {"ours", "changed"} /\ UNCHANGED github
  /\ UNCHANGED <<things, exported, stackUp, evidence, records, files, listing, life, step,
                 p, unsaved, checkpoints>>

\* beginSetupLifecycle: an unfinished teardown stops a setup, a finished one is archived.
NewLifecycle ==
  /\ ~lockFile /\ backup.Life = 0 /\ (IsSaved => Completed)
  /\ checkpoint' = NoCheckpoint

\* A setup or a deployment, from this checkout or from another.  None is run while the
\* command runs.  It may be the first one with an index.
Setup(here) ==
  LET token == 2 * entry.Revision + 1 IN
  /\ step = "idle"
  /\ IF here THEN NewLifecycle ELSE UNCHANGED checkpoint
  /\ exported # Things \/ (here /\ IsSaved)
  /\ exported = {} => life < MaxLives
  /\ life' = IF exported = {} THEN life + 1 ELSE life
  /\ \/ ~indexed /\ UNCHANGED listing
     \/ /\ indexed' = TRUE /\ Free(entry, token)
        /\ \E c \in Contents :
             entry' = Published(Begun(entry, token),
                        [token |-> token, revision |-> entry.Revision + 1, content |-> c],
                        Listed(entry), entry.Since)
  /\ exported' = Things /\ things' = [x \in Things |-> "up"] /\ stackUp' = TRUE
  /\ evidence' \in BOOLEAN /\ role' = "ours" /\ github' = "ours"
  /\ records' \in {records, TRUE}
  /\ files' = (here \/ files)
  /\ UNCHANGED <<step, p, unsaved, backup, lockFile>>

\* The other checkout's teardown holds a lease too.
HeldElsewhere == entry.Lock % 2 = 1
Elsewhere == step = "idle" /\ RoleIsOurs /\ github # "changed"

\* A teardown from another checkout takes the lease and destroys some of the stack, ...
DestroyElsewhere ==
  LET token == 2 * entry.Revision + 1 IN
  /\ Elsewhere /\ stackUp
  /\ \/ (~indexed \/ HeldElsewhere) /\ UNCHANGED listing
     \/ /\ indexed /\ Free(entry, token)
        /\ entry' = Begun(entry, token) /\ UNCHANGED indexed
  /\ exported' \in SUBSET exported /\ evidence' \in {evidence, FALSE}
  /\ Bucket \in exported \ exported' => ~evidence'
  /\ things' = [x \in Things |-> IF x \in exported \ exported' THEN "elsewhere"
                                 ELSE things[x]]
  /\ UNCHANGED <<stackUp, records, role, github, files, life, step, p, unsaved,
                 checkpoints>>

\* ... and, once nothing is left of it, goes on from there as far as it comes.
FinishElsewhere ==
  LET q == [op |-> "delete", token |-> entry.Lock, revision |-> entry.Revision,
            content |-> Nothing]
  IN /\ Elsewhere /\ exported = {} /\ (stackUp \/ github # "none" \/ HeldElsewhere)
     /\ indexed => HeldElsewhere
     /\ records' \in {records, FALSE} /\ role' \in {role, "none"}
     /\ stackUp' \in {stackUp, FALSE} /\ github' \in {github, "none"}
     /\ ~stackUp' => role' = "none"
     /\ github' = "none" => ~stackUp'
     /\ \/ ~indexed /\ UNCHANGED entry
        \/ indexed /\ entry' = Retired(entry)
        \/ indexed /\ github' = "none" /\ entry' = Removed(entry, q)
     /\ UNCHANGED <<things, exported, evidence, files, indexed, life, step, p, unsaved,
                    checkpoints>>

TeardownNext ==
  \/ TeardownStart \/ TeardownStops \/ TeardownCrash \/ TeardownUnlock \/ Save
  \/ Inspect \/ ChooseDNS \/ ConfirmTeardown \/ DrawToken \/ Lease \/ Unregistered
  \/ Skip \/ DestroyElsewhere \/ FinishElsewhere
  \/ Purge \/ StackDestroyed \/ Retire \/ CleanDNS \/ DeleteRole \/ RemoveStack
  \/ DeleteGithub \/ CleanLocal \/ Validate \/ DeleteEntry \/ Meddle
  \/ \E x \in Things : DestroyThing(x) \/ ThingFades(x)
  \/ \E here \in BOOLEAN : Setup(here)

TeardownSpec == TeardownInit /\ [][TeardownNext]_teardownVars

----------------------------------------------------------------------------
\* Properties.

TeardownTypeOK ==
  /\ things \in [Things -> {"up", "fading", "elsewhere", "gone"}]
  /\ exported \subseteq Things
  /\ {stackUp, evidence, records, files, indexed, unsaved, lockFile} \subseteq BOOLEAN
  /\ role \in {"ours", "changed", "none"} /\ github \in {"ours", "changed", "none"}
  /\ entry \in Row /\ life \in Nat
  /\ step \in Steps /\ {p, checkpoint, backup} \subseteq Progress

\* Nothing outside the stack is removed while the stack has resources, and the GitHub
\* environment, which is needed to resume, goes after the stack.
RemovedInOrder ==
  /\ role = "none" \/ github = "none" \/ ~stackUp \/ entry.Deleted => exported = {}
  /\ github = "none" => ~stackUp

\* Of every step: the same is true of the DNS records; and the stack and the GitHub
\* environment go after the role, unless the role was set up anew after this checkpoint had
\* it deleted.
RecordsInOrder ==
  /\ records /\ ~records' => exported' = {}
  /\ stackUp /\ ~stackUp' => role' = "none" \/ p.Life # life
  /\ github # "none" /\ github' = "none" => role' = "none" \/ p.Life # life

\* What a finished teardown reported gone is gone, whatever earlier attempts did and
\* forgot, and nothing it left keeps the environment from being set up again.  What another
\* checkout destroyed before this one ever saw it may be seen for a while.
CompleteMeansGone ==
  Completed /\ checkpoint.Life = life =>
    /\ \A x \in Things : \/ things[x] = "gone"
                         \/ things[x] = "elsewhere" /\ x \notin checkpoint.Inventory
    /\ ~stackUp /\ role = "none" /\ github = "none"
    /\ records => "DNSSkipped" \in checkpoint.Done \/ ~checkpoint.Desired
    /\ entry.Lock = 0 /\ Listed(entry) = Nothing

\* Of every step: a teardown that destroyed the stack, however often resumed, removes
\* nothing of an environment set up since, unless another teardown has left none of its
\* resources.  One that has not destroyed it yet inspects, previews and confirms whatever
\* environment there is.
Removes ==
  /\ step # "idle"
  /\ \/ \E x \in Things : things[x] = "up" /\ things'[x] # "up"
     \/ stackUp /\ ~stackUp'
     \/ role # "none" /\ role' = "none"
     \/ github # "none" /\ github' = "none"
     \/ records /\ ~records'
     \/ Listed(entry) # Nothing /\ Listed(entry') = Nothing
     \/ step = "destroy" /\ evidence /\ ~evidence'
RecreatedUntouched ==
  Removes => p.Life = life \/ ("Destroyed" \in p.Done /\ exported = {})

\* A teardown takes apart what it was begun for, in an order it can resume, and wholly.
TeardownSound ==
  /\ [](TeardownTypeOK /\ RemovedInOrder /\ CompleteMeansGone)
  /\ [][RecordsInOrder /\ RecreatedUntouched]_teardownVars
=============================================================================
