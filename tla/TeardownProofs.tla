--------------------------- MODULE TeardownProofs ---------------------------
(* What holds of teardowns, however often they stop, die and are started again, and
   however often the environment is set up anew or taken down by others.

   One checkout has one checkpoint, which is in its file or in the copy beside it (kept).
   What it says of its own life of the environment is so (Agrees): from the lease to the
   deletion of the entry nobody else has one, and without an index the environment has to
   be set up anew, in another life, to disagree.  A checkpoint of an earlier life that has
   a lease has destroyed the stack (Older); it gets past the inspection only when there is
   nothing left, of this life's environment either (Reached). *)
EXTENDS Teardown, TLAPS

----------------------------------------------------------------------------
\* The inductive invariant.

\* the checkpoint, wherever it is
kept == IF IsSaved THEN checkpoint ELSE backup

\* The steps before the first save, and those after each of the others.
Asking == {"inspect", "dnschoice", "confirm"}
AfterLocal == {"validate", "delete"}
AfterGithub == {"local"} \cup AfterLocal
AfterStack == {"github"} \cup AfterGithub
AfterRole == {"stack"} \cup AfterStack
AfterDNS == {"role"} \cup AfterRole
AfterRetire == {"dns"} \cup AfterDNS
AfterDestroy == {"retire"} \cup AfterRetire
AfterLease == {"destroy"} \cup AfterDestroy
AfterToken == {"begin"} \cup AfterLease
Confirmed == {"index"} \cup AfterToken

\* What is on disk is never in both places, and a command that runs is ahead of it.
OneCopy ==
  /\ IsSaved => backup = NoCheckpoint
  /\ step # "idle" => backup = NoCheckpoint
  /\ step = "idle" => p = NoCheckpoint /\ ~unsaved
  /\ step \in Asking => ~unsaved
  /\ step \in Confirmed /\ ~unsaved => checkpoint = p

IsAhead ==
  step # "idle" =>
    /\ p.Life # 0
    /\ kept.Life = life => p.Life = life /\ kept.Inventory \subseteq p.Inventory

\* A flag is set only after those before it, and a lease is taken with a token.
Chain(rec) ==
  /\ rec.Life = 0 => rec = NoCheckpoint
  /\ rec.Token % 2 = 0
  /\ rec.Revision # 0 => rec.Token # 0
  /\ "IndexRetired" \in rec.Done => "Destroyed" \in rec.Done /\ rec.Revision # 0
  /\ "DNSDone" \in rec.Done => "Destroyed" \in rec.Done
  /\ "RoleDone" \in rec.Done => /\ "Destroyed" \in rec.Done
                                /\ {"DNSDone", "DNSSkipped"} \cap rec.Done # {}
  /\ "StackRemoved" \in rec.Done => "RoleDone" \in rec.Done
  /\ "CleanupDone" \in rec.Done => "StackRemoved" \in rec.Done
  /\ "LocalDone" \in rec.Done => "CleanupDone" \in rec.Done
  /\ "Complete" \in rec.Done => "LocalDone" \in rec.Done

\* All is gone but what another checkout destroyed before this one saw it.
AllGone(inventory) ==
  \A x \in Things : things[x] = "gone" \/ (things[x] = "elsewhere" /\ x \notin inventory)

\* What the checkpoint of this life's environment says was done has been done, and the
\* lease it has is held until the entry is deleted.
Agrees(rec) ==
  rec.Life = life =>
    /\ "Destroyed" \in rec.Done => exported = {} /\ (indexed => rec.Revision # 0)
    /\ "IndexRetired" \in rec.Done => entry.Deleted
    /\ "DNSDone" \in rec.Done /\ "DNSSkipped" \notin rec.Done /\ rec.Desired => ~records
    /\ "RoleDone" \in rec.Done => role = "none"
    /\ "StackRemoved" \in rec.Done => ~stackUp
    /\ "CleanupDone" \in rec.Done => github = "none"
    /\ "Complete" \in rec.Done =>
         AllGone(rec.Inventory) /\ entry.Lock = 0 /\ Listed(entry) = Nothing
    /\ rec.Revision # 0 =>
         /\ entry.Revision = rec.Revision
         /\ entry.Lock = rec.Token \/ (entry.Lock = 0 /\ "LocalDone" \in rec.Done)

\* A checkpoint of an earlier life that has a lease has destroyed the stack.
Older(rec) ==
  /\ rec.Life <= life
  /\ rec.Life # life /\ rec.Revision # 0 => "Destroyed" \in rec.Done

\* What the inspection found.
Inspected ==
  /\ exported \subseteq p.Inventory
  /\ IF "Destroyed" \in p.Done THEN exported = {} ELSE p.Life = life /\ stackUp
  /\ "StackRemoved" \in p.Done => ~stackUp

\* How far the command is.
Reached ==
  /\ step \notin {"idle", "inspect"} => Inspected
  /\ step \in {"confirm"} \cup Confirmed =>
       {"DNSDone", "DNSSkipped"} \cap p.Done # {} \/ ~p.Desired \/ p.Zone
  /\ step \in AfterToken => p.Token # 0 \/ ~indexed \/ "Destroyed" \in p.Done
  /\ step \in AfterLease => (p.Token # 0 => p.Revision # 0)
  /\ step \in AfterDestroy => "Destroyed" \in p.Done
  /\ step \in AfterRetire => (p.Token # 0 => "IndexRetired" \in p.Done)
  /\ step \in AfterDNS => {"DNSDone", "DNSSkipped"} \cap p.Done # {}
  /\ step \in AfterRole => "RoleDone" \in p.Done
  /\ step \in AfterStack => "StackRemoved" \in p.Done
  /\ step \in AfterGithub => "CleanupDone" \in p.Done
  /\ step \in AfterLocal => "LocalDone" \in p.Done
  /\ step = "delete" => AllGone(p.Inventory)
  /\ step # "delete" => "Complete" \notin p.Done

\* What the stack lists is up, and what is not gone yet was in an inventory.
Inventoried ==
  /\ \A x \in Things : /\ things[x] = "up" <=> x \in exported
                       /\ things[x] = "fading" => kept.Life = life /\ x \in kept.Inventory
  /\ life # 0
  /\ IF indexed THEN entry.Revision # 0 ELSE entry = NoRow
  /\ p.Token # 0 \/ kept.Token # 0 => indexed

TeardownInv ==
  /\ TeardownTypeOK /\ OneCopy /\ IsAhead /\ Chain(p) /\ Chain(kept) /\ Agrees(p)
  /\ Agrees(kept) /\ Older(p) /\ Older(kept) /\ Reached /\ Inventoried /\ RemovedInOrder

----------------------------------------------------------------------------
\* What the steps and the registry's operations are.

\* The order of the steps.
LEMMA FollowsIs ==
  /\ Follows["inspect"] = "dnschoice" /\ Follows["dnschoice"] = "confirm"
  /\ Follows["confirm"] = "index" /\ Follows["index"] = "begin"
  /\ Follows["begin"] = "destroy" /\ Follows["destroy"] = "retire"
  /\ Follows["retire"] = "dns" /\ Follows["dns"] = "role" /\ Follows["role"] = "stack"
  /\ Follows["stack"] = "github" /\ Follows["github"] = "local"
  /\ Follows["local"] = "validate" /\ Follows["validate"] = "delete"
BY DEF Follows

\* The steps there are.
LEMMA StepsAre == Steps = {"idle"} \cup Asking \cup Confirmed
<1>1. DOMAIN Follows = {"inspect", "dnschoice", "confirm", "index", "begin", "destroy",
                        "retire", "dns", "role", "stack", "github", "local", "validate"}
  BY DEF Follows
<1> QED
  BY <1>1 DEF Steps, Asking, Confirmed, AfterToken, AfterLease, AfterDestroy, AfterRetire,
              AfterDNS, AfterRole, AfterStack, AfterGithub, AfterLocal

\* Which step is passed over, because of which flag.
LEMMA SkipIs ==
  ASSUME Skip
  PROVE  /\ p' = p /\ ~unsaved /\ unsaved' = FALSE
         /\ \/ step = "destroy" /\ "Destroyed" \in p.Done /\ step' = "retire"
            \/ step = "retire" /\ "IndexRetired" \in p.Done /\ step' = "dns"
            \/ step = "role" /\ "RoleDone" \in p.Done /\ step' = "stack"
            \/ step = "stack" /\ "StackRemoved" \in p.Done /\ step' = "github"
            \/ step = "github" /\ "CleanupDone" \in p.Done /\ step' = "local"
            \/ step = "local" /\ "LocalDone" \in p.Done /\ step' = "validate"
<1>1. /\ FlagOf["destroy"] = "Destroyed" /\ FlagOf["retire"] = "IndexRetired"
      /\ FlagOf["role"] = "RoleDone" /\ FlagOf["stack"] = "StackRemoved"
      /\ FlagOf["github"] = "CleanupDone" /\ FlagOf["local"] = "LocalDone"
  BY DEF FlagOf
<1>2. DOMAIN FlagOf = {"destroy", "retire", "role", "stack", "github", "local"}
  BY DEF FlagOf
<1>3. /\ step \in DOMAIN FlagOf /\ ~unsaved /\ FlagOf[step] \in p.Done
      /\ p' = p /\ step' = Follows[step] /\ unsaved' = FALSE
  BY DEF Skip, Skips, Advances
<1> QED
  BY <1>1, <1>2, <1>3, FollowsIs

\* A flag is added to the checkpoint, and nothing else of it changes.
LEMMA FlagAdded ==
  ASSUME NEW rec \in Progress, NEW flag \in Flags
  PROVE  LET new == [rec EXCEPT !.Done = @ \cup {flag}] IN
         /\ new \in Progress /\ new.Done = rec.Done \cup {flag}
         /\ new.Inventory = rec.Inventory /\ new.Desired = rec.Desired
         /\ new.Zone = rec.Zone /\ new.Token = rec.Token /\ new.Revision = rec.Revision
         /\ new.Life = rec.Life
BY DEF Progress

\* A token, a revision or a zone is noted.
LEMMA NotedIs ==
  ASSUME NEW rec \in Progress, NEW n \in Nat
  PROVE  /\ LET new == [rec EXCEPT !.Token = n] IN
            /\ new \in Progress /\ new.Done = rec.Done /\ new.Inventory = rec.Inventory
            /\ new.Desired = rec.Desired /\ new.Zone = rec.Zone /\ new.Token = n
            /\ new.Revision = rec.Revision /\ new.Life = rec.Life
         /\ LET new == [rec EXCEPT !.Revision = n] IN
            /\ new \in Progress /\ new.Done = rec.Done /\ new.Inventory = rec.Inventory
            /\ new.Desired = rec.Desired /\ new.Zone = rec.Zone /\ new.Token = rec.Token
            /\ new.Revision = n /\ new.Life = rec.Life
         /\ LET new == [rec EXCEPT !.Zone = TRUE] IN
            /\ new \in Progress /\ new.Done = rec.Done /\ new.Inventory = rec.Inventory
            /\ new.Desired = rec.Desired /\ new.Zone = TRUE /\ new.Token = rec.Token
            /\ new.Revision = rec.Revision /\ new.Life = rec.Life
BY DEF Progress

\* No checkpoint knows anything.
LEMMA NoCheckpointIs ==
  /\ NoCheckpoint \in Progress /\ NoCheckpoint.Done = {} /\ NoCheckpoint.Inventory = {}
  /\ NoCheckpoint.Desired = FALSE /\ NoCheckpoint.Zone = FALSE /\ NoCheckpoint.Token = 0
  /\ NoCheckpoint.Revision = 0 /\ NoCheckpoint.Life = 0
BY DEF NoCheckpoint, Progress

\* What the operations make of a row.
LEMMA BegunIs ==
  ASSUME NEW row \in Row, NEW token \in Nat
  PROVE  /\ Begun(row, token) \in Row /\ Begun(row, token).Lock = token
         /\ Begun(row, token).Revision = row.Revision + 1
         /\ Begun(row, token).Deleted = row.Deleted /\ Begun(row, token).Entry = row.Entry
<1>1. row.Revision + 1 \in Nat
  BY DEF Row
<1>2. Begun(row, token) = [row EXCEPT !.Lock = token, !.Revision = row.Revision + 1]
  BY DEF Begun, Row
<1> QED
  BY <1>1, <1>2 DEF Row

\* A retired row keeps its lease, ...
LEMMA RetiredIs ==
  ASSUME NEW row \in Row
  PROVE  /\ Retired(row) \in Row /\ Retired(row).Lock = row.Lock
         /\ Retired(row).Revision = row.Revision /\ Retired(row).Deleted = TRUE
         /\ Retired(row).Entry = Nothing
BY DEF Retired, Row

\* ... a deleted one loses it, ...
LEMMA RemovedIs ==
  ASSUME NEW row \in Row, NEW q, q.token \in Nat
  PROVE  /\ Removed(row, q) \in Row /\ Removed(row, q).Lock = 0
         /\ Removed(row, q).Revision = row.Revision /\ Removed(row, q).Deleted = TRUE
         /\ Removed(row, q).Entry = Nothing
BY DEF Removed, Row

\* ... and so does a published one, which is listed.
LEMMA PublishedIs ==
  ASSUME NEW row \in Row, NEW q, q.token \in Nat, q.revision \in Nat,
         q.content \in Contents, NEW seen, NEW since \in Nat
  PROVE  /\ Published(row, q, seen, since) \in Row
         /\ Published(row, q, seen, since).Lock = 0
         /\ Published(row, q, seen, since).Revision = row.Revision
         /\ ~Published(row, q, seen, since).Deleted
         /\ Published(row, q, seen, since).Entry = q.content
BY DEF Published, Row

----------------------------------------------------------------------------
\* The steps under way.

\* After the first save, whatever the command does next is known to be on disk.
LEMMA Leased ==
  ASSUME TeardownInv, step \in Confirmed, ~unsaved
  PROVE  /\ kept = p /\ checkpoint = p /\ backup = NoCheckpoint /\ IsSaved
         /\ p \in Progress /\ p.Life # 0 /\ life # 0 /\ life \in Nat /\ entry \in Row
         /\ Inspected /\ Chain(p) /\ Agrees(p) /\ Older(p)
<1>1. step # "idle" /\ step # "inspect"
  BY DEF Confirmed, AfterToken, AfterLease, AfterDestroy, AfterRetire, AfterDNS, AfterRole,
         AfterStack, AfterGithub, AfterLocal
<1>2. checkpoint = p /\ backup = NoCheckpoint /\ p.Life # 0
  BY <1>1 DEF TeardownInv, OneCopy, IsAhead
<1>3. p \in Progress /\ life \in Nat /\ entry \in Row /\ life # 0
  BY DEF TeardownInv, TeardownTypeOK, Inventoried
<1>4. Inspected
  BY <1>1 DEF TeardownInv, Reached
<1> QED
  BY <1>2, <1>3, <1>4 DEF kept, IsSaved, TeardownInv

\* What the checkpoint becomes is saved next, or it stays as it is.
Proceeds ==
  /\ step' \in Confirmed /\ life' = life /\ UNCHANGED checkpoints
  /\ p'.Life = p.Life /\ p'.Inventory = p.Inventory
  /\ unsaved' = TRUE \/ (~unsaved' /\ p' = p)

\* Such a step leaves what is on disk behind the command, and as it was.
LEMMA ProceedsIs ==
  ASSUME TeardownInv, step \in Confirmed, ~unsaved, Proceeds
  PROVE  /\ OneCopy' /\ IsAhead' /\ Chain(kept') /\ Older(kept)' /\ kept' = p
<1>1. /\ kept = p /\ checkpoint = p /\ backup = NoCheckpoint /\ IsSaved
      /\ p.Life # 0 /\ Chain(p) /\ Older(p)
  BY Leased
<1>2. step' \notin {"idle"} \cup Asking
  BY DEF Proceeds, Asking, Confirmed, AfterToken, AfterLease, AfterDestroy, AfterRetire,
         AfterDNS, AfterRole, AfterStack, AfterGithub, AfterLocal
<1>3. kept' = p /\ checkpoint' = p /\ backup' = NoCheckpoint /\ life' = life
  BY <1>1 DEF Proceeds, checkpoints, kept, IsSaved
<1>4. OneCopy'
  BY <1>2, <1>3 DEF OneCopy, Proceeds, IsSaved
<1>5. IsAhead'
  BY <1>1, <1>2, <1>3 DEF IsAhead, Proceeds
<1>6. Older(kept)'
  BY <1>1, <1>3 DEF Older
<1> QED
  BY <1>1, <1>3, <1>4, <1>5, <1>6

\* What the rest of the invariant says of what was done and of what there is.
Rest ==
  /\ Chain(p) /\ Agrees(p) /\ Agrees(kept) /\ Older(p) /\ Reached /\ Inventoried
  /\ RemovedInOrder

\* A step that sets a flag and removes what the flag stands for.
LEMMA DidIs ==
  ASSUME TeardownInv, step \in Confirmed, ~unsaved, NEW flag \in Flags, Did(flag),
         step' \in Confirmed, life' = life, UNCHANGED checkpoints
  PROVE  /\ Proceeds /\ p' \in Progress /\ p'.Done = p.Done \cup {flag}
         /\ p'.Inventory = p.Inventory /\ p'.Desired = p.Desired /\ p'.Zone = p.Zone
         /\ p'.Token = p.Token /\ p'.Revision = p.Revision /\ p'.Life = p.Life
         /\ kept = p /\ kept' = p /\ p \in Progress /\ p.Life # 0 /\ life # 0
         /\ Inspected /\ Chain(p) /\ Agrees(p) /\ Older(p)
<1>1. /\ kept = p /\ p \in Progress /\ p.Life # 0 /\ life # 0 /\ life \in Nat
      /\ Inspected /\ Chain(p) /\ Agrees(p) /\ Older(p)
  BY Leased
<1>2. p' = [p EXCEPT !.Done = @ \cup {flag}] /\ unsaved' = TRUE
  BY DEF Did
<1>3. /\ p' \in Progress /\ p'.Done = p.Done \cup {flag}
      /\ p'.Inventory = p.Inventory /\ p'.Desired = p.Desired /\ p'.Zone = p.Zone
      /\ p'.Token = p.Token /\ p'.Revision = p.Revision /\ p'.Life = p.Life
  BY <1>1, <1>2, FlagAdded
<1>4. Proceeds
  BY <1>2, <1>3 DEF Proceeds
<1> QED
  BY <1>1, <1>3, <1>4, ProceedsIs

\* The flags in the order in which they are set.
LEMMA ChainAdds ==
  ASSUME NEW rec \in Progress, Chain(rec), NEW new \in Progress, NEW flag \in Flags,
         new.Done = rec.Done \cup {flag}, new.Token = rec.Token,
         new.Revision = rec.Revision, new.Life = rec.Life, rec.Life # 0,
         flag = "IndexRetired" => "Destroyed" \in rec.Done /\ rec.Revision # 0,
         flag = "DNSDone" => "Destroyed" \in rec.Done,
         flag = "RoleDone" => /\ "Destroyed" \in rec.Done
                              /\ {"DNSDone", "DNSSkipped"} \cap rec.Done # {},
         flag = "StackRemoved" => "RoleDone" \in rec.Done,
         flag = "CleanupDone" => "StackRemoved" \in rec.Done,
         flag = "LocalDone" => "CleanupDone" \in rec.Done,
         flag = "Complete" => "LocalDone" \in rec.Done
  PROVE  Chain(new)
BY DEF Chain

\* When the stack is empty, ...
LEMMA StackDestroyedStep ==
  ASSUME TeardownInv, StackDestroyed
  PROVE  Proceeds /\ Rest'
<1> USE DEF Confirmed, AfterToken, AfterLease, AfterDestroy, AfterRetire, AfterDNS,
            AfterRole, AfterStack, AfterGithub, AfterLocal
<1>1. /\ step = "destroy" /\ ~unsaved /\ Did("Destroyed") /\ step' = "retire"
      /\ "Destroyed" \notin p.Done
      /\ exported = {}
      /\ UNCHANGED <<cloud, indexed, entry>>
      /\ UNCHANGED <<life, checkpoint, backup, lockFile>>
  BY FollowsIs DEF StackDestroyed, AtStep, Did, Advances, Destroyed, checkpoints,
                    listing
<1>2. /\ Proceeds /\ p' \in Progress /\ p'.Done = p.Done \cup {"Destroyed"}
      /\ p'.Inventory = p.Inventory /\ p'.Desired = p.Desired /\ p'.Zone = p.Zone
      /\ p'.Token = p.Token /\ p'.Revision = p.Revision /\ p'.Life = p.Life
      /\ kept = p /\ kept' = p /\ p \in Progress /\ p.Life # 0 /\ life # 0
      /\ Inspected /\ Chain(p) /\ Agrees(p) /\ Older(p)
  BY <1>1, DidIs DEF Flags, checkpoints
<1>3. (indexed => p.Revision # 0) /\ "Complete" \notin p.Done
  BY <1>1 DEF TeardownInv, Reached
<1>5. Chain(p')
  BY <1>1, <1>2, <1>3, ChainAdds DEF Flags
<1>6. Agrees(p)' /\ Agrees(kept)'
  BY <1>1, <1>2, <1>3 DEF Agrees, cloud, AllGone, Listed
<1>7. Reached'
  BY <1>1, <1>2, <1>3 DEF TeardownInv, Reached, Inspected, cloud
<1>8. Inventoried'
  BY <1>1, <1>2 DEF TeardownInv, Inventoried, cloud
<1>9. RemovedInOrder'
  BY <1>1, <1>2, <1>3 DEF TeardownInv, RemovedInOrder, Inspected, cloud
<1>10. Older(p)'
  BY <1>1, <1>2 DEF Older
<1> QED
  BY <1>2, <1>5, <1>6, <1>7, <1>8, <1>9, <1>10 DEF Rest, Chain

\* ... the index no longer lists the environment, ...
LEMMA RetireStep ==
  ASSUME TeardownInv, Retire
  PROVE  Proceeds /\ Rest'
<1> USE DEF Confirmed, AfterToken, AfterLease, AfterDestroy, AfterRetire, AfterDNS,
            AfterRole, AfterStack, AfterGithub, AfterLocal
<1>1. /\ step = "retire" /\ ~unsaved /\ Did("IndexRetired") /\ step' = "dns"
      /\ "IndexRetired" \notin p.Done
      /\ entry' = Retired(entry)
      /\ UNCHANGED <<cloud, indexed>>
      /\ UNCHANGED <<life, checkpoint, backup, lockFile>>
  BY FollowsIs DEF Retire, AtStep, Did, Advances, checkpoints, listing
<1>2. /\ Proceeds /\ p' \in Progress /\ p'.Done = p.Done \cup {"IndexRetired"}
      /\ p'.Inventory = p.Inventory /\ p'.Desired = p.Desired /\ p'.Zone = p.Zone
      /\ p'.Token = p.Token /\ p'.Revision = p.Revision /\ p'.Life = p.Life
      /\ kept = p /\ kept' = p /\ p \in Progress /\ p.Life # 0 /\ life # 0
      /\ Inspected /\ Chain(p) /\ Agrees(p) /\ Older(p)
  BY <1>1, DidIs DEF Flags, checkpoints
<1>3. /\ p.Token # 0 /\ p.Revision # 0
      /\ "Destroyed" \in p.Done
      /\ "Complete" \notin p.Done
  BY <1>1 DEF TeardownInv, Reached, Retire
<1>4. /\ entry'.Lock = entry.Lock /\ entry'.Revision = entry.Revision /\ entry'.Deleted
  BY <1>1, RetiredIs DEF TeardownInv, TeardownTypeOK
<1>5. Chain(p')
  BY <1>1, <1>2, <1>3, ChainAdds DEF Flags
<1>6. Agrees(p)' /\ Agrees(kept)'
  BY <1>1, <1>2, <1>3, <1>4 DEF Agrees, cloud, AllGone, Listed
<1>7. Reached'
  BY <1>1, <1>2, <1>3 DEF TeardownInv, Reached, Inspected, cloud
<1>8. Inventoried'
  BY <1>1, <1>2, <1>3, <1>4 DEF TeardownInv, Inventoried, cloud
<1>9. RemovedInOrder'
  BY <1>1, <1>2, <1>3 DEF TeardownInv, RemovedInOrder, Inspected, cloud
<1>10. Older(p)'
  BY <1>1, <1>2 DEF Older
<1> QED
  BY <1>2, <1>5, <1>6, <1>7, <1>8, <1>9, <1>10 DEF Rest, Chain

\* ... the role is deleted, ...
LEMMA DeleteRoleStep ==
  ASSUME TeardownInv, DeleteRole
  PROVE  Proceeds /\ Rest'
<1> USE DEF Confirmed, AfterToken, AfterLease, AfterDestroy, AfterRetire, AfterDNS,
            AfterRole, AfterStack, AfterGithub, AfterLocal
<1>1. /\ step = "role" /\ ~unsaved /\ Did("RoleDone") /\ step' = "stack"
      /\ "RoleDone" \notin p.Done
      /\ role' = "none"
      /\ UNCHANGED <<things, exported, stackUp, evidence, records, github, files, indexed,
                     entry>>
      /\ UNCHANGED <<life, checkpoint, backup, lockFile>>
  BY FollowsIs DEF DeleteRole, AtStep, Did, Advances, checkpoints, listing
<1>2. /\ Proceeds /\ p' \in Progress /\ p'.Done = p.Done \cup {"RoleDone"}
      /\ p'.Inventory = p.Inventory /\ p'.Desired = p.Desired /\ p'.Zone = p.Zone
      /\ p'.Token = p.Token /\ p'.Revision = p.Revision /\ p'.Life = p.Life
      /\ kept = p /\ kept' = p /\ p \in Progress /\ p.Life # 0 /\ life # 0
      /\ Inspected /\ Chain(p) /\ Agrees(p) /\ Older(p)
  BY <1>1, DidIs DEF Flags, checkpoints
<1>3. /\ "Destroyed" \in p.Done
      /\ {"DNSDone", "DNSSkipped"} \cap p.Done # {}
      /\ "Complete" \notin p.Done
  BY <1>1 DEF TeardownInv, Reached
<1>5. Chain(p')
  BY <1>1, <1>2, <1>3, ChainAdds DEF Flags
<1>6. Agrees(p)' /\ Agrees(kept)'
  BY <1>1, <1>2, <1>3 DEF Agrees, cloud, AllGone, Listed
<1>7. Reached'
  BY <1>1, <1>2, <1>3 DEF TeardownInv, Reached, Inspected, cloud
<1>8. Inventoried'
  BY <1>1, <1>2 DEF TeardownInv, Inventoried, cloud
<1>9. RemovedInOrder'
  BY <1>1, <1>2, <1>3 DEF TeardownInv, RemovedInOrder, Inspected, cloud
<1>10. Older(p)'
  BY <1>1, <1>2 DEF Older
<1> QED
  BY <1>2, <1>5, <1>6, <1>7, <1>8, <1>9, <1>10 DEF Rest, Chain

\* ... the stack is removed, ...
LEMMA RemoveStackStep ==
  ASSUME TeardownInv, RemoveStack
  PROVE  Proceeds /\ Rest'
<1> USE DEF Confirmed, AfterToken, AfterLease, AfterDestroy, AfterRetire, AfterDNS,
            AfterRole, AfterStack, AfterGithub, AfterLocal
<1>1. /\ step = "stack" /\ ~unsaved /\ Did("StackRemoved") /\ step' = "github"
      /\ "StackRemoved" \notin p.Done
      /\ ~stackUp'
      /\ UNCHANGED <<things, exported, evidence, records, role, github, files, indexed,
                     entry>>
      /\ UNCHANGED <<life, checkpoint, backup, lockFile>>
  BY FollowsIs DEF RemoveStack, AtStep, Did, Advances, checkpoints, listing
<1>2. /\ Proceeds /\ p' \in Progress /\ p'.Done = p.Done \cup {"StackRemoved"}
      /\ p'.Inventory = p.Inventory /\ p'.Desired = p.Desired /\ p'.Zone = p.Zone
      /\ p'.Token = p.Token /\ p'.Revision = p.Revision /\ p'.Life = p.Life
      /\ kept = p /\ kept' = p /\ p \in Progress /\ p.Life # 0 /\ life # 0
      /\ Inspected /\ Chain(p) /\ Agrees(p) /\ Older(p)
  BY <1>1, DidIs DEF Flags, checkpoints
<1>3. /\ {"Destroyed", "RoleDone"} \subseteq p.Done
      /\ {"DNSDone", "DNSSkipped"} \cap p.Done # {}
      /\ "Complete" \notin p.Done
  BY <1>1 DEF TeardownInv, Reached
<1>5. Chain(p')
  BY <1>1, <1>2, <1>3, ChainAdds DEF Flags
<1>6. Agrees(p)' /\ Agrees(kept)'
  BY <1>1, <1>2, <1>3 DEF Agrees, cloud, AllGone, Listed
<1>7. Reached'
  BY <1>1, <1>2, <1>3 DEF TeardownInv, Reached, Inspected, cloud
<1>8. Inventoried'
  BY <1>1, <1>2 DEF TeardownInv, Inventoried, cloud
<1>9. RemovedInOrder'
  BY <1>1, <1>2, <1>3 DEF TeardownInv, RemovedInOrder, Inspected, cloud
<1>10. Older(p)'
  BY <1>1, <1>2 DEF Older
<1> QED
  BY <1>2, <1>5, <1>6, <1>7, <1>8, <1>9, <1>10 DEF Rest, Chain

\* ... the GitHub environment is deleted, ...
LEMMA DeleteGithubStep ==
  ASSUME TeardownInv, DeleteGithub
  PROVE  Proceeds /\ Rest'
<1> USE DEF Confirmed, AfterToken, AfterLease, AfterDestroy, AfterRetire, AfterDNS,
            AfterRole, AfterStack, AfterGithub, AfterLocal
<1>1. /\ step = "github" /\ ~unsaved /\ Did("CleanupDone") /\ step' = "local"
      /\ "CleanupDone" \notin p.Done
      /\ github' = "none"
      /\ UNCHANGED <<things, exported, stackUp, evidence, records, role, files, indexed,
                     entry>>
      /\ UNCHANGED <<life, checkpoint, backup, lockFile>>
  BY FollowsIs DEF DeleteGithub, AtStep, Did, Advances, checkpoints, listing
<1>2. /\ Proceeds /\ p' \in Progress /\ p'.Done = p.Done \cup {"CleanupDone"}
      /\ p'.Inventory = p.Inventory /\ p'.Desired = p.Desired /\ p'.Zone = p.Zone
      /\ p'.Token = p.Token /\ p'.Revision = p.Revision /\ p'.Life = p.Life
      /\ kept = p /\ kept' = p /\ p \in Progress /\ p.Life # 0 /\ life # 0
      /\ Inspected /\ Chain(p) /\ Agrees(p) /\ Older(p)
  BY <1>1, DidIs DEF Flags, checkpoints
<1>3. /\ {"Destroyed", "RoleDone", "StackRemoved"} \subseteq p.Done
      /\ {"DNSDone", "DNSSkipped"} \cap p.Done # {}
      /\ "Complete" \notin p.Done
  BY <1>1 DEF TeardownInv, Reached
<1>5. Chain(p')
  BY <1>1, <1>2, <1>3, ChainAdds DEF Flags
<1>6. Agrees(p)' /\ Agrees(kept)'
  BY <1>1, <1>2, <1>3 DEF Agrees, cloud, AllGone, Listed
<1>7. Reached'
  BY <1>1, <1>2, <1>3 DEF TeardownInv, Reached, Inspected, cloud
<1>8. Inventoried'
  BY <1>1, <1>2 DEF TeardownInv, Inventoried, cloud
<1>9. RemovedInOrder'
  BY <1>1, <1>2, <1>3 DEF TeardownInv, RemovedInOrder, Inspected, cloud
<1>10. Older(p)'
  BY <1>1, <1>2 DEF Older
<1> QED
  BY <1>2, <1>5, <1>6, <1>7, <1>8, <1>9, <1>10 DEF Rest, Chain

\* ... and the local files go, each flag says so when it is set.
LEMMA CleanLocalStep ==
  ASSUME TeardownInv, CleanLocal
  PROVE  Proceeds /\ Rest'
<1> USE DEF Confirmed, AfterToken, AfterLease, AfterDestroy, AfterRetire, AfterDNS,
            AfterRole, AfterStack, AfterGithub, AfterLocal
<1>1. /\ step = "local" /\ ~unsaved /\ Did("LocalDone") /\ step' = "validate"
      /\ "LocalDone" \notin p.Done
      /\ UNCHANGED <<things, exported, stackUp, evidence, records, role, github, indexed,
                     entry>>
      /\ UNCHANGED <<life, checkpoint, backup, lockFile>>
  BY FollowsIs DEF CleanLocal, AtStep, Did, Advances, checkpoints, listing
<1>2. /\ Proceeds /\ p' \in Progress /\ p'.Done = p.Done \cup {"LocalDone"}
      /\ p'.Inventory = p.Inventory /\ p'.Desired = p.Desired /\ p'.Zone = p.Zone
      /\ p'.Token = p.Token /\ p'.Revision = p.Revision /\ p'.Life = p.Life
      /\ kept = p /\ kept' = p /\ p \in Progress /\ p.Life # 0 /\ life # 0
      /\ Inspected /\ Chain(p) /\ Agrees(p) /\ Older(p)
  BY <1>1, DidIs DEF Flags, checkpoints
<1>3. /\ {"Destroyed", "RoleDone", "StackRemoved",
          "CleanupDone"} \subseteq p.Done
      /\ {"DNSDone", "DNSSkipped"} \cap p.Done # {}
      /\ "Complete" \notin p.Done
  BY <1>1 DEF TeardownInv, Reached
<1>5. Chain(p')
  BY <1>1, <1>2, <1>3, ChainAdds DEF Flags
<1>6. Agrees(p)' /\ Agrees(kept)'
  BY <1>1, <1>2, <1>3 DEF Agrees, cloud, AllGone, Listed
<1>7. Reached'
  BY <1>1, <1>2, <1>3 DEF TeardownInv, Reached, Inspected, cloud
<1>8. Inventoried'
  BY <1>1, <1>2 DEF TeardownInv, Inventoried, cloud
<1>9. RemovedInOrder'
  BY <1>1, <1>2, <1>3 DEF TeardownInv, RemovedInOrder, Inspected, cloud
<1>10. Older(p)'
  BY <1>1, <1>2 DEF Older
<1> QED
  BY <1>2, <1>5, <1>6, <1>7, <1>8, <1>9, <1>10 DEF Rest, Chain

\* The records go with the zone that was chosen for them, or are left.
LEMMA CleanDNSStep ==
  ASSUME TeardownInv, CleanDNS
  PROVE  Proceeds /\ Rest'
<1> USE DEF Confirmed, AfterToken, AfterLease, AfterDestroy, AfterRetire, AfterDNS,
            AfterRole, AfterStack, AfterGithub, AfterLocal
<1>1. /\ step = "dns" /\ ~unsaved
      /\ UNCHANGED <<things, exported, stackUp, evidence, role, github, files, indexed,
                     entry, life, checkpoint, backup, lockFile>>
  BY DEF CleanDNS, AtStep, checkpoints, listing
<1>2. /\ "Complete" \notin p.Done /\ "Destroyed" \in p.Done
      /\ {"DNSDone", "DNSSkipped"} \cap p.Done # {} \/ ~p.Desired \/ p.Zone
  BY <1>1 DEF TeardownInv, Reached
<1>3. CASE {"DNSDone", "DNSSkipped"} \cap p.Done # {} /\ Skips /\ UNCHANGED records
  <2>1. p' = p /\ unsaved' = FALSE /\ step' = "role"
    BY <1>1, <1>3, FollowsIs DEF Skips, Advances
  <2>2. kept = p /\ Agrees(p) /\ Chain(p) /\ Older(p) /\ Inspected
    BY <1>1, Leased
  <2>3. Proceeds
    BY <1>1, <2>1 DEF Proceeds, checkpoints
  <2>4. kept' = p
    BY <1>1, <2>3, ProceedsIs
  <2>5. Agrees(p)' /\ Agrees(kept)'
    BY <1>1, <1>3, <2>1, <2>2, <2>4 DEF Agrees, AllGone, Listed
  <2>6. Reached'
    BY <1>1, <1>2, <1>3, <2>1 DEF TeardownInv, Reached, Inspected, AllGone
  <2>7. Inventoried' /\ RemovedInOrder'
    BY <1>1, <1>3, <2>1, <2>2, <2>4 DEF TeardownInv, Inventoried, RemovedInOrder
  <2>8. Older(p)'
    BY <1>1, <2>1, <2>2 DEF Older
  <2> QED
    BY <2>8, <2>1, <2>2, <2>3, <2>5, <2>6, <2>7 DEF Rest, Chain
<1>4. CASE /\ {"DNSDone", "DNSSkipped"} \cap p.Done = {}
           /\ records' = (records /\ ~p.Zone) /\ Did("DNSDone")
  <2>1. step' = "role"
    BY <1>1, <1>4, FollowsIs DEF Did, Advances
  <2>2. /\ Proceeds /\ p' \in Progress /\ p'.Done = p.Done \cup {"DNSDone"}
        /\ p'.Inventory = p.Inventory /\ p'.Desired = p.Desired /\ p'.Zone = p.Zone
        /\ p'.Token = p.Token /\ p'.Revision = p.Revision /\ p'.Life = p.Life
        /\ kept = p /\ kept' = p /\ p \in Progress /\ p.Life # 0 /\ life # 0
        /\ Inspected /\ Chain(p) /\ Agrees(p) /\ Older(p)
    BY <1>1, <1>4, <2>1, DidIs DEF Flags, checkpoints
  <2>3. Chain(p')
    BY <1>2, <2>2, ChainAdds DEF Flags
  <2>4. Agrees(p)'
    <3>1. p.Desired => ~records'
      BY <1>2, <1>4
    <3> QED
      BY <1>1, <1>2, <2>2, <3>1 DEF Agrees, AllGone, Listed
  <2>5. Agrees(kept)'
    BY <1>1, <1>2, <1>4, <2>2 DEF Agrees, AllGone, Listed
  <2>6. Reached'
    BY <1>1, <1>2, <2>1, <2>2 DEF TeardownInv, Reached, Inspected, AllGone
  <2>7. Inventoried' /\ RemovedInOrder'
    BY <1>1, <2>2 DEF TeardownInv, Inventoried, RemovedInOrder
  <2>8. Older(p)'
    BY <1>1, <2>2 DEF Older
  <2> QED
    BY <2>8, <2>2, <2>3, <2>4, <2>5, <2>6, <2>7 DEF Rest, Chain
<1> QED
  BY <1>3, <1>4 DEF CleanDNS

\* What was done before is passed over.
LEMMA SkipStep ==
  ASSUME TeardownInv, Skip
  PROVE  Proceeds /\ Rest'
<1> USE DEF Confirmed, AfterToken, AfterLease, AfterDestroy, AfterRetire, AfterDNS,
            AfterRole, AfterStack, AfterGithub, AfterLocal
<1>1. /\ p' = p /\ ~unsaved /\ unsaved' = FALSE
      /\ \/ step = "destroy" /\ "Destroyed" \in p.Done /\ step' = "retire"
         \/ step = "retire" /\ "IndexRetired" \in p.Done /\ step' = "dns"
         \/ step = "role" /\ "RoleDone" \in p.Done /\ step' = "stack"
         \/ step = "stack" /\ "StackRemoved" \in p.Done /\ step' = "github"
         \/ step = "github" /\ "CleanupDone" \in p.Done /\ step' = "local"
         \/ step = "local" /\ "LocalDone" \in p.Done /\ step' = "validate"
      /\ UNCHANGED <<cloud, indexed, entry, life, checkpoints>>
  BY SkipIs DEF Skip, listing
<1>2. step \in Confirmed /\ step' \in Confirmed
  BY <1>1
<1>3. kept = p /\ Agrees(p) /\ Chain(p) /\ Older(p) /\ Inspected
  BY <1>1, <1>2, Leased
<1>4. Proceeds
  BY <1>1, <1>2 DEF Proceeds
<1>5. kept' = p
  BY <1>1, <1>2, <1>4, ProceedsIs
<1>6. Agrees(p)' /\ Agrees(kept)'
  BY <1>1, <1>3, <1>5 DEF Agrees, AllGone, Listed, cloud
<1>7. Reached'
  BY <1>1, <1>3 DEF TeardownInv, Reached, Inspected, cloud, Chain
<1>8. Inventoried' /\ RemovedInOrder'
  BY <1>1, <1>3, <1>5 DEF TeardownInv, Inventoried, RemovedInOrder, cloud
<1>9. Older(p)'
  BY <1>1, <1>3 DEF Older
<1> QED
  BY <1>1, <1>3, <1>4, <1>6, <1>7, <1>8, <1>9 DEF Rest, Chain

\* The token of a life is drawn once.
LEMMA DrawTokenStep ==
  ASSUME TeardownInv, DrawToken
  PROVE  Proceeds /\ Rest'
<1> USE DEF Confirmed, AfterToken, AfterLease, AfterDestroy, AfterRetire, AfterDNS,
            AfterRole, AfterStack, AfterGithub, AfterLocal
<1>1. /\ step = "index" /\ ~unsaved /\ step' = "begin"
      /\ UNCHANGED <<cloud, indexed, entry, life, checkpoints>>
      /\ \/ /\ p.Token = 0 /\ indexed /\ p' = [p EXCEPT !.Token = 2 * p.Life]
            /\ unsaved' = TRUE
         \/ /\ p.Token # 0 \/ ~indexed \/ ~stackUp \/ "StackRemoved" \in p.Done
            /\ UNCHANGED <<p, unsaved>>
  BY FollowsIs DEF DrawToken, HasIndex, AtStep, Advances, listing
<1>2. /\ kept = p /\ p \in Progress /\ p.Life # 0 /\ life # 0 /\ life \in Nat
      /\ Inspected /\ Chain(p) /\ Agrees(p) /\ Older(p)
  BY <1>1, Leased
<1>3. /\ p'.Done = p.Done /\ p'.Inventory = p.Inventory
      /\ p'.Desired = p.Desired /\ p'.Zone = p.Zone /\ p'.Revision = p.Revision
      /\ p'.Life = p.Life /\ p'.Token % 2 = 0
      /\ \/ p.Token = 0 /\ p'.Token # 0 /\ indexed /\ unsaved' = TRUE
         \/ p' = p /\ unsaved' = unsaved
  <2>1. CASE p.Token = 0 /\ indexed /\ p' = [p EXCEPT !.Token = 2 * p.Life] /\ unsaved'
    <3>1. /\ 2 * p.Life \in Nat /\ 2 * p.Life # 0 /\ (2 * p.Life) % 2 = 0
      BY <1>2 DEF Progress
    <3>2. p'.Token = 2 * p.Life
      BY <1>2, <2>1, <3>1, NotedIs
    <3>3. /\ p'.Done = p.Done /\ p'.Inventory = p.Inventory
          /\ p'.Desired = p.Desired /\ p'.Zone = p.Zone /\ p'.Revision = p.Revision
          /\ p'.Life = p.Life
      BY <1>2, <2>1, <3>1, NotedIs
    <3> QED
      BY <1>1, <2>1, <3>1, <3>2, <3>3
  <2>2. CASE p' = p /\ unsaved' = unsaved
    BY <1>2, <2>2 DEF Chain
  <2> QED
    BY <1>1, <2>1, <2>2
<1>4. Proceeds
  BY <1>1, <1>3 DEF Proceeds
<1>5. kept' = p
  BY <1>1, <1>4, ProceedsIs
<1>6. Chain(p')
  BY <1>2, <1>3 DEF Chain
<1>7. p.Token = 0 => p.Revision = 0
  BY <1>2 DEF Chain
<1>8. Agrees(kept)'
  BY <1>1, <1>2, <1>5 DEF Agrees, AllGone, Listed, cloud
<1>9. Agrees(p)'
  <2>1. p.Revision # 0 => p'.Token = p.Token
    BY <1>3, <1>7
  <2> QED
    BY <1>1, <1>2, <1>3, <2>1 DEF Agrees, AllGone, Listed, cloud
<1>10. Reached'
  <2>1. p'.Token # 0 \/ ~indexed \/ "Destroyed" \in p.Done
    BY <1>1, <1>2, <1>3 DEF Inspected, Chain
  <2> QED
    BY <1>1, <1>2, <1>3, <2>1 DEF TeardownInv, Reached, Inspected, cloud
<1>11. Inventoried' /\ RemovedInOrder'
  BY <1>1, <1>2, <1>3, <1>5 DEF TeardownInv, Inventoried, RemovedInOrder, cloud
<1>12. Older(p)'
  BY <1>1, <1>2, <1>3 DEF Older
<1> QED
  BY <1>4, <1>6, <1>8, <1>9, <1>10, <1>11, <1>12 DEF Rest, Chain

\* Without a lease there is none to take and nothing to retire.
LEMMA UnregisteredStep ==
  ASSUME TeardownInv, Unregistered
  PROVE  Proceeds /\ Rest'
<1> USE DEF Confirmed, AfterToken, AfterLease, AfterDestroy, AfterRetire, AfterDNS,
            AfterRole, AfterStack, AfterGithub, AfterLocal
<1>1. /\ p' = p /\ ~unsaved /\ unsaved' = FALSE /\ p.Token = 0
      /\ \/ step = "begin" /\ step' = "destroy"
         \/ step = "retire" /\ step' = "dns"
      /\ UNCHANGED <<cloud, indexed, entry, life, checkpoints>>
  BY FollowsIs DEF Unregistered, Skips, Advances, listing
<1>2. step \in Confirmed /\ step' \in Confirmed
  BY <1>1
<1>3. kept = p /\ Agrees(p) /\ Chain(p) /\ Older(p) /\ Inspected
  BY <1>1, <1>2, Leased
<1>4. Proceeds
  BY <1>1, <1>2 DEF Proceeds
<1>5. kept' = p
  BY <1>1, <1>2, <1>4, ProceedsIs
<1>6. Agrees(p)' /\ Agrees(kept)'
  BY <1>1, <1>3, <1>5 DEF Agrees, AllGone, Listed, cloud
<1>7. Reached'
  BY <1>1, <1>3 DEF TeardownInv, Reached, Inspected, cloud
<1>8. Inventoried' /\ RemovedInOrder'
  BY <1>1, <1>3, <1>5 DEF TeardownInv, Inventoried, RemovedInOrder, cloud
<1>9. Older(p)'
  BY <1>1, <1>3 DEF Older
<1> QED
  BY <1>1, <1>3, <1>4, <1>6, <1>7, <1>8, <1>9 DEF Rest, Chain

\* The lease is taken for the first time, was taken and not noted, or is held.
LEMMA LeaseStep ==
  ASSUME TeardownInv, Lease
  PROVE  Proceeds /\ Rest'
<1> USE DEF Confirmed, AfterToken, AfterLease, AfterDestroy, AfterRetire, AfterDNS,
            AfterRole, AfterStack, AfterGithub, AfterLocal
<1>1. /\ step = "begin" /\ ~unsaved /\ step' = "destroy" /\ unsaved' = TRUE
      /\ p.Token # 0
      /\ UNCHANGED <<cloud, indexed, life, checkpoints>>
      /\ \/ p.Revision # 0 /\ UNCHANGED <<entry, p>>
         \/ /\ p.Revision = 0 /\ entry.Lock = p.Token
            /\ p' = [p EXCEPT !.Revision = entry.Revision] /\ UNCHANGED entry
         \/ /\ p.Revision = 0 /\ entry' = Begun(entry, p.Token)
            /\ p' = [p EXCEPT !.Revision = entry'.Revision]
  BY FollowsIs DEF Lease, AtStep, Advances
<1>2. /\ kept = p /\ p \in Progress /\ p.Life # 0 /\ life # 0 /\ life \in Nat
      /\ Inspected /\ Chain(p) /\ Agrees(p) /\ Older(p) /\ entry \in Row
  BY <1>1, Leased
<1>3. /\ indexed /\ p.Token \in Nat /\ entry.Revision # 0 /\ entry.Revision \in Nat
  BY <1>1, <1>2 DEF TeardownInv, Inventoried, Progress, Row
<1>4. p.Revision = 0 => /\ entry'.Lock = p.Token /\ entry'.Revision \in Nat
                        /\ entry'.Revision # 0 /\ entry'.Deleted = entry.Deleted
  <2>1. CASE entry.Lock = p.Token /\ UNCHANGED entry
    BY <1>3, <2>1
  <2>2. CASE entry' = Begun(entry, p.Token)
    <3>1. /\ entry'.Lock = p.Token /\ entry'.Revision = entry.Revision + 1
          /\ entry'.Deleted = entry.Deleted
      BY <1>2, <1>3, <2>2, BegunIs
    <3> QED
      BY <1>3, <3>1
  <2> QED
    BY <1>1, <2>1, <2>2
<1>5. /\ p'.Token = p.Token /\ p'.Done = p.Done /\ p'.Inventory = p.Inventory
      /\ p'.Desired = p.Desired /\ p'.Zone = p.Zone /\ p'.Life = p.Life
      /\ p.Revision # 0 => p'.Revision = p.Revision /\ entry' = entry
      /\ p.Revision = 0 => p'.Revision = entry'.Revision
  <2>1. CASE p.Revision # 0 /\ UNCHANGED <<entry, p>>
    BY <2>1
  <2>2. CASE p.Revision = 0 /\ p' = [p EXCEPT !.Revision = entry'.Revision]
    BY <1>2, <1>4, <2>2, NotedIs
  <2> QED
    BY <1>1, <2>1, <2>2
<1>6. Proceeds
  BY <1>1, <1>5 DEF Proceeds
<1>7. kept' = p
  BY <1>1, <1>6, ProceedsIs
<1>8. p'.Revision # 0
  BY <1>4, <1>5
<1>9. p.Revision = 0 =>
        /\ "IndexRetired" \notin p.Done
        /\ p.Life = life => "Destroyed" \notin p.Done /\ "DNSDone" \notin p.Done
        /\ p.Life = life => "RoleDone" \notin p.Done /\ "Complete" \notin p.Done
        /\ p.Life = life => "StackRemoved" \notin p.Done /\ "CleanupDone" \notin p.Done
  BY <1>2, <1>3 DEF Chain, Agrees
<1>10. Chain(p')
  BY <1>1, <1>2, <1>5, <1>8 DEF Chain
<1>11. Agrees(p)' /\ Agrees(kept)'
  <2>1. CASE p.Revision # 0
    BY <1>1, <1>2, <1>5, <1>7, <2>1 DEF Agrees, AllGone, Listed, cloud
  <2>2. CASE p.Revision = 0
    BY <1>1, <1>2, <1>4, <1>5, <1>7, <1>9, <2>2 DEF Agrees, AllGone, Listed, cloud
  <2> QED
    BY <2>1, <2>2
<1>12. Reached'
  BY <1>1, <1>2, <1>5, <1>8 DEF TeardownInv, Reached, Inspected, cloud
<1>13. Inventoried'
  BY <1>1, <1>2, <1>3, <1>4, <1>5, <1>7 DEF TeardownInv, Inventoried, cloud
<1>14. RemovedInOrder'
  BY <1>1, <1>4, <1>5 DEF TeardownInv, RemovedInOrder, cloud
<1>15. Older(p)'
  BY <1>1, <1>2, <1>5 DEF Older, Inspected
<1> QED
  BY <1>6, <1>10, <1>11, <1>12, <1>13, <1>14, <1>15 DEF Rest, Chain

\* One resource after the other, all of them in the inventory.
LEMMA DestroyThingStep ==
  ASSUME TeardownInv, NEW x \in Things, DestroyThing(x) \/ Purge
  PROVE  Proceeds /\ Rest'
<1> USE DEF Confirmed, AfterToken, AfterLease, AfterDestroy, AfterRetire, AfterDNS,
            AfterRole, AfterStack, AfterGithub, AfterLocal
<1>1. /\ step = "destroy" /\ ~unsaved /\ "Destroyed" \notin p.Done
      /\ UNCHANGED <<stackUp, records, role, github, files, indexed, entry, life, step, p,
                     unsaved, checkpoint, backup, lockFile>>
      /\ \/ UNCHANGED <<exported, things>>
         \/ /\ x \in exported /\ exported' = exported \ {x}
            /\ things' = [things EXCEPT ![x] = "fading"]
  BY DEF DestroyThing, Purge, AtStep, checkpoints, listing
<1>2. /\ kept = p /\ p \in Progress /\ p.Life # 0 /\ life # 0 /\ life \in Nat
      /\ Inspected /\ Chain(p) /\ Agrees(p) /\ Older(p)
  BY <1>1, Leased
<1>3. Proceeds
  BY <1>1 DEF Proceeds, checkpoints
<1>4. kept' = p
  BY <1>1, <1>3, ProceedsIs
<1>5. "Complete" \notin p.Done /\ p.Life = life
  BY <1>1, <1>2 DEF TeardownInv, Reached, Inspected
<1>6. Agrees(p)' /\ Agrees(kept)'
  BY <1>1, <1>2, <1>4, <1>5 DEF Agrees, Chain
<1>7. Reached'
  BY <1>1, <1>2 DEF TeardownInv, Reached, Inspected
<1>8. \A y \in Things : /\ things'[y] = "up" <=> y \in exported'
                        /\ things'[y] = "fading" => y \in p.Inventory
  BY <1>1, <1>2 DEF TeardownInv, Inventoried, Inspected, TeardownTypeOK
<1>9. Inventoried'
  BY <1>1, <1>2, <1>4, <1>5, <1>8 DEF TeardownInv, Inventoried
<1>10. RemovedInOrder'
  <2>1. exported' \subseteq exported
    BY <1>1
  <2> QED
    BY <1>1, <2>1 DEF TeardownInv, RemovedInOrder
<1>11. Older(p)'
  BY <1>1, <1>2 DEF Older
<1> QED
  BY <1>1, <1>2, <1>3, <1>6, <1>7, <1>9, <1>10, <1>11 DEF Rest, Chain

\* A validation that finds nothing of the inventory finds nothing at all.
LEMMA ValidateStep ==
  ASSUME TeardownInv, Validate
  PROVE  Proceeds /\ Rest'
<1> USE DEF Confirmed, AfterToken, AfterLease, AfterDestroy, AfterRetire, AfterDNS,
            AfterRole, AfterStack, AfterGithub, AfterLocal
<1>1. /\ step = "validate" /\ ~unsaved /\ step' = "delete" /\ p' = p /\ unsaved' = TRUE
      /\ UNCHANGED <<cloud, indexed, entry, life, checkpoints>>
      /\ \A x \in p.Inventory : things[x] = "gone"
  BY FollowsIs DEF Validate, Verified, Gone, AtStep, Advances, listing
<1>2. kept = p /\ Agrees(p) /\ Chain(p) /\ Older(p) /\ Inspected
  BY <1>1, Leased
<1>3. exported = {}
  BY <1>1, <1>2 DEF TeardownInv, Reached, Inspected
<1>4. AllGone(p.Inventory)
  BY <1>1, <1>2, <1>3 DEF TeardownInv, Inventoried, TeardownTypeOK, AllGone
<1>5. Proceeds
  BY <1>1 DEF Proceeds
<1>6. kept' = p
  BY <1>1, <1>5, ProceedsIs
<1>7. Agrees(p)' /\ Agrees(kept)'
  BY <1>1, <1>2, <1>6 DEF Agrees, AllGone, Listed, cloud
<1>8. Reached'
  BY <1>1, <1>2, <1>4 DEF TeardownInv, Reached, Inspected, cloud, AllGone
<1>9. Inventoried' /\ RemovedInOrder'
  BY <1>1, <1>2, <1>6 DEF TeardownInv, Inventoried, RemovedInOrder, cloud
<1>10. Older(p)'
  BY <1>1, <1>2 DEF Older
<1> QED
  BY <1>1, <1>2, <1>5, <1>7, <1>8, <1>9, <1>10 DEF Rest, Chain

\* The entry is deleted, and the lease released, when everything is gone.
LEMMA DeleteEntryStep ==
  ASSUME TeardownInv, DeleteEntry
  PROVE  Proceeds /\ Rest'
<1> USE DEF Confirmed, AfterToken, AfterLease, AfterDestroy, AfterRetire, AfterDNS,
            AfterRole, AfterStack, AfterGithub, AfterLocal
<1>1. /\ step = "delete" /\ step' = step /\ ~unsaved /\ unsaved' = TRUE
      /\ "Complete" \notin p.Done /\ p' = [p EXCEPT !.Done = @ \cup {"Complete"}]
      /\ UNCHANGED <<cloud, indexed, life, checkpoints>>
      /\ \/ p.Token = 0 /\ UNCHANGED entry
         \/ p.Token # 0 /\ Settled(entry, Request("delete")) /\ UNCHANGED entry
         \/ p.Token # 0 /\ entry' = Removed(entry, Request("delete"))
  BY DEF DeleteEntry, AtStep
<1>2. /\ kept = p /\ p \in Progress /\ p.Life # 0 /\ life # 0 /\ life \in Nat
      /\ Inspected /\ Chain(p) /\ Agrees(p) /\ Older(p) /\ entry \in Row
  BY <1>1, Leased
<1>3. /\ p' \in Progress /\ p'.Done = p.Done \cup {"Complete"}
      /\ p'.Inventory = p.Inventory /\ p'.Desired = p.Desired /\ p'.Zone = p.Zone
      /\ p'.Token = p.Token /\ p'.Revision = p.Revision /\ p'.Life = p.Life
  BY <1>1, <1>2, FlagAdded DEF Flags
<1>4. Proceeds
  BY <1>1, <1>3 DEF Proceeds
<1>5. kept' = p
  BY <1>1, <1>4, ProceedsIs
<1>6. /\ AllGone(p.Inventory) /\ (p.Token # 0 => indexed)
      /\ {"Destroyed", "RoleDone", "StackRemoved", "CleanupDone", "LocalDone"}
           \subseteq p.Done
      /\ {"DNSDone", "DNSSkipped"} \cap p.Done # {}
  BY <1>1 DEF TeardownInv, Reached, Inventoried
<1>7. /\ entry'.Revision = entry.Revision /\ (entry.Deleted => entry'.Deleted)
      /\ p.Token # 0 => entry'.Lock = 0 /\ entry'.Deleted
      /\ p.Token = 0 => entry' = entry
  <2>1. CASE p.Token # 0 /\ Settled(entry, Request("delete")) /\ UNCHANGED entry
    BY <2>1, <1>2 DEF Settled, Request, Row
  <2>2. CASE p.Token # 0 /\ entry' = Removed(entry, Request("delete"))
    <3>1. Request("delete").token \in Nat
      BY <1>2 DEF Request, Progress
    <3> QED
      BY <1>2, <2>2, <3>1, RemovedIs
  <2>3. CASE p.Token = 0 /\ UNCHANGED entry
    BY <2>3
  <2> QED
    BY <1>1, <2>1, <2>2, <2>3
<1>13. p.Life = life => /\ entry'.Lock = 0 /\ Listed(entry') = Nothing
                        /\ p.Token = 0 => p.Revision = 0 /\ ~indexed
  <2>1. CASE p.Token # 0
    BY <1>7, <2>1 DEF Listed
  <2>2. CASE p.Token = 0
    <3>1. p.Life = life => p.Revision = 0 /\ ~indexed
      BY <1>2, <1>6, <2>2 DEF Chain, Agrees
    <3>2. p.Life = life => entry = NoRow
      BY <3>1 DEF TeardownInv, Inventoried
    <3> QED
      BY <1>7, <2>2, <3>1, <3>2 DEF Listed, NoRow
  <2> QED
    BY <2>1, <2>2
<1>8. Chain(p')
  BY <1>2, <1>3, <1>6, ChainAdds DEF Flags
<1>9. Agrees(p)' /\ Agrees(kept)'
  BY <1>1, <1>2, <1>3, <1>5, <1>6, <1>7, <1>13 DEF Agrees, AllGone, cloud
<1>10. Reached'
  BY <1>1, <1>2, <1>3, <1>6 DEF TeardownInv, Reached, Inspected, AllGone, cloud
<1>11. Inventoried'
  BY <1>1, <1>2, <1>3, <1>5, <1>6, <1>7 DEF TeardownInv, Inventoried, cloud
<1>12. RemovedInOrder'
  BY <1>1, <1>2, <1>6 DEF TeardownInv, RemovedInOrder, Inspected, cloud
<1>14. Older(p)'
  BY <1>1, <1>2, <1>3 DEF Older
<1> QED
  BY <1>4, <1>8, <1>9, <1>10, <1>11, <1>12, <1>14 DEF Rest, Chain

\* Everything but the types.
Parts == OneCopy /\ IsAhead /\ Chain(kept) /\ Older(kept) /\ Rest

\* The command under the lease.
UnderLease ==
  \/ DrawToken \/ Lease \/ Unregistered \/ Skip \/ Purge \/ StackDestroyed \/ Retire
  \/ CleanDNS \/ DeleteRole \/ RemoveStack \/ DeleteGithub \/ CleanLocal
  \/ Validate \/ DeleteEntry
  \/ \E x \in Things : DestroyThing(x)

\* Whatever the command does from the lease on keeps the rest of the invariant.
LEMMA UnderLeaseStep ==
  ASSUME TeardownInv, UnderLease
  PROVE  step \in Confirmed /\ ~unsaved /\ Parts'
<1> USE DEF Confirmed, AfterToken, AfterLease, AfterDestroy, AfterRetire, AfterDNS,
            AfterRole, AfterStack, AfterGithub, AfterLocal
<1>1. step \in Confirmed /\ ~unsaved
  <2>1. CASE Skip
    BY <2>1, SkipIs
  <2>2. CASE ~Skip
    BY <2>2 DEF UnderLease, DrawToken, Lease, Unregistered, Purge, StackDestroyed,
                Retire, CleanDNS,
                DeleteRole, RemoveStack, DeleteGithub, CleanLocal, Validate, DeleteEntry,
                DestroyThing, AtStep
  <2> QED
    BY <2>1, <2>2
<1>2. Proceeds /\ Rest'
  <2>1. CASE Purge \/ \E x \in Things : DestroyThing(x)
    BY <2>1, DestroyThingStep, TeardownConstants
  <2>2. CASE DrawToken \/ Lease \/ Unregistered \/ Skip \/ CleanDNS \/ Validate
             \/ DeleteEntry
    BY <2>2, DrawTokenStep, LeaseStep, UnregisteredStep, SkipStep, CleanDNSStep,
       ValidateStep, DeleteEntryStep
  <2>3. CASE StackDestroyed \/ Retire \/ DeleteRole \/ RemoveStack \/ DeleteGithub
             \/ CleanLocal
    BY <2>3, StackDestroyedStep, RetireStep, DeleteRoleStep, RemoveStackStep,
       DeleteGithubStep, CleanLocalStep
  <2> QED
    BY <2>1, <2>2, <2>3 DEF UnderLease
<1>3. OneCopy' /\ IsAhead' /\ Chain(kept') /\ Older(kept)'
  BY <1>1, <1>2, ProceedsIs
<1> QED
  BY <1>1, <1>2, <1>3 DEF Parts, Chain

----------------------------------------------------------------------------
\* The steps before the lease.

\* Whoever passes the inspection has the environment there is to destroy, or nothing.
LEMMA InspectStep ==
  ASSUME TeardownInv, Inspect
  PROVE  Parts'
<1>1. /\ step = "inspect" /\ ~unsaved /\ step' = "dnschoice"
      /\ UNCHANGED <<cloud, indexed, entry, life, unsaved, checkpoints>>
  BY FollowsIs DEF Inspect, AtStep, Advances, listing
<1>2. /\ p \in Progress /\ kept \in Progress /\ unsaved \in BOOLEAN /\ life \in Nat
      /\ life # 0 /\ p.Life # 0
      /\ Chain(p) /\ Chain(kept) /\ Agrees(p) /\ Agrees(kept) /\ Older(p) /\ Older(kept)
  BY <1>1 DEF TeardownInv, TeardownTypeOK, kept, Inventoried, IsAhead
<1>3. kept' = kept
  BY <1>1 DEF kept, IsSaved, checkpoints
<1>4. /\ "Destroyed" \in p.Done => exported = {} /\ p' = p
      /\ "StackRemoved" \in p.Done => ~stackUp
      /\ "Destroyed" \notin p.Done => stackUp
  BY DEF Inspect, TeardownInv, RemovedInOrder
<1>5. "Destroyed" \notin p.Done =>
        p' = [p EXCEPT !.Inventory = InventoryWith(exported), !.Desired = Desired,
                       !.Life = life]
  BY DEF Inspect
<1>6. /\ p'.Done = p.Done /\ p'.Token = p.Token /\ p'.Revision = p.Revision
      /\ p.Inventory \subseteq p'.Inventory /\ exported \subseteq p'.Inventory
      /\ p'.Life = IF "Destroyed" \in p.Done THEN p.Life ELSE life
  <2>1. CASE "Destroyed" \in p.Done
    BY <1>4, <2>1
  <2>2. CASE "Destroyed" \notin p.Done
    BY <1>2, <1>5, <2>2 DEF InventoryWith, Progress
  <2> QED
    BY <2>1, <2>2
<1>7. OneCopy' /\ IsAhead'
  BY <1>1, <1>2, <1>3, <1>6
  DEF TeardownInv, OneCopy, IsAhead, IsSaved, checkpoints, Asking, Confirmed, AfterToken,
      AfterLease, AfterDestroy, AfterRetire, AfterDNS, AfterRole, AfterStack, AfterGithub,
      AfterLocal
<1>8. Older(kept)' /\ Older(p)'
  BY <1>1, <1>2, <1>3, <1>6 DEF Older, cloud
<1>9. Chain(p')
  BY <1>2, <1>6 DEF Chain
<1>10. Agrees(p)'
  <2>1. CASE "Destroyed" \in p.Done
    BY <1>1, <1>2, <1>4, <2>1 DEF Agrees, AllGone, cloud
  <2>2. CASE "Destroyed" \notin p.Done
    <3>1. p'.Done \cap (Flags \ {"DNSSkipped"}) = {}
      BY <1>2, <1>6, <2>2 DEF Chain, Flags
    <3>2. p'.Revision # 0 => p.Life = life /\ "LocalDone" \notin p.Done
      BY <1>2, <1>6, <2>2, <3>1 DEF Older, Flags
    <3> QED
      BY <1>1, <1>2, <1>6, <3>1, <3>2 DEF Agrees, Flags
  <2> QED
    BY <2>1, <2>2
<1>11. Agrees(kept)'
  BY <1>1, <1>2, <1>3 DEF Agrees, AllGone, cloud
<1>12. Reached'
  <2>1. Inspected'
    BY <1>1, <1>4, <1>6 DEF Inspected, cloud
  <2> QED
    BY <1>1, <1>6, <2>1
    DEF TeardownInv, Reached, Confirmed, AfterToken, AfterLease, AfterDestroy, AfterRetire,
        AfterDNS, AfterRole, AfterStack, AfterGithub, AfterLocal
<1>13. Inventoried' /\ RemovedInOrder'
  BY <1>1, <1>3, <1>6 DEF TeardownInv, Inventoried, RemovedInOrder, cloud
<1> QED
  BY <1>2, <1>3, <1>7, <1>8, <1>9, <1>10, <1>11, <1>12, <1>13 DEF Parts, Rest, Chain

\* Whichever way the records are to go, the choice is noted.
LEMMA ChooseDNSStep ==
  ASSUME TeardownInv, ChooseDNS
  PROVE  Parts'
<1>1. /\ step = "dnschoice" /\ ~unsaved /\ step' = "confirm"
      /\ UNCHANGED <<cloud, indexed, entry, life, unsaved, checkpoints>>
  BY FollowsIs DEF ChooseDNS, AtStep, Advances, listing
<1>2. p \in Progress
  BY DEF TeardownInv, TeardownTypeOK
<1>3. kept' = kept
  BY <1>1 DEF kept, IsSaved, checkpoints
<1>5. /\ Chain(p) /\ Chain(kept) /\ Agrees(p) /\ Agrees(kept) /\ Older(p) /\ Older(kept)
      /\ Inspected
  BY <1>1 DEF TeardownInv, Reached
<1>6. /\ p.Done \subseteq p'.Done /\ p'.Done \subseteq p.Done \cup {"DNSSkipped"}
      /\ p'.Token = p.Token /\ p'.Revision = p.Revision
      /\ p'.Life = p.Life /\ p'.Inventory = p.Inventory /\ p'.Desired = p.Desired
      /\ {"DNSDone", "DNSSkipped"} \cap p'.Done # {} \/ ~p'.Desired \/ p'.Zone
  <2>1. CASE p' = p /\ ("DNSDone" \in p.Done \/ "DNSSkipped" \in p.Done \/ ~p.Desired)
    BY <2>1
  <2>2. CASE p' = [p EXCEPT !.Done = @ \cup {"DNSSkipped"}]
    BY <1>2, <2>2, FlagAdded DEF Flags
  <2>3. CASE p' = [p EXCEPT !.Zone = TRUE]
    BY <1>2, <2>3, NotedIs
  <2> QED
    BY <2>1, <2>2, <2>3 DEF ChooseDNS
<1>7. OneCopy' /\ IsAhead'
  BY <1>1, <1>3, <1>6 DEF TeardownInv, OneCopy, IsAhead, IsSaved, checkpoints, Asking,
                          Confirmed, AfterToken, AfterLease, AfterDestroy, AfterRetire,
                          AfterDNS, AfterRole, AfterStack, AfterGithub, AfterLocal
<1>8. Older(p)' /\ Older(kept)'
  BY <1>1, <1>3, <1>5, <1>6 DEF Older, cloud
<1>9. Chain(p')
  <2>1. p.Life # 0
    BY <1>1 DEF TeardownInv, IsAhead
  <2>2. \A f : f # "DNSSkipped" => (f \in p'.Done <=> f \in p.Done)
    BY <1>6
  <2> QED
    BY <1>5, <1>6, <2>1, <2>2 DEF Chain
<1>10. Agrees(p)'
  BY <1>1, <1>5, <1>6 DEF Agrees, AllGone, Listed, cloud
<1>11. Agrees(kept)'
  BY <1>1, <1>3, <1>5 DEF Agrees, AllGone, Listed, cloud
<1>12. Reached'
  BY <1>1, <1>5, <1>6 DEF TeardownInv, Reached, Inspected, cloud, Confirmed,
                          AfterToken, AfterLease,
                          AfterDestroy, AfterRetire, AfterDNS, AfterRole, AfterStack,
                          AfterGithub, AfterLocal
<1>13. Inventoried' /\ RemovedInOrder'
  BY <1>1, <1>3, <1>6 DEF TeardownInv, Inventoried, RemovedInOrder, cloud
<1> QED
  BY <1>3, <1>5, <1>7, <1>8, <1>9, <1>10, <1>11, <1>12, <1>13 DEF Parts, Rest, Chain

\* Once the preview is confirmed, the checkpoint is to be saved.
LEMMA ConfirmTeardownStep ==
  ASSUME TeardownInv, ConfirmTeardown
  PROVE  Parts'
<1>1. /\ step = "confirm" /\ ~unsaved /\ step' = "index" /\ p' = p /\ unsaved' = TRUE
      /\ UNCHANGED <<cloud, indexed, entry, life, checkpoints>>
  BY FollowsIs DEF ConfirmTeardown, AtStep, Advances, listing
<1>3. kept' = kept
  BY <1>1 DEF kept, IsSaved, checkpoints
<1>5. /\ Chain(p) /\ Chain(kept) /\ Agrees(p) /\ Agrees(kept) /\ Older(p) /\ Older(kept)
      /\ Inspected
  BY <1>1 DEF TeardownInv, Reached
<1>7. OneCopy' /\ IsAhead'
  BY <1>1, <1>3 DEF TeardownInv, OneCopy, IsAhead, IsSaved, checkpoints, Asking
<1>8. Older(p)' /\ Older(kept)'
  BY <1>1, <1>3, <1>5 DEF Older, cloud
<1>10. Agrees(p)' /\ Agrees(kept)'
  BY <1>1, <1>3, <1>5 DEF Agrees, AllGone, Listed, cloud
<1>12. Reached'
  BY <1>1, <1>5 DEF TeardownInv, Reached, Inspected, cloud, Confirmed,
                    AfterToken, AfterLease,
                    AfterDestroy, AfterRetire, AfterDNS, AfterRole, AfterStack,
                    AfterGithub, AfterLocal
<1>13. Inventoried' /\ RemovedInOrder'
  BY <1>1, <1>3 DEF TeardownInv, Inventoried, RemovedInOrder, cloud
<1> QED
  BY <1>1, <1>3, <1>5, <1>7, <1>8, <1>10, <1>12, <1>13 DEF Parts, Rest, Chain

----------------------------------------------------------------------------
\* The command's start, its ends and its save.

\* However the command ends, its checkpoint is where it was, or beside it.
LEMMA EndsStep ==
  ASSUME TeardownInv, step' = "idle", p' = NoCheckpoint, ~unsaved', kept' = kept,
         IsSaved' => backup' = NoCheckpoint, UNCHANGED <<cloud, indexed, entry, life>>
  PROVE  Parts'
<1>1. Chain(kept) /\ Agrees(kept) /\ Older(kept) /\ life # 0 /\ life \in Nat
  BY DEF TeardownInv, TeardownTypeOK, Inventoried
<1>2. OneCopy' /\ IsAhead'
  BY DEF OneCopy, IsAhead, Asking, Confirmed, AfterToken, AfterLease, AfterDestroy,
         AfterRetire, AfterDNS, AfterRole, AfterStack, AfterGithub, AfterLocal
<1>3. Older(p)' /\ Older(kept)'
  BY <1>1, NoCheckpointIs DEF Older, cloud
<1>4. Chain(p')
  BY NoCheckpointIs DEF Chain
<1>5. Agrees(p)'
  BY <1>1, NoCheckpointIs DEF Agrees
<1>6. Agrees(kept)'
  BY <1>1 DEF Agrees, AllGone, Listed, cloud
<1>7. Reached'
  BY NoCheckpointIs
  DEF Reached, Confirmed, AfterToken, AfterLease, AfterDestroy, AfterRetire, AfterDNS,
      AfterRole, AfterStack, AfterGithub, AfterLocal
<1>8. Inventoried' /\ RemovedInOrder'
  BY NoCheckpointIs DEF TeardownInv, Inventoried, RemovedInOrder, cloud
<1> QED
  BY <1>1, <1>2, <1>3, <1>4, <1>5, <1>6, <1>7, <1>8 DEF Parts, Rest, Chain

\* A stop, a death and a repair leave one checkpoint.
LEMMA StopsStep ==
  ASSUME TeardownInv, TeardownStops \/ TeardownCrash \/ TeardownUnlock
  PROVE  Parts'
<1>1. /\ step' = "idle" /\ p' = NoCheckpoint /\ ~unsaved'
      /\ UNCHANGED <<cloud, indexed, entry, life>>
  BY DEF TeardownStops, TeardownCrash, TeardownUnlock, TeardownInv, OneCopy, listing
<1>2. kept' = kept /\ (IsSaved' => backup' = NoCheckpoint)
  <2>1. CASE UNCHANGED <<checkpoint, backup>>
    BY <2>1 DEF TeardownInv, OneCopy, kept, IsSaved
  <2>2. CASE IsSaved /\ checkpoint' = NoCheckpoint /\ backup' = checkpoint
    BY <2>2, NoCheckpointIs DEF kept, IsSaved
  <2>3. CASE ~IsSaved /\ checkpoint' = backup /\ backup' = NoCheckpoint
    <3>1. kept = backup /\ (backup.Life = 0 => backup = NoCheckpoint)
      BY <2>3 DEF TeardownInv, kept, Chain
    <3> QED
      BY <2>3, <3>1 DEF kept, IsSaved
  <2> QED
    BY <2>1, <2>2, <2>3 DEF TeardownStops, TeardownCrash, TeardownUnlock
<1> QED
  BY <1>1, <1>2, EndsStep

\* A command goes on with the checkpoint there is, or begins one for the environment
\* there is.
LEMMA TeardownStartStep ==
  ASSUME TeardownInv, TeardownStart
  PROVE  Parts'
<1>1. /\ step = "idle" /\ step' = "inspect" /\ ~Completed
      /\ ~IsSaved => backup.Life = 0
      /\ p' = IF IsSaved THEN checkpoint ELSE [NoCheckpoint EXCEPT !.Life = life]
      /\ UNCHANGED <<cloud, indexed, entry, life, unsaved, checkpoint, backup>>
  BY DEF TeardownStart, listing
<1>2. kept' = kept
  BY <1>1 DEF kept, IsSaved
<1>3. /\ Chain(kept) /\ Agrees(kept) /\ Older(kept) /\ ~unsaved
      /\ life # 0 /\ life \in Nat
  BY <1>1 DEF TeardownInv, TeardownTypeOK, Inventoried, OneCopy
<1>4. backup = NoCheckpoint
  <2>1. CASE IsSaved
    BY <2>1 DEF TeardownInv, OneCopy
  <2>2. CASE ~IsSaved
    BY <1>1, <1>3, <2>2 DEF kept, Chain
  <2> QED
    BY <2>1, <2>2
<1>5. \/ IsSaved /\ p' = kept /\ kept.Life # 0
      \/ /\ kept.Life = 0 /\ p'.Done = {} /\ p'.Token = 0 /\ p'.Revision = 0
         /\ p'.Life = life
  <2>1. CASE IsSaved
    BY <1>1, <2>1 DEF kept, IsSaved
  <2>2. CASE ~IsSaved
    BY <1>1, <2>2 DEF kept, IsSaved, NoCheckpoint
  <2> QED
    BY <2>1, <2>2
<1>6. OneCopy'
  BY <1>1, <1>3, <1>4 DEF OneCopy, Confirmed, AfterToken, AfterLease, AfterDestroy,
     AfterRetire, AfterDNS, AfterRole, AfterStack, AfterGithub, AfterLocal
<1>7. IsAhead'
  BY <1>1, <1>2, <1>3, <1>5 DEF IsAhead
<1>8. Older(p)' /\ Older(kept)'
  BY <1>1, <1>2, <1>3, <1>5 DEF Older, cloud
<1>9. Chain(p')
  BY <1>3, <1>5 DEF Chain
<1>10. Agrees(kept)'
  BY <1>1, <1>2, <1>3 DEF Agrees, AllGone, Listed, cloud
<1>11. Agrees(p)'
  <2>1. CASE p' = kept
    BY <1>1, <1>3, <2>1 DEF Agrees, AllGone, Listed, cloud
  <2>2. CASE p'.Done = {} /\ p'.Revision = 0
    BY <2>2 DEF Agrees
  <2> QED
    BY <1>5, <2>1, <2>2
<1>12. Reached'
  <2>1. "Complete" \notin p'.Done
    BY <1>1, <1>5 DEF Completed, kept
  <2> QED
    BY <1>1, <1>2, <1>5, <2>1
    DEF Reached, Confirmed, AfterToken, AfterLease, AfterDestroy, AfterRetire, AfterDNS,
        AfterRole, AfterStack, AfterGithub, AfterLocal
<1>13. Inventoried' /\ RemovedInOrder'
  BY <1>1, <1>2, <1>5 DEF TeardownInv, Inventoried, RemovedInOrder, cloud
<1> QED
  BY <1>2, <1>3, <1>6, <1>7, <1>8, <1>9, <1>10, <1>11, <1>12, <1>13 DEF Parts, Rest, Chain

\* What the command knows is what the environment shows, so the file may say it.
LEMMA SaveStep ==
  ASSUME TeardownInv, Save
  PROVE  Parts'
<1>1. /\ unsaved /\ ~unsaved' /\ checkpoint' = p /\ backup' = NoCheckpoint
      /\ UNCHANGED <<cloud, indexed, entry, life, step, p>>
  BY DEF Save, listing
<1>2. step \in Confirmed /\ step # "idle" /\ step # "inspect"
  BY <1>1, StepsAre DEF TeardownInv, TeardownTypeOK, OneCopy, Asking
<1>3. p.Life # 0 /\ Chain(p) /\ Agrees(p) /\ Older(p)
  BY <1>2 DEF TeardownInv, IsAhead
<1>4. kept' = p
  BY <1>1, <1>3 DEF kept, IsSaved
<1>5. OneCopy' /\ IsAhead'
  BY <1>1, <1>2, <1>3, <1>4 DEF OneCopy, IsAhead
<1>6. Older(p)' /\ Older(kept)'
  BY <1>1, <1>3, <1>4 DEF Older
<1>7. Agrees(p)' /\ Agrees(kept)'
  BY <1>1, <1>3, <1>4 DEF Agrees, AllGone, Listed, cloud
<1>8. Reached'
  BY <1>1, <1>2 DEF TeardownInv, Reached, Inspected, AllGone, cloud
<1>9. Inventoried'
  <2>1. kept.Life = life => p.Life = life /\ kept.Inventory \subseteq p.Inventory
    BY <1>2 DEF TeardownInv, IsAhead
  <2> QED
    BY <1>1, <1>3, <1>4, <2>1 DEF TeardownInv, Inventoried, cloud
<1>10. RemovedInOrder'
  BY <1>1 DEF TeardownInv, RemovedInOrder, cloud
<1> QED
  BY <1>1, <1>3, <1>4, <1>5, <1>6, <1>7, <1>8, <1>9, <1>10 DEF Parts, Rest, Chain

----------------------------------------------------------------------------
\* The others.

\* What fades was destroyed, and what is meddled with is there.
LEMMA OthersStep ==
  ASSUME TeardownInv, Meddle \/ \E x \in Things : ThingFades(x)
  PROVE  Parts'
<1> DEFINE Same ==
             /\ UNCHANGED <<exported, stackUp, records, indexed, entry, life, step, p,
                            unsaved, checkpoint, backup, lockFile>>
             /\ role = "none" <=> role' = "none"
             /\ github = "none" <=> github' = "none"
             /\ \A y \in Things : /\ things[y] = "gone" => things'[y] = "gone"
                                  /\ things[y] = "elsewhere" =>
                                       things'[y] \in {"elsewhere", "gone"}
             /\ \A y \in Things : /\ things'[y] = "up" <=> things[y] = "up"
                                  /\ things'[y] = "fading" => things[y] = "fading"
<1>1. Same
  <2>1. CASE Meddle
    BY <2>1 DEF Meddle, checkpoints, listing
  <2>2. ASSUME NEW x \in Things, ThingFades(x) PROVE Same
    BY <2>2 DEF ThingFades, checkpoints, listing, TeardownInv, TeardownTypeOK
  <2> QED
    BY <2>1, <2>2
<1>2. kept' = kept /\ Chain(kept) /\ Chain(p) /\ Agrees(p) /\ Agrees(kept)
  BY <1>1 DEF kept, IsSaved, TeardownInv
<1>4. OneCopy' /\ IsAhead' /\ Older(p)' /\ Older(kept)'
  BY <1>1, <1>2 DEF TeardownInv, OneCopy, IsAhead, Older, IsSaved
<1>5. Agrees(p)' /\ Agrees(kept)'
  BY <1>1, <1>2 DEF Agrees, AllGone, Listed
<1>6. Reached'
  BY <1>1, <1>2 DEF TeardownInv, Reached, Inspected, AllGone
<1>7. Inventoried' /\ RemovedInOrder'
  BY <1>1, <1>2 DEF TeardownInv, Inventoried, RemovedInOrder
<1> QED
  BY <1>1, <1>2, <1>4, <1>5, <1>6, <1>7 DEF Parts, Rest, Chain

\* What a setup makes of the environment.
LEMMA SetupIs ==
  ASSUME TeardownInv, NEW here \in BOOLEAN, Setup(here)
  PROVE  /\ step = "idle" /\ UNCHANGED <<step, p, unsaved, backup, lockFile>>
         /\ indexed => entry.Lock = 0
         /\ IF here THEN kept' = NoCheckpoint ELSE kept' = kept
         /\ here => checkpoint' = NoCheckpoint
         /\ ~here => checkpoint' = checkpoint
         /\ life' = IF exported = {} THEN life + 1 ELSE life
         /\ entry' \in Row /\ ~entry'.Deleted
         /\ \/ indexed' /\ entry'.Revision # 0
            \/ ~indexed /\ ~indexed' /\ entry' = NoRow
         /\ exported' = Things /\ Things # {} /\ things' = [x \in Things |-> "up"]
         /\ stackUp' = TRUE /\ role' = "ours" /\ github' = "ours"
         /\ records' \in {records, TRUE} /\ evidence' \in BOOLEAN
         /\ files' = (here \/ files)
<1>1. entry \in Row /\ indexed \in BOOLEAN
  BY DEF TeardownInv, TeardownTypeOK
<1> DEFINE token == 2 * entry.Revision + 1
           Publishes(c) ==
             entry' = Published(Begun(entry, token),
                        [token |-> token, revision |-> entry.Revision + 1, content |-> c],
                        Listed(entry), entry.Since)
<1>2. token \in Nat /\ entry.Revision \in Nat /\ entry.Since \in Nat
  BY <1>1 DEF Row
<1>3. \/ ~indexed /\ UNCHANGED <<indexed, entry>>
      \/ indexed' = TRUE /\ Free(entry, token) /\ \E c \in Contents : Publishes(c)
  BY DEF Setup, listing
<1> HIDE DEF token
<1>4. Begun(entry, token) \in Row /\ Begun(entry, token).Revision = entry.Revision + 1
  BY <1>1, <1>2, BegunIs
<1>5. ASSUME NEW c \in Contents, Publishes(c)
      PROVE  entry' \in Row /\ ~entry'.Deleted /\ entry'.Revision # 0
  <2> DEFINE q == [token |-> token, revision |-> entry.Revision + 1, content |-> c]
             row == Begun(entry, token)
             seen == Listed(entry)
             since == entry.Since
  <2>1. q.token \in Nat /\ q.revision \in Nat /\ q.content \in Contents /\ q.content = c
    BY <1>2
  <2>2. entry' = Published(row, q, seen, since)
    BY <1>5
  <2>3. /\ row \in Row /\ since \in Nat /\ row.Revision = entry.Revision + 1
        /\ row.Revision # 0
    BY <1>2, <1>4
  <2> HIDE DEF q, row, seen, since
  <2>4. Published(row, q, seen, since) \in Row
    BY <2>1, <2>3, PublishedIs
  <2>5. /\ ~Published(row, q, seen, since).Deleted
        /\ Published(row, q, seen, since).Revision = row.Revision
    BY <2>1, <2>3, PublishedIs
  <2> QED
    BY <2>2, <2>3, <2>4, <2>5
<1> HIDE DEF Publishes
<1>6. /\ indexed => entry.Lock = 0
      /\ entry' \in Row /\ ~entry'.Deleted
      /\ \/ indexed' /\ entry'.Revision # 0
         \/ ~indexed /\ ~indexed' /\ entry' = NoRow
  <2>1. CASE ~indexed /\ UNCHANGED <<indexed, entry>>
    BY <1>1, <2>1 DEF TeardownInv, Inventoried, NoRow
  <2>2. CASE indexed' = TRUE /\ Free(entry, token) /\ \E c \in Contents : Publishes(c)
    BY <1>5, <2>2 DEF Free
  <2> QED
    BY <1>3, <2>1, <2>2
<1>7. backup.Life = 0 \/ IsSaved => (here => kept' = NoCheckpoint)
  <2> SUFFICES ASSUME here, backup.Life = 0 \/ IsSaved PROVE kept' = NoCheckpoint
    OBVIOUS
  <2>1. checkpoint' = NoCheckpoint /\ backup' = backup
    BY DEF Setup, NewLifecycle
  <2>2. backup = NoCheckpoint
    <3>1. CASE IsSaved
      BY <3>1 DEF TeardownInv, OneCopy
    <3>2. CASE ~IsSaved /\ backup.Life = 0
      BY <3>2 DEF TeardownInv, kept, Chain
    <3> QED
      BY <3>1, <3>2
  <2> QED
    BY <2>1, <2>2, NoCheckpointIs DEF kept, IsSaved
<1>8. IF here THEN kept' = NoCheckpoint ELSE kept' = kept
  <2>1. CASE here
    BY <1>7, <2>1 DEF Setup, NewLifecycle
  <2>2. CASE ~here
    BY <2>2 DEF Setup, kept, IsSaved
  <2> QED
    BY <2>1, <2>2
<1>9. Things # {}
  BY TeardownConstants
<1> QED
  BY <1>6, <1>8, <1>9 DEF Setup, NewLifecycle

\* A checkpoint of this life with a lease has the lock, until nothing is left to do.
LEMMA LockIsOurs ==
  ASSUME TeardownInv, kept.Life = life, kept.Revision # 0
  PROVE  /\ indexed /\ entry.Lock % 2 = 0
         /\ entry.Lock = 0 => "Destroyed" \in kept.Done /\ exported = {} /\ ~stackUp
<1>1. Chain(kept) /\ Agrees(kept)
  BY DEF TeardownInv
<1>2. kept.Token # 0 /\ kept.Token % 2 = 0 /\ indexed
  BY <1>1 DEF Chain, TeardownInv, Inventoried
<1>3. entry.Lock = kept.Token \/ (entry.Lock = 0 /\ "LocalDone" \in kept.Done)
  BY <1>1 DEF Agrees
<1>4. "LocalDone" \in kept.Done => {"Destroyed", "StackRemoved"} \subseteq kept.Done
  BY <1>1 DEF Chain
<1> QED
  BY <1>1, <1>2, <1>3, <1>4 DEF Agrees

\* A setup finds an environment nothing of which was taken, or one that has nothing left
\* and begins a new life.
LEMMA SetupStep ==
  ASSUME TeardownInv, NEW here \in BOOLEAN, Setup(here)
  PROVE  Parts'
<1>1. /\ step = "idle" /\ UNCHANGED <<step, p, unsaved, backup>>
      /\ indexed => entry.Lock = 0
      /\ IF here THEN kept' = NoCheckpoint ELSE kept' = kept
      /\ here => checkpoint' = NoCheckpoint
      /\ ~here => checkpoint' = checkpoint
      /\ life' = IF exported = {} THEN life + 1 ELSE life
      /\ ~entry'.Deleted
      /\ \/ indexed' /\ entry'.Revision # 0
         \/ ~indexed /\ ~indexed' /\ entry' = NoRow
      /\ exported' = Things /\ Things # {} /\ things' = [x \in Things |-> "up"]
      /\ stackUp' = TRUE /\ role' = "ours" /\ github' = "ours"
  BY SetupIs
<1>2. /\ life \in Nat /\ life # 0 /\ kept.Life <= life /\ kept \in Progress
      /\ Chain(kept) /\ Agrees(kept) /\ Older(kept)
  BY DEF TeardownInv, TeardownTypeOK, Inventoried, Older, kept
<1>3. life' # 0 /\ life' \in Nat /\ life <= life'
  BY <1>1, <1>2
<1>4. p = NoCheckpoint /\ ~unsaved
  BY <1>1 DEF TeardownInv, OneCopy
<1>5. OneCopy' /\ IsAhead'
  BY <1>1, <1>4, NoCheckpointIs
  DEF TeardownInv, OneCopy, IsAhead, IsSaved, Asking, Confirmed, AfterToken, AfterLease,
      AfterDestroy, AfterRetire, AfterDNS, AfterRole, AfterStack, AfterGithub, AfterLocal
<1>6. Chain(kept')
  <2>1. Chain(NoCheckpoint)
    BY NoCheckpointIs DEF Chain
  <2> QED
    BY <1>1, <1>2, <2>1
<1>7. kept.Life = life /\ kept.Revision # 0 => "Destroyed" \in kept.Done /\ exported = {}
  BY <1>1, LockIsOurs
<1>8. kept.Life = life' => kept.Done \cap (Flags \ {"DNSSkipped"}) = {} /\ kept.Revision = 0
  <2> SUFFICES ASSUME kept.Life = life'
               PROVE  kept.Done \cap (Flags \ {"DNSSkipped"}) = {} /\ kept.Revision = 0
    OBVIOUS
  <2>1. exported # {} /\ kept.Life = life
    BY <1>1, <1>2 DEF Progress
  <2>2. kept.Revision = 0 /\ "Destroyed" \notin kept.Done
    BY <1>2, <1>7, <2>1 DEF Agrees
  <2> QED
    BY <1>2, <2>2 DEF Chain, Flags
<1>9. Agrees(kept)'
  <2>1. CASE kept' = NoCheckpoint
    BY <1>3, <2>1, NoCheckpointIs DEF Agrees
  <2>2. CASE kept' = kept
    BY <1>8, <2>2 DEF Agrees, Flags
  <2> QED
    BY <1>1, <2>1, <2>2
<1>10. Agrees(p)' /\ Chain(p') /\ Older(p)'
  BY <1>1, <1>3, <1>4, NoCheckpointIs DEF Agrees, Chain, Older
<1>11. Older(kept)'
  <2>1. CASE kept' = NoCheckpoint
    BY <1>3, <2>1, NoCheckpointIs DEF Older
  <2>2. CASE kept' = kept
    <3>1. kept.Life <= life'
      BY <1>2, <1>3 DEF Progress
    <3>2. kept.Revision # 0 => "Destroyed" \in kept.Done \/ kept.Life = life'
      BY <1>2, <1>7 DEF Older
    <3>3. kept.Life = life' => kept.Revision = 0
      BY <1>8
    <3> QED
      BY <2>2, <3>1, <3>2 DEF Older
  <2> QED
    BY <1>1, <2>1, <2>2
<1>12. Reached'
  BY <1>1, <1>4, NoCheckpointIs
  DEF Reached, Confirmed, AfterToken, AfterLease, AfterDestroy, AfterRetire, AfterDNS,
      AfterRole, AfterStack, AfterGithub, AfterLocal
<1>13. RemovedInOrder'
  BY <1>1 DEF RemovedInOrder
<1>14. Inventoried'
  <2>1. p'.Token # 0 \/ kept'.Token # 0 => indexed'
    BY <1>1, <1>4, NoCheckpointIs DEF TeardownInv, Inventoried
  <2>2. IF indexed' THEN entry'.Revision # 0 ELSE entry' = NoRow
    BY <1>1
  <2>3. \A x \in Things : things'[x] = "up" /\ x \in exported'
    BY <1>1
  <2> QED
    BY <1>3, <2>1, <2>2, <2>3 DEF Inventoried
<1> QED
  BY <1>5, <1>6, <1>9, <1>10, <1>11, <1>12, <1>13, <1>14 DEF Parts, Rest, Chain

\* A teardown from another checkout finds no lease of this one.
LEMMA ElsewhereStep ==
  ASSUME TeardownInv, DestroyElsewhere \/ FinishElsewhere
  PROVE  Parts'
<1>1. /\ step = "idle"
      /\ UNCHANGED <<indexed, life, step, p, unsaved, checkpoint, backup, lockFile>>
      /\ exported' \subseteq exported
      /\ things' = [x \in Things |-> IF x \in exported \ exported' THEN "elsewhere"
                                     ELSE things[x]]
  <2>1. CASE DestroyElsewhere
    BY <2>1 DEF DestroyElsewhere, Elsewhere, listing, checkpoints
  <2>2. CASE FinishElsewhere
    BY <2>2 DEF FinishElsewhere, Elsewhere, checkpoints, TeardownInv, TeardownTypeOK
  <2> QED
    BY <2>1, <2>2
<1>2. /\ kept' = kept /\ p = NoCheckpoint /\ ~unsaved /\ life # 0 /\ life \in Nat
      /\ Chain(kept) /\ Agrees(kept) /\ Older(kept) /\ kept \in Progress
      /\ entry \in Row /\ indexed \in BOOLEAN
  BY <1>1 DEF TeardownInv, TeardownTypeOK, OneCopy, Inventoried, kept, IsSaved
<1>3. IF indexed THEN entry' \in Row /\ entry'.Revision # 0 ELSE entry' = entry
  <2> DEFINE token == 2 * entry.Revision + 1
             q == [op |-> "delete", token |-> entry.Lock, revision |-> entry.Revision,
                   content |-> Nothing]
  <2>1. /\ token \in Nat /\ entry.Revision \in Nat /\ q.token \in Nat
        /\ indexed => entry.Revision # 0
    BY <1>2 DEF Row, TeardownInv, Inventoried
  <2>2. \/ UNCHANGED entry
        \/ indexed /\ entry' = Begun(entry, token)
        \/ indexed /\ entry' = Retired(entry)
        \/ indexed /\ entry' = Removed(entry, q)
    BY DEF DestroyElsewhere, FinishElsewhere, listing
  <2> HIDE DEF token, q
  <2>3. CASE indexed /\ entry' = Begun(entry, token)
    <3>1. entry' \in Row /\ entry'.Revision = entry.Revision + 1
      BY <1>2, <2>1, <2>3, BegunIs
    <3> QED
      BY <2>1, <2>3, <3>1
  <2>4. CASE indexed /\ entry' = Retired(entry)
    BY <1>2, <2>1, <2>4, RetiredIs
  <2>5. CASE indexed /\ entry' = Removed(entry, q)
    BY <1>2, <2>1, <2>5, RemovedIs
  <2> QED
    BY <1>2, <2>1, <2>2, <2>3, <2>4, <2>5
<1>4. kept.Life = life => kept.Revision = 0
  <2> SUFFICES ASSUME kept.Life = life, kept.Revision # 0 PROVE FALSE
    OBVIOUS
  <2>1. /\ indexed /\ entry.Lock % 2 = 0
        /\ entry.Lock = 0 => exported = {} /\ ~stackUp
    BY LockIsOurs
  <2>2. ~HeldElsewhere
    BY <1>2, <2>1 DEF HeldElsewhere, Row
  <2> QED
    BY <2>1, <2>2 DEF DestroyElsewhere, FinishElsewhere, Free
<1>5. kept.Life = life /\ "Destroyed" \in kept.Done =>
        /\ ~indexed /\ exported = {} /\ exported' = {} /\ entry' = entry
        /\ \A x \in Things : things'[x] = things[x]
  BY <1>1, <1>2, <1>3, <1>4 DEF Agrees
<1>6. /\ UNCHANGED records \/ ~records'
      /\ UNCHANGED stackUp \/ ~stackUp'
      /\ role = "none" => role' = "none"
      /\ github = "none" => github' = "none"
  <2>1. CASE DestroyElsewhere
    BY <2>1 DEF DestroyElsewhere
  <2>2. CASE FinishElsewhere
    <3>1. role' \in {role, "none"} /\ github' \in {github, "none"}
      BY <2>2 DEF FinishElsewhere
    <3>2. records' \in {records, FALSE} /\ stackUp' \in {stackUp, FALSE}
      BY <2>2, Zenon DEF FinishElsewhere
    <3>3. (UNCHANGED records \/ ~records') /\ (UNCHANGED stackUp \/ ~stackUp')
      BY <3>2, Zenon
    <3> QED
      BY <3>1, <3>3
  <2> QED
    BY <2>1, <2>2
<1>7. OneCopy' /\ IsAhead' /\ Chain(kept') /\ Older(kept)'
  BY <1>1, <1>2 DEF TeardownInv, OneCopy, IsAhead, Older, IsSaved
<1>8. Chain(p') /\ Agrees(p)' /\ Older(p)'
  BY <1>1, <1>2, NoCheckpointIs DEF Chain, Agrees, Older
<1>9. Agrees(kept)'
  <2>1. CASE "Destroyed" \in kept.Done
    BY <1>1, <1>2, <1>4, <1>5, <1>6, <2>1 DEF Agrees, AllGone, Listed
  <2>2. CASE "Destroyed" \notin kept.Done
    <3>1. kept.Done \cap (Flags \ {"DNSSkipped"}) = {}
      BY <1>2, <2>2 DEF Chain, Flags
    <3> QED
      BY <1>1, <1>2, <1>4, <3>1 DEF Agrees, Flags
  <2> QED
    BY <2>1, <2>2
<1>10. Reached'
  BY <1>1, <1>2, NoCheckpointIs
  DEF Reached, Confirmed, AfterToken, AfterLease, AfterDestroy, AfterRetire, AfterDNS,
      AfterRole, AfterStack, AfterGithub, AfterLocal
<1>11. Inventoried'
  <2>1. \A x \in Things : /\ things'[x] = "up" <=> x \in exported'
                          /\ things'[x] = "fading" => things[x] = "fading"
    BY <1>1 DEF TeardownInv, Inventoried
  <2> QED
    BY <1>1, <1>2, <1>3, <2>1 DEF TeardownInv, Inventoried
<1>12. RemovedInOrder'
  <2>1. CASE FinishElsewhere
    <3>1. exported' = {} /\ (github' = "none" => ~stackUp')
      BY <2>1 DEF FinishElsewhere
    <3> QED
      BY <3>1 DEF RemovedInOrder
  <2>2. CASE DestroyElsewhere
    <3>1. UNCHANGED <<role, github, stackUp>>
      BY <2>2 DEF DestroyElsewhere
    <3>2. entry'.Deleted = entry.Deleted
      <4> DEFINE token == 2 * entry.Revision + 1
      <4>1. UNCHANGED entry \/ entry' = Begun(entry, token)
        BY <2>2 DEF DestroyElsewhere, listing
      <4>2. token \in Nat
        BY <1>2 DEF Row
      <4> HIDE DEF token
      <4>3. Begun(entry, token).Deleted = entry.Deleted
        BY <1>2, <4>2, BegunIs
      <4> QED
        BY <4>1, <4>3
    <3> QED
      BY <1>1, <3>1, <3>2 DEF TeardownInv, RemovedInOrder
  <2> QED
    BY <2>1, <2>2
<1> QED
  BY <1>7, <1>8, <1>9, <1>10, <1>11, <1>12 DEF Parts, Rest, Chain

----------------------------------------------------------------------------
\* Types.

CloudTyped ==
  /\ things \in [Things -> {"up", "fading", "elsewhere", "gone"}]
  /\ exported \subseteq Things
  /\ stackUp \in BOOLEAN /\ evidence \in BOOLEAN /\ records \in BOOLEAN /\ files \in BOOLEAN
  /\ indexed \in BOOLEAN
  /\ role \in {"ours", "changed", "none"} /\ github \in {"ours", "changed", "none"}

CommandTyped ==
  /\ life \in Nat /\ step \in Steps /\ unsaved \in BOOLEAN /\ lockFile \in BOOLEAN
  /\ p \in Progress

\* The type invariant in parts.
LEMMA TypedParts ==
  TeardownTypeOK <=> /\ CloudTyped /\ CommandTyped /\ entry \in Row
                     /\ checkpoint \in Progress /\ backup \in Progress
BY DEF TeardownTypeOK, CloudTyped, CommandTyped

\* What there is of the environment, ...
LEMMA CloudTypedStep ==
  ASSUME TeardownInv, TeardownNext
  PROVE  CloudTyped'
<1>1. CloudTyped
  BY TypedParts DEF TeardownInv
<1>2. CASE UNCHANGED <<cloud, indexed>>
  BY <1>1, <1>2 DEF CloudTyped, cloud
<1>3. CASE Purge \/ CleanDNS \/ DeleteRole \/ RemoveStack \/ DeleteGithub \/ CleanLocal
  BY <1>1, <1>3
  DEF CloudTyped, Purge, CleanDNS, DeleteRole, RemoveStack, DeleteGithub, CleanLocal,
      listing
<1>4. CASE Meddle
  BY <1>1, <1>4 DEF CloudTyped, Meddle, listing
<1>5. ASSUME NEW x \in Things, DestroyThing(x) \/ ThingFades(x) PROVE CloudTyped'
  BY <1>1, <1>5 DEF CloudTyped, DestroyThing, ThingFades, listing
<1>6. ASSUME NEW here \in BOOLEAN, Setup(here) PROVE CloudTyped'
  <2>1. /\ things' = [x \in Things |-> "up"] /\ exported' = Things /\ stackUp' = TRUE
        /\ role' = "ours" /\ github' = "ours" /\ evidence' \in BOOLEAN
        /\ records' \in {records, TRUE} /\ files' = (here \/ files)
    BY <1>6, SetupIs
  <2>2. indexed' \in BOOLEAN
    <3>1. indexed' = TRUE \/ UNCHANGED indexed
      BY <1>6, Zenon DEF Setup, listing
    <3> QED
      BY <1>1, <3>1 DEF CloudTyped
  <2> QED
    BY <1>1, <1>6, <2>1, <2>2 DEF CloudTyped
<1>8. CASE DestroyElsewhere
  BY <1>1, <1>8 DEF CloudTyped, DestroyElsewhere, listing
<1>9. CASE FinishElsewhere
  <2>1. role' \in {role, "none"} /\ github' \in {github, "none"}
    BY <1>9 DEF FinishElsewhere
  <2>2. records' \in {records, FALSE} /\ stackUp' \in {stackUp, FALSE}
    BY <1>9, Zenon DEF FinishElsewhere
  <2>3. UNCHANGED <<things, exported, evidence, files, indexed>>
    BY <1>9 DEF FinishElsewhere
  <2>4. records' \in BOOLEAN /\ stackUp' \in BOOLEAN
    BY <1>1, <2>2, Zenon DEF CloudTyped
  <2> QED
    BY <1>1, <2>1, <2>3, <2>4 DEF CloudTyped
<1>7. \/ UNCHANGED <<cloud, indexed>> \/ DestroyElsewhere \/ FinishElsewhere \/ Purge
      \/ CleanDNS \/ DeleteRole \/ RemoveStack \/ DeleteGithub \/ CleanLocal \/ Meddle
      \/ (\E x \in Things : DestroyThing(x) \/ ThingFades(x))
      \/ \E here \in BOOLEAN : Setup(here)
  BY DEF TeardownNext, TeardownStart, TeardownStops, TeardownCrash, TeardownUnlock, Save,
         Inspect, ChooseDNS, ConfirmTeardown, DrawToken, Lease, Unregistered, Skip,
         StackDestroyed, Retire, Validate, DeleteEntry, listing
<1> QED
  BY <1>2, <1>3, <1>4, <1>5, <1>6, <1>7, <1>8, <1>9

\* ... the entry, ...
LEMMA EntryTypedStep ==
  ASSUME TeardownInv, TeardownNext
  PROVE  entry' \in Row
<1>1. entry \in Row /\ p \in Progress
  BY TypedParts DEF TeardownInv, CommandTyped
<1>2. CASE UNCHANGED entry
  BY <1>1, <1>2
<1>3. CASE Lease
  <2>1. p.Token \in Nat
    BY <1>1 DEF Progress
  <2> QED
    BY <1>1, <1>3, <2>1, BegunIs DEF Lease
<1>4. CASE Retire
  BY <1>1, <1>4, RetiredIs DEF Retire
<1>5. CASE DeleteEntry
  <2>1. Request("delete").token \in Nat
    BY <1>1 DEF Request, Progress
  <2> QED
    BY <1>1, <1>5, <2>1, RemovedIs DEF DeleteEntry
<1>6. ASSUME NEW here \in BOOLEAN, Setup(here) PROVE entry' \in Row
  BY <1>6, SetupIs
<1>8. CASE DestroyElsewhere
  <2>1. 2 * entry.Revision + 1 \in Nat
    BY <1>1 DEF Row
  <2> QED
    BY <1>1, <1>8, <2>1, BegunIs DEF DestroyElsewhere, listing
<1>9. CASE FinishElsewhere
  <2> DEFINE q == [op |-> "delete", token |-> entry.Lock, revision |-> entry.Revision,
                   content |-> Nothing]
  <2>1. q.token \in Nat
    BY <1>1 DEF Row
  <2>2. UNCHANGED entry \/ entry' = Retired(entry) \/ entry' = Removed(entry, q)
    BY <1>9 DEF FinishElsewhere
  <2> HIDE DEF q
  <2> QED
    BY <1>1, <2>1, <2>2, RetiredIs, RemovedIs
<1>7. \/ UNCHANGED entry \/ Lease \/ Retire \/ DeleteEntry \/ DestroyElsewhere
      \/ FinishElsewhere \/ \E here \in BOOLEAN : Setup(here)
  BY DEF TeardownNext, TeardownStart, TeardownStops, TeardownCrash, TeardownUnlock, Save,
         Inspect, ChooseDNS, ConfirmTeardown, DrawToken, Unregistered, Skip, Purge,
         StackDestroyed, CleanDNS, DeleteRole, RemoveStack, DeleteGithub, CleanLocal,
         Validate, Meddle, DestroyThing, ThingFades, listing
<1> QED
  BY <1>2, <1>3, <1>4, <1>5, <1>6, <1>7, <1>8, <1>9

\* Each step there is follows another.
LEMMA AdvancesTyped ==
  ASSUME step \in Steps \ {"idle", "delete"}, Advances
  PROVE  step' \in Steps
BY FollowsIs, StepsAre
DEF Advances, Asking, Confirmed, AfterToken, AfterLease, AfterDestroy, AfterRetire,
    AfterDNS, AfterRole, AfterStack, AfterGithub, AfterLocal

\* ... where the command is and what it knows ...
LEMMA CommandTypedStep ==
  ASSUME TeardownInv, TeardownNext
  PROVE  CommandTyped'
<1>1. CommandTyped /\ CloudTyped /\ entry \in Row /\ checkpoint \in Progress
  BY TypedParts DEF TeardownInv
<1>2. "idle" \in Steps /\ "inspect" \in Steps
  BY StepsAre DEF Asking
<1>3. CASE UNCHANGED <<life, step, p, unsaved, lockFile>>
  BY <1>1, <1>3 DEF CommandTyped
<1>4. CASE TeardownStart
  <2>1. p' \in Progress
    <3>1. CASE IsSaved
      BY <1>1, <1>4, <3>1 DEF TeardownStart
    <3>2. CASE ~IsSaved
      <4>1. p' = [NoCheckpoint EXCEPT !.Life = life] /\ life \in Nat
        BY <1>1, <1>4, <3>2 DEF TeardownStart, CommandTyped
      <4> QED
        BY <4>1 DEF NoCheckpoint, Progress
    <3> QED
      BY <3>1, <3>2
  <2> QED
    BY <1>1, <1>2, <1>4, <2>1 DEF TeardownStart, CommandTyped
<1>5. CASE TeardownStops \/ TeardownCrash \/ TeardownUnlock \/ Save
  BY <1>1, <1>2, <1>5, NoCheckpointIs
  DEF TeardownStops, TeardownCrash, TeardownUnlock, Save, CommandTyped
<1>6. CASE Inspect
  <2>1. p' \in Progress
    <3>1. /\ p.Inventory \cup exported \in SUBSET Things /\ Desired \in BOOLEAN
          /\ p \in Progress /\ life \in Nat
      BY <1>1 DEF CommandTyped, CloudTyped, Progress, Desired
    <3>2. \/ p' = p
          \/ p' = [p EXCEPT !.Inventory = p.Inventory \cup exported, !.Desired = Desired,
                             !.Life = life]
      BY <1>6 DEF Inspect, InventoryWith
    <3> QED
      BY <3>1, <3>2 DEF Progress
  <2>2. step' \in Steps
    BY <1>1, <1>6, AdvancesTyped DEF Inspect, AtStep, CommandTyped
  <2> QED
    BY <1>1, <1>6, <2>1, <2>2 DEF Inspect, CommandTyped, checkpoints
<1>7. CASE ChooseDNS \/ ConfirmTeardown \/ Validate
  <2>1. p' \in Progress
    <3>1. \/ p' = p \/ p' = [p EXCEPT !.Done = @ \cup {"DNSSkipped"}]
          \/ p' = [p EXCEPT !.Zone = TRUE]
      BY <1>7 DEF ChooseDNS, ConfirmTeardown, Validate
    <3>2. p \in Progress /\ "DNSSkipped" \in Flags
      BY <1>1 DEF CommandTyped, Flags
    <3> QED
      BY <3>1, <3>2 DEF Progress
  <2>2. step' \in Steps
    BY <1>1, <1>7, AdvancesTyped
    DEF ChooseDNS, ConfirmTeardown, Validate, AtStep, CommandTyped
  <2> QED
    BY <1>1, <1>7, <2>1, <2>2
    DEF ChooseDNS, ConfirmTeardown, Validate, CommandTyped, checkpoints
<1>8. CASE DrawToken
  <2>1. p' \in Progress
    <3>1. p \in Progress /\ 2 * p.Life \in Nat
      BY <1>1 DEF CommandTyped, Progress
    <3>2. p' = p \/ p' = [p EXCEPT !.Token = 2 * p.Life]
      BY <1>8 DEF DrawToken
    <3> QED
      BY <3>1, <3>2 DEF Progress
  <2>2. step' \in Steps
    BY <1>1, <1>8, AdvancesTyped DEF DrawToken, AtStep, CommandTyped
  <2> QED
    BY <1>1, <1>8, <2>1, <2>2 DEF DrawToken, CommandTyped, checkpoints
<1>9. CASE Lease
  <2>1. p' \in Progress
    <3>1. p \in Progress /\ entry.Revision \in Nat /\ entry'.Revision \in Nat
      BY <1>1, EntryTypedStep DEF CommandTyped, Row
    <3>2. \/ p' = p \/ p' = [p EXCEPT !.Revision = entry.Revision]
          \/ p' = [p EXCEPT !.Revision = entry'.Revision]
      BY <1>9 DEF Lease
    <3> QED
      BY <3>1, <3>2 DEF Progress
  <2>2. step' \in Steps
    BY <1>1, <1>9, AdvancesTyped DEF Lease, AtStep, CommandTyped
  <2> QED
    BY <1>1, <1>9, <2>1, <2>2 DEF Lease, CommandTyped, checkpoints
<1>10. CASE Skip \/ Unregistered
  <2>1. step' \in Steps
    BY <1>10, SkipIs, StepsAre, FollowsIs
    DEF Unregistered, Skips, Advances, Confirmed, AfterToken, AfterLease, AfterDestroy,
        AfterRetire, AfterDNS, AfterRole,
        AfterStack, AfterGithub, AfterLocal
  <2> QED
    BY <1>1, <1>10, <2>1 DEF Skip, Unregistered, Skips, CommandTyped, checkpoints
<1>11. CASE \/ StackDestroyed \/ Retire \/ CleanDNS \/ DeleteRole \/ RemoveStack
            \/ DeleteGithub \/ CleanLocal
  <2>1. \/ p' = p /\ unsaved' = FALSE
        \/ unsaved' = TRUE /\ \E flag \in Flags : p' = [p EXCEPT !.Done = @ \cup {flag}]
    BY <1>11 DEF StackDestroyed, Retire, CleanDNS, DeleteRole, RemoveStack, DeleteGithub,
                 CleanLocal, Did, Skips, Flags
  <2>2. p' \in Progress /\ unsaved' \in BOOLEAN
    BY <1>1, <2>1, FlagAdded DEF CommandTyped
  <2>3. Advances /\ step \notin {"idle", "delete"}
    BY <1>11 DEF StackDestroyed, Retire, CleanDNS, DeleteRole, RemoveStack, DeleteGithub,
                 CleanLocal, Did, Skips, AtStep
  <2>4. step' \in Steps
    BY <1>1, <2>3, AdvancesTyped DEF CommandTyped
  <2>5. UNCHANGED <<life, lockFile>>
    BY <1>11 DEF StackDestroyed, Retire, CleanDNS, DeleteRole, RemoveStack, DeleteGithub,
                 CleanLocal, checkpoints
  <2> QED
    BY <1>1, <2>2, <2>4, <2>5 DEF CommandTyped
<1>12. CASE DeleteEntry
  <2>1. p' \in Progress
    BY <1>1, <1>12, FlagAdded DEF DeleteEntry, CommandTyped, Flags
  <2> QED
    BY <1>1, <1>12, <2>1 DEF DeleteEntry, CommandTyped, checkpoints
<1>13. ASSUME NEW here \in BOOLEAN, Setup(here) PROVE CommandTyped'
  <2>1. life' = (IF exported = {} THEN life + 1 ELSE life) /\ life \in Nat
    BY <1>1, <1>13 DEF Setup, CommandTyped
  <2>2. life' \in Nat
    BY <2>1
  <2> QED
    BY <1>1, <1>13, <2>2 DEF Setup, CommandTyped
<1>14. \/ UNCHANGED <<life, step, p, unsaved, lockFile>>
       \/ \E here \in BOOLEAN : Setup(here)
       \/ TeardownStart \/ TeardownStops \/ TeardownCrash \/ TeardownUnlock \/ Save
       \/ Inspect \/ ChooseDNS \/ ConfirmTeardown \/ DrawToken \/ Lease \/ Skip
       \/ Unregistered \/ StackDestroyed \/ Retire \/ CleanDNS \/ DeleteRole
       \/ RemoveStack \/ DeleteGithub
       \/ CleanLocal
       \/ Validate \/ DeleteEntry
  BY DEF TeardownNext, Purge, Meddle, DestroyThing, ThingFades, DestroyElsewhere,
         FinishElsewhere, checkpoints
<1> QED
  BY <1>3, <1>4, <1>5, <1>6, <1>7, <1>8, <1>9, <1>10, <1>11, <1>12, <1>13, <1>14

\* ... and what is on disk keep their types.
LEMMA DiskTypedStep ==
  ASSUME TeardownInv, TeardownNext
  PROVE  checkpoint' \in Progress /\ backup' \in Progress
<1>1. p \in Progress /\ checkpoint \in Progress /\ backup \in Progress
  BY DEF TeardownInv, TeardownTypeOK
<1>2. CASE UNCHANGED <<checkpoint, backup>>
  BY <1>1, <1>2
<1>3. CASE TeardownCrash \/ TeardownUnlock \/ Save
  BY <1>1, <1>3, NoCheckpointIs DEF TeardownCrash, TeardownUnlock, Save
<1>4. ASSUME NEW here \in BOOLEAN, Setup(here)
      PROVE  checkpoint' \in Progress /\ backup' \in Progress
  BY <1>1, <1>4, NoCheckpointIs DEF Setup, NewLifecycle
<1>5. \/ UNCHANGED <<checkpoint, backup>> \/ TeardownCrash \/ TeardownUnlock \/ Save
      \/ \E here \in BOOLEAN : Setup(here)
  BY DEF TeardownNext, TeardownStart, TeardownStops, Inspect, ChooseDNS, ConfirmTeardown,
         DrawToken, Lease, Unregistered, Skip, Purge, StackDestroyed, Retire, CleanDNS,
         DeleteRole,
         RemoveStack, DeleteGithub, CleanLocal, Validate, DeleteEntry, Meddle, DestroyThing,
         ThingFades, DestroyElsewhere, FinishElsewhere, checkpoints
<1> QED
  BY <1>2, <1>3, <1>4, <1>5

----------------------------------------------------------------------------
\* The invariant.

\* What is published when the environment is first there.
LEMMA FirstEntry ==
  ASSUME TeardownInit
  PROVE  /\ entry \in Row /\ ~entry.Deleted
         /\ IF indexed THEN entry.Revision # 0 ELSE entry = NoRow
<1>1. NoRow \in Row /\ NoRow.Revision = 0 /\ ~NoRow.Deleted
  BY DEF NoRow, Row
<1>2. CASE ~indexed
  BY <1>1, <1>2 DEF TeardownInit
<1>3. CASE indexed
  <2>1. PICK c \in Contents :
          entry = Published(Begun(NoRow, 1), [token |-> 1, revision |-> 1, content |-> c],
                            Nothing, 0)
    BY <1>3 DEF TeardownInit
  <2> DEFINE q == [token |-> 1, revision |-> 1, content |-> c]
             row == Begun(NoRow, 1)
             none == Nothing
  <2>2. row \in Row /\ row.Revision = 1
    BY <1>1, BegunIs
  <2>3. q.token \in Nat /\ q.revision \in Nat /\ q.content \in Contents
    OBVIOUS
  <2>4. entry = Published(row, q, none, 0)
    BY <2>1
  <2> HIDE DEF q, row, none
  <2>5. Published(row, q, none, 0) \in Row
    BY <2>2, <2>3, PublishedIs
  <2>6. /\ ~Published(row, q, none, 0).Deleted
        /\ Published(row, q, none, 0).Revision = row.Revision
    BY <2>2, <2>3, PublishedIs
  <2> QED
    BY <1>3, <2>2, <2>4, <2>5, <2>6
<1> QED
  BY <1>2, <1>3

\* It holds at first, ...
LEMMA TeardownInitInv == TeardownInit => TeardownInv
<1> SUFFICES ASSUME TeardownInit PROVE TeardownInv
  OBVIOUS
<1>1. /\ entry \in Row /\ ~entry.Deleted
      /\ IF indexed THEN entry.Revision # 0 ELSE entry = NoRow
  BY FirstEntry
<1>2. /\ step = "idle" /\ p = NoCheckpoint /\ unsaved = FALSE /\ lockFile = FALSE
      /\ checkpoint = NoCheckpoint /\ backup = NoCheckpoint
      /\ kept = NoCheckpoint /\ ~IsSaved
  BY NoCheckpointIs DEF TeardownInit, kept, IsSaved
<1>3. /\ exported \subseteq Things /\ exported # {} /\ stackUp = TRUE /\ role = "ours"
      /\ github = "ours" /\ life = 1
      /\ things = [x \in Things |-> IF x \in exported THEN "up" ELSE "gone"]
      /\ evidence \in BOOLEAN /\ records \in BOOLEAN /\ files \in BOOLEAN
      /\ indexed \in BOOLEAN
  <2>1. exported \subseteq Things /\ exported # {}
    BY DEF TeardownInit
  <2>2. /\ stackUp = TRUE /\ role = "ours" /\ github = "ours" /\ life = 1
        /\ things = [x \in Things |-> IF x \in exported THEN "up" ELSE "gone"]
    BY Zenon DEF TeardownInit
  <2>3. /\ evidence \in BOOLEAN /\ records \in BOOLEAN /\ files \in BOOLEAN
        /\ indexed \in BOOLEAN
    BY Zenon DEF TeardownInit
  <2> QED
    BY <2>1, <2>2, <2>3, Zenon
<1>4. TeardownTypeOK
  BY <1>1, <1>2, <1>3, NoCheckpointIs, StepsAre, TypedParts DEF CloudTyped, CommandTyped
<1>5. OneCopy /\ IsAhead
  BY <1>2 DEF OneCopy, IsAhead, Asking, Confirmed, AfterToken, AfterLease, AfterDestroy,
     AfterRetire, AfterDNS, AfterRole, AfterStack, AfterGithub, AfterLocal
<1>6. Chain(p) /\ Chain(kept)
  BY <1>2, NoCheckpointIs DEF Chain
<1>7. Agrees(p) /\ Agrees(kept)
  BY <1>2, <1>3, NoCheckpointIs DEF Agrees
<1>8. Older(p) /\ Older(kept)
  BY <1>2, <1>3, NoCheckpointIs DEF Older
<1>9. Reached
  BY <1>2, NoCheckpointIs
  DEF Reached, Confirmed, AfterToken, AfterLease, AfterDestroy, AfterRetire, AfterDNS,
      AfterRole, AfterStack, AfterGithub, AfterLocal
<1>10. Inventoried /\ RemovedInOrder
  BY <1>1, <1>2, <1>3, NoCheckpointIs DEF Inventoried, RemovedInOrder
<1> QED
  BY <1>4, <1>5, <1>6, <1>7, <1>8, <1>9, <1>10 DEF TeardownInv

\* ... every step keeps it, ...
LEMMA TeardownStep == TeardownInv /\ TeardownNext => TeardownInv'
<1> SUFFICES ASSUME TeardownInv, TeardownNext PROVE TeardownInv'
  OBVIOUS
<1>1. CloudTyped' /\ CommandTyped' /\ entry' \in Row /\ checkpoint' \in Progress
      /\ backup' \in Progress
  BY CloudTypedStep, CommandTypedStep, EntryTypedStep, DiskTypedStep
<1>2. TeardownTypeOK'
  BY <1>1 DEF CloudTyped, CommandTyped, TeardownTypeOK
<1>3. Parts'
  <2>1. CASE TeardownStart
    BY <2>1, TeardownStartStep
  <2>2. CASE TeardownStops \/ TeardownCrash \/ TeardownUnlock
    BY <2>2, StopsStep
  <2>3. CASE Save
    BY <2>3, SaveStep
  <2>4. CASE Inspect
    BY <2>4, InspectStep
  <2>5. CASE ChooseDNS
    BY <2>5, ChooseDNSStep
  <2>6. CASE ConfirmTeardown
    BY <2>6, ConfirmTeardownStep
  <2>7. CASE UnderLease
    BY <2>7, UnderLeaseStep
  <2>8. CASE Meddle \/ \E x \in Things : ThingFades(x)
    BY <2>8, OthersStep
  <2>9. CASE \E here \in BOOLEAN : Setup(here)
    BY <2>9, SetupStep
  <2>10. CASE DestroyElsewhere \/ FinishElsewhere
    BY <2>10, ElsewhereStep
  <2> QED
    BY <2>1, <2>2, <2>3, <2>4, <2>5, <2>6, <2>7, <2>8, <2>9, <2>10
    DEF TeardownNext, UnderLease
<1> QED
  BY <1>2, <1>3 DEF Parts, Rest, TeardownInv, Chain

\* ... and so does doing nothing.
LEMMA TeardownStutters == TeardownInv /\ UNCHANGED teardownVars => TeardownInv'
<1> SUFFICES ASSUME TeardownInv, UNCHANGED teardownVars PROVE TeardownInv'
  OBVIOUS
<1>1. UNCHANGED <<things, exported, stackUp, evidence, records, role, github, files,
                  indexed, entry, life, step, p, unsaved, checkpoint, backup, lockFile>>
  BY DEF teardownVars
<1>2. kept' = kept
  BY <1>1 DEF kept, IsSaved
<1>3. TeardownTypeOK'
  BY <1>1 DEF TeardownInv, TeardownTypeOK
<1>4. OneCopy' /\ IsAhead'
  BY <1>1, <1>2 DEF TeardownInv, OneCopy, IsAhead, IsSaved
<1>5. Chain(p') /\ Chain(kept')
  BY <1>1, <1>2 DEF TeardownInv
<1>6. Agrees(p)' /\ Agrees(kept)'
  BY <1>1, <1>2 DEF TeardownInv, Agrees, AllGone, Listed
<1>7. Older(p)' /\ Older(kept)' /\ Reached'
  BY <1>1, <1>2 DEF TeardownInv, Older, Reached, Inspected, AllGone
<1>8. Inventoried' /\ RemovedInOrder'
  BY <1>1, <1>2 DEF TeardownInv, Inventoried, RemovedInOrder
<1> QED
  BY <1>3, <1>4, <1>5, <1>6, <1>7, <1>8 DEF TeardownInv, Chain

\* The checkpoint and the environment agree, wherever the command is.
THEOREM TeardownInvariant == TeardownSpec => []TeardownInv
<1>1. TeardownInv /\ [TeardownNext]_teardownVars => TeardownInv'
  BY TeardownStep, TeardownStutters
<1> QED
  BY <1>1, TeardownInitInv, PTL DEF TeardownSpec

----------------------------------------------------------------------------
\* What follows.

\* What a finished teardown reported gone is gone.
LEMMA CompleteIsGone == TeardownInv => CompleteMeansGone
<1> SUFFICES ASSUME TeardownInv, Completed, checkpoint.Life = life
             PROVE  /\ \A x \in Things :
                         \/ things[x] = "gone"
                         \/ things[x] = "elsewhere" /\ x \notin checkpoint.Inventory
                    /\ ~stackUp /\ role = "none" /\ github = "none"
                    /\ records => "DNSSkipped" \in checkpoint.Done \/ ~checkpoint.Desired
                    /\ entry.Lock = 0 /\ Listed(entry) = Nothing
  BY DEF CompleteMeansGone
<1>1. kept = checkpoint /\ Chain(kept) /\ Agrees(kept)
  BY DEF TeardownInv, Inventoried, kept, IsSaved
<1>2. /\ {"Complete", "LocalDone", "CleanupDone", "StackRemoved", "RoleDone"}
           \subseteq kept.Done
      /\ {"DNSDone", "DNSSkipped"} \cap kept.Done # {}
  BY <1>1 DEF Completed, Chain
<1> QED
  BY <1>1, <1>2 DEF Agrees, AllGone

\* What a step leaves there of the environment.
Untouched ==
  /\ \A x \in Things : things[x] = "up" => things'[x] = "up"
  /\ role' = "none" => role = "none"
  /\ github' = "none" => github = "none"
  /\ Listed(entry') = Nothing => Listed(entry) = Nothing
  /\ ~stackUp' => ~stackUp
  /\ ~records' => ~records
  /\ ~evidence' => ~evidence

\* What the command removes, it removes after an inspection: the environment there is is
\* the one it inspected, or nothing is left of its resources.
LEMMA OnlyInspectedIsRemoved == TeardownInv /\ TeardownNext => RecreatedUntouched
<1> SUFFICES ASSUME TeardownInv, TeardownNext, step # "idle", p.Life # life,
                    ~("Destroyed" \in p.Done /\ exported = {})
             PROVE  ~Removes
  BY DEF RecreatedUntouched, Removes
<1>1. ~UnderLease
  BY UnderLeaseStep, Leased DEF Inspected
<1>2. ASSUME UNCHANGED <<cloud, entry>> PROVE Untouched
  <2>1. UNCHANGED <<things, stackUp, role, github, records, entry, evidence>>
    BY <1>2 DEF cloud
  <2> QED
    BY <2>1 DEF Untouched
<1>3. ASSUME Meddle PROVE Untouched
  <2>1. /\ UNCHANGED <<things, stackUp, records, entry, evidence>>
        /\ role' = "none" => role = "none"
        /\ github' = "none" => github = "none"
    BY <1>3 DEF Meddle, listing
  <2> QED
    BY <2>1 DEF Untouched
<1>4. ASSUME NEW x \in Things, ThingFades(x) PROVE Untouched
  <2>1. /\ UNCHANGED <<stackUp, role, github, records, entry, evidence>>
        /\ things[x] # "up" /\ things' = [things EXCEPT ![x] = "gone"]
    BY <1>4 DEF ThingFades, listing
  <2> QED
    BY <2>1 DEF Untouched, TeardownInv, TeardownTypeOK
<1>5. ~(\E here \in BOOLEAN : Setup(here)) /\ ~DestroyElsewhere /\ ~FinishElsewhere
  BY DEF Setup, DestroyElsewhere, FinishElsewhere, Elsewhere
<1>6. UNCHANGED <<cloud, entry>> \/ Meddle \/ \E x \in Things : ThingFades(x)
  BY <1>1, <1>5 DEF TeardownNext, TeardownStart, TeardownStops, TeardownCrash,
                    TeardownUnlock, Save, Inspect, ChooseDNS, ConfirmTeardown, UnderLease,
                    listing
<1>7. Untouched
  BY <1>2, <1>3, <1>4, <1>6
<1> QED
  BY <1>7 DEF Removes, Untouched

\* A teardown that destroyed the stack removes nothing of an environment set up since,
\* unless nothing is left of its resources.
THEOREM RecreatedIsUntouched == TeardownSpec => [][RecreatedUntouched]_teardownVars
<1>1. TeardownInv /\ [TeardownNext]_teardownVars => [RecreatedUntouched]_teardownVars
  BY OnlyInspectedIsRemoved
<1> QED
  BY <1>1, TeardownInvariant, PTL DEF TeardownSpec

\* The DNS records go when the stack is empty, and the stack and the GitHub environment
\* after the role, whoever removes them.
LEMMA RemovedAfter == TeardownInv /\ TeardownNext => RecordsInOrder
<1> SUFFICES ASSUME TeardownInv, TeardownNext PROVE RecordsInOrder
  OBVIOUS
<1> USE DEF Confirmed, AfterToken, AfterLease, AfterDestroy, AfterRetire, AfterDNS,
            AfterRole, AfterStack, AfterGithub, AfterLocal
<1>1. CASE UNCHANGED <<records, stackUp>> /\ (github' = "none" => github = "none")
  BY <1>1 DEF RecordsInOrder
<1>2. CASE CleanDNS
  <2>1. /\ step = "dns" /\ ~unsaved
        /\ UNCHANGED <<exported, stackUp, github>>
    BY <1>2 DEF CleanDNS, AtStep
  <2>2. exported' = {}
    BY <2>1, Leased DEF TeardownInv, Reached, Inspected
  <2> QED
    BY <2>1, <2>2 DEF RecordsInOrder
<1>3. CASE RemoveStack
  <2>1. step = "stack" /\ ~unsaved /\ UNCHANGED <<records, role, github>>
    BY <1>3 DEF RemoveStack, AtStep
  <2>2. Agrees(p) /\ "RoleDone" \in p.Done
    BY <2>1 DEF TeardownInv, Reached
  <2> QED
    BY <2>1, <2>2 DEF RecordsInOrder, Agrees
<1>4. CASE DeleteGithub
  <2>1. step = "github" /\ ~unsaved /\ UNCHANGED <<records, role, stackUp>>
    BY <1>4 DEF DeleteGithub, AtStep
  <2>2. Agrees(p) /\ "RoleDone" \in p.Done
    BY <2>1 DEF TeardownInv, Reached
  <2> QED
    BY <2>1, <2>2 DEF RecordsInOrder, Agrees
<1>5. ASSUME NEW here \in BOOLEAN, Setup(here) PROVE RecordsInOrder
  <2>1. stackUp' = TRUE /\ github' = "ours"
    BY <1>5, SetupIs
  <2>2. UNCHANGED records \/ records'
    <3>1. records' \in {records, TRUE}
      BY <1>5, SetupIs
    <3> QED
      BY <3>1, Zenon
  <2> QED
    BY <2>1, <2>2 DEF RecordsInOrder
<1>6. CASE FinishElsewhere
  <2>1. /\ exported' = {}
        /\ ~stackUp' => role' = "none"
        /\ github' = "none" => ~stackUp'
    BY <1>6 DEF FinishElsewhere
  <2> QED
    BY <2>1 DEF RecordsInOrder
<1> QED
  BY <1>1, <1>2, <1>3, <1>4, <1>5, <1>6
  DEF TeardownNext, TeardownStart, TeardownStops, TeardownCrash, TeardownUnlock, Save,
      Inspect, ChooseDNS, ConfirmTeardown, DrawToken, Lease, Unregistered, Skip, Purge,
      StackDestroyed, Retire, DeleteRole, CleanLocal, Validate, DeleteEntry, Meddle,
      DestroyThing, ThingFades, DestroyElsewhere, cloud

\* TeardownSound: it takes apart what it was begun for, in an order it can resume, and
\* wholly.
THEOREM TeardownIsSound == TeardownSpec => TeardownSound
<1>1. TeardownInv => TeardownTypeOK /\ RemovedInOrder /\ CompleteMeansGone
  BY CompleteIsGone DEF TeardownInv
<1>2. TeardownInv /\ [TeardownNext]_teardownVars
        => [RecordsInOrder /\ RecreatedUntouched]_teardownVars
  BY OnlyInspectedIsRemoved, RemovedAfter
<1> QED
  BY <1>1, <1>2, TeardownInvariant, PTL DEF TeardownSound, TeardownSpec
=============================================================================
