----------------------------- MODULE NukeProofs -----------------------------
(* What holds of nuke however many runs, failures, deaths and deployments there are.

   Everything rests on what is on disk.  Whatever a run removes is in the receipt, which
   was saved before (Knows and Learnt), and what a teardown removed is in its notes; a
   later run starts from both and can only add (Keeps).  So a run whose every result is a
   success has looked at everything that ever was (Sees), and each stack it is through with
   is gone with all it left (ThroughIsGone); the recovery phase is entered by such a run
   only, and nothing is deployed while it lasts (Recovers). *)
EXTENDS Nuke, TLAPS

----------------------------------------------------------------------------
\* The inductive invariant.

\* A stack is kept in a bucket, and what is in a state belongs to a stack and is up.
Placed ==
  /\ \A t \in stacks : Home[t] \in buckets
  /\ \A x \in state : x[1] \in stacks /\ x \in up
  /\ \A b \in buckets : \E t \in Targets : Home[t] = b
  /\ \A k \in keys : IF k \in Targets THEN secrets[k] = "kms" ELSE k \in sealed

\* A receipt is never in both places; while a run lasts it is in its own.
OnDisk ==
  /\ bak # NoReceipt => saved = NoReceipt /\ place = "idle"
  /\ place = "idle" => on = {} /\ did = {} /\ r = NoReceipt
  /\ \A rec \in {r, saved, bak} : \A t \in rec.Targets : Home[t] \in rec.Backends

\* What is on disk of what is there no more, or is in no stack's state.
Inventories == saved.Inventory \cup bak.Inventory \cup notes.Inventory
Knows ==
  /\ \A t \in Targets : t \in stacks \cup saved.Targets \cup bak.Targets \cup notes.Captured
  /\ up \cup fading \subseteq state \cup Inventories
  /\ \A t \in logs : Of(t) \cap (state \cup Inventories) # {}
  /\ \A x \in dns : \/ x \in state \cup saved.Desired \cup bak.Desired \cup notes.Desired
                   \/ <<"dns", x>> \in lost
  /\ \A k \in keys : \/ k \in stacks \cup buckets \cup saved.Keys \cup bak.Keys
                    \/ <<"torn", k>> \in lost

\* A run forgets nothing that is on disk, in the receipt or in the notes.
Within(old, new) ==
  /\ old.Targets \subseteq new.Targets /\ old.Inventory \subseteq new.Inventory
  /\ old.Desired \subseteq new.Desired /\ old.Keys \subseteq new.Keys
Noted(rec) ==
  /\ notes.Captured \subseteq rec.Targets /\ notes.Inventory \subseteq rec.Inventory
  /\ notes.Desired \subseteq rec.Desired
Keeps ==
  /\ place # "idle" => Within(saved, r)
  /\ place \notin {"idle", "discover"} => Noted(r)

\* What was learned of the stack that is being destroyed is on disk.
Learnt ==
  /\ \A t, u \in on : t = u
  /\ place \in {"discover", "confirm", "targets"} => on = {}
  /\ place = "destroy" =>
       \A t \in on : /\ t \in stacks /\ t \in saved.Targets
                     /\ Of(t) \cap state \subseteq saved.Inventory
                     /\ \A x \in Of(t) \cap dns :
                          \/ x \in saved.Desired \/ <<"dns", x>> \in lost
                          \/ x \in state /\ <<"unnamed", x>> \in lost
                     /\ secrets[t] = "kms" => t \in saved.Keys

\* A run that succeeded so far knows every stack there is or was, ...
Sees ==
  place \notin {"idle", "discover"} /\ Successful(r) => Targets \subseteq r.Targets

\* ... and the stacks it is through with are gone.
GoneWithAll(t) ==
  /\ t \notin stacks /\ Of(t) \cap (state \cup up \cup fading) = {} /\ t \notin logs
  /\ \A x \in Of(t) \cap dns : <<"dns", x>> \in lost
ThroughIsGone ==
  /\ place \notin {"buckets", "end"} => did \subseteq Targets
  /\ place \in {"discover", "confirm"} => did = {}
  /\ place \in {"targets", "destroy", "finish"} /\ Successful(r) =>
       /\ \A t \in did : GoneWithAll(t)
       /\ place = "finish" => on \cap stacks = {}

\* The recovery phase.
Recovers ==
  /\ place = "preflight" /\ Successful(r) /\ stacks = {} => EverythingGone
  /\ place = "buckets" =>
       /\ EverythingGone
       /\ \A t \in Targets : Home[t] \in r.Backends
       /\ sealed \cap buckets \subseteq saved.Keys
       /\ did \cap buckets = {}
  /\ place = "end" => ~Successful(r) \/ broken

\* A report that was checked since the last deployment is right.
Reads(rec) == rec.Absent \cup rec.Remain \cup rec.Unverified
Right(rec) ==
  Reads(rec) # {} => /\ rec.Good \cup rec.Bad \subseteq Reads(rec)
                     /\ \A a \in rec.Absent : a \notin Remarks /\ ~Present(a)
Checked ==
  /\ Reads(r) = {}
  /\ checked => Right(saved) /\ Right(bak)

NukeInv ==
  /\ NukeTypeOK /\ Placed /\ OnDisk /\ Knows /\ Keeps /\ Learnt /\ Sees
  /\ ThroughIsGone /\ Recovers /\ NukedMeansGone /\ Checked

----------------------------------------------------------------------------
\* What the functions on receipts return.

Known(rec) == <<rec.Targets, rec.Captured, rec.Inventory, rec.Desired, rec.Environments,
                rec.Backends, rec.Keys>>

\* What the new run's receipt and a result leave as it was.
LEMMA EmptyReceipt ==
  /\ NoReceipt \in Receipt
  /\ NoReceipt.Targets = {} /\ NoReceipt.Inventory = {} /\ NoReceipt.Desired = {}
  /\ NoReceipt.Backends = {} /\ NoReceipt.Keys = {} /\ NoReceipt.Good = {}
  /\ NoReceipt.Bad = {} /\ NoReceipt.Absent = {} /\ NoReceipt.Remain = {}
  /\ NoReceipt.Unverified = {}
BY DEF NoReceipt, Receipt

\* Recording results changes nothing else.
LEMMA WithIs ==
  ASSUME NEW rec \in Receipt, NEW good \in SUBSET Artifacts,
         NEW bad \in SUBSET (Artifacts \cup Remarks)
  PROVE  /\ With(rec, good, bad) \in Receipt
         /\ Known(With(rec, good, bad)) = Known(rec)
         /\ With(rec, good, bad).Good = rec.Good \cup good
         /\ With(rec, good, bad).Bad = rec.Bad \cup bad
         /\ With(rec, good, bad).Absent = rec.Absent
         /\ With(rec, good, bad).Remain = rec.Remain
         /\ With(rec, good, bad).Unverified = rec.Unverified
BY DEF With, Receipt, Known

\* What fails is added to what failed, whatever it is.
LEMMA BadOfWith ==
  ASSUME NEW rec \in Receipt, NEW good, NEW bad
  PROVE  With(rec, good, bad).Bad = rec.Bad \cup bad
BY DEF With, Receipt

\* A result that is a success adds no failure.
LEMMA SuccessIs ==
  ASSUME NEW rec \in Receipt, NEW good \in SUBSET Artifacts
  PROVE  /\ With(rec, good, {}) \in Receipt
         /\ Known(With(rec, good, {})) = Known(rec)
         /\ With(rec, good, {}).Bad = rec.Bad
         /\ With(rec, good, {}).Absent = rec.Absent
         /\ With(rec, good, {}).Remain = rec.Remain
         /\ With(rec, good, {}).Unverified = rec.Unverified
BY DEF With, Receipt, Known

\* A new run keeps what is known and no results.
LEMMA ResumedIs ==
  ASSUME NEW rec \in Receipt
  PROVE  /\ Resumed(rec) \in Receipt
         /\ Known(Resumed(rec)) = Known(rec)
         /\ Resumed(rec).Bad = {} /\ Resumed(rec).Absent = {}
         /\ Resumed(rec).Remain = {} /\ Resumed(rec).Unverified = {}
BY DEF Resumed, Receipt, Known

\* What a receipt that learned of a stack has more than r, which loses nothing
Gained(new, t, named) ==
  /\ new \in Receipt /\ new.Targets = r.Targets /\ new.Backends = r.Backends
  /\ new.Inventory = r.Inventory \cup (Of(t) \cap state)
  /\ new.Desired = r.Desired \cup named
  /\ new.Keys = r.Keys \cup KeyOf(t)
  /\ r.Bad \subseteq new.Bad /\ Reads(new) = Reads(r)

\* What is learned of a stack is added to the receipt.
LEMMA LearnedIs ==
  ASSUME NukeTypeOK, NEW t \in Targets, NEW named \in SUBSET Ours, NEW blind
  PROVE  Gained(Learned(t, named, blind), t, named)
<1>1. /\ r \in Receipt /\ Of(t) \cap state \in SUBSET Ours
      /\ KeyOf(t) \in SUBSET (Targets \cup Buckets)
  BY DEF NukeTypeOK, Of, Ours, KeyOf
<1> DEFINE bad == (IF blind THEN {<<"dns inventory", t>>} ELSE {})
                    \cup (IF secrets[t] = "other" THEN {<<"secrets", t>>} ELSE {})
<1>2. bad \in SUBSET Remarks
  <2>1. <<"dns inventory", t>> \in Remarks /\ <<"secrets", t>> \in Remarks
    BY DEF Remarks
  <2> QED
    BY <2>1
<1>3. Learned(t, named, blind) =
        [r EXCEPT !.Captured = @ \cup {t}, !.Inventory = @ \cup (Of(t) \cap state),
                  !.Desired = @ \cup named, !.Keys = @ \cup KeyOf(t),
                  !.Bad = @ \cup bad]
  BY DEF Learned
<1> HIDE DEF bad
<1>4. Learned(t, named, blind) \in Receipt
  <2>1. /\ r.Captured \cup {t} \in SUBSET Targets
        /\ r.Inventory \cup (Of(t) \cap state) \in SUBSET Ours
        /\ r.Desired \cup named \in SUBSET Ours
        /\ r.Keys \cup KeyOf(t) \in SUBSET (Targets \cup Buckets)
        /\ r.Bad \cup bad \in SUBSET (Artifacts \cup Remarks)
    BY <1>1, <1>2 DEF Receipt
  <2> QED
    BY <1>1, <1>3, <2>1 DEF Receipt
<1> QED
  BY <1>1, <1>3, <1>4 DEF Receipt, Reads, Gained

\* What a run finds is added to the receipt.  If every source answered, no stack that is
\* there is missed.
LEMMA FoundIs ==
  ASSUME NukeTypeOK, Placed, \A t \in r.Targets : Home[t] \in r.Backends,
         NEW denied \in {"none", "github", "buckets", "stacks"}
  PROVE  /\ Found(denied) \in Receipt
         /\ r.Targets \subseteq Found(denied).Targets
         /\ r.Backends \subseteq Found(denied).Backends
         /\ Within(r, Found(denied)) /\ Noted(Found(denied))
         /\ Found(denied).Keys = r.Keys /\ Found(denied).Bad = r.Bad
         /\ Reads(Found(denied)) = Reads(r)
         /\ \A t \in Found(denied).Targets : Home[t] \in Found(denied).Backends
         /\ denied = "none" => stacks \subseteq Found(denied).Targets
<1> DEFINE remote == IF denied = "github" THEN {} ELSE hosts
           named == r.Targets \cup local \cup notes.Captured \cup remote
           homes == r.Backends \cup {Home[t] : t \in named}
                      \cup (IF denied = "buckets" THEN {} ELSE buckets)
           all == named \cup StacksIn(homes, denied)
<1>1. r \in Receipt /\ r.Targets \in SUBSET Targets /\ r.Backends \in SUBSET Buckets
  BY DEF NukeTypeOK, Receipt
<1>0. /\ notes.Captured \in SUBSET Targets /\ notes.Inventory \in SUBSET Ours
      /\ notes.Desired \in SUBSET Ours
  BY DEF NukeTypeOK, Notes
<1>2. remote \in SUBSET Apps /\ named \in SUBSET Targets
  BY <1>0, <1>1, NukeConstants DEF NukeTypeOK
<1>3. homes \in SUBSET Buckets
  BY <1>1, <1>2, NukeConstants DEF NukeTypeOK
<1>4. all \in SUBSET Targets /\ \A t \in all : Home[t] \in homes
  BY <1>2 DEF NukeTypeOK, StacksIn
<1>5. denied = "none" => stacks \subseteq all
  BY DEF StacksIn, Placed
<1>6. r.Targets \cup notes.Captured \subseteq all /\ r.Backends \subseteq homes
  OBVIOUS
<1>7. Found(denied) = [r EXCEPT !.Environments = @ \cup remote, !.Targets = @ \cup all,
                                !.Backends = @ \cup homes,
                                !.Captured = @ \cup notes.Captured,
                                !.Inventory = @ \cup notes.Inventory,
                                !.Desired = @ \cup notes.Desired]
  <2>1. Found(denied) = Merged([r EXCEPT !.Environments = @ \cup remote], all, homes)
    BY DEF Found
  <2> HIDE DEF remote, homes, all
  <2> QED
    BY <2>1, <1>1 DEF Merged, Receipt
<1> HIDE DEF remote, named, homes, all
<1>8. Found(denied) \in Receipt
  <2>1. /\ r.Environments \cup remote \in SUBSET Apps
        /\ r.Targets \cup all \in SUBSET Targets
        /\ r.Backends \cup homes \in SUBSET Buckets
        /\ r.Captured \cup notes.Captured \in SUBSET Targets
        /\ r.Inventory \cup notes.Inventory \in SUBSET Ours
        /\ r.Desired \cup notes.Desired \in SUBSET Ours
    BY <1>0, <1>1, <1>2, <1>3, <1>4 DEF Receipt
  <2> QED
    BY <1>1, <1>7, <2>1 DEF Receipt
<1>9. /\ Found(denied).Targets = all /\ Found(denied).Backends = homes
      /\ Found(denied).Inventory = r.Inventory \cup notes.Inventory
      /\ Found(denied).Desired = r.Desired \cup notes.Desired
      /\ Found(denied).Keys = r.Keys /\ Found(denied).Bad = r.Bad
      /\ Reads(Found(denied)) = Reads(r)
  BY <1>1, <1>6, <1>7 DEF Receipt, Reads
<1>10. Within(r, Found(denied)) /\ Noted(Found(denied))
  BY <1>6, <1>9 DEF Within, Noted
<1> QED
  BY <1>4, <1>5, <1>6, <1>8, <1>9, <1>10

\* The key of each bucket that is there is added; nothing is lost.
LEMMA AddsKeys ==
  ASSUME NEW rec \in Receipt, NEW ks \in SUBSET (Targets \cup Buckets)
  PROVE  LET new == [rec EXCEPT !.Keys = @ \cup ks] IN
         /\ new \in Receipt
         /\ new.Targets = rec.Targets /\ new.Inventory = rec.Inventory
         /\ new.Desired = rec.Desired /\ new.Backends = rec.Backends
         /\ new.Keys = rec.Keys \cup ks /\ new.Bad = rec.Bad /\ Reads(new) = Reads(rec)
BY DEF Receipt, Reads

\* What is reported as left is results.
LEMMA RetainedIs ==
  ASSUME NukeTypeOK
  PROVE  /\ Retained(r) \in Receipt /\ Known(Retained(r)) = Known(r)
         /\ Reads(Retained(r)) = Reads(r)
<1>1. r \in Receipt /\ r.Backends \in SUBSET Buckets
      /\ r.Keys \in SUBSET (Targets \cup Buckets)
  BY DEF NukeTypeOK, Receipt
<1> DEFINE good == ({"bucket"} \X (r.Backends \ buckets)) \cup Pending(r.Keys)
           bad == ({"bucket"} \X (r.Backends \cap buckets))
                    \cup ({"key"} \X (r.Keys \cap keys))
<1>2. good \in SUBSET Artifacts /\ bad \in SUBSET (Artifacts \cup Remarks)
  BY <1>1 DEF Pending, Artifacts
<1>3. Retained(r) = With(r, good, bad)
  BY DEF Retained
<1> HIDE DEF good, bad
<1>4. /\ With(r, good, bad) \in Receipt /\ Known(With(r, good, bad)) = Known(r)
      /\ With(r, good, bad).Absent = r.Absent /\ With(r, good, bad).Remain = r.Remain
      /\ With(r, good, bad).Unverified = r.Unverified
  BY <1>1, <1>2, WithIs
<1> QED
  BY <1>3, <1>4 DEF Reads

----------------------------------------------------------------------------
\* The steps of a run.

\* What results are about.
LEMMA ArtifactsAre ==
  /\ \A t \in Targets :
       /\ <<"aws", t>> \in Artifacts /\ <<"stack", t>> \in Artifacts
       /\ <<"host", t>> \in Artifacts
       /\ <<"local", t>> \in Artifacts
       /\ <<"inventory", t>> \in Remarks
  /\ {"dns"} \X Ours \subseteq Artifacts
  /\ \A b \in Buckets : <<"bucket", b>> \in Artifacts
  /\ \A k \in Targets \cup Buckets :
       <<"key", k>> \in Artifacts /\ <<"recovery", k>> \in Remarks
  /\ <<"discovery", "failed">> \in Remarks
<1>1. \A t \in Targets :
       /\ <<"aws", t>> \in Artifacts /\ <<"stack", t>> \in Artifacts
       /\ <<"host", t>> \in Artifacts
       /\ <<"local", t>> \in Artifacts
  BY DEF Artifacts
<1>5. {"dns"} \X Ours \subseteq Artifacts
  BY DEF Artifacts
<1>2. \A b \in Buckets : <<"bucket", b>> \in Artifacts
  BY DEF Artifacts
<1>3. \A k \in Targets \cup Buckets : <<"key", k>> \in Artifacts
  BY DEF Artifacts
<1>4. /\ \A t \in Targets : <<"inventory", t>> \in Remarks
      /\ \A k \in Targets \cup Buckets : <<"recovery", k>> \in Remarks
      /\ <<"discovery", "failed">> \in Remarks
  BY DEF Remarks
<1> QED
  BY <1>1, <1>2, <1>3, <1>4, <1>5

\* The receipt only grows, ...
Grows ==
  /\ r' \in Receipt /\ Within(r, r') /\ r.Backends \subseteq r'.Backends
  /\ \A t \in r'.Targets : Home[t] \in r'.Backends
  /\ r.Bad \subseteq r'.Bad /\ Reads(r') = Reads(r)
\* ... and is saved whole or not at all.
Stored ==
  /\ \/ saved' = r' /\ bak' = NoReceipt
     \/ saved' = saved /\ bak' = bak
  /\ broken' \in BOOLEAN /\ (broken => broken')
  /\ locked' = locked /\ failures' \in 0..MaxFailures

\* The failures are counted up to the bound.
LEMMA FaultyIs ==
  ASSUME NukeTypeOK, NEW n \in {0, 1, 2}, Faulty(n)
  PROVE  failures' \in 0..MaxFailures
BY NukeConstants DEF NukeTypeOK, Faulty

\* record and save
LEMMA RecordedIs ==
  ASSUME NukeTypeOK, NEW new, NEW failed \in BOOLEAN, Recorded(new, failed)
  PROVE  r' = new /\ Stored
<1>1. failures' \in 0..MaxFailures
  BY FaultyIs DEF Recorded
<1>2. r' = new /\ locked' = locked
      /\ \/ saved' = new /\ bak' = NoReceipt /\ broken' = broken
         \/ saved' = saved /\ bak' = bak /\ broken' = TRUE
  BY DEF Recorded
<1>3. broken \in BOOLEAN
  BY DEF NukeTypeOK
<1>4. broken' \in BOOLEAN /\ (broken => broken')
  <2>1. broken' = broken \/ broken' = TRUE
    BY <1>2
  <2>2. CASE broken' = broken
    BY <2>2, <1>3
  <2>3. CASE broken' = TRUE
    BY <2>3
  <2> QED
    BY <2>1, <2>2, <2>3
<1>5. \/ saved' = r' /\ bak' = NoReceipt
      \/ saved' = saved /\ bak' = bak
  BY <1>2
<1> QED
  BY <1>1, <1>2, <1>4, <1>5 DEF Stored

\* A result is recorded: nothing known changes.
LEMMA ResultsRecorded ==
  ASSUME NukeTypeOK, OnDisk, NEW good \in SUBSET Artifacts,
         NEW bad \in SUBSET (Artifacts \cup Remarks), NEW failed \in BOOLEAN,
         Recorded(With(r, good, bad), failed)
  PROVE  /\ Grows /\ Stored
         /\ Known(r') = Known(r) /\ r'.Bad = r.Bad \cup bad
<1>1. r \in Receipt
  BY DEF NukeTypeOK
<1>2. r' = With(r, good, bad) /\ Stored
  BY RecordedIs
<1>3. /\ r' \in Receipt /\ Known(r') = Known(r) /\ r'.Bad = r.Bad \cup bad
      /\ r'.Absent = r.Absent /\ r'.Remain = r.Remain /\ r'.Unverified = r.Unverified
  BY <1>1, <1>2, WithIs
<1>4. Reads(r') = Reads(r)
  BY <1>3 DEF Reads
<1> QED
  BY <1>2, <1>3, <1>4 DEF Grows, Within, Known, OnDisk

\* The receipt is left alone.
LEMMA NothingRecorded ==
  ASSUME NukeTypeOK, OnDisk, r' = r
  PROVE  Grows
BY DEF Grows, NukeTypeOK, Within, OnDisk

\* What the steps between the start of a run and its end have in common.
RunStep ==
  /\ place # "idle" /\ place' # "idle"
  /\ Grows /\ Stored
  /\ UNCHANGED <<secrets, sealed, notes, rounds, nuked, checked>>

RunsOn ==
  \/ Discover \/ Confirm \/ CleanEnvironments \/ Preflight \/ Withheld
  \/ \E t \in Targets : \/ Capture(t) \/ PassOver(t) \/ DestroyEnds(t)
                        \/ \E readable, token \in BOOLEAN : FinishTarget(t, readable, token)
  \/ \E x \in Ours : DestroyOne(x)
  \/ \E b \in Buckets : DeleteBucket(b)
  \/ \E k \in Targets \cup Buckets : ScheduleKey(k)

\* Discover adds what it found; without a failure it missed no stack that is there.
LEMMA DiscoverRuns ==
  ASSUME NukeTypeOK, Placed, OnDisk, Discover
  PROVE  RunStep /\ Noted(r') /\ (Successful(r') => stacks \subseteq r'.Targets)
<1>1. \A t \in r.Targets : Home[t] \in r.Backends
  BY DEF OnDisk
<1>2. PICK denied \in {"none", "github", "buckets", "stacks"} :
        LET found == Found(denied)
            gone == {"bucket"} \X (found.Backends \ buckets)
            bad == IF denied = "none" THEN {} ELSE {<<"discovery", "failed">>}
        IN IF gone \cup bad = {} THEN r' = found /\ UNCHANGED <<broken, disk, failures>>
           ELSE Recorded(With(found, gone, bad), bad # {})
  BY DEF Discover
<1> DEFINE found == Found(denied)
           gone == {"bucket"} \X (found.Backends \ buckets)
           bad == IF denied = "none" THEN {} ELSE {<<"discovery", "failed">>}
<1>3. /\ found \in Receipt /\ r.Targets \subseteq found.Targets
      /\ r.Backends \subseteq found.Backends
      /\ Within(r, found) /\ Noted(found)
      /\ found.Keys = r.Keys /\ found.Bad = r.Bad /\ Reads(found) = Reads(r)
      /\ \A t \in found.Targets : Home[t] \in found.Backends
      /\ denied = "none" => stacks \subseteq found.Targets
  BY <1>1, FoundIs
<1>4. gone \in SUBSET Artifacts
  BY <1>3, ArtifactsAre DEF Receipt
<1>5. bad \in SUBSET (Artifacts \cup Remarks) /\ (bad = {} => denied = "none")
  BY ArtifactsAre
<1>6. \/ gone \cup bad = {} /\ r' = found /\ UNCHANGED <<broken, disk, failures>>
      \/ Recorded(With(found, gone, bad), bad # {})
  BY <1>2
<1> HIDE DEF found, gone, bad
<1>7. Grows /\ Stored /\ Noted(r') /\ (Successful(r') => stacks \subseteq r'.Targets)
  <2>1. CASE gone \cup bad = {} /\ r' = found /\ UNCHANGED <<broken, disk, failures>>
    BY <2>1, <1>3, <1>5 DEF Grows, Stored, Within, Noted, NukeTypeOK, disk, Successful
  <2>2. CASE Recorded(With(found, gone, bad), bad # {})
    <3>1. r' = With(found, gone, bad) /\ Stored
      BY <2>2, RecordedIs
    <3>2. /\ r' \in Receipt /\ Known(r') = Known(found) /\ r'.Bad = found.Bad \cup bad
          /\ r'.Absent = found.Absent /\ r'.Remain = found.Remain
          /\ r'.Unverified = found.Unverified
      BY <3>1, <1>3, <1>4, <1>5, WithIs
    <3>3. Reads(r') = Reads(found)
      BY <3>2 DEF Reads
    <3> QED
      BY <3>1, <3>2, <3>3, <1>3, <1>5 DEF Grows, Within, Noted, Known, Successful
  <2> QED
    BY <1>6, <2>1, <2>2
<1>8. place # "idle" /\ place' # "idle"
      /\ UNCHANGED <<secrets, sealed, notes, rounds, nuked, checked>>
  BY DEF Discover, setting, seen
<1> QED
  BY <1>7, <1>8 DEF RunStep

\* Confirming saves the receipt as it is.
LEMMA ConfirmRuns ==
  ASSUME NukeTypeOK, OnDisk, Confirm
  PROVE  RunStep
<1>1. Grows
  BY NothingRecorded DEF Confirm
<1> QED
  BY <1>1 DEF Confirm, RunStep, Stored, NukeTypeOK, setting, seen

\* What is learned of a stack is on disk before the stack is destroyed.
LEMMA CaptureRuns ==
  ASSUME NukeTypeOK, OnDisk, NEW t \in Targets, Capture(t)
  PROVE  RunStep /\ saved' = r'
<1>1. PICK named \in SUBSET RecordsOf(t), blind \in BOOLEAN :
        /\ r' = Learned(t, named, blind) /\ saved' = r' /\ bak' = NoReceipt
        /\ Faulty(IF blind THEN 1 ELSE 0)
  BY DEF Capture
<1>2. Grows
  <2>1. named \in SUBSET Ours
    BY DEF RecordsOf, Of, Ours
  <2>2. Gained(r', t, named)
    BY <1>1, <2>1, LearnedIs
  <2>3. \A u \in r.Targets : Home[u] \in r.Backends
    BY DEF OnDisk
  <2> QED
    BY <2>2, <2>3 DEF Gained, Grows, Within
<1>3. Stored
  <2>1. failures' \in 0..MaxFailures
    BY <1>1, FaultyIs
  <2> QED
    BY <2>1, <1>1 DEF Capture, Stored, NukeTypeOK
<1> QED
  BY <1>1, <1>2, <1>3 DEF Capture, RunStep, setting

\* A stack that is there is passed over with a failure only.
LEMMA PassOverRuns ==
  ASSUME NukeTypeOK, OnDisk, NEW t \in Targets, PassOver(t)
  PROVE  RunStep /\ (Successful(r') => t \notin stacks)
<1> USE ArtifactsAre
<1>1. CASE t \notin stacks /\ Recorded(With(r, {<<"stack", t>>}, {}), FALSE)
  <2>1. Grows /\ Stored
    BY <1>1, ResultsRecorded
  <2> QED
    BY <1>1, <2>1 DEF PassOver, RunStep, setting, seen
<1>2. CASE Recorded(With(r, {}, {<<"stack", t>>}), TRUE)
  <2>1. Grows /\ Stored /\ r'.Bad = r.Bad \cup {<<"stack", t>>}
    BY <1>2, ResultsRecorded
  <2> QED
    BY <1>2, <2>1 DEF PassOver, RunStep, setting, seen, Successful
<1> QED
  BY <1>1, <1>2 DEF PassOver

\* While the stack's resources go, the receipt stays as it is.
LEMMA DestroyOneRuns ==
  ASSUME NukeTypeOK, OnDisk, NEW x \in Ours, DestroyOne(x)
  PROVE  RunStep
<1>1. Grows
  BY NothingRecorded DEF DestroyOne
<1> QED
  BY <1>1 DEF DestroyOne, RunStep, Stored, NukeTypeOK, setting, seen, disk

\* Without a failure the stack is removed, and it was empty.
LEMMA DestroyEndsRuns ==
  ASSUME NukeTypeOK, OnDisk, NEW t \in Targets, DestroyEnds(t)
  PROVE  /\ RunStep
         /\ \/ Emptied(t) /\ stacks' = stacks \ {t}
            \/ ~Successful(r') /\ stacks' = stacks
<1> USE ArtifactsAre
<1>1. CASE /\ Emptied(t) /\ stacks' = stacks \ {t}
           /\ Recorded(With(r, {<<"stack", t>>}, {}), FALSE)
  <2>1. Grows /\ Stored
    BY <1>1, ResultsRecorded
  <2> QED
    BY <1>1, <2>1 DEF DestroyEnds, RunStep, setting, seen
<1>2. CASE Recorded(With(r, {}, {<<"stack", t>>}), TRUE) /\ UNCHANGED stacks
  <2>1. Grows /\ Stored /\ r'.Bad = r.Bad \cup {<<"stack", t>>}
    BY <1>2, ResultsRecorded
  <2> QED
    BY <1>2, <2>1 DEF DestroyEnds, RunStep, setting, seen, Successful
<1> QED
  BY <1>1, <1>2 DEF DestroyEnds

\* What a run can only call a success when a stack's turn is over.
LEMMA FinishRuns ==
  ASSUME NukeTypeOK, OnDisk, NEW t \in Targets, NEW readable \in BOOLEAN,
         NEW token \in BOOLEAN, FinishTarget(t, readable, token)
  PROVE  LET mine == Of(t) \cap r.Inventory
             gone == readable /\ mine \cap (up \cup fading) = {} IN
         /\ RunStep
         /\ Successful(r') => mine = {} \/ gone
         /\ Successful(r') => Of(t) \cap r.Desired = {} \/ token
<1> DEFINE mine == Of(t) \cap r.Inventory
           gone == readable /\ mine \cap (up \cup fading) = {}
           aws == IF mine = {} THEN {} ELSE {<<"aws", t>>}
           theirs == {"dns"} \X (Of(t) \cap r.Desired)
           good == (IF gone THEN aws ELSE {}) \cup (IF token THEN theirs ELSE {})
           bad == (IF gone THEN {} ELSE aws) \cup (IF token THEN {} ELSE theirs)
                    \cup Uncertain(t)
           failed == (mine # {} /\ ~readable) \/ (theirs # {} /\ ~token)
<1>1. good \in SUBSET Artifacts /\ bad \in SUBSET (Artifacts \cup Remarks)
  <2>1. theirs \in SUBSET Artifacts
    <3>1. Of(t) \cap r.Desired \subseteq Ours
      BY DEF Of, Ours
    <3> QED
      BY <3>1, ArtifactsAre
  <2>2. aws \in SUBSET Artifacts /\ Uncertain(t) \in SUBSET Remarks
    BY ArtifactsAre DEF Uncertain
  <2> HIDE DEF theirs, aws
  <2> QED
    BY <2>1, <2>2
<1>2. failed \in BOOLEAN
  OBVIOUS
<1>3. Recorded(With(r, good, bad), failed)
  BY DEF FinishTarget
<1>4. bad = {} => (mine = {} \/ gone) /\ (Of(t) \cap r.Desired = {} \/ token)
  <2>1. ASSUME bad = {} PROVE mine = {} \/ gone
    <3>1. ASSUME ~gone PROVE aws = {}
      BY <2>1, <3>1
    <3> QED
      BY <3>1
  <2>2. ASSUME bad = {} PROVE Of(t) \cap r.Desired = {} \/ token
    <3>1. ASSUME ~token PROVE theirs = {}
      BY <2>2, <3>1
    <3>2. ASSUME NEW x \in Of(t) \cap r.Desired PROVE <<"dns", x>> \in theirs
      BY <3>2
    <3> QED
      BY <3>1, <3>2
  <2> QED
    BY <2>1, <2>2
<1> HIDE DEF mine, gone, aws, theirs, good, bad, failed
<1>5. Grows /\ Stored /\ r'.Bad = r.Bad \cup bad
  BY <1>1, <1>2, <1>3, ResultsRecorded
<1>6. RunStep
  BY <1>5 DEF FinishTarget, RunStep, setting, seen
<1>7. Successful(r') => (mine = {} \/ gone) /\ (Of(t) \cap r.Desired = {} \/ token)
  BY <1>4, <1>5 DEF Successful
<1> QED
  BY <1>6, <1>7 DEF mine, gone

\* ... and when the environments are cleaned.
LEMMA CleanRuns ==
  ASSUME NukeTypeOK, OnDisk, CleanEnvironments
  PROVE  /\ RunStep
         /\ Successful(r') => hosts' = hosts \ (r.Environments \cup (r.Targets \cap Apps))
<1> DEFINE mine == r.Environments \cup (r.Targets \cap Apps)
<1>1. PICK kept \in SUBSET mine :
        LET after == With(r, {"host"} \X (mine \ kept), {"host"} \X kept)
            tidy == Successful(after)
        IN /\ hosts' = (hosts \ mine) \cup (hosts \cap kept)
           /\ local' = IF tidy THEN local \ r.Targets ELSE local
           /\ Recorded(IF tidy THEN With(after, {"local"} \X r.Targets, {}) ELSE after,
                       kept # {})
  BY DEF CleanEnvironments
<1> DEFINE after == With(r, {"host"} \X (mine \ kept), {"host"} \X kept)
           tidy == Successful(after)
           new == IF tidy THEN With(after, {"local"} \X r.Targets, {}) ELSE after
<1>2. r \in Receipt /\ mine \in SUBSET Targets /\ r.Targets \in SUBSET Targets
  BY NukeConstants DEF NukeTypeOK, Receipt
<1>4. Recorded(new, kept # {}) /\ hosts' = (hosts \ mine) \cup (hosts \cap kept)
  BY <1>1
<1>14. mine = r.Environments \cup (r.Targets \cap Apps)
  OBVIOUS
<1> HIDE DEF mine
<1> DEFINE removed == {"host"} \X (mine \ kept)
           left == {"host"} \X kept
           locals == {"local"} \X r.Targets
<1>3. /\ removed \in SUBSET Artifacts
      /\ left \in SUBSET (Artifacts \cup Remarks)
      /\ locals \in SUBSET Artifacts
  <2>1. \A a \in {"host", "local"}, u \in Targets : <<a, u>> \in Artifacts
    BY ArtifactsAre
  <2>2. removed \subseteq Artifacts
    BY <2>1, <1>2
  <2>3. left \subseteq Artifacts
    BY <2>1, <1>2
  <2>4. locals \subseteq Artifacts
    BY <2>1, <1>2
  <2> QED
    BY <2>2, <2>3, <2>4
<1>12. \A e \in kept : <<"host", e>> \in left
  OBVIOUS
<1>13. /\ after = With(r, removed, left)
       /\ new = IF tidy THEN With(after, locals, {}) ELSE after
  OBVIOUS
<1> HIDE DEF removed, left, locals, new, after
<1>5. /\ after \in Receipt /\ Known(after) = Known(r) /\ after.Bad = r.Bad \cup left
      /\ after.Absent = r.Absent /\ after.Remain = r.Remain
      /\ after.Unverified = r.Unverified
  <2>1. after.Bad = r.Bad \cup left
    BY <1>2, <1>13, BadOfWith
  <2>2. /\ after \in Receipt /\ Known(after) = Known(r)
        /\ after.Absent = r.Absent /\ after.Remain = r.Remain
        /\ after.Unverified = r.Unverified
    BY <1>2, <1>3, <1>13, WithIs
  <2> QED
    BY <2>1, <2>2
<1>6. /\ new \in Receipt /\ Known(new) = Known(r) /\ new.Bad = r.Bad \cup left
      /\ new.Absent = r.Absent /\ new.Remain = r.Remain
      /\ new.Unverified = r.Unverified
  <2>1. CASE tidy
    <3>1. new = With(after, locals, {})
      BY <2>1, <1>13
    <3> QED
      BY <3>1, <1>3, <1>5, SuccessIs
  <2>2. CASE ~tidy
    BY <2>2, <1>5, <1>13
  <2> QED
    BY <2>1, <2>2
<1>7. r' = new /\ Stored
  BY <1>4, RecordedIs
<1>8. Reads(r') = Reads(r)
  BY <1>6, <1>7 DEF Reads
<1>9. Grows
  BY <1>6, <1>7, <1>8 DEF Grows, Within, Known, OnDisk
<1>10. RunStep
  BY <1>7, <1>9 DEF CleanEnvironments, RunStep, setting, seen
<1>11. Successful(r') => kept = {}
  <2>1. ASSUME NEW e \in kept PROVE <<"host", e>> \in r'.Bad
    BY <1>6, <1>7, <1>12
  <2> QED
    BY <2>1 DEF Successful
<1> QED
  BY <1>4, <1>10, <1>11, <1>14

\* The recovery phase is entered with every key on disk and no stack in a bucket.
LEMMA PreflightRuns ==
  ASSUME NukeTypeOK, OnDisk, Preflight
  PROVE  /\ RunStep /\ Successful(r)
         /\ place' = "buckets" =>
              /\ saved' = r' /\ sealed \cap r.Backends \cap buckets \subseteq r'.Keys
              /\ \A t \in stacks : Home[t] \notin r.Backends \cap buckets
         /\ place' = "buckets" \/ (place' = "end" /\ ~Successful(r'))
<1> DEFINE there == r.Backends \cap buckets
           found == [r EXCEPT !.Keys = @ \cup (sealed \cap there)]
<1>1. PICK refused \in Refusals(there, found.Keys \cap keys) :
        LET bad == {"recovery"} \X (Crowded(there) \cup refused)
            after == With(found, Pending(found.Keys), bad)
        IN /\ place' = IF bad = {} THEN "buckets" ELSE "end"
           /\ IF bad = {} THEN r' = after /\ saved' = after /\ bak' = NoReceipt
                               /\ UNCHANGED <<broken, locked, failures>>
              ELSE Recorded(after, refused # {})
  BY DEF Preflight
<1> DEFINE bad == {"recovery"} \X (Crowded(there) \cup refused)
           after == With(found, Pending(found.Keys), bad)
<1>2. r \in Receipt /\ there \in SUBSET Buckets /\ r.Keys \in SUBSET (Targets \cup Buckets)
  BY DEF NukeTypeOK, Receipt
<1>3. /\ found \in Receipt
      /\ found.Targets = r.Targets /\ found.Inventory = r.Inventory
      /\ found.Desired = r.Desired /\ found.Backends = r.Backends
      /\ found.Keys = r.Keys \cup (sealed \cap there) /\ found.Bad = r.Bad
      /\ Reads(found) = Reads(r)
  BY <1>2, AddsKeys DEF NukeTypeOK
<1>4. found.Keys \in SUBSET (Targets \cup Buckets)
  BY <1>3 DEF Receipt
<1>5. Pending(found.Keys) \in SUBSET Artifacts
  <2>1. \A k \in found.Keys \ keys : <<"key", k>> \in Artifacts
    BY <1>4, ArtifactsAre
  <2> HIDE DEF found
  <2> QED
    BY <2>1 DEF Pending
<1>6. refused \subseteq Targets \cup Buckets
  BY <1>1, <1>2, <1>4 DEF Refusals
<1>7. bad \in SUBSET (Artifacts \cup Remarks)
  <2> DEFINE whose == Crowded(there) \cup refused
  <2>1. whose \subseteq Targets \cup Buckets
    BY <1>2, <1>6 DEF Crowded
  <2>2. bad = {"recovery"} \X whose
    OBVIOUS
  <2> HIDE DEF whose, bad
  <2>3. \A k \in whose : <<"recovery", k>> \in Remarks
    BY <2>1, ArtifactsAre
  <2> QED
    BY <2>2, <2>3
<1>8. bad = {} => \A t \in stacks : Home[t] \notin there
  <2> SUFFICES ASSUME NEW t \in stacks, Home[t] \in there PROVE bad # {}
    OBVIOUS
  <2>1. Home[t] \in Crowded(there)
    BY DEF Crowded
  <2>2. <<"recovery", Home[t]>> \in bad
    BY <2>1
  <2> QED
    BY <2>2
<1>9. /\ place' = IF bad = {} THEN "buckets" ELSE "end"
      /\ \/ bad = {} /\ r' = after /\ saved' = after /\ bak' = NoReceipt
            /\ UNCHANGED <<broken, locked, failures>>
         \/ bad # {} /\ Recorded(after, refused # {})
  BY <1>1
<1>10. sealed \cap there = sealed \cap r.Backends \cap buckets
  OBVIOUS
<1>11. after = With(found, Pending(found.Keys), bad)
  OBVIOUS
<1> HIDE DEF bad, after, found, there
<1>12. after \in Receipt /\ Known(after) = Known(found)
       /\ after.Absent = found.Absent /\ after.Remain = found.Remain
       /\ after.Unverified = found.Unverified
  BY <1>3, <1>5, <1>7, <1>11, WithIs
<1>13. after.Bad = r.Bad \cup bad
  BY <1>3, <1>11, BadOfWith
<1>14. r' = after /\ Stored
  <2>1. CASE bad = {}
    BY <2>1, <1>9 DEF Stored, NukeTypeOK
  <2>2. CASE bad # {}
    BY <2>2, <1>9, RecordedIs
  <2> QED
    BY <2>1, <2>2
<1>15. Reads(r') = Reads(r)
  BY <1>3, <1>12, <1>14 DEF Reads
<1>16. Grows
  BY <1>3, <1>12, <1>13, <1>14, <1>15 DEF Grows, Within, Known, OnDisk
<1>17. RunStep
  BY <1>9, <1>14, <1>16 DEF Preflight, RunStep, setting, seen
<1>18. Successful(r)
  BY DEF Preflight, Released
<1>19. r'.Keys = r.Keys \cup (sealed \cap there)
  BY <1>3, <1>12, <1>14 DEF Known
<1>20. bad # {} => ~Successful(r')
  BY <1>13, <1>14 DEF Successful
<1>21. place' = "buckets" => bad = {} /\ saved' = r'
  BY <1>9, <1>14
<1> QED
  BY <1>8, <1>9, <1>10, <1>17, <1>18, <1>19, <1>20, <1>21 DEF there

\* The recovery phase is not entered because of a failure or an unsaved result.
LEMMA WithheldRuns ==
  ASSUME NukeTypeOK, OnDisk, Withheld
  PROVE  RunStep /\ (~Successful(r') \/ broken')
<1>1. Grows
  BY NothingRecorded DEF Withheld
<1>2. failures' \in 0..MaxFailures
  BY FaultyIs DEF Withheld, NukeTypeOK
<1>3. /\ place # "idle" /\ place' # "idle" /\ r' = r /\ saved' = saved /\ bak' = bak
      /\ locked' = locked /\ UNCHANGED <<secrets, sealed, notes, rounds, nuked, checked>>
  BY DEF Withheld, setting, seen, disk
<1>4. broken \in BOOLEAN
  BY DEF NukeTypeOK
<1>5. CASE ~Released(r) /\ UNCHANGED <<broken, failures>>
  BY <1>1, <1>2, <1>3, <1>4, <1>5 DEF RunStep, Stored, Released
<1>6. CASE broken' = TRUE
  BY <1>1, <1>2, <1>3, <1>6 DEF RunStep, Stored
<1> QED
  BY <1>5, <1>6 DEF Withheld

\* The first bucket that cannot be deleted, or whose result is not saved, ends the phase.
LEMMA DeleteBucketRuns ==
  ASSUME NukeTypeOK, OnDisk, NEW b \in Buckets, DeleteBucket(b)
  PROVE  /\ RunStep /\ r'.Keys = r.Keys /\ buckets' \subseteq buckets
         /\ \/ place' = "buckets" /\ b \notin buckets'
            \/ place' = "end" /\ (~Successful(r') \/ broken')
<1> USE ArtifactsAre
<1>1. CASE /\ buckets' = buckets \ {b} /\ Recorded(With(r, {<<"bucket", b>>}, {}), FALSE)
           /\ place' = IF broken' THEN "end" ELSE place
  <2>1. Grows /\ Stored /\ Known(r') = Known(r)
    BY <1>1, ResultsRecorded
  <2> QED
    BY <1>1, <2>1 DEF DeleteBucket, RunStep, setting, seen, Known
<1>2. CASE /\ UNCHANGED buckets /\ Recorded(With(r, {}, {<<"bucket", b>>}), TRUE)
           /\ place' = "end"
  <2>1. Grows /\ Stored /\ Known(r') = Known(r) /\ r'.Bad = r.Bad \cup {<<"bucket", b>>}
    BY <1>2, ResultsRecorded
  <2> QED
    BY <1>2, <2>1 DEF DeleteBucket, RunStep, setting, seen, Known, Successful
<1> QED
  BY <1>1, <1>2 DEF DeleteBucket

\* Scheduling a key's deletion adds a result, and no key.
LEMMA ScheduleKeyRuns ==
  ASSUME NukeTypeOK, OnDisk, NEW k \in Targets \cup Buckets, ScheduleKey(k)
  PROVE  RunStep /\ r'.Keys = r.Keys
<1> USE ArtifactsAre
<1>1. CASE keys' = keys \ {k} /\ Recorded(With(r, {<<"key", k>>}, {}), FALSE)
  <2>1. Grows /\ Stored /\ Known(r') = Known(r)
    BY <1>1, ResultsRecorded
  <2> QED
    BY <1>1, <2>1 DEF ScheduleKey, RunStep, setting, seen, Known
<1>2. CASE UNCHANGED keys /\ Recorded(With(r, {}, {<<"key", k>>}), TRUE)
  <2>1. Grows /\ Stored /\ Known(r') = Known(r)
    BY <1>2, ResultsRecorded
  <2> QED
    BY <1>2, <2>1 DEF ScheduleKey, RunStep, setting, seen, Known
<1> QED
  BY <1>1, <1>2 DEF ScheduleKey

\* All that the steps of a run have in common.
LEMMA RunsOnIs ==
  ASSUME NukeTypeOK, Placed, OnDisk, RunsOn
  PROVE  RunStep
<1>1. CASE Discover
  BY <1>1, DiscoverRuns
<1>2. CASE Confirm
  BY <1>2, ConfirmRuns
<1>3. CASE CleanEnvironments
  BY <1>3, CleanRuns
<1>4. CASE Preflight
  BY <1>4, PreflightRuns
<1>5. CASE Withheld
  BY <1>5, WithheldRuns
<1>6. ASSUME NEW t \in Targets,
             \/ Capture(t) \/ PassOver(t) \/ DestroyEnds(t)
             \/ \E readable, token \in BOOLEAN : FinishTarget(t, readable, token)
      PROVE  RunStep
  BY <1>6, CaptureRuns, PassOverRuns, DestroyEndsRuns, FinishRuns
<1>7. ASSUME NEW x \in Ours, DestroyOne(x) PROVE RunStep
  BY <1>7, DestroyOneRuns
<1>8. ASSUME NEW b \in Buckets, DeleteBucket(b) PROVE RunStep
  BY <1>8, DeleteBucketRuns
<1>9. ASSUME NEW k \in Targets \cup Buckets, ScheduleKey(k) PROVE RunStep
  BY <1>9, ScheduleKeyRuns
<1> QED
  BY <1>1, <1>2, <1>3, <1>4, <1>5, <1>6, <1>7, <1>8, <1>9 DEF RunsOn

\* All but the first of them come after the discovery.
LEMMA RunsAfter ==
  ASSUME RunsOn, ~Discover
  PROVE  place # "discover"
BY DEF RunsOn, Confirm, CleanEnvironments, Preflight, Withheld, Capture, PassOver,
       DestroyEnds, FinishTarget, DestroyOne, DeleteBucket, ScheduleKey

----------------------------------------------------------------------------
\* The steps outside a run, and its start and its end.

Halts == place' = "idle" /\ r' = NoReceipt /\ on' = {} /\ did' = {} /\ broken' = FALSE

\* A check changes what was read of a report, and nothing else of it; what it finds
\* absent is absent.
LEMMA CheckIs ==
  ASSUME NukeTypeOK, OnDisk, checked => Right(saved), NEW fast \in BOOLEAN, NEW blind,
         Check(fast, blind)
  PROVE  /\ saved' \in Receipt /\ Known(saved') = Known(saved)
         /\ checked' \in BOOLEAN /\ (checked' => Right(saved'))
         /\ rounds' \in 0..MaxRounds
<1> DEFINE read == IF fast THEN saved.Remain ELSE saved.Good \cup saved.Bad
           clear == {a \in read \ Unreadable(blind) : ~Present(a)}
           dark == read \cap Unreadable(blind)
           kept == IF fast THEN Kept(saved) ELSE {}
           absent == clear \cup (kept \cap saved.Absent)
           remain == read \ (clear \cup dark)
           unverified == dark \cup (kept \cap saved.Unverified)
<1>1. saved \in Receipt
  BY DEF NukeTypeOK
<1>2. /\ saved' = [saved EXCEPT !.Absent = absent, !.Remain = remain,
                                !.Unverified = unverified]
      /\ checked' = (checked \/ ~fast)
      /\ rounds < MaxRounds /\ rounds' = rounds + 1
      /\ bak = NoReceipt
  BY DEF Check
<1>3. read \in SUBSET (Artifacts \cup Remarks) /\ Remarks \subseteq Unreadable(blind)
  BY <1>1 DEF Receipt, Unreadable
<1>4. /\ absent \in SUBSET Artifacts /\ remain \in SUBSET Artifacts
      /\ unverified \in SUBSET (Artifacts \cup Remarks)
  BY <1>1, <1>3 DEF Receipt
<1>5. absent \cup remain \cup unverified
        = read \cup (kept \cap (saved.Absent \cup saved.Unverified))
  OBVIOUS
<1>6. \A a \in clear : a \notin Remarks /\ ~Present(a)
  BY <1>3
<1>7. kept \cap (saved.Absent \cup saved.Unverified)
        = IF fast THEN saved.Absent \cup saved.Unverified ELSE {}
  BY DEF Kept
<1>8. fast => read \cup saved.Absent \cup saved.Unverified = Reads(saved)
  BY DEF Reads
<1>9. fast => Reads(saved) # {}
  BY DEF Check, Reads
<1>10. ~fast => read = saved.Good \cup saved.Bad
  OBVIOUS
<1>11. \A a \in absent : a \in clear \/ (fast /\ a \in saved.Absent)
  OBVIOUS
<1> HIDE DEF read, clear, dark, kept, absent, remain, unverified
<1>12. saved' \in Receipt
  BY <1>1, <1>2, <1>4 DEF Receipt
<1>13. Known(saved') = Known(saved)
  BY <1>1, <1>2 DEF Known, Receipt
<1>14. /\ saved'.Good = saved.Good /\ saved'.Bad = saved.Bad
       /\ saved'.Absent = absent /\ saved'.Remain = remain /\ saved'.Unverified = unverified
  BY <1>1, <1>2 DEF Receipt
<1>15. Reads(saved') = IF fast THEN Reads(saved) ELSE saved.Good \cup saved.Bad
  <2>1. Reads(saved') = absent \cup remain \cup unverified
    BY <1>14 DEF Reads
  <2> QED
    BY <2>1, <1>5, <1>7, <1>8, <1>10
<1>16. ASSUME checked' PROVE Right(saved')
  <2>1. saved'.Good \cup saved'.Bad \subseteq Reads(saved')
    BY <1>2, <1>9, <1>14, <1>15, <1>16 DEF Right
  <2>2. \A a \in saved'.Absent : a \notin Remarks /\ ~Present(a)
    BY <1>2, <1>6, <1>9, <1>11, <1>14, <1>16 DEF Right
  <2> QED
    BY <2>1, <2>2 DEF Right
<1>17. checked' \in BOOLEAN
  BY <1>2
<1>18. rounds' \in 0..MaxRounds
  BY <1>2, NukeConstants DEF NukeTypeOK
<1> QED
  BY <1>12, <1>13, <1>16, <1>17, <1>18

\* A run that ends leaves the receipt as it saved it, or with what it retains.
LEMMA EndIs ==
  ASSUME NukeTypeOK, End
  PROVE  /\ place \in {"end", "buckets"} /\ Halts
         /\ \/ saved' = saved /\ bak' = bak
            \/ saved' = Retained(r) /\ bak' = NoReceipt
         /\ locked' = FALSE /\ nuked' \in BOOLEAN
<1>1. /\ place \in {"end", "buckets"} /\ Halts /\ locked' = FALSE
      /\ nuked' = (nuked \/ (Successful(r) /\ ~broken))
  BY DEF End, CommandEnds, Halts
<1>2. saved' \in {saved, Retained(r)} /\ bak' = IF saved' = saved THEN bak ELSE NoReceipt
  BY DEF End
<1> QED
  BY <1>1, <1>2

\* What a teardown takes away, and what its receipt says of it.
LEMMA TearDownIs ==
  ASSUME NukeTypeOK, NEW t \in Targets, TearDown(t)
  PROVE  /\ place = "idle" /\ rounds' \in 0..MaxRounds /\ t \in stacks
         /\ notes' \in Notes /\ notes'.Captured = notes.Captured \cup {t}
         /\ notes'.Inventory = notes.Inventory \cup (Of(t) \cap state)
         /\ notes'.Desired = notes.Desired \cup RecordsOf(t)
         /\ state' \subseteq state /\ state \ state' \subseteq Of(t)
         /\ up' = up \ (state \ state') /\ fading' = fading \cup (state \ state')
         /\ \/ stacks' = stacks
            \/ /\ stacks' = stacks \ {t} /\ Of(t) \cap state' = {}
               /\ \/ secrets[t] # "kms" \/ t \in saved.Keys \cup bak.Keys
                  \/ <<"torn", t>> \in lost'
         /\ logs' = logs /\ dns' \subseteq dns /\ hosts' \subseteq hosts
         /\ local' \subseteq local
         /\ lost \subseteq lost' /\ lost' \ lost \subseteq {"torn"} \X Targets
         /\ UNCHANGED <<buckets, keys, secrets, sealed, place, on, did, r, broken, saved,
                        bak, locked, failures, nuked, checked>>
<1>1. rounds' \in 0..MaxRounds
  BY NukeConstants DEF TearDown, NukeTypeOK
<1>2. /\ notes' = [Captured |-> notes.Captured \cup {t},
                   Inventory |-> notes.Inventory \cup (Of(t) \cap state),
                   Desired |-> notes.Desired \cup RecordsOf(t)]
      /\ notes \in Notes /\ Of(t) \cap state \in SUBSET Ours /\ RecordsOf(t) \in SUBSET Ours
  BY DEF TearDown, NukeTypeOK, Of, Ours, RecordsOf
<1>3. notes' \in Notes
  BY <1>2 DEF Notes
<1>4. PICK gone \in SUBSET (Of(t) \cap state) :
        /\ state' = state \ gone /\ up' = up \ gone /\ fading' = fading \cup gone
        /\ \/ UNCHANGED <<stacks, outside, lost>>
           \/ /\ Of(t) \cap state' = {} /\ stacks' = stacks \ {t}
              /\ dns' \in {dns, dns \ RecordsOf(t)}
              /\ \E all \in BOOLEAN : /\ hosts' = IF all THEN hosts \ {t} ELSE hosts
                                     /\ local' = IF all THEN local \ {t} ELSE local
              /\ lost' = lost \cup ({"torn"} \X (KeyOf(t) \ (saved.Keys \cup bak.Keys)))
              /\ UNCHANGED logs
  BY DEF TearDown
<1>5. state \ state' = gone /\ gone \subseteq Of(t)
  BY <1>4
<1>6. CASE UNCHANGED <<stacks, outside, lost>>
  <2>1. UNCHANGED <<stacks, logs, dns, hosts, local, lost>>
    BY <1>6 DEF outside
  <2> QED
    BY <1>1, <1>2, <1>3, <1>4, <1>5, <2>1 DEF TearDown, recovery, disk
<1>7. CASE /\ Of(t) \cap state' = {} /\ stacks' = stacks \ {t}
           /\ dns' \in {dns, dns \ RecordsOf(t)}
           /\ \E all \in BOOLEAN : /\ hosts' = IF all THEN hosts \ {t} ELSE hosts
                                  /\ local' = IF all THEN local \ {t} ELSE local
           /\ lost' = lost \cup ({"torn"} \X (KeyOf(t) \ (saved.Keys \cup bak.Keys)))
           /\ UNCHANGED logs
  <2>1. dns' \subseteq dns /\ hosts' \subseteq hosts /\ local' \subseteq local
    BY <1>7
  <2>2. /\ lost \subseteq lost' /\ lost' \ lost \subseteq {"torn"} \X Targets
        /\ \/ secrets[t] # "kms" \/ t \in saved.Keys \cup bak.Keys
           \/ <<"torn", t>> \in lost'
    BY <1>7 DEF KeyOf
  <2> QED
    BY <1>1, <1>2, <1>3, <1>4, <1>5, <1>7, <2>1, <2>2 DEF TearDown, recovery, disk
<1> QED
  BY <1>4, <1>6, <1>7

----------------------------------------------------------------------------
\* Only a deployment makes anything appear.

Shrinks ==
  /\ stacks' \subseteq stacks /\ state' \subseteq state /\ up' \subseteq up
  /\ up' \cup fading' \subseteq up \cup fading /\ logs' \subseteq logs
  /\ dns' \subseteq dns /\ hosts' \subseteq hosts /\ local' \subseteq local
  /\ buckets' \subseteq buckets /\ keys' \subseteq keys

\* Whatever is not a deployment removes things or leaves them alone.
LEMMA OthersShrink ==
  ASSUME NukeTypeOK, Placed, NukeNext, ~\E t \in Targets : Redeploy(t)
  PROVE  Shrinks
<1> USE DEF Shrinks, outside, recovery
<1>1. CASE NukeStart \/ Stops \/ NukeCrash \/ Unlock \/ Discover \/ Confirm \/ Preflight
           \/ Withheld \/ End
  BY <1>1 DEF NukeStart, Stops, NukeCrash, Unlock, Discover, Confirm, Preflight,
              Withheld, End
<1>2. CASE CleanEnvironments
  <2>1. PICK kept, tidy : /\ hosts' \subseteq hosts
                          /\ local' = IF tidy THEN local \ r.Targets ELSE local
    BY <1>2 DEF CleanEnvironments
  <2> QED
    BY <1>2, <2>1 DEF CleanEnvironments
<1>3. ASSUME NEW t \in Targets, Capture(t) \/ PassOver(t) PROVE Shrinks
  BY <1>3 DEF Capture, PassOver
<1>4. ASSUME NEW t \in Targets, DestroyEnds(t) PROVE Shrinks
  BY <1>4 DEF DestroyEnds
<1>5. ASSUME NEW t \in Targets, NEW readable \in BOOLEAN, NEW token \in BOOLEAN,
             FinishTarget(t, readable, token)
      PROVE  Shrinks
  <2>1. logs' \subseteq logs /\ dns' \subseteq dns
    BY <1>5 DEF FinishTarget, LogsLeft, RecordsLeft
  <2> QED
    BY <1>5, <2>1 DEF FinishTarget
<1>6. ASSUME NEW x \in Ours, DestroyOne(x) PROVE Shrinks
  <2>1. x \in up
    BY <1>6 DEF DestroyOne, Destroyable, Placed
  <2> QED
    BY <1>6, <2>1 DEF DestroyOne
<1>7. ASSUME NEW x \in Ours, Fade(x) PROVE Shrinks
  BY <1>7 DEF Fade
<1>8. ASSUME NEW b \in Buckets, DeleteBucket(b) PROVE Shrinks
  BY <1>8 DEF DeleteBucket
<1>9. ASSUME NEW k \in Targets \cup Buckets, ScheduleKey(k) PROVE Shrinks
  BY <1>9 DEF ScheduleKey
<1>10. ASSUME NEW fast \in BOOLEAN, NEW blind \in SUBSET {"dns", "host"}, Check(fast, blind)
       PROVE  Shrinks
  BY <1>10 DEF Check
<1>11. ASSUME NEW t \in Targets, TearDown(t) PROVE Shrinks
  <2>1. /\ state' \subseteq state /\ up' = up \ (state \ state')
        /\ fading' = fading \cup (state \ state') /\ stacks' \subseteq stacks
        /\ logs' = logs /\ dns' \subseteq dns /\ hosts' \subseteq hosts
        /\ local' \subseteq local /\ buckets' = buckets /\ keys' = keys
    BY <1>11, TearDownIs
  <2>2. state \subseteq up
    BY DEF Placed
  <2> QED
    BY <2>1, <2>2
<1> QED
  BY <1>1, <1>2, <1>3, <1>4, <1>5, <1>6, <1>7, <1>8, <1>9, <1>10, <1>11 DEF NukeNext

\* What was absent stays so.
LEMMA AbsentStays ==
  ASSUME Shrinks, NEW a \in Artifacts, ~Present(a)
  PROVE  ~Present(a)'
<1>1. CASE a[1] = "aws"
  BY <1>1 DEF Present, Logged, Shrinks
<1>2. CASE a[1] = "stack"
  BY <1>2 DEF Present, Shrinks
<1>3. CASE a[1] = "dns"
  BY <1>3 DEF Present, Shrinks
<1>4. CASE a[1] = "host"
  BY <1>4 DEF Present, Shrinks
<1>5. CASE a[1] = "local"
  BY <1>5 DEF Present, Shrinks
<1>6. CASE a[1] = "bucket"
  BY <1>6 DEF Present, Shrinks
<1>7. CASE a[1] = "key"
  BY <1>7 DEF Present, Shrinks
<1> QED
  BY <1>1, <1>2, <1>3, <1>4, <1>5, <1>6, <1>7 DEF Artifacts

\* What Right(rec) says of the next state, whatever rec is.
Later(rec) ==
  Reads(rec) # {} => /\ rec.Good \cup rec.Bad \subseteq Reads(rec)
                     /\ \A a \in rec.Absent : a \notin Remarks /\ ~Present(a)'

\* A report that is right stays so while nothing appears.
LEMMA RightStays ==
  ASSUME Shrinks, NEW rec \in Receipt, Right(rec)
  PROVE  Later(rec)
<1>1. rec.Absent \subseteq Artifacts
  BY DEF Receipt
<1>2. \A a \in rec.Absent : ~Present(a) => ~Present(a)'
  BY <1>1, AbsentStays
<1> QED
  BY <1>2 DEF Right, Later

\* What a deployment makes appear, and what it leaves as it is.
LEMMA RedeployIs ==
  ASSUME NukeTypeOK, NEW t \in Targets, Redeploy(t)
  PROVE  /\ place \in {"idle", "preflight"}
         /\ stacks' = stacks \cup {t} /\ state' = state \cup Of(t) /\ up' = up \cup Of(t)
         /\ fading' = fading \ Of(t) /\ logs' = logs \cup {t}
         /\ buckets' = buckets \cup {Home[t]}
         /\ dns' = dns \cup (Of(t) \cap Named) /\ hosts' = hosts \cup ({t} \cap Apps)
         /\ rounds' \in 0..MaxRounds /\ nuked' = FALSE /\ checked' = FALSE
         /\ Of(t) \subseteq Ours /\ Of(t) # {} /\ \A x \in Of(t) : x[1] = t
         /\ UNCHANGED <<local, keys, secrets, sealed, notes, place, on, did, r, broken,
                        saved, bak, locked, failures, lost>>
<1>1. rounds' \in 0..MaxRounds
  BY NukeConstants DEF Redeploy, NukeTypeOK
<1>2. Of(t) \subseteq Ours /\ Of(t) # {} /\ \A x \in Of(t) : x[1] = t
  <2>1. PICK y \in Resources : TRUE
    BY NukeConstants
  <2>2. <<t, y>> \in Of(t)
    BY DEF Of
  <2>3. Of(t) \subseteq Ours /\ \A x \in Of(t) : x[1] = t
    BY DEF Of, Ours
  <2> QED
    BY <2>2, <2>3
<1> QED
  BY <1>1, <1>2 DEF Redeploy, setting, disk

----------------------------------------------------------------------------
\* Types.

Phases == {"idle", "discover", "confirm", "targets", "destroy", "finish", "preflight",
           "buckets", "end"}
CloudTyped ==
  /\ stacks \subseteq Targets /\ state \subseteq Ours /\ up \subseteq Ours
  /\ fading \subseteq Ours /\ logs \subseteq Targets /\ local \subseteq Targets
  /\ dns \subseteq Named /\ hosts \subseteq Apps
  /\ buckets \subseteq Buckets /\ keys \subseteq Targets \cup Buckets
CommandTyped ==
  /\ place \in Phases /\ on \subseteq Targets /\ did \subseteq Targets \cup Buckets
  /\ lost \subseteq ({"unnamed", "dns"} \X Ours) \cup ({"key", "torn"} \X Targets)
DiskTyped ==
  /\ notes \in Notes
  /\ r \in Receipt /\ saved \in Receipt /\ bak \in Receipt
  /\ broken \in BOOLEAN /\ locked \in BOOLEAN
  /\ failures \in 0..MaxFailures /\ rounds \in 0..MaxRounds
  /\ secrets \in [Targets -> Secrets] /\ sealed \subseteq Buckets
  /\ nuked \in BOOLEAN /\ checked \in BOOLEAN

\* The type invariant in three parts.
LEMMA TypedParts == NukeTypeOK <=> CloudTyped /\ CommandTyped /\ DiskTyped
BY DEF NukeTypeOK, CloudTyped, CommandTyped, DiskTyped, Phases

\* Types hold initially, ...
LEMMA NukeInitTyped == NukeInit => NukeTypeOK
<1> SUFFICES ASSUME NukeInit PROVE NukeTypeOK
  OBVIOUS
<1>1. PICK s \in Settings : secrets = s.secrets /\ sealed = s.sealed
  BY DEF NukeInit
<1>2. secrets \in [Targets -> Secrets] /\ sealed \subseteq Buckets
  BY <1>1, SettingsAssumption
<1>3. CloudTyped
  BY <1>2, NukeConstants DEF NukeInit, CloudTyped, Ours
<1>4. CommandTyped
  BY DEF NukeInit, CommandTyped, Phases
<1>5. DiskTyped
  <2>1. failures \in 0..MaxFailures /\ rounds \in 0..MaxRounds
    BY NukeConstants DEF NukeInit
  <2>2. /\ broken = FALSE /\ locked = FALSE /\ nuked = FALSE /\ checked = FALSE
        /\ r \in Receipt /\ saved \in Receipt /\ bak \in Receipt
    BY EmptyReceipt DEF NukeInit
  <2>3. notes \in Notes
    BY DEF NukeInit, Notes
  <2> QED
    BY <2>1, <2>2, <2>3, <1>2 DEF DiskTyped
<1> QED
  BY <1>3, <1>4, <1>5, TypedParts

\* ... and what is deployed, ...
LEMMA CloudTypedStep ==
  ASSUME NukeTypeOK, Placed, NukeNext
  PROVE  CloudTyped'
<1>1. CloudTyped
  BY TypedParts
<1>2. CASE \E t \in Targets : Redeploy(t)
  <2>1. PICK t \in Targets : Redeploy(t)
    BY <1>2
  <2>2. /\ stacks' = stacks \cup {t} /\ state' = state \cup Of(t) /\ up' = up \cup Of(t)
        /\ fading' = fading \ Of(t) /\ logs' = logs \cup {t}
        /\ buckets' = buckets \cup {Home[t]}
        /\ dns' = dns \cup (Of(t) \cap Named) /\ hosts' = hosts \cup ({t} \cap Apps)
        /\ local' = local /\ keys' = keys /\ Of(t) \subseteq Ours
    BY <2>1, RedeployIs
  <2>3. Home[t] \in Buckets
    BY NukeConstants
  <2> QED
    BY <1>1, <2>2, <2>3 DEF CloudTyped
<1>3. CASE ~\E t \in Targets : Redeploy(t)
  <2>1. Shrinks
    BY <1>3, OthersShrink
  <2> QED
    BY <1>1, <2>1 DEF CloudTyped, Shrinks
<1> QED
  BY <1>2, <1>3

\* ... where the command is ...
LEMMA CommandTypedStep ==
  ASSUME NukeTypeOK, NukeNext
  PROVE  CommandTyped'
<1>1. CommandTyped
  BY TypedParts
<1> USE <1>1 DEF CommandTyped, Phases, seen
<1>2. CASE NukeStart \/ Stops \/ NukeCrash \/ Unlock \/ Discover \/ Confirm
           \/ CleanEnvironments
  BY <1>2 DEF NukeStart, Stops, NukeCrash, Unlock, Discover, Confirm, CleanEnvironments,
              CommandEnds
<1>3. CASE Preflight \/ Withheld \/ End
  BY <1>3 DEF Preflight, Withheld, End, CommandEnds
<1>4. ASSUME NEW t \in Targets, Capture(t) PROVE CommandTyped'
  <2>1. PICK named : lost' = Misses(t, named)
    BY <1>4 DEF Capture
  <2>2. RecordsOf(t) \subseteq Ours
    BY DEF RecordsOf, Of, Ours
  <2>3. lost' \subseteq ({"unnamed", "dns"} \X Ours) \cup ({"key", "torn"} \X Targets)
    BY <2>1, <2>2 DEF Misses
  <2> QED
    BY <1>4, <2>3 DEF Capture
<1>5. ASSUME NEW t \in Targets, PassOver(t) \/ DestroyEnds(t) \/ Redeploy(t)
      PROVE  CommandTyped'
  BY <1>5 DEF PassOver, DestroyEnds, Redeploy
<1>6. ASSUME NEW t \in Targets, NEW readable \in BOOLEAN, NEW token \in BOOLEAN,
             FinishTarget(t, readable, token)
      PROVE  CommandTyped'
  BY <1>6 DEF FinishTarget
<1>7. ASSUME NEW x \in Ours, DestroyOne(x) \/ Fade(x) PROVE CommandTyped'
  <2>1. \/ lost' = lost
        \/ lost' = lost \cup {<<"dns", f[2]>> : f \in lost \cap {<<"unnamed", x>>}}
    BY <1>7 DEF DestroyOne, Fade
  <2>2. {<<"dns", f[2]>> : f \in lost \cap {<<"unnamed", x>>}} \subseteq {"dns"} \X Ours
    OBVIOUS
  <2>3. lost' \subseteq ({"unnamed", "dns"} \X Ours) \cup ({"key", "torn"} \X Targets)
    BY <2>1, <2>2
  <2> QED
    BY <1>7, <2>3 DEF DestroyOne, Fade
<1>8. ASSUME NEW b \in Buckets, DeleteBucket(b) PROVE CommandTyped'
  BY <1>8 DEF DeleteBucket
<1>9. ASSUME NEW k \in Targets \cup Buckets, ScheduleKey(k) PROVE CommandTyped'
  BY <1>9 DEF ScheduleKey
<1>10. ASSUME NEW fast \in BOOLEAN, NEW blind \in SUBSET {"dns", "host"}, Check(fast, blind)
       PROVE  CommandTyped'
  BY <1>10 DEF Check
<1>11. ASSUME NEW t \in Targets, TearDown(t) PROVE CommandTyped'
  <2>1. /\ lost' \ lost \subseteq {"torn"} \X Targets
        /\ UNCHANGED <<place, on, did>>
    BY <1>11, TearDownIs
  <2> QED
    BY <2>1
<1> QED
  BY <1>2, <1>3, <1>4, <1>5, <1>6, <1>7, <1>8, <1>9, <1>10, <1>11 DEF NukeNext

\* ... and what it has on disk keep their types.
LEMMA DiskTypedStep ==
  ASSUME NukeTypeOK, Placed, OnDisk, Checked, NukeNext
  PROVE  DiskTyped'
<1>1. DiskTyped
  BY TypedParts
<1> USE <1>1 DEF DiskTyped
<1>2. CASE RunsOn
  BY <1>2, RunsOnIs, EmptyReceipt DEF RunStep, Grows, Stored
<1>3. CASE NukeStart
  <2>1. r' \in Receipt
    BY <1>3, ResumedIs DEF NukeStart
  <2>2. rounds' \in 0..MaxRounds
    BY <1>3, NukeConstants DEF NukeStart
  <2> QED
    BY <1>3, <2>1, <2>2 DEF NukeStart, setting
<1>4. CASE Stops
  BY <1>4, EmptyReceipt DEF Stops, CommandEnds, setting, seen
<1>5. CASE NukeCrash
  BY <1>5, EmptyReceipt, FaultyIs DEF NukeCrash, CommandEnds, setting, seen
<1>6. CASE Unlock
  BY <1>6, EmptyReceipt DEF Unlock, setting, seen
<1>7. CASE End
  BY <1>7, EndIs, RetainedIs, EmptyReceipt DEF End, Halts, setting
<1>8. ASSUME NEW fast \in BOOLEAN, NEW blind, Check(fast, blind) PROVE DiskTyped'
  <2>1. saved' \in Receipt /\ checked' \in BOOLEAN /\ rounds' \in 0..MaxRounds
    BY <1>8, CheckIs DEF Checked
  <2> QED
    BY <1>8, <2>1 DEF Check, setting
<1>9. ASSUME NEW x, Fade(x) PROVE DiskTyped'
  BY <1>9 DEF Fade, setting, disk, seen
<1>10. ASSUME NEW t \in Targets, Redeploy(t) PROVE DiskTyped'
  BY <1>10, RedeployIs
<1>11. ASSUME NEW t \in Targets, TearDown(t) PROVE DiskTyped'
  BY <1>11, TearDownIs
<1> QED
  BY <1>2, <1>3, <1>4, <1>5, <1>6, <1>7, <1>8, <1>9, <1>10, <1>11 DEF NukeNext, RunsOn

\* Every step keeps the types.
LEMMA NukeTypedStep ==
  ASSUME NukeTypeOK, Placed, OnDisk, Checked, NukeNext
  PROVE  NukeTypeOK'
<1>1. CloudTyped' /\ CommandTyped' /\ DiskTyped'
  BY CloudTypedStep, CommandTypedStep, DiskTypedStep
<1> QED
  BY <1>1 DEF NukeTypeOK, CloudTyped, CommandTyped, DiskTyped, Phases

----------------------------------------------------------------------------
\* What is on disk stays there.

Remembers ==
  /\ saved.Targets \cup bak.Targets \subseteq saved'.Targets \cup bak'.Targets
  /\ saved.Inventory \cup bak.Inventory \subseteq saved'.Inventory \cup bak'.Inventory
  /\ saved.Desired \cup bak.Desired \subseteq saved'.Desired \cup bak'.Desired
  /\ saved.Keys \cup bak.Keys \subseteq saved'.Keys \cup bak'.Keys

\* No step takes anything out of the receipt and its copy, taken together.
LEMMA NothingIsForgotten ==
  ASSUME NukeTypeOK, Placed, OnDisk, Checked, Keeps, NukeNext
  PROVE  Remembers
<1> USE DEF Remembers
<1>1. ASSUME UNCHANGED <<saved, bak>> PROVE Remembers
  BY <1>1
<1>2. CASE RunsOn
  <2>1. RunStep /\ Within(saved, r)
    BY <1>2, RunsOnIs DEF Keeps, RunStep
  <2>2. bak = NoReceipt
    BY <2>1 DEF OnDisk, RunStep
  <2>3. CASE saved' = r' /\ bak' = NoReceipt
    <3>1. Within(r, r')
      BY <2>1 DEF RunStep, Grows
    <3> QED
      BY <2>1, <2>2, <2>3, <3>1 DEF Within
  <2> QED
    BY <1>1, <2>1, <2>3 DEF RunStep, Stored
<1>3. CASE NukeStart \/ Stops
  BY <1>1, <1>3 DEF NukeStart, Stops
<1>4. CASE NukeCrash
  BY <1>1, <1>4, EmptyReceipt DEF NukeCrash, OnDisk
<1>5. CASE Unlock
  BY <1>1, <1>5, EmptyReceipt DEF Unlock, OnDisk
<1>6. CASE End
  <2>1. /\ place \in {"end", "buckets"}
        /\ \/ saved' = saved /\ bak' = bak
           \/ saved' = Retained(r) /\ bak' = NoReceipt
    BY <1>6, EndIs
  <2>2. Within(saved, r) /\ bak = NoReceipt
    BY <2>1 DEF Keeps, OnDisk
  <2>3. CASE saved' = Retained(r) /\ bak' = NoReceipt
    <3>1. Known(saved') = Known(r)
      BY <2>3, RetainedIs
    <3> QED
      BY <2>2, <2>3, <3>1, EmptyReceipt DEF Known, Within
  <2> QED
    BY <1>1, <2>1, <2>3
<1>7. ASSUME NEW fast \in BOOLEAN, NEW blind, Check(fast, blind) PROVE Remembers
  <2>1. Known(saved') = Known(saved) /\ bak' = bak
    BY <1>7, CheckIs DEF Checked, Check
  <2> QED
    BY <2>1 DEF Known
<1>8. ASSUME NEW x, Fade(x) PROVE Remembers
  BY <1>1, <1>8 DEF Fade, disk
<1>9. ASSUME NEW t \in Targets, Redeploy(t) PROVE Remembers
  BY <1>1, <1>9, RedeployIs
<1>10. ASSUME NEW t \in Targets, TearDown(t) PROVE Remembers
  BY <1>1, <1>10, TearDownIs
<1> QED
  BY <1>2, <1>3, <1>4, <1>5, <1>6, <1>7, <1>8, <1>9, <1>10 DEF NukeNext, RunsOn

\* Every receipt's targets have their buckets among its backends.
HomesIn(rec) == \A t \in rec.Targets : Home[t] \in rec.Backends

\* The same targets and backends, the same buckets.
LEMMA KnownHomes ==
  ASSUME NEW a, NEW b, Known(a) = Known(b), HomesIn(b)
  PROVE  HomesIn(a)
BY DEF Known, HomesIn

\* OnDisk with the buckets of each receipt named.
LEMMA OnDiskIs ==
  OnDisk <=> /\ bak # NoReceipt => saved = NoReceipt /\ place = "idle"
             /\ place = "idle" => on = {} /\ did = {} /\ r = NoReceipt
             /\ HomesIn(r) /\ HomesIn(saved) /\ HomesIn(bak)
BY DEF OnDisk, HomesIn

\* Renaming and the operator's repair never leave two receipts.
LEMMA OnDiskStep ==
  ASSUME NukeTypeOK, Placed, OnDisk, Checked, NukeNext
  PROVE  OnDisk'
<1>1. /\ bak # NoReceipt => saved = NoReceipt /\ place = "idle"
      /\ place = "idle" => on = {} /\ did = {} /\ r = NoReceipt
      /\ HomesIn(r) /\ HomesIn(saved) /\ HomesIn(bak) /\ HomesIn(NoReceipt)
  BY OnDiskIs, EmptyReceipt DEF HomesIn
<1> SUFFICES /\ bak' # NoReceipt => saved' = NoReceipt /\ place' = "idle"
             /\ place' = "idle" => on' = {} /\ did' = {} /\ r' = NoReceipt
             /\ HomesIn(r') /\ HomesIn(saved') /\ HomesIn(bak')
  BY DEF OnDisk, HomesIn
<1> DEFINE Goal == /\ bak' # NoReceipt => saved' = NoReceipt /\ place' = "idle"
                   /\ place' = "idle" => on' = {} /\ did' = {} /\ r' = NoReceipt
                   /\ HomesIn(r') /\ HomesIn(saved') /\ HomesIn(bak')
<1>2. CASE RunsOn
  <2>1. RunStep /\ bak = NoReceipt
    BY <1>1, <1>2, RunsOnIs DEF RunStep
  <2>2. HomesIn(r')
    BY <2>1 DEF RunStep, Grows, HomesIn
  <2> QED
    BY <1>1, <2>1, <2>2 DEF RunStep, Stored
<1>3. CASE NukeStart
  <2>1. HomesIn(r')
    <3>1. r' = Resumed(saved) /\ saved \in Receipt
      BY <1>3 DEF NukeStart, NukeTypeOK
    <3>2. Known(r') = Known(saved)
      BY <3>1, ResumedIs
    <3> QED
      BY <3>2, <1>1, KnownHomes
  <2> QED
    BY <1>1, <1>3, <2>1 DEF NukeStart
<1>4. CASE Stops \/ NukeCrash
  BY <1>1, <1>4 DEF Stops, NukeCrash, CommandEnds
<1>5. CASE Unlock
  BY <1>1, <1>5 DEF Unlock
<1>6. CASE End
  <2>1. Halts /\ bak = NoReceipt
        /\ \/ saved' = saved /\ bak' = bak
           \/ saved' = Retained(r) /\ bak' = NoReceipt
    BY <1>1, <1>6, EndIs
  <2>2. HomesIn(Retained(r))
    BY <1>1, RetainedIs, KnownHomes
  <2> QED
    BY <1>1, <2>1, <2>2 DEF Halts
<1>7. ASSUME NEW fast \in BOOLEAN, NEW blind, Check(fast, blind) PROVE Goal
  <2>1. Known(saved') = Known(saved)
    BY <1>7, CheckIs DEF Checked
  <2>2. HomesIn(saved')
    BY <2>1, <1>1, KnownHomes
  <2>3. bak = NoReceipt /\ UNCHANGED <<place, on, did, r, bak>>
    BY <1>7 DEF Check
  <2> QED
    BY <1>1, <2>2, <2>3
<1>8. ASSUME NEW x, Fade(x) PROVE Goal
  BY <1>1, <1>8 DEF Fade, disk
<1>9. ASSUME NEW t \in Targets, Redeploy(t) PROVE Goal
  BY <1>1, <1>9, RedeployIs
<1>10. ASSUME NEW t \in Targets, TearDown(t) PROVE Goal
  BY <1>1, <1>10, TearDownIs
<1> QED
  BY <1>2, <1>3, <1>4, <1>5, <1>6, <1>7, <1>8, <1>9, <1>10 DEF NukeNext, RunsOn

\* The run's receipt never falls behind the one on disk.
LEMMA KeepsStep ==
  ASSUME NukeTypeOK, Placed, OnDisk, Checked, Keeps, NukeNext
  PROVE  Keeps'
<1>1. CASE RunsOn
  <2>1. RunStep /\ Within(saved, r)
    BY <1>1, RunsOnIs DEF Keeps, RunStep
  <2>2. Within(saved', r')
    BY <2>1 DEF RunStep, Stored, Grows, Within
  <2>3. Noted(r')
    <3>1. CASE Discover
      BY <3>1, DiscoverRuns
    <3>2. CASE ~Discover
      <4>1. Noted(r)
        BY <1>1, <2>1, <3>2, RunsAfter DEF Keeps, RunStep
      <4> QED
        BY <2>1, <4>1 DEF RunStep, Grows, Within, Noted
    <3> QED
      BY <3>1, <3>2
  <2>4. notes' = notes
    BY <2>1 DEF RunStep
  <2> QED
    BY <2>2, <2>3, <2>4 DEF Keeps, Within, Noted
<1>2. CASE NukeStart
  <2>1. Known(Resumed(saved)) = Known(saved)
    BY ResumedIs DEF NukeTypeOK
  <2> QED
    BY <1>2, <2>1 DEF NukeStart, Keeps, Within, Known
<1>3. CASE Stops \/ NukeCrash \/ End
  BY <1>3 DEF Stops, NukeCrash, End, CommandEnds, Keeps
<1>4. CASE Unlock
  BY <1>4 DEF Unlock, Keeps
<1>5. ASSUME NEW fast \in BOOLEAN, NEW blind, Check(fast, blind) PROVE Keeps'
  BY <1>5 DEF Check, Keeps
<1>6. ASSUME NEW x, Fade(x) PROVE Keeps'
  BY <1>6 DEF Fade, Keeps, Within, Noted, disk, setting
<1>7. ASSUME NEW t \in Targets, Redeploy(t) PROVE Keeps'
  BY <1>7, RedeployIs DEF Keeps, Within, Noted
<1>8. ASSUME NEW t \in Targets, TearDown(t) PROVE Keeps'
  BY <1>8, TearDownIs DEF Keeps
<1> QED
  BY <1>1, <1>2, <1>3, <1>4, <1>5, <1>6, <1>7, <1>8 DEF NukeNext, RunsOn

----------------------------------------------------------------------------
\* What is where.

\* The resources of a stack are those that name it.
LEMMA OfIs ==
  ASSUME NEW x \in Ours, NEW t
  PROVE  x \in Of(t) <=> x[1] = t
BY DEF Ours, Of

\* What the steps change of it, besides deployments and teardowns.
LEMMA WhatChanges ==
  ASSUME NukeTypeOK, NukeNext, ~\E t \in Targets : Redeploy(t) \/ TearDown(t)
  PROVE  /\ secrets' = secrets /\ sealed' = sealed /\ notes' = notes
         /\ UNCHANGED stacks \/ \E t \in Targets : DestroyEnds(t)
         /\ UNCHANGED <<state, up>> \/ \E x \in Ours : DestroyOne(x)
         /\ UNCHANGED fading \/ \E x \in Ours : DestroyOne(x) \/ Fade(x)
         /\ UNCHANGED <<logs, dns>> \/ \E t \in Targets, a, b \in BOOLEAN :
                                         FinishTarget(t, a, b)
         /\ UNCHANGED hosts \/ CleanEnvironments
         /\ UNCHANGED buckets \/ \E b \in Buckets : DeleteBucket(b)
         /\ UNCHANGED keys \/ \E k \in Targets \cup Buckets : ScheduleKey(k)
         /\ UNCHANGED lost \/ (\E t \in Targets : Capture(t))
              \/ \E x \in Ours : DestroyOne(x)
<1> USE DEF outside, recovery, setting, seen
<1>1. CASE NukeStart \/ Stops \/ NukeCrash \/ Unlock \/ Discover \/ Confirm
  BY <1>1 DEF NukeStart, Stops, NukeCrash, Unlock, Discover, Confirm
<1>2. CASE Preflight \/ Withheld \/ End \/ CleanEnvironments
  BY <1>2 DEF Preflight, Withheld, End, CleanEnvironments
<1>3. CASE \E t \in Targets : Capture(t) \/ PassOver(t) \/ DestroyEnds(t)
  BY <1>3 DEF Capture, PassOver, DestroyEnds
<1>4. CASE \E t \in Targets, readable, token \in BOOLEAN : FinishTarget(t, readable, token)
  BY <1>4 DEF FinishTarget
<1>5. CASE \E x \in Ours : DestroyOne(x) \/ Fade(x)
  BY <1>5 DEF DestroyOne, Fade
<1>6. CASE \E b \in Buckets : DeleteBucket(b)
  BY <1>6 DEF DeleteBucket
<1>7. CASE \E k \in Targets \cup Buckets : ScheduleKey(k)
  BY <1>7 DEF ScheduleKey
<1>8. CASE \E fast \in BOOLEAN, blind \in SUBSET {"dns", "host"} : Check(fast, blind)
  BY <1>8 DEF Check
<1> QED
  BY <1>1, <1>2, <1>3, <1>4, <1>5, <1>6, <1>7, <1>8 DEF NukeNext

\* A bucket is deleted only without stacks, and a stack removed only when it is empty.
LEMMA PlacedStep ==
  ASSUME NukeTypeOK, Placed, Recovers, NukeNext
  PROVE  Placed'
<1>1. CASE \E t \in Targets : Redeploy(t)
  <2>1. PICK t \in Targets : Redeploy(t)
    BY <1>1
  <2>2. /\ stacks' = stacks \cup {t} /\ state' = state \cup Of(t) /\ up' = up \cup Of(t)
        /\ buckets' = buckets \cup {Home[t]} /\ keys' = keys /\ secrets' = secrets
        /\ sealed' = sealed /\ \A x \in Of(t) : x[1] = t
    BY <2>1, RedeployIs
  <2> QED
    BY <2>2 DEF Placed
<1>3. CASE \E t \in Targets : TearDown(t)
  <2>1. PICK t \in Targets : TearDown(t)
    BY <1>3
  <2>2. /\ buckets' = buckets /\ keys' = keys /\ secrets' = secrets /\ sealed' = sealed
        /\ state' \subseteq state /\ up' = up \ (state \ state')
        /\ stacks' = stacks \/ (stacks' = stacks \ {t} /\ Of(t) \cap state' = {})
    BY <2>1, TearDownIs
  <2>3. \A x \in state : x \in Ours
    BY DEF NukeTypeOK
  <2>4. \A x \in state' : x[1] \in stacks' /\ x \in up'
    BY <2>2, <2>3, OfIs DEF Placed
  <2> QED
    BY <2>2, <2>4 DEF Placed
<1>2. CASE ~\E t \in Targets : Redeploy(t) \/ TearDown(t)
  <2>1. Shrinks /\ secrets' = secrets /\ sealed' = sealed
    BY <1>2, OthersShrink, WhatChanges
  <2>2. \A t \in stacks' : Home[t] \in buckets'
    <3>1. CASE UNCHANGED buckets
      BY <3>1, <2>1 DEF Shrinks, Placed
    <3>2. CASE \E b \in Buckets : DeleteBucket(b)
      BY <3>2, <2>1 DEF DeleteBucket, Recovers, EverythingGone, Shrinks
    <3> QED
      BY <1>2, <3>1, <3>2, WhatChanges
  <2>3. \A x \in state' : x[1] \in stacks'
    <3>1. CASE UNCHANGED stacks
      BY <3>1, <2>1 DEF Shrinks, Placed
    <3>2. ASSUME NEW t \in Targets, DestroyEnds(t) PROVE \A x \in state' : x[1] \in stacks'
      <4>1. state' = state /\ ((Emptied(t) /\ stacks' = stacks \ {t}) \/ stacks' = stacks)
        BY <3>2 DEF DestroyEnds
      <4>2. \A x \in state : x \in Ours
        BY DEF NukeTypeOK
      <4> QED
        BY <4>1, <4>2, OfIs DEF Emptied, Placed
    <3> QED
      BY <1>2, <3>1, <3>2, WhatChanges
  <2>4. \A x \in state' : x \in up'
    <3>1. CASE UNCHANGED <<state, up>>
      BY <3>1 DEF Placed
    <3>2. CASE \E x \in Ours : DestroyOne(x)
      BY <3>2 DEF DestroyOne, Placed
    <3> QED
      BY <1>2, <3>1, <3>2, WhatChanges
  <2>5. /\ \A b \in buckets' : \E t \in Targets : Home[t] = b
        /\ \A k \in keys' : IF k \in Targets THEN secrets'[k] = "kms" ELSE k \in sealed'
    BY <2>1 DEF Placed, Shrinks
  <2> QED
    BY <2>2, <2>3, <2>4, <2>5 DEF Placed
<1> QED
  BY <1>1, <1>2, <1>3

\* What is lost stays lost, ...
LEMMA DnsStaysLost ==
  ASSUME NEW x, <<"dns", x>> \in lost,
         \/ UNCHANGED lost
         \/ \E t \in Targets : Capture(t)
         \/ \E y \in Ours : DestroyOne(y)
  PROVE  <<"dns", x>> \in lost'
<1>1. ASSUME NEW t \in Targets, Capture(t) PROVE <<"dns", x>> \in lost'
  <2>1. PICK named : lost' = Misses(t, named)
    BY <1>1 DEF Capture
  <2>2. <<"dns", x>> \notin {"unnamed"} \X Of(t)
    OBVIOUS
  <2> QED
    BY <2>1, <2>2 DEF Misses
<1>2. ASSUME NEW y \in Ours, DestroyOne(y) PROVE <<"dns", x>> \in lost'
  BY <1>2 DEF DestroyOne
<1> QED
  BY <1>1, <1>2
LEMMA TornStaysLost ==
  ASSUME NEW k, <<"torn", k>> \in lost,
         \/ UNCHANGED lost
         \/ \E t \in Targets : Capture(t)
         \/ \E y \in Ours : DestroyOne(y)
  PROVE  <<"torn", k>> \in lost'
<1>1. ASSUME NEW t \in Targets, Capture(t) PROVE <<"torn", k>> \in lost'
  <2>1. PICK named : lost' = Misses(t, named)
    BY <1>1 DEF Capture
  <2>2. <<"torn", k>> \notin {"unnamed"} \X Of(t)
    OBVIOUS
  <2> QED
    BY <2>1, <2>2 DEF Misses
<1>2. ASSUME NEW y \in Ours, DestroyOne(y) PROVE <<"torn", k>> \in lost'
  BY <1>2 DEF DestroyOne
<1> QED
  BY <1>1, <1>2

\* ... and what is noted stays noted.
LEMMA NotesGrow ==
  ASSUME NukeTypeOK, NukeNext
  PROVE  /\ notes.Captured \subseteq notes'.Captured
         /\ notes.Inventory \subseteq notes'.Inventory
         /\ notes.Desired \subseteq notes'.Desired
<1>1. CASE \E t \in Targets : Redeploy(t)
  BY <1>1, RedeployIs
<1>2. CASE \E t \in Targets : TearDown(t)
  BY <1>2, TearDownIs
<1>3. CASE ~\E t \in Targets : Redeploy(t) \/ TearDown(t)
  BY <1>3, WhatChanges
<1> QED
  BY <1>1, <1>2, <1>3

\* Nothing but a run and a teardown takes anything from the state, a stack or a bucket
\* away, and what they take away is on disk.
LEMMA KnowsStep ==
  ASSUME NukeTypeOK, Placed, OnDisk, Checked, Keeps, Knows, Learnt, Recovers, NukeNext
  PROVE  Knows'
<1>1. Remembers
  BY NothingIsForgotten
<1>4. notes.Captured \subseteq notes'.Captured /\ notes.Inventory \subseteq notes'.Inventory
      /\ notes.Desired \subseteq notes'.Desired
  BY NotesGrow
<1>5. Inventories \subseteq Inventories'
  BY <1>1, <1>4 DEF Remembers, Inventories
<1>2. CASE \E t \in Targets : Redeploy(t)
  <2>1. PICK t \in Targets : Redeploy(t)
    BY <1>2
  <2>2. /\ stacks' = stacks \cup {t} /\ state' = state \cup Of(t) /\ up' = up \cup Of(t)
        /\ fading' = fading \ Of(t) /\ logs' = logs \cup {t}
        /\ buckets' = buckets \cup {Home[t]} /\ dns' = dns \cup (Of(t) \cap Named)
        /\ keys' = keys /\ lost' = lost /\ saved' = saved /\ bak' = bak /\ Of(t) # {}
        /\ notes' = notes
    BY <2>1, RedeployIs
  <2>3. \A u \in logs' : Of(u) \cap (state' \cup Inventories') # {}
    <3> SUFFICES ASSUME NEW u \in logs'
                 PROVE  Of(u) \cap (state' \cup Inventories') # {}
      OBVIOUS
    <3>1. CASE u = t
      BY <3>1, <2>2
    <3>2. CASE u # t
      <4>1. u \in logs
        BY <3>2, <2>2
      <4>2. Of(u) \cap (state \cup Inventories) # {}
        BY <4>1 DEF Knows
      <4> QED
        BY <4>2, <1>5, <2>2
    <3> QED
      BY <3>1, <3>2
  <2>4. up' \cup fading' \subseteq state' \cup Inventories'
    BY <1>5, <2>2 DEF Knows
  <2>5. \A u \in Targets :
          u \in stacks' \cup saved'.Targets \cup bak'.Targets \cup notes'.Captured
    BY <2>2 DEF Knows
  <2>6. \A x \in dns' :
          \/ x \in state' \cup saved'.Desired \cup bak'.Desired \cup notes'.Desired
          \/ <<"dns", x>> \in lost'
    BY <2>2 DEF Knows
  <2>7. \A k \in keys' : \/ k \in stacks' \cup buckets' \cup saved'.Keys \cup bak'.Keys
                        \/ <<"torn", k>> \in lost'
    BY <2>2 DEF Knows
  <2> QED
    BY <2>3, <2>4, <2>5, <2>6, <2>7 DEF Knows
<1>6. CASE \E t \in Targets : TearDown(t)
  <2>1. PICK t \in Targets : TearDown(t)
    BY <1>6
  <2>2. /\ notes'.Captured = notes.Captured \cup {t}
        /\ notes'.Inventory = notes.Inventory \cup (Of(t) \cap state)
        /\ notes'.Desired = notes.Desired \cup RecordsOf(t)
        /\ state' \subseteq state /\ state \ state' \subseteq Of(t)
        /\ up' = up \ (state \ state') /\ fading' = fading \cup (state \ state')
        /\ stacks' = stacks
             \/ (stacks' = stacks \ {t}
                  /\ (secrets[t] # "kms" \/ t \in saved.Keys \cup bak.Keys
                        \/ <<"torn", t>> \in lost'))
        /\ logs' = logs /\ dns' \subseteq dns /\ lost \subseteq lost'
        /\ UNCHANGED <<buckets, keys, saved, bak>>
    BY <2>1, TearDownIs
  <2>3. \A x \in state : x \in state' \cup Inventories'
    BY <2>2 DEF Inventories
  <2>4. \A x \in state \ state' : x \in dns => x \in notes'.Desired
    BY <2>2 DEF RecordsOf, NukeTypeOK
  <2>5. \A u \in Targets :
          u \in stacks' \cup saved'.Targets \cup bak'.Targets \cup notes'.Captured
    BY <2>2 DEF Knows
  <2>6. up' \cup fading' \subseteq state' \cup Inventories'
    BY <1>5, <2>2, <2>3 DEF Knows
  <2>7. \A u \in logs' : Of(u) \cap (state' \cup Inventories') # {}
    <3> SUFFICES ASSUME NEW u \in logs'
                 PROVE  \E x \in Of(u) : x \in state' \cup Inventories'
      OBVIOUS
    <3>1. PICK x \in Of(u) : x \in state \cup Inventories
      BY <2>2 DEF Knows
    <3> QED
      BY <1>5, <2>3, <3>1
  <2>8. \A x \in dns' :
          \/ x \in state' \cup saved'.Desired \cup bak'.Desired \cup notes'.Desired
          \/ <<"dns", x>> \in lost'
    BY <1>4, <2>2, <2>4 DEF Knows
  <2>9. \A k \in keys' : \/ k \in stacks' \cup buckets' \cup saved'.Keys \cup bak'.Keys
                        \/ <<"torn", k>> \in lost'
    <3> SUFFICES ASSUME NEW k \in keys'
                 PROVE  \/ k \in stacks' \cup buckets' \cup saved'.Keys \cup bak'.Keys
                        \/ <<"torn", k>> \in lost'
      OBVIOUS
    <3>1. \/ k \in stacks \cup buckets \cup saved.Keys \cup bak.Keys
          \/ <<"torn", k>> \in lost
      BY <2>2 DEF Knows
    <3>2. k = t => secrets[t] = "kms"
      BY <2>2 DEF Placed
    <3> QED
      BY <2>2, <3>1, <3>2
  <2> QED
    BY <2>5, <2>6, <2>7, <2>8, <2>9 DEF Knows
<1>3. CASE ~\E t \in Targets : Redeploy(t) \/ TearDown(t)
  <2>1. Shrinks
    BY <1>3, OthersShrink
  <2>8. notes' = notes
    BY <1>3, WhatChanges
  <2>2. \A t \in Targets :
          t \in stacks' \cup saved'.Targets \cup bak'.Targets \cup notes'.Captured
    <3>1. CASE UNCHANGED stacks
      BY <1>1, <1>4, <3>1 DEF Knows, Remembers
    <3>2. ASSUME NEW u \in Targets, DestroyEnds(u)
          PROVE  \A t \in Targets :
                   t \in stacks' \cup saved'.Targets \cup bak'.Targets \cup notes'.Captured
      <4>1. u \in saved.Targets /\ (stacks' = stacks \ {u} \/ stacks' = stacks)
        BY <3>2 DEF DestroyEnds, Learnt
      <4> QED
        BY <1>1, <1>4, <4>1 DEF Knows, Remembers
    <3> QED
      BY <1>3, <3>1, <3>2, WhatChanges
  <2>3. \A x \in state : x \in state' \cup Inventories'
    <3>1. CASE UNCHANGED <<state, up>>
      BY <3>1
    <3>2. ASSUME NEW y \in Ours, DestroyOne(y)
          PROVE  \A x \in state : x \in state' \cup Inventories'
      <4>1. y[1] \in on /\ place = "destroy" /\ y \in state /\ state' = state \ {y}
        BY <3>2 DEF DestroyOne, Destroyable
      <4>2. y \in saved.Inventory
        BY <4>1, OfIs DEF Learnt
      <4> QED
        BY <1>1, <1>5, <4>1, <4>2 DEF Remembers, Inventories
    <3> QED
      BY <1>3, <3>1, <3>2, WhatChanges
  <2>4. up' \cup fading' \subseteq state' \cup Inventories'
    BY <1>5, <2>1, <2>3 DEF Knows, Shrinks
  <2>5. \A t \in logs' : Of(t) \cap (state' \cup Inventories') # {}
    <3> SUFFICES ASSUME NEW t \in logs'
                 PROVE  \E x \in Of(t) :
                          x \in state' \cup Inventories'
      OBVIOUS
    <3>1. PICK x \in Of(t) : x \in state \cup Inventories
      BY <2>1 DEF Knows, Shrinks
    <3> QED
      BY <1>5, <2>3, <3>1
  <2>6. \A x \in dns' :
         \/ x \in state' \cup saved'.Desired \cup bak'.Desired \cup notes'.Desired
         \/ <<"dns", x>> \in lost'
    <3> SUFFICES ASSUME NEW x \in dns'
                 PROVE  \/ x \in state' \cup saved'.Desired \cup bak'.Desired
                                   \cup notes'.Desired
                        \/ <<"dns", x>> \in lost'
      OBVIOUS
    <3>1. /\ x \in dns
          /\ \/ x \in state \cup saved.Desired \cup bak.Desired \cup notes.Desired
             \/ <<"dns", x>> \in lost
      BY <2>1 DEF Knows, Shrinks
    <3>2. <<"dns", x>> \in lost => <<"dns", x>> \in lost'
      BY <1>3, WhatChanges, DnsStaysLost
    <3>3. CASE UNCHANGED <<state, up>>
      BY <1>1, <2>8, <3>1, <3>2, <3>3 DEF Remembers
    <3>4. ASSUME NEW y \in Ours, DestroyOne(y)
          PROVE  \/ x \in state' \cup saved'.Desired \cup bak'.Desired \cup notes'.Desired
                 \/ <<"dns", x>> \in lost'
      <4>1. /\ y[1] \in on /\ place = "destroy" /\ state' = state \ {y}
            /\ lost' = lost \cup {<<"dns", f[2]>> : f \in lost \cap {<<"unnamed", y>>}}
        BY <3>4 DEF DestroyOne, Destroyable
      <4>2. CASE x = y
        <5>1. \/ y \in saved.Desired \/ <<"dns", y>> \in lost
              \/ <<"unnamed", y>> \in lost
          BY <3>1, <4>1, <4>2, OfIs DEF Learnt
        <5>2. <<"unnamed", y>> \in lost => <<"dns", y>> \in lost'
          BY <4>1
        <5> QED
          BY <1>1, <3>2, <4>2, <5>1, <5>2 DEF Remembers
      <4>3. CASE x # y
        BY <1>1, <2>8, <3>1, <3>2, <4>1, <4>3 DEF Remembers
      <4> QED
        BY <4>2, <4>3
    <3> QED
      BY <1>3, <3>3, <3>4, WhatChanges
  <2>7. \A k \in keys' : \/ k \in stacks' \cup buckets' \cup saved'.Keys \cup bak'.Keys
                        \/ <<"torn", k>> \in lost'
    <3> SUFFICES ASSUME NEW k \in keys'
                 PROVE  \/ k \in stacks' \cup buckets' \cup saved'.Keys \cup bak'.Keys
                 \/ <<"torn", k>> \in lost'
      OBVIOUS
    <3>5. CASE <<"torn", k>> \in lost
      BY <1>3, <3>5, WhatChanges, TornStaysLost
    <3> SUFFICES ASSUME <<"torn", k>> \notin lost
                 PROVE  \/ k \in stacks' \cup buckets' \cup saved'.Keys \cup bak'.Keys
                        \/ <<"torn", k>> \in lost'
      BY <3>5
    <3>1. k \in keys /\ k \in stacks \cup buckets \cup saved.Keys \cup bak.Keys
      BY <2>1 DEF Knows, Shrinks
    <3>2. CASE UNCHANGED <<stacks, buckets>>
      BY <1>1, <3>1, <3>2 DEF Remembers
    <3>3. ASSUME NEW u \in Targets, DestroyEnds(u)
          PROVE  \/ k \in stacks' \cup buckets' \cup saved'.Keys \cup bak'.Keys
                 \/ <<"torn", k>> \in lost'
      <4>1. /\ secrets[u] = "kms" => u \in saved.Keys
            /\ stacks' = stacks \ {u} \/ stacks' = stacks
            /\ buckets' = buckets
        BY <3>3 DEF DestroyEnds, Learnt, recovery
      <4> QED
        BY <1>1, <3>1, <4>1 DEF Remembers, Placed
    <3>4. ASSUME NEW b \in Buckets, DeleteBucket(b)
          PROVE  \/ k \in stacks' \cup buckets' \cup saved'.Keys \cup bak'.Keys
                 \/ <<"torn", k>> \in lost'
      <4>1. /\ sealed \cap buckets \subseteq saved.Keys /\ stacks = {} /\ stacks' = stacks
            /\ buckets' = buckets \ {b} \/ buckets' = buckets
        BY <3>4 DEF DeleteBucket, Recovers, EverythingGone
      <4>2. CASE k \in buckets
        <5>1. k \notin Targets
          BY <4>2, NukeConstants DEF NukeTypeOK
        <5> QED
          BY <1>1, <3>1, <4>1, <4>2, <5>1 DEF Remembers, Placed
      <4>3. CASE k \notin buckets
        BY <1>1, <3>1, <4>1, <4>3 DEF Remembers
      <4> QED
        BY <4>2, <4>3
    <3> QED
      BY <1>3, <3>2, <3>3, <3>4, WhatChanges
  <2> QED
    BY <2>2, <2>4, <2>5, <2>6, <2>7 DEF Knows
<1> QED
  BY <1>2, <1>3, <1>6

----------------------------------------------------------------------------
\* What a run knows of the stack it is at, and of those it is through with.

\* Between runs nobody is at a stack.
LEMMA LearntStep ==
  ASSUME NukeTypeOK, OnDisk, Knows, Keeps, Learnt, NukeNext
  PROVE  Learnt'
<1> USE DEF Learnt
<1>1. CASE NukeStart \/ Unlock
  BY <1>1 DEF NukeStart, Unlock, OnDisk
<1>2. CASE Stops \/ NukeCrash \/ End
  BY <1>2 DEF Stops, NukeCrash, End, CommandEnds
<1>3. CASE Discover \/ Confirm \/ CleanEnvironments \/ Preflight \/ Withheld
  BY <1>3 DEF Discover, Confirm, CleanEnvironments, Preflight, Withheld
<1>4. ASSUME NEW t \in Targets, Capture(t) PROVE Learnt'
  <2>1. PICK named \in SUBSET RecordsOf(t), blind \in BOOLEAN :
          r' = Learned(t, named, blind) /\ saved' = r' /\ lost' = Misses(t, named)
    BY <1>4 DEF Capture
  <2>6. named \in SUBSET Ours
    BY DEF RecordsOf, Of, Ours
  <2>2. /\ on' = {t} /\ place' = "destroy" /\ t \in stacks' /\ t \in r.Targets
        /\ state' = state /\ dns' = dns /\ secrets' = secrets
    BY <1>4 DEF Capture, Turn, outside, setting
  <2>3. /\ saved'.Targets = r.Targets
        /\ saved'.Inventory = r.Inventory \cup (Of(t) \cap state)
        /\ saved'.Desired = r.Desired \cup named
        /\ saved'.Keys = r.Keys \cup KeyOf(t)
    <3>1. Gained(saved', t, named)
      BY <2>1, <2>6, LearnedIs
    <3> QED
      BY <3>1 DEF Gained
  <2>4. ASSUME NEW x \in Of(t) \cap dns
        PROVE  \/ x \in saved'.Desired \/ <<"dns", x>> \in lost'
               \/ x \in state' /\ <<"unnamed", x>> \in lost'
    <3>1. CASE x \in state
      <4>1. x \in RecordsOf(t)
        BY <3>1 DEF RecordsOf, NukeTypeOK
      <4> QED
        BY <2>1, <2>2, <2>3, <3>1, <4>1 DEF Misses
    <3>2. CASE x \notin state
      <4>1. bak.Desired = {} /\ Within(saved, r) /\ Noted(r)
        BY <1>4, EmptyReceipt DEF Capture, Keeps, OnDisk
      <4>2. x \in r.Desired \/ <<"dns", x>> \in lost
        BY <3>2, <4>1 DEF Knows, Within, Noted
      <4> QED
        BY <1>4, <2>3, <4>2, DnsStaysLost
    <3> QED
      BY <3>1, <3>2
  <2>5. secrets[t] = "kms" => t \in saved'.Keys
    BY <2>3 DEF KeyOf
  <2> QED
    BY <2>2, <2>3, <2>4, <2>5
<1>5. ASSUME NEW t \in Targets,
             PassOver(t) \/ DestroyEnds(t) \/ Redeploy(t) \/ TearDown(t)
      PROVE  Learnt'
  BY <1>5 DEF PassOver, DestroyEnds, Redeploy, TearDown, OnDisk
<1>6. ASSUME NEW t \in Targets, NEW readable \in BOOLEAN, NEW token \in BOOLEAN,
             FinishTarget(t, readable, token)
      PROVE  Learnt'
  BY <1>6 DEF FinishTarget
<1>7. ASSUME NEW x, DestroyOne(x) PROVE Learnt'
  <2>1. /\ UNCHANGED <<stacks, dns, secrets, place, on, saved>>
        /\ state' = state \ {x} /\ lost \subseteq lost'
        /\ (<<"unnamed", x>> \in lost => <<"dns", x>> \in lost')
    BY <1>7 DEF DestroyOne, outside, setting, disk
  <2> QED
    BY <2>1
<1>11. ASSUME NEW x, Fade(x) PROVE Learnt'
  BY <1>11 DEF Fade, outside, setting, disk, seen
<1>8. ASSUME NEW b, DeleteBucket(b) PROVE Learnt'
  BY <1>8 DEF DeleteBucket
<1>9. ASSUME NEW k, ScheduleKey(k) PROVE Learnt'
  BY <1>9 DEF ScheduleKey
<1>10. ASSUME NEW fast, NEW blind, Check(fast, blind) PROVE Learnt'
  BY <1>10 DEF Check, OnDisk
<1> QED
  BY <1>1, <1>2, <1>3, <1>4, <1>5, <1>6, <1>7, <1>8, <1>9, <1>10, <1>11 DEF NukeNext

\* A discovery that every source answered misses no stack that is there, and those that
\* are not are on disk.
LEMMA SeesStep ==
  ASSUME NukeTypeOK, Placed, OnDisk, Knows, Keeps, Sees, NukeNext
  PROVE  Sees'
<1>1. CASE Discover
  <2>1. RunStep /\ Noted(r') /\ (Successful(r') => stacks \subseteq r'.Targets)
    BY <1>1, DiscoverRuns
  <2>2. saved.Targets \subseteq r'.Targets /\ bak.Targets = {}
    BY <2>1, EmptyReceipt DEF RunStep, Grows, Within, Keeps, OnDisk
  <2> QED
    BY <2>1, <2>2 DEF Knows, Sees, Noted
<1>2. CASE RunsOn /\ ~Discover
  <2>1. RunStep
    BY <1>2, RunsOnIs
  <2>2. place # "discover"
    BY <1>2, RunsAfter
  <2> QED
    BY <2>1, <2>2 DEF RunStep, Grows, Within, Sees, Successful
<1>3. CASE NukeStart \/ Stops \/ NukeCrash \/ Unlock \/ End
  BY <1>3 DEF NukeStart, Stops, NukeCrash, Unlock, End, CommandEnds, Sees
<1>4. ASSUME NEW fast, NEW blind, Check(fast, blind) PROVE Sees'
  BY <1>4 DEF Check, Sees
<1>5. ASSUME NEW x, Fade(x) PROVE Sees'
  BY <1>5 DEF Fade, Sees, Successful
<1>6. ASSUME NEW t, Redeploy(t) \/ TearDown(t) PROVE Sees'
  BY <1>6 DEF Redeploy, TearDown, Sees, Successful
<1> QED
  BY <1>1, <1>2, <1>3, <1>4, <1>5, <1>6 DEF NukeNext, RunsOn

\* A stack that is gone stays gone until somebody deploys it.
LEMMA GoneStays ==
  ASSUME Shrinks, NEW t, GoneWithAll(t),
         \A x : <<"dns", x>> \in lost => <<"dns", x>> \in lost'
  PROVE  GoneWithAll(t)'
<1>1. Of(t) \cap (state' \cup up' \cup fading') = {}
  BY DEF GoneWithAll, Shrinks
<1> QED
  BY <1>1 DEF GoneWithAll, Shrinks, Of

\* A stack that is finished with a success is gone with all it left.
LEMMA FinishedIsGone ==
  ASSUME NukeTypeOK, Placed, OnDisk, Knows, Keeps, NEW t \in Targets, t \notin stacks,
         NEW readable \in BOOLEAN, NEW token \in BOOLEAN, FinishTarget(t, readable, token),
         Successful(r')
  PROVE  GoneWithAll(t)'
<1> DEFINE mine == Of(t) \cap r.Inventory
           gone == readable /\ mine \cap (up \cup fading) = {}
<1>1. (mine = {} \/ gone) /\ (Of(t) \cap r.Desired = {} \/ token)
  BY FinishRuns
<1>2. /\ stacks' = stacks /\ state' = state /\ up' = up /\ fading' = fading /\ lost' = lost
      /\ logs' = LogsLeft(t, gone) /\ dns' = RecordsLeft(t, token) /\ place = "finish"
  BY DEF FinishTarget, seen
<1>3. Of(t) \cap state = {}
  BY OfIs DEF Placed, NukeTypeOK
<1>4. bak.Inventory = {} /\ bak.Desired = {}
  BY <1>2, EmptyReceipt DEF OnDisk
<1>5. Inventories \subseteq r.Inventory
      /\ saved.Desired \cup notes.Desired \subseteq r.Desired
  BY <1>2, <1>4 DEF Keeps, Within, Noted, Inventories
<1>6. Of(t) \cap (up \cup fading) = {}
  <2>1. Of(t) \cap (up \cup fading) \subseteq mine
    BY <1>3, <1>5 DEF Knows
  <2> QED
    BY <1>1, <2>1
<1>7. t \notin logs'
  <2> SUFFICES ASSUME t \in logs PROVE t \notin LogsLeft(t, gone)
    BY <1>2 DEF LogsLeft
  <2>1. mine # {}
    BY <1>3, <1>4, <1>5 DEF Knows
  <2> QED
    BY <1>1, <2>1 DEF LogsLeft
<1>8. \A x \in Of(t) \cap dns' : <<"dns", x>> \in lost'
  <2> SUFFICES ASSUME NEW x \in Of(t) \cap dns', <<"dns", x>> \notin lost PROVE FALSE
    BY <1>2
  <2>1. x \in dns
    BY <1>2 DEF RecordsLeft
  <2>2. x \in r.Desired
    BY <1>3, <1>4, <1>5, <2>1 DEF Knows
  <2> QED
    BY <1>1, <1>2, <2>1, <2>2 DEF RecordsLeft
<1>9. (Of(t) \cap (state \cup up \cup fading) = {})'
  BY <1>2, <1>3, <1>6 DEF Of
<1> QED
  BY <1>2, <1>7, <1>8, <1>9 DEF GoneWithAll

\* While it goes through the stacks.
Through ==
  place \in {"targets", "destroy", "finish"} /\ Successful(r) =>
    /\ \A t \in did : GoneWithAll(t)
    /\ place = "finish" => on \cap stacks = {}

\* With each stack that is finished, the ones finished before stay gone.
LEMMA ThroughIsGoneStep ==
  ASSUME NukeTypeOK, Placed, OnDisk, Knows, Keeps, Learnt, ThroughIsGone, NukeNext
  PROVE  ThroughIsGone'
<1>1. /\ place' \notin {"buckets", "end"} => did' \subseteq Targets
      /\ place' \in {"discover", "confirm"} => did' = {}
  <2> DEFINE Goal == /\ place' \notin {"buckets", "end"} => did' \subseteq Targets
                     /\ place' \in {"discover", "confirm"} => did' = {}
  <2> USE DEF ThroughIsGone
  <2>1. CASE NukeStart \/ Unlock \/ Stops \/ NukeCrash \/ End
    BY <2>1 DEF NukeStart, Unlock, Stops, NukeCrash, End, CommandEnds, OnDisk
  <2>2. CASE Discover \/ Confirm \/ CleanEnvironments \/ Preflight \/ Withheld
    BY <2>2 DEF Discover, Confirm, CleanEnvironments, Preflight, Withheld
  <2>3. ASSUME NEW t \in Targets,
               \/ Capture(t) \/ PassOver(t) \/ DestroyEnds(t)
               \/ Redeploy(t) \/ TearDown(t)
        PROVE  Goal
    BY <2>3 DEF Capture, PassOver, DestroyEnds, Redeploy, TearDown
  <2>4. ASSUME NEW t \in Targets, NEW readable \in BOOLEAN, NEW token \in BOOLEAN,
               FinishTarget(t, readable, token)
        PROVE  Goal
    BY <2>4 DEF FinishTarget
  <2>5. ASSUME NEW x, DestroyOne(x) \/ Fade(x) PROVE Goal
    BY <2>5 DEF DestroyOne, Fade
  <2>6. ASSUME NEW b, DeleteBucket(b) PROVE Goal
    BY <2>6 DEF DeleteBucket
  <2>7. ASSUME NEW k, ScheduleKey(k) PROVE Goal
    BY <2>7 DEF ScheduleKey
  <2>8. ASSUME NEW fast, NEW blind, Check(fast, blind) PROVE Goal
    BY <2>8 DEF Check
  <2> QED
    BY <2>1, <2>2, <2>3, <2>4, <2>5, <2>6, <2>7, <2>8 DEF NukeNext
<1>2. Through'
  <2>1. ASSUME NEW t \in Targets, Redeploy(t) \/ TearDown(t) PROVE Through'
    BY <2>1 DEF Redeploy, TearDown, Through
  <2>2. CASE ~\E t \in Targets : Redeploy(t) \/ TearDown(t)
    <3> SUFFICES ASSUME place' \in {"targets", "destroy", "finish"}, Successful(r')
                 PROVE  /\ \A t \in did' : GoneWithAll(t)'
                        /\ place' = "finish" => on' \cap stacks' = {}
      BY DEF Through, GoneWithAll
    <3> DEFINE Goal == /\ \A t \in did' : GoneWithAll(t)'
                       /\ place' = "finish" => on' \cap stacks' = {}
    <3>1. Shrinks
      BY <2>2, OthersShrink
    <3>2. RunsOn => RunStep /\ Successful(r)
      BY RunsOnIs DEF RunStep, Grows, Successful
    <3>3. place \in {"targets", "destroy", "finish"} /\ Successful(r) =>
            /\ \A t \in did : GoneWithAll(t)
            /\ place = "finish" => on \cap stacks = {}
      BY DEF ThroughIsGone
    <3>4. CASE NukeStart \/ Unlock \/ Stops \/ NukeCrash \/ End \/ Discover
               \/ CleanEnvironments \/ Preflight \/ Withheld
      BY <3>4 DEF NukeStart, Unlock, Stops, NukeCrash, End, CommandEnds, Discover,
                  CleanEnvironments, Preflight, Withheld
    <3>5. CASE Confirm
      BY <3>5 DEF Confirm, ThroughIsGone
    <3>6. ASSUME NEW t \in Targets, Capture(t) PROVE Goal
      <4>1. /\ did' = did /\ place' = "destroy" /\ place = "targets" /\ t \notin did
            /\ \A x : <<"dns", x>> \in lost => <<"dns", x>> \in lost'
        BY <3>6, DnsStaysLost DEF Capture, Turn
      <4> QED
        BY <3>1, <3>2, <3>3, <3>6, <4>1, GoneStays DEF RunsOn
    <3>7. ASSUME NEW t \in Targets, PassOver(t) PROVE Goal
      <4>1. /\ did' = did /\ place = "targets" /\ lost' = lost /\ on' = {t}
            /\ stacks' = stacks /\ t \notin stacks
        BY <3>7, PassOverRuns DEF PassOver, seen
      <4> QED
        BY <3>1, <3>2, <3>3, <3>7, <4>1, GoneStays DEF RunsOn
    <3>8. ASSUME NEW t \in Targets, DestroyEnds(t) PROVE Goal
      <4>1. /\ did' = did /\ place = "destroy" /\ lost' = lost /\ on' = on /\ on = {t}
            /\ stacks' = stacks \ {t}
        BY <3>8, DestroyEndsRuns DEF DestroyEnds, seen, Learnt
      <4> QED
        BY <3>1, <3>2, <3>3, <3>8, <4>1, GoneStays DEF RunsOn
    <3>9. ASSUME NEW t \in Targets, NEW readable \in BOOLEAN, NEW token \in BOOLEAN,
                 FinishTarget(t, readable, token)
          PROVE  Goal
      <4>1. /\ did' = did \cup {t} /\ place = "finish" /\ lost' = lost /\ t \in on
            /\ place' = "targets"
        BY <3>9 DEF FinishTarget, seen
      <4>2. Successful(r)
        BY <3>2, <3>9 DEF RunsOn
      <4>3. GoneWithAll(t)'
        BY <3>3, <3>9, <4>1, <4>2, FinishedIsGone
      <4> QED
        BY <3>1, <3>3, <4>1, <4>2, <4>3, GoneStays
    <3>10. ASSUME NEW x \in Ours, DestroyOne(x) PROVE Goal
      <4>1. did' = did /\ place = "destroy" /\ place' = place /\ lost \subseteq lost'
        BY <3>10 DEF DestroyOne
      <4> QED
        BY <3>1, <3>2, <3>3, <3>10, <4>1, GoneStays DEF RunsOn
    <3>11. ASSUME NEW x \in Ours, Fade(x) PROVE Goal
      <4>1. /\ did' = did /\ place' = place /\ lost' = lost /\ r' = r /\ on' = on
            /\ stacks' = stacks
        BY <3>11 DEF Fade, seen
      <4> QED
        BY <3>1, <3>3, <4>1, GoneStays
    <3>12. ASSUME NEW b, DeleteBucket(b) PROVE Goal
      BY <3>12 DEF DeleteBucket
    <3>13. ASSUME NEW k, ScheduleKey(k) PROVE Goal
      BY <3>13 DEF ScheduleKey
    <3>14. ASSUME NEW fast, NEW blind, Check(fast, blind) PROVE Goal
      BY <3>14 DEF Check
    <3> QED
      BY <2>2, <3>4, <3>5, <3>6, <3>7, <3>8, <3>9, <3>10, <3>11, <3>12, <3>13, <3>14
      DEF NukeNext
  <2> QED
    BY <2>1, <2>2
<1> QED
  BY <1>1, <1>2 DEF ThroughIsGone, Through

----------------------------------------------------------------------------
\* The recovery phase, and what is reported.

\* What is gone stays gone until somebody deploys.
LEMMA AllStaysGone ==
  ASSUME Shrinks, EverythingGone, \A t : <<"dns", t>> \in lost => <<"dns", t>> \in lost'
  PROVE  EverythingGone'
BY DEF Shrinks, EverythingGone

\* A run that succeeded so far and has cleaned the environments has removed everything.
LEMMA CleanedIsGone ==
  ASSUME NukeTypeOK, Placed, OnDisk, Sees, ThroughIsGone, CleanEnvironments, Successful(r')
  PROVE  EverythingGone'
<1>1. RunStep /\ hosts' = hosts \ (r.Environments \cup (r.Targets \cap Apps))
  BY CleanRuns
<1>2. Successful(r) /\ place = "targets" /\ r.Targets \subseteq did
  BY <1>1 DEF RunStep, Grows, Successful, CleanEnvironments
<1>3. Targets \subseteq did
  BY <1>2 DEF Sees
<1>4. Targets \subseteq r.Targets
  BY <1>2 DEF Sees
<1>5. hosts' = {}
  BY <1>1, <1>4, NukeConstants DEF NukeTypeOK
<1>6. \A t \in Targets : GoneWithAll(t)
  BY <1>2, <1>3 DEF ThroughIsGone
<1>7. \A x \in Ours : x[1] \in Targets
  BY DEF Ours
<1>8. up = {} /\ fading = {}
  BY <1>6, <1>7, OfIs DEF GoneWithAll, NukeTypeOK
<1>9. stacks = {} /\ logs = {}
  BY <1>6, NukeConstants DEF GoneWithAll, NukeTypeOK
<1>11. \A x \in dns : <<"dns", x>> \in lost
  <2> SUFFICES ASSUME NEW x \in dns PROVE <<"dns", x>> \in lost
    OBVIOUS
  <2>1. x \in Ours
    BY NukeConstants DEF NukeTypeOK, Ours
  <2>2. x[1] \in Targets /\ x \in Of(x[1])
    BY <1>7, <2>1, OfIs
  <2> QED
    BY <1>6, <2>2 DEF GoneWithAll
<1>10. UNCHANGED <<stacks, up, fading, logs, dns, lost>>
  BY DEF CleanEnvironments, seen
<1> QED
  BY <1>5, <1>8, <1>9, <1>10, <1>11 DEF EverythingGone

\* The recovery phase is entered when everything is gone, and every key is on disk.
LEMMA Enters ==
  ASSUME NukeTypeOK, Placed, OnDisk, Sees, ThroughIsGone, Recovers, Preflight,
         place' = "buckets"
  PROVE  /\ EverythingGone' /\ \A t \in Targets : Home[t] \in r'.Backends
         /\ sealed' \cap buckets' \subseteq saved'.Keys /\ did' \cap buckets' = {}
<1>1. /\ RunStep /\ Successful(r) /\ saved' = r'
      /\ sealed \cap r.Backends \cap buckets \subseteq r'.Keys
      /\ \A t \in stacks : Home[t] \notin r.Backends \cap buckets
  BY PreflightRuns
<1>2. /\ place = "preflight" /\ did' = did
      /\ UNCHANGED <<stacks, up, fading, logs, dns, hosts, lost, buckets, sealed>>
  BY DEF Preflight, outside, recovery, setting, seen
<1>3. \A t \in Targets : Home[t] \in r.Backends
  BY <1>1, <1>2 DEF Sees, OnDisk
<1>4. stacks = {}
  BY <1>1, <1>3 DEF Placed, NukeTypeOK
<1>5. EverythingGone
  BY <1>1, <1>2, <1>4 DEF Recovers
<1>6. buckets \subseteq r.Backends
  BY <1>3 DEF Placed
<1>7. did \cap buckets = {}
  BY <1>2, NukeConstants DEF ThroughIsGone, NukeTypeOK
<1>8. EverythingGone'
  BY <1>2, <1>5 DEF EverythingGone
<1> QED
  BY <1>1, <1>2, <1>3, <1>6, <1>7, <1>8 DEF RunStep, Grows

\* Bucket by bucket, and key by key, it goes on like that.
LEMMA GoesOn ==
  ASSUME NukeTypeOK, OnDisk, Keeps, Recovers, place = "buckets", RunStep, Shrinks,
         lost' = lost, sealed' = sealed, did' \cap buckets' = {}
  PROVE  /\ EverythingGone' /\ \A t \in Targets : Home[t] \in r'.Backends
         /\ sealed' \cap buckets' \subseteq saved'.Keys /\ did' \cap buckets' = {}
<1>1. EverythingGone'
  BY AllStaysGone DEF Recovers
<1>2. saved.Keys \subseteq saved'.Keys
  BY DEF Keeps, Within, RunStep, Stored, Grows
<1> QED
  BY <1>1, <1>2 DEF Recovers, RunStep, Grows, Shrinks

\* Through the gate, and bucket by bucket.
LEMMA RecoversStep ==
  ASSUME NukeTypeOK, Placed, OnDisk, Keeps, Sees, ThroughIsGone, Recovers, NukeNext
  PROVE  Recovers'
<1> DEFINE Phase == /\ place = "preflight" /\ Successful(r) /\ stacks = {} => EverythingGone
                    /\ place = "buckets" =>
                         /\ EverythingGone
                         /\ \A t \in Targets : Home[t] \in r.Backends
                         /\ sealed \cap buckets \subseteq saved.Keys
                         /\ did \cap buckets = {}
                    /\ place = "end" => ~Successful(r) \/ broken
<1> SUFFICES Phase'
  BY DEF Recovers
<1>1. CASE NukeStart \/ Stops \/ NukeCrash \/ Unlock \/ Discover \/ Confirm \/ End
  BY <1>1 DEF NukeStart, Stops, NukeCrash, Unlock, Discover, Confirm, End, CommandEnds
<1>2. CASE CleanEnvironments
  <2>1. place' = "preflight"
    BY <1>2 DEF CleanEnvironments
  <2> QED
    BY <1>2, <2>1, CleanedIsGone
<1>3. CASE Preflight
  <2>1. CASE place' = "buckets"
    BY <1>3, <2>1, Enters
  <2>2. CASE place' = "end" /\ ~Successful(r')
    BY <2>2 DEF Successful
  <2> QED
    BY <1>3, <2>1, <2>2, PreflightRuns
<1>4. CASE Withheld
  <2>1. place' = "end" /\ (~Successful(r') \/ broken')
    BY <1>4, WithheldRuns DEF Withheld
  <2> QED
    BY <2>1 DEF Successful
<1>5. ASSUME NEW t \in Targets, Capture(t) \/ PassOver(t) \/ DestroyEnds(t) PROVE Phase'
  BY <1>5 DEF Capture, PassOver, DestroyEnds
<1>6. ASSUME NEW t \in Targets, NEW readable, NEW token, FinishTarget(t, readable, token)
      PROVE  Phase'
  BY <1>6 DEF FinishTarget
<1>7. ASSUME NEW x \in Ours, DestroyOne(x) PROVE Phase'
  BY <1>7 DEF DestroyOne
<1>8. ASSUME NEW x \in Ours, Fade(x) PROVE Phase'
  <2>1. /\ UNCHANGED <<place, r, broken, saved, did, stacks, up, logs, dns, hosts, lost,
                       buckets, sealed>>
        /\ fading' \subseteq fading
    BY <1>8 DEF Fade, outside, recovery, setting, disk, seen
  <2>2. EverythingGone => EverythingGone'
    BY <2>1 DEF EverythingGone
  <2> QED
    BY <2>1, <2>2 DEF Recovers, Successful
<1>9. ASSUME NEW b \in Buckets, DeleteBucket(b) PROVE Phase'
  <2>1. /\ RunStep
        /\ \/ place' = "buckets" /\ b \notin buckets'
           \/ place' = "end" /\ (~Successful(r') \/ broken')
    BY <1>9, DeleteBucketRuns
  <2>2. CASE place' = "end" /\ (~Successful(r') \/ broken')
    BY <2>2 DEF Successful
  <2>3. CASE place' = "buckets" /\ b \notin buckets'
    <3>1. /\ place = "buckets" /\ did' = did \cup {b} /\ lost' = lost /\ sealed' = sealed
          /\ buckets' \subseteq buckets
      BY <1>9, DeleteBucketRuns DEF DeleteBucket, setting, seen
    <3>2. did' \cap buckets' = {}
      BY <2>3, <3>1 DEF Recovers
    <3>3. Shrinks
      BY <1>9, <3>1 DEF DeleteBucket, Shrinks, outside
    <3> QED
      BY <2>1, <2>3, <3>1, <3>2, <3>3, GoesOn
  <2> QED
    BY <2>1, <2>2, <2>3
<1>10. ASSUME NEW k \in Targets \cup Buckets, ScheduleKey(k) PROVE Phase'
  <2>1. /\ RunStep /\ Shrinks /\ place = "buckets" /\ place' = "buckets" /\ lost' = lost
        /\ sealed' = sealed /\ did' = did /\ buckets' = buckets
    BY <1>10, ScheduleKeyRuns DEF ScheduleKey, Shrinks, outside, setting, seen
  <2>2. did' \cap buckets' = {}
    BY <2>1 DEF Recovers
  <2> QED
    BY <2>1, <2>2, GoesOn
<1>11. ASSUME NEW fast, NEW blind, Check(fast, blind) PROVE Phase'
  BY <1>11 DEF Check
<1>12. ASSUME NEW t \in Targets, Redeploy(t) PROVE Phase'
  BY <1>12, RedeployIs
<1>13. ASSUME NEW t \in Targets, TearDown(t) PROVE Phase'
  BY <1>13, TearDownIs
<1> QED
  BY <1>1, <1>2, <1>3, <1>4, <1>5, <1>6, <1>7, <1>8, <1>9, <1>10, <1>11, <1>12, <1>13
  DEF NukeNext

\* A run that ends with nothing but successes leaves nothing.
LEMMA EndMeansGone ==
  ASSUME NukeTypeOK, Placed, OnDisk, Knows, Keeps, Recovers, End, Successful(r), ~broken
  PROVE  /\ EverythingGone /\ buckets = {}
         /\ \A k \in keys : <<"torn", k>> \in lost
<1>1. /\ place = "buckets" /\ BucketsDone(r)
      /\ \A k \in r.Keys \cap keys : <<"key", k>> \in r.Bad
  BY DEF End, Recovers
<1>2. EverythingGone /\ did \cap buckets = {} /\ \A t \in Targets : Home[t] \in r.Backends
  BY <1>1 DEF Recovers
<1>3. buckets = {}
  BY <1>1, <1>2 DEF Placed, BucketsDone
<1>4. \A k \in keys : k \in r.Keys \/ <<"torn", k>> \in lost
  BY <1>1, <1>2, <1>3, EmptyReceipt DEF Knows, Keeps, Within, OnDisk, EverythingGone
<1>5. r.Keys \cap keys = {}
  BY <1>1 DEF Successful
<1> QED
  BY <1>2, <1>3, <1>4, <1>5

\* After "Nuke finished" only a deployment makes anything appear.
LEMMA NukedMeansGoneStep ==
  ASSUME NukeTypeOK, Placed, OnDisk, Knows, Keeps, Recovers, NukedMeansGone, NukeNext
  PROVE  NukedMeansGone'
<1>1. CASE End
  <2>1. UNCHANGED <<stacks, up, fading, logs, dns, hosts, lost, buckets, keys>>
        /\ nuked' = (nuked \/ (Successful(r) /\ ~broken))
    BY <1>1 DEF End, outside, recovery
  <2>2. nuked' => /\ EverythingGone /\ buckets = {}
                  /\ \A k \in keys : <<"torn", k>> \in lost
    BY <1>1, <2>1, EndMeansGone DEF NukedMeansGone
  <2> QED
    BY <2>1, <2>2 DEF NukedMeansGone, EverythingGone
<1>2. CASE \E t \in Targets : Redeploy(t)
  BY <1>2 DEF Redeploy, NukedMeansGone
<1>4. CASE \E t \in Targets : TearDown(t)
  BY <1>4, TearDownIs DEF NukedMeansGone, EverythingGone
<1>3. CASE ~End /\ ~\E t \in Targets : Redeploy(t) \/ TearDown(t)
  <2>1. Shrinks
    BY <1>3, OthersShrink
  <2>2. nuked' = nuked
    <3>1. CASE RunsOn
      BY <3>1, RunsOnIs DEF RunStep
    <3>2. CASE NukeStart \/ Stops \/ NukeCrash \/ Unlock
      BY <3>2 DEF NukeStart, Stops, NukeCrash, Unlock, seen
    <3>3. CASE \E x \in Ours : Fade(x)
      BY <3>3 DEF Fade, seen
    <3>4. CASE \E fast \in BOOLEAN, blind \in SUBSET {"dns", "host"} : Check(fast, blind)
      BY <3>4 DEF Check
    <3> QED
      BY <1>3, <3>1, <3>2, <3>3, <3>4 DEF NukeNext, RunsOn
  <2>3. stacks = {} => lost' = lost
    <3>1. \A t \in Targets : Capture(t) => stacks # {}
      BY DEF Capture
    <3>2. \A x \in Ours : DestroyOne(x) => stacks # {}
      BY DEF DestroyOne, Destroyable, Placed
    <3> QED
      BY <1>3, <3>1, <3>2, WhatChanges
  <2> SUFFICES ASSUME nuked' PROVE /\ EverythingGone' /\ buckets' = {}
                                   /\ \A k \in keys' : <<"torn", k>> \in lost'
    BY DEF NukedMeansGone
  <2>4. /\ EverythingGone /\ buckets = {} /\ lost' = lost
        /\ \A k \in keys : <<"torn", k>> \in lost
    BY <2>2, <2>3 DEF NukedMeansGone, EverythingGone
  <2>5. EverythingGone'
    BY <2>1, <2>4, AllStaysGone
  <2> QED
    BY <2>1, <2>4, <2>5 DEF Shrinks
<1> QED
  BY <1>1, <1>2, <1>3, <1>4

\* A run's report has not been checked, and a check looks at everything that is reported.
LEMMA CheckedStep ==
  ASSUME NukeTypeOK, Placed, OnDisk, Checked, NukeNext
  PROVE  Checked'
<1> SUFFICES /\ Reads(r') = {}
             /\ checked' => Later(saved') /\ Later(bak')
  BY DEF Checked, Right, Later, Reads
<1> DEFINE Goal == /\ Reads(r') = {}
                   /\ checked' => Later(saved') /\ Later(bak')
<1>1. r \in Receipt /\ saved \in Receipt /\ bak \in Receipt
  BY DEF NukeTypeOK
<1>2. ~(\E t \in Targets : Redeploy(t)) =>
        Shrinks /\ (checked => Later(saved) /\ Later(bak))
  BY <1>1, OthersShrink, RightStays DEF Checked
<1>3. Later(NoReceipt) /\ Reads(NoReceipt) = {}
  BY EmptyReceipt DEF Later, Reads
<1>4. \A rec : Reads(rec) = {} => Later(rec)
  BY DEF Later
<1>5. CASE \E t \in Targets : Redeploy(t)
  BY <1>5 DEF Redeploy, Checked
<1>6. CASE ~\E t \in Targets : Redeploy(t)
  <2>1. checked => Later(saved) /\ Later(bak)
    BY <1>2, <1>6
  <2>2. CASE RunsOn
    <3>1. /\ Reads(r') = {} /\ checked' = checked
          /\ \/ saved' = r' /\ bak' = NoReceipt
             \/ saved' = saved /\ bak' = bak
      BY <2>2, RunsOnIs DEF RunStep, Grows, Stored, Checked
    <3> QED
      BY <1>3, <1>4, <2>1, <3>1
  <2>3. CASE NukeStart
    <3>1. Reads(r') = {}
      BY <1>1, <2>3, ResumedIs DEF NukeStart, Reads
    <3> QED
      BY <2>1, <2>3, <3>1 DEF NukeStart
  <2>4. CASE Stops \/ NukeCrash
    BY <1>3, <2>1, <2>4 DEF Stops, NukeCrash, CommandEnds, seen
  <2>5. CASE Unlock
    BY <1>3, <2>1, <2>5 DEF Unlock, Checked, seen
  <2>6. CASE End
    <3>1. Reads(Retained(r)) = {}
      BY RetainedIs DEF Checked
    <3>2. /\ r' = NoReceipt /\ checked' = checked
          /\ \/ saved' = saved /\ bak' = bak
             \/ saved' = Retained(r) /\ bak' = NoReceipt
      BY <2>6, EndIs DEF End, Halts
    <3> QED
      BY <1>3, <1>4, <2>1, <3>1, <3>2
  <2>7. ASSUME NEW fast \in BOOLEAN, NEW blind \in SUBSET {"dns", "host"},
             Check(fast, blind)
        PROVE  Goal
    <3>1. saved' \in Receipt /\ (checked' => Right(saved'))
      BY <2>7, CheckIs DEF Checked
    <3>2. checked' => Later(saved')
      BY <1>2, <1>6, <3>1, RightStays
    <3>3. r' = r /\ bak' = NoReceipt
      BY <2>7 DEF Check
    <3> QED
      BY <1>3, <3>2, <3>3 DEF Checked
  <2>8. ASSUME NEW x \in Ours, Fade(x) PROVE Goal
    BY <2>1, <2>8 DEF Fade, disk, seen, Checked
  <2>9. ASSUME NEW t \in Targets, TearDown(t) PROVE Goal
    BY <2>1, <2>9, TearDownIs DEF Checked
  <2> QED
    BY <1>6, <2>2, <2>3, <2>4, <2>5, <2>6, <2>7, <2>8, <2>9 DEF NukeNext, RunsOn
<1> QED
  BY <1>5, <1>6

----------------------------------------------------------------------------
\* The theorems.

\* The inductive invariant holds at first, ...
LEMMA NukeInitInv == NukeInit => NukeInv
<1> SUFFICES ASSUME NukeInit PROVE NukeInv
  OBVIOUS
<1> USE DEF NukeInit
<1>1. NukeTypeOK
  BY NukeInitTyped
<1>2. \A t \in Targets : Of(t) \cap Ours # {}
  <2> SUFFICES ASSUME NEW t \in Targets PROVE Of(t) \cap Ours # {}
    OBVIOUS
  <2>1. PICK y \in Resources : TRUE
    BY NukeConstants
  <2>2. <<t, y>> \in Of(t) /\ <<t, y>> \in Ours
    BY DEF Of, Ours
  <2> QED
    BY <2>2
<1>3. Placed
  BY NukeConstants DEF Placed, Ours
<1>4. OnDisk /\ Keeps /\ Learnt /\ Sees /\ ThroughIsGone /\ Recovers /\ NukedMeansGone
  BY EmptyReceipt DEF OnDisk, Keeps, Learnt, Sees, ThroughIsGone, Recovers, NukedMeansGone
<1>5. Knows
  <2>1. \A x \in dns : x \in state
    BY NukeConstants DEF Ours
  <2> QED
    BY <1>2, <2>1, NukeConstants, EmptyReceipt DEF Knows, Inventories
<1>6. Checked
  BY EmptyReceipt DEF Checked, Right, Reads
<1> QED
  BY <1>1, <1>3, <1>4, <1>5, <1>6 DEF NukeInv

\* ... every step keeps it, ...
LEMMA NukeStep == NukeInv /\ NukeNext => NukeInv'
<1> SUFFICES ASSUME NukeInv, NukeNext PROVE NukeInv'
  OBVIOUS
<1>1. /\ NukeTypeOK /\ Placed /\ OnDisk /\ Knows /\ Keeps /\ Learnt /\ Sees
      /\ ThroughIsGone /\ Recovers /\ NukedMeansGone /\ Checked
  BY DEF NukeInv
<1>2. NukeTypeOK' /\ Placed' /\ OnDisk' /\ Keeps'
  BY <1>1, NukeTypedStep, PlacedStep, OnDiskStep, KeepsStep
<1>3. Knows' /\ Learnt' /\ Sees' /\ ThroughIsGone'
  BY <1>1, KnowsStep, LearntStep, SeesStep, ThroughIsGoneStep
<1>4. Recovers' /\ NukedMeansGone' /\ Checked'
  BY <1>1, RecoversStep, NukedMeansGoneStep, CheckedStep
<1> QED
  BY <1>2, <1>3, <1>4 DEF NukeInv

\* ... and so does doing nothing.
LEMMA NukeStutters == NukeInv /\ UNCHANGED nukeVars => NukeInv'
<1> SUFFICES ASSUME NukeInv, UNCHANGED nukeVars PROVE NukeInv'
  OBVIOUS
<1> USE DEF NukeInv, nukeVars
<1>1. NukeTypeOK'
  BY DEF NukeTypeOK
<1>2. Placed'
  BY DEF Placed
<1>3. OnDisk'
  BY DEF OnDisk
<1>4. Knows'
  BY DEF Knows, Inventories
<1>5. Keeps' /\ Learnt'
  BY DEF Keeps, Within, Noted, Learnt
<1>6. Sees'
  BY DEF Sees, Successful
<1>7. ThroughIsGone'
  BY DEF ThroughIsGone, Successful, GoneWithAll
<1>8. Recovers' /\ NukedMeansGone'
  BY DEF Recovers, Successful, EverythingGone, NukedMeansGone
<1>9. Checked'
  BY DEF Checked, Right, Reads, Present, Logged
<1> QED
  BY <1>1, <1>2, <1>3, <1>4, <1>5, <1>6, <1>7, <1>8, <1>9

\* The inductive invariant holds, however many stacks, buckets, runs, failures, deaths and
\* deployments there are.
THEOREM NukeInvariant == NukeSpec => []NukeInv
<1>1. NukeInv /\ [NukeNext]_nukeVars => NukeInv'
  BY NukeStep, NukeStutters
<1> QED
  BY NukeInitInv, <1>1, PTL DEF NukeSpec

\* nuke never loses sight of what it has yet to remove: every resource that is in no state
\* any more is in the receipt on disk, every key of a stack or a bucket that is gone is
\* there until it is pending deletion, "Nuke finished" leaves nothing, and a report whose
\* full and fast checks found everything absent is right.
THEOREM NukeIsSound == NukeSpec => []NukeSound
<1>1. NukeInv => NukeSound
  <2> SUFFICES ASSUME NukeInv PROVE NukeSound
    OBVIOUS
  <2>1. KeysRemembered /\ NothingForgotten
    BY DEF NukeInv, Knows, Inventories, KeysRemembered, NothingForgotten
  <2>2. CheckedTruly
    BY DEF NukeInv, Checked, Right, Reads, CheckedTruly
  <2> QED
    BY <2>1, <2>2 DEF NukeInv, NukeSound
<1> QED
  BY NukeInvariant, <1>1, PTL

\* No bucket goes before every stack, resource, log, role and record is gone, and no key
\* before every bucket, whatever earlier runs failed at and whoever deploys in between:
\* the gate cleanupRecovery passes is enough.
THEOREM RecoveryIsLast == NukeSpec => RecoveryLast
<1>1. NukeInv /\ NukeNext =>
        /\ buckets' \subseteq buckets /\ buckets' # buckets => EverythingGone
        /\ ~(keys \subseteq keys') => buckets = {}
  <2> SUFFICES ASSUME NukeInv, NukeNext
               PROVE  /\ buckets' \subseteq buckets /\ buckets' # buckets => EverythingGone
                      /\ ~(keys \subseteq keys') => buckets = {}
    OBVIOUS
  <2>1. NukeTypeOK /\ Placed /\ Recovers
    BY DEF NukeInv
  <2>2. CASE \E t \in Targets : Redeploy(t)
    BY <2>1, <2>2, RedeployIs
  <2>4. CASE \E t \in Targets : TearDown(t)
    BY <2>1, <2>4, TearDownIs
  <2>3. CASE ~\E t \in Targets : Redeploy(t) \/ TearDown(t)
    <3>1. UNCHANGED buckets \/ EverythingGone
      BY <2>1, <2>3, WhatChanges DEF DeleteBucket, Recovers
    <3>2. ASSUME NEW k \in Targets \cup Buckets, ScheduleKey(k) PROVE buckets = {}
      <4>1. place = "buckets" /\ r.Backends \subseteq did
        BY <3>2 DEF ScheduleKey, BucketsDone
      <4>2. did \cap buckets = {} /\ \A t \in Targets : Home[t] \in r.Backends
        BY <2>1, <4>1 DEF Recovers
      <4> QED
        BY <2>1, <4>1, <4>2 DEF Placed
    <3>3. UNCHANGED keys \/ buckets = {}
      BY <2>1, <2>3, <3>2, WhatChanges
    <3> QED
      BY <3>1, <3>3
  <2> QED
    BY <2>2, <2>3, <2>4
<1>2. NukeInv /\ [NukeNext]_nukeVars =>
        [/\ buckets' \subseteq buckets /\ buckets' # buckets => EverythingGone
         /\ ~(keys \subseteq keys') => buckets = {}]_nukeVars
  BY <1>1
<1> QED
  BY NukeInvariant, <1>2, PTL DEF NukeSpec, RecoveryLast

\* No run, death or repair takes a target, a resource, a record or a key out of the receipt
\* and its copy: RecordAndSave, os.Rename and the operator's repair lose nothing.
THEOREM DiskRemembers == NukeSpec => [][Remembers]_nukeVars
<1>1. NukeInv /\ [NukeNext]_nukeVars => [Remembers]_nukeVars
  BY NothingIsForgotten DEF NukeInv
<1> QED
  BY NukeInvariant, <1>1, PTL DEF NukeSpec

\* When a run whose results are all successes has passed through the stacks, there is none
\* whose state, resources, logs or records it leaves, whatever the runs before it did:
\* what the gate of the recovery phase relies on.
THEOREM ThroughMeansGone ==
  NukeSpec => [](place \in {"targets", "destroy", "finish"} /\ Successful(r)
                   => \A t \in did : GoneWithAll(t))
<1>1. NukeInv => (place \in {"targets", "destroy", "finish"} /\ Successful(r)
                    => \A t \in did : GoneWithAll(t))
  BY DEF NukeInv, ThroughIsGone
<1> QED
  BY NukeInvariant, <1>1, PTL
=============================================================================
