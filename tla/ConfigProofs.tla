----------------------------- MODULE ConfigProofs -----------------------------
(* What holds of the runtime configuration and of who may change it, for any number of
   administrators, deployments, requests and setups.

   The history is kept because whatever is to be written was read from a revision that
   is in it: a read that is current again names the configuration that is there
   (ReadSound), so a transaction that checks the revision alone also knows the text.
   Grants are kept by people other than the one they are about (AskSound), and the pool
   is strict as soon as a setup has taken its first step, not only from the first grant
   on (PoolSound).

   Then of the users whom the configuration governs while it changes: what a visit has
   read of an account and its facts is never taken back, a policy it has read stays in
   the history, and the ticket it found good is its own (OnboardingInv).               *)
EXTENDS Onboarding, TLAPS

----------------------------------------------------------------------------
\* The inductive invariant.

\* A lease has a revision, and the defaults of no lease are no defaults.
LeaseSound(rw, cf) ==
  /\ rw.Lock # 0 => rw.Revision # 0
  /\ cf.Text = Nothing => cf = NoConfig

\* What a synchronization read is in the history.
ReadSound(y, vs) ==
  /\ y.token # 0 /\ y.revision # 0
  /\ y.old.Text = Nothing => y.old = NoConfig
  /\ y.old.Text # Nothing =>
       \E v \in vs : v.Revision = y.old.Revision /\ v.Text = y.old.Text

\* What an administrator asks for.
AskSound(q) ==
  /\ q.what = "publish" => q.text \in Contents
  /\ q.what = "grant" => q.target # q.by

\* A pool a setup has touched demands its factors, or is being put right.
PoolSound ==
  marker \/ (\E s \in setups : s.at # "set")
    => pool.mfa \/ \E s \in setups : s.at \in {"again", "died"}

ConfigInv ==
  /\ ConfigTypeOK /\ HistoryTold /\ ManagerRemains /\ PoolSound
  /\ LeaseSound(indexRow, config)
  /\ \A y \in syncs : ReadSound(y, versions)
  /\ \A q \in asks : AskSound(q)

----------------------------------------------------------------------------
\* Types.

LEMMA GrantsTyped == NoGrant \in Grant /\ FirstGrant \in Grant
BY DEF NoGrant, FirstGrant, Grant

LEMMA NoConfigTyped == NoConfig \in Config /\ NoConfig.Text = Nothing
                       /\ NoConfig.Revision = 0 /\ NoConfig.Generation = 0
                       /\ ~NoConfig.Override
BY DEF NoConfig, Config

\* What the operations on a row make of it is a row.
LEMMA BegunTyped ==
  ASSUME NEW rw \in Row, NEW token \in Nat
  PROVE  /\ Begun(rw, token) \in Row /\ Begun(rw, token).Lock = token
         /\ Begun(rw, token).Revision = rw.Revision + 1
<1>1. rw.Revision + 1 \in Nat
  BY DEF Row
<1> QED BY <1>1 DEF Begun, Row

\* A deployed environment is one that a lease has published.
LEMMA DeployedRow ==
  ASSUME NEW c \in Contents
  PROVE  LET rw == Published(Begun(NoRow, 1), [token |-> 1, revision |-> 1, content |-> c],
                             Nothing, 0)
         IN rw \in Row /\ rw.Lock = 0
<1> DEFINE b == Begun(NoRow, 1)
           q == [token |-> 1, revision |-> 1, content |-> c]
<1>1. NoRow \in Row
  BY DEF NoRow, Row
<1>2. b \in Row
  BY <1>1, BegunTyped
<1>3. /\ q.token \in Nat /\ q.content \in Contents \cup {Nothing}
      /\ (IF Nothing = q.content THEN 0 ELSE q.revision) \in Nat
  OBVIOUS
<1> HIDE DEF b, q
<1>4. Published(b, q, Nothing, 0) \in Row /\ Published(b, q, Nothing, 0).Lock = 0
  BY <1>2, <1>3 DEF Published, Row
<1> QED BY <1>4 DEF b, q

LEMMA InitInv == ConfigInit /\ load \in Nat => ConfigInv
<1> SUFFICES ASSUME ConfigInit, load \in Nat PROVE ConfigInv
  OBVIOUS
<1>1. /\ asks = {} /\ syncs = {} /\ setups = {} /\ pool \in [mfa : BOOLEAN, choices : BOOLEAN]
      /\ load \in Nat
  BY DEF ConfigInit
<1>2. CASE /\ indexRow = NoRow /\ config = NoConfig /\ versions = {}
           /\ grants = [a \in Admins |-> NoGrant] /\ marker = FALSE /\ invited = {}
  <2>1. indexRow \in Row /\ indexRow.Lock = 0
    BY <1>2 DEF NoRow, Row
  <2>2. ConfigTypeOK
    BY <1>1, <1>2, <2>1, GrantsTyped, NoConfigTyped DEF ConfigTypeOK
  <2>3. HistoryTold
    BY <1>2, NoConfigTyped DEF HistoryTold
  <2> QED BY <1>1, <1>2, <2>1, <2>2, <2>3 DEF ConfigInv, ManagerRemains, PoolSound, LeaseSound
<1>3. ASSUME NEW c \in Contents, NEW a \in Admins, pool.mfa,
             indexRow = Published(Begun(NoRow, 1), [token |-> 1, revision |-> 1, content |-> c],
                             Nothing, 0),
             config = [Revision |-> 0, Text |-> c, Override |-> FALSE, Generation |-> 1],
             versions = {[Revision |-> 0, Text |-> c, By |-> "deployment"]},
             grants = [b \in Admins |-> IF b = a THEN FirstGrant ELSE NoGrant],
             marker = TRUE, invited = {a}
      PROVE  ConfigInv
  <2>1. indexRow \in Row /\ indexRow.Lock = 0
    BY <1>3, DeployedRow
  <2>2. config \in Config /\ config.Text = c /\ config.Revision = 0 /\ c # Nothing
    BY <1>3, NothingPublished DEF Config
  <2>3. versions \subseteq Version
    BY <1>3 DEF Version
  <2>4. ConfigTypeOK
    BY <1>1, <1>3, <2>1, <2>2, <2>3, GrantsTyped DEF ConfigTypeOK
  <2>5. HistoryTold
    <3>1. 0..config.Revision = {0}
      BY <2>2
    <3> QED BY <1>3, <2>2, <3>1 DEF HistoryTold
  <2>6. ManagerRemains
    BY <1>3 DEF ManagerRemains, FirstGrant
  <2> QED BY <1>1, <1>3, <2>1, <2>2, <2>4, <2>5, <2>6 DEF ConfigInv, PoolSound, LeaseSound
<1> QED BY <1>2, <1>3 DEF ConfigInit

----------------------------------------------------------------------------
\* The history grows at its end, or not at all.

LEMMA HistoryGrows ==
  ASSUME ConfigInv, config.Text # Nothing, NEW text \in Contents,
         NEW by \in Admins \cup {"deployment"},
         config'.Revision = config.Revision + 1, config'.Text = text,
         versions' = versions \cup {[Revision |-> config.Revision + 1, Text |-> text, By |-> by]}
  PROVE  HistoryTold' /\ versions' \subseteq Version
<1> DEFINE n == [Revision |-> config.Revision + 1, Text |-> text, By |-> by]
<1>1. config.Revision \in Nat /\ text # Nothing /\ \A v \in versions : v.Revision \in Nat
  BY NothingPublished DEF ConfigInv, ConfigTypeOK, Config, Version
<1>2. n \in Version /\ n.Revision = config.Revision + 1 /\ n.Text = text
  BY <1>1 DEF Version
<1>3. versions' = versions \cup {n}
  OBVIOUS
<1> HIDE DEF n
<1>4. /\ \A r \in 0..config.Revision : \E v \in versions : v.Revision = r
      /\ \A v, w \in versions : v.Revision = w.Revision => v = w
      /\ \A v \in versions : v.Revision <= config.Revision
  BY DEF ConfigInv, HistoryTold
<1>5. \A r \in 0..config'.Revision : \E v \in versions' : v.Revision = r
  <2> TAKE r \in 0..config'.Revision
  <2>1. CASE r = config.Revision + 1
    BY <2>1, <1>2, <1>3
  <2>2. CASE r # config.Revision + 1
    <3>1. r \in 0..config.Revision
      BY <2>2, <1>1
    <3> QED BY <3>1, <1>3, <1>4
  <2> QED BY <2>1, <2>2
<1>6. \A v, w \in versions' : v.Revision = w.Revision => v = w
  <2> SUFFICES ASSUME NEW v \in versions', NEW w \in versions', v.Revision = w.Revision
               PROVE  v = w
    OBVIOUS
  <2>1. \A u \in versions : u.Revision # n.Revision
    <3> TAKE u \in versions
    <3>1. u.Revision \in Nat /\ u.Revision <= config.Revision
      BY <1>1, <1>4
    <3> QED BY <3>1, <1>1, <1>2
  <2> QED BY <2>1, <1>3, <1>4
<1>7. \A v \in versions' : v.Revision <= config'.Revision
  <2> TAKE v \in versions'
  <2>1. CASE v = n
    BY <2>1, <1>1, <1>2
  <2>2. CASE v \in versions
    <3>1. v.Revision \in Nat /\ v.Revision <= config.Revision
      BY <2>2, <1>1, <1>4
    <3> QED BY <3>1, <1>1
  <2> QED BY <2>1, <2>2, <1>3
<1>8. \E v \in versions' : v.Revision = config'.Revision /\ v.Text = config'.Text
  BY <1>2, <1>3
<1> QED BY <1>1, <1>2, <1>3, <1>5, <1>6, <1>7, <1>8 DEF HistoryTold, ConfigInv, ConfigTypeOK

\* Versions are never removed, so what was read stays in the history.
LEMMA ReadsStay ==
  ASSUME ConfigInv, versions \subseteq versions'
  PROVE  \A y \in syncs : ReadSound(y, versions')
BY DEF ConfigInv, ReadSound

----------------------------------------------------------------------------
\* Deployments.

LEMMA LeaseKeeps == ASSUME ConfigInv, Reserve \/ Yield PROVE ConfigInv'
<1>1. indexRow \in Row /\ indexRow.Revision \in Nat /\ load \in Nat
  BY DEF ConfigInv, ConfigTypeOK, Row
<1>2. UNCHANGED <<config, versions, grants, marker, pool, invited, setups, asks, syncs>>
  BY DEF Reserve, Yield, settings, access, people
<1>3. ASSUME indexRow' \in Row, load' \in Nat, LeaseSound(indexRow', config') PROVE ConfigInv'
  <2>1. ConfigTypeOK'
    BY <1>2, <1>3 DEF ConfigInv, ConfigTypeOK
  <2>2. HistoryTold' /\ ManagerRemains' /\ PoolSound'
    BY <1>2 DEF ConfigInv, HistoryTold, ManagerRemains, PoolSound
  <2>3. (\A y \in syncs' : ReadSound(y, versions')) /\ \A q \in asks' : AskSound(q)
    BY <1>2 DEF ConfigInv
  <2> QED BY <1>3, <2>1, <2>2, <2>3 DEF ConfigInv
<1>4. CASE Reserve
  <2>1. indexRow' = Begun(indexRow, indexRow.Revision + 1) /\ load' = load + 1
    BY <1>4 DEF Reserve
  <2>2. indexRow.Revision + 1 \in Nat /\ indexRow.Revision + 1 # 0 /\ load + 1 \in Nat
    BY <1>1
  <2>3. /\ Begun(indexRow, indexRow.Revision + 1) \in Row
        /\ Begun(indexRow, indexRow.Revision + 1).Revision = indexRow.Revision + 1
    BY <1>1, <2>2, BegunTyped, Zenon
  <2>4. LeaseSound(indexRow', config')
    BY <1>2, <2>1, <2>2, <2>3 DEF ConfigInv, LeaseSound
  <2> QED BY <2>1, <2>2, <2>3, <2>4, <1>3
<1>5. CASE Yield
  <2>1. indexRow' = Abandoned(indexRow, [token |-> indexRow.Lock]) /\ load' = load
    BY <1>5 DEF Yield
  <2>2. indexRow' \in Row /\ indexRow'.Lock = 0
    BY <1>1, <2>1 DEF Abandoned, Row
  <2>3. LeaseSound(indexRow', config')
    BY <1>2, <2>2 DEF ConfigInv, LeaseSound
  <2> QED BY <1>1, <2>1, <2>2, <2>3, <1>3
<1> QED BY <1>4, <1>5

LEMMA SyncReadKeeps == ASSUME ConfigInv, SyncRead PROVE ConfigInv'
<1>1. PICK c \in Contents :
        syncs' = syncs \cup {[token |-> indexRow.Lock, revision |-> indexRow.Revision, text |-> c,
                              old |-> config]}
  BY DEF SyncRead
<1> DEFINE y == [token |-> indexRow.Lock, revision |-> indexRow.Revision, text |-> c,
                 old |-> config]
<1>2. /\ indexRow.Lock \in Nat /\ indexRow.Revision \in Nat
      /\ indexRow.Lock # 0 /\ indexRow.Revision # 0
      /\ config \in Config /\ load \in Nat
  BY DEF ConfigInv, ConfigTypeOK, Row, SyncRead, LeaseSound
<1>3. y \in Syncs
  BY <1>2 DEF Syncs
<1>4. y.token # 0 /\ y.revision # 0 /\ y.old = config
  BY <1>2
<1>5. syncs' = syncs \cup {y}
  BY <1>1
<1> HIDE DEF y
<1>6. ReadSound(y, versions)
  BY <1>4 DEF ReadSound, ConfigInv, LeaseSound, HistoryTold
<1>7. UNCHANGED <<indexRow, config, versions, grants, marker, pool, invited, setups, asks>>
      /\ load' = load + 1
  BY DEF SyncRead, lease, settings, access, people
<1> QED BY <1>2, <1>3, <1>5, <1>6, <1>7
        DEF ConfigInv, ConfigTypeOK, HistoryTold, ManagerRemains, PoolSound

\* What a synchronization writes: the first configuration, one more entry of the history,
\* or the same text for a later lease.
LEMMA SyncWrites ==
  ASSUME ConfigInv, NEW y \in syncs, SyncWrite(y)
  PROVE  \/ UNCHANGED settings
         \/ /\ SyncHolds(y)
            /\ config' \in Config /\ config'.Text = y.text
            /\ ~config'.Override /\ config'.Generation = y.revision
            /\ ~config.Override /\ config.Generation < y.revision
            /\ y.text \in Contents
            /\ \/ /\ config.Text = Nothing /\ config'.Revision = 0
                  /\ versions' = {[Revision |-> 0, Text |-> y.text, By |-> "deployment"]}
               \/ /\ config.Text # Nothing /\ config'.Revision = config.Revision + 1
                  /\ versions' = versions \cup {[Revision |-> config.Revision + 1,
                                                 Text |-> y.text, By |-> "deployment"]}
               \/ /\ config.Text # Nothing /\ config'.Revision = config.Revision
                  /\ config'.Text = config.Text /\ versions' = versions
<1>1. /\ y.text \in Contents /\ y.text # Nothing /\ y.revision \in Nat \ {0}
      /\ y.old \in Config /\ y.old.Revision \in Nat /\ config \in Config
      /\ config.Revision \in Nat
      /\ ReadSound(y, versions)
  BY NothingPublished DEF ConfigInv, ConfigTypeOK, Syncs, Config, ReadSound
<1> DEFINE changed == y.old.Text # y.text
           revision == IF y.old.Text # Nothing /\ changed THEN y.old.Revision + 1
                       ELSE y.old.Revision
<1>2. \/ UNCHANGED settings
      \/ /\ SyncHolds(y)
         /\ config' = [Revision |-> revision, Text |-> y.text, Override |-> FALSE,
                       Generation |-> y.revision]
         /\ versions' = IF changed
                        THEN versions \cup {[Revision |-> revision, Text |-> y.text,
                                             By |-> "deployment"]}
                        ELSE versions
  BY DEF SyncWrite
<1>3. revision \in Nat
  BY <1>1
<1>4. CASE /\ SyncHolds(y)
           /\ config' = [Revision |-> revision, Text |-> y.text, Override |-> FALSE,
                         Generation |-> y.revision]
           /\ versions' = IF changed
                          THEN versions \cup {[Revision |-> revision, Text |-> y.text,
                                               By |-> "deployment"]}
                          ELSE versions
  <2>1. /\ config' \in Config /\ config'.Text = y.text /\ config'.Revision = revision
        /\ ~config'.Override /\ config'.Generation = y.revision
    BY <1>1, <1>3, <1>4 DEF Config
  <2>2. CASE y.old.Text = Nothing
    <3>1. config.Text = Nothing
      BY <2>2, <1>4 DEF SyncHolds
    <3>2. config = NoConfig /\ versions = {} /\ y.old = NoConfig
      BY <3>1, <2>2, <1>1 DEF ConfigInv, LeaseSound, HistoryTold, ReadSound
    <3>3. revision = 0 /\ changed
      BY <2>2, <3>2, <1>1, NoConfigTyped
    <3>4. versions' = {[Revision |-> 0, Text |-> y.text, By |-> "deployment"]}
      BY <3>2, <3>3, <1>4
    <3>5. ~config.Override /\ config.Generation < y.revision
      BY <3>2, <1>1, NoConfigTyped
    <3> HIDE DEF revision, changed
    <3> QED BY <2>1, <3>1, <3>3, <3>4, <3>5, <1>1, <1>4
  <2>3. CASE y.old.Text # Nothing
    <3>1. config.Revision = y.old.Revision /\ ~config.Override
          /\ config.Generation < y.revision
      BY <2>3, <1>4 DEF SyncHolds
    <3>2. PICK v \in versions : v.Revision = y.old.Revision /\ v.Text = y.old.Text
      BY <2>3, <1>1 DEF ReadSound
    <3>3. config.Text # Nothing
      BY <3>2 DEF ConfigInv, HistoryTold
    <3>4. config.Text = y.old.Text
      BY <3>1, <3>2, <3>3 DEF ConfigInv, HistoryTold
    <3>5. CASE changed
      <4>1. revision = config.Revision + 1
        BY <2>3, <3>1, <3>5
      <4>2. versions' = versions \cup {[Revision |-> config.Revision + 1, Text |-> y.text,
                                        By |-> "deployment"]}
        BY <4>1, <3>5, <1>4
      <4> HIDE DEF revision, changed
      <4> QED BY <2>1, <3>1, <3>3, <4>1, <4>2, <1>1, <1>4
    <3>6. CASE ~changed
      <4>1. revision = config.Revision /\ y.text = config.Text /\ versions' = versions
        BY <3>1, <3>4, <3>6, <1>4
      <4> HIDE DEF revision, changed
      <4> QED BY <2>1, <3>1, <3>3, <4>1, <1>1, <1>4
    <3> QED BY <3>5, <3>6
  <2> QED BY <2>2, <2>3
<1> QED BY <1>2, <1>4

LEMMA SyncWriteKeeps == ASSUME ConfigInv, NEW y \in syncs, SyncWrite(y) PROVE ConfigInv'
<1>1. /\ UNCHANGED <<indexRow, grants, marker, pool, invited, setups, asks, load>>
      /\ syncs' = syncs \ {y}
  BY DEF SyncWrite, lease, access, people
<1>2. CASE UNCHANGED settings
  BY <1>1, <1>2
     DEF settings, ConfigInv, ConfigTypeOK, HistoryTold, ManagerRemains, PoolSound
<1>3. ASSUME /\ config' \in Config /\ config'.Text = y.text /\ y.text \in Contents
             /\ HistoryTold' /\ versions' \subseteq Version /\ versions \subseteq versions'
      PROVE  ConfigInv'
  <2>1. config'.Text # Nothing
    BY <1>3, NothingPublished
  <2>2. \A o \in syncs' : ReadSound(o, versions')
    BY <1>1, <1>3, ReadsStay
  <2> QED BY <1>1, <1>3, <2>1, <2>2
          DEF ConfigInv, ConfigTypeOK, ManagerRemains, PoolSound, LeaseSound
<1>4. CASE /\ config' \in Config /\ config'.Text = y.text /\ y.text \in Contents
           /\ config.Text = Nothing /\ config'.Revision = 0
           /\ versions' = {[Revision |-> 0, Text |-> y.text, By |-> "deployment"]}
  <2> DEFINE n == [Revision |-> 0, Text |-> y.text, By |-> "deployment"]
  <2>1. n \in Version /\ n.Revision = 0 /\ n.Text = y.text /\ versions' = {n}
    BY <1>4 DEF Version
  <2> HIDE DEF n
  <2>2. versions = {} /\ y.text # Nothing /\ 0..config'.Revision = {0}
    BY <1>4, NothingPublished DEF ConfigInv, HistoryTold
  <2>3. HistoryTold'
    BY <1>4, <2>1, <2>2 DEF HistoryTold
  <2> QED BY <1>3, <1>4, <2>1, <2>2, <2>3
<1>5. CASE /\ config' \in Config /\ config'.Text = y.text /\ y.text \in Contents
           /\ config.Text # Nothing /\ config'.Revision = config.Revision + 1
           /\ versions' = versions \cup {[Revision |-> config.Revision + 1,
                                          Text |-> y.text, By |-> "deployment"]}
  <2>1. HistoryTold' /\ versions' \subseteq Version
    BY <1>5, HistoryGrows
  <2> QED BY <1>3, <1>5, <2>1
<1>6. CASE /\ config' \in Config /\ config'.Text = y.text /\ y.text \in Contents
           /\ config.Text # Nothing /\ config'.Revision = config.Revision
           /\ config'.Text = config.Text /\ versions' = versions
  <2>1. HistoryTold'
    BY <1>6 DEF ConfigInv, HistoryTold
  <2> QED BY <1>3, <1>6, <2>1 DEF ConfigInv, ConfigTypeOK
<1> QED BY <1>2, <1>4, <1>5, <1>6, SyncWrites

----------------------------------------------------------------------------
\* Administrators.

\* A request is put on its way.
LEMMA AskKeeps ==
  ASSUME ConfigInv, NEW a \in Admins, AskPublish(a) \/ AskRollback(a) \/ AskGrant(a)
  PROVE  ConfigInv'
<1>1. /\ UNCHANGED <<indexRow, config, versions, grants, marker, pool, invited, setups, syncs>>
      /\ load' = load + 1
  BY DEF AskPublish, AskRollback, AskGrant, lease, settings, access, people
<1>2. /\ grants[a] \in Grant /\ config.Revision \in Nat /\ load \in Nat /\ NoGrant \in Grant
      /\ \A b \in Admins : grants[b].Revision \in Nat
      /\ \A v \in versions : v.Text \in Contents
  BY GrantsTyped DEF ConfigInv, ConfigTypeOK, Grant, Config, Version
<1>3. ASSUME NEW q \in Asks, AskSound(q), asks' = asks \cup {q} PROVE ConfigInv'
  BY <1>1, <1>2, <1>3
     DEF ConfigInv, ConfigTypeOK, HistoryTold, ManagerRemains, PoolSound
<1>4. ASSUME NEW expected \in Nat, NEW c \in Contents,
             asks' = asks \cup {[what |-> "publish", by |-> a, grant |-> grants[a],
                                 expected |-> expected, text |-> c, target |-> a,
                                 wanted |-> NoGrant]}
      PROVE  ConfigInv'
  <2> DEFINE q == [what |-> "publish", by |-> a, grant |-> grants[a], expected |-> expected,
                   text |-> c, target |-> a, wanted |-> NoGrant]
  <2>1. q \in Asks /\ AskSound(q)
    BY <1>2 DEF Asks, AskSound
  <2>2. asks' = asks \cup {q}
    BY <1>4
  <2> HIDE DEF q
  <2> QED BY <2>1, <2>2, <1>3
<1>5. CASE AskPublish(a)
  <2>1. PICK expected \in 0..config.Revision, c \in Contents :
          asks' = asks \cup {[what |-> "publish", by |-> a, grant |-> grants[a],
                              expected |-> expected, text |-> c, target |-> a,
                              wanted |-> NoGrant]}
    BY <1>5 DEF AskPublish
  <2>2. expected \in Nat
    BY <1>2
  <2> QED BY <2>1, <2>2, <1>4
<1>6. CASE AskRollback(a)
  <2>1. PICK expected \in 0..config.Revision, v \in versions :
          asks' = asks \cup {[what |-> "publish", by |-> a, grant |-> grants[a],
                              expected |-> expected, text |-> v.Text, target |-> a,
                              wanted |-> NoGrant]}
    BY <1>6 DEF AskRollback
  <2>2. expected \in Nat /\ v.Text \in Contents
    BY <1>2
  <2> QED BY <2>1, <2>2, <1>4
<1>7. CASE AskGrant(a)
  <2>0. PICK b \in Admins \ {a}, active \in BOOLEAN, manage \in BOOLEAN :
          \E seen \in 0..grants[b].Revision :
            asks' = asks \cup {[what |-> "grant", by |-> a, grant |-> grants[a],
                                expected |-> seen, text |-> Nothing, target |-> b,
                                wanted |-> [Revision |-> seen + 1, Active |-> active,
                                            ManageGrants |-> manage]]}
    BY <1>7 DEF AskGrant
  <2>1. PICK seen \in 0..grants[b].Revision :
          asks' = asks \cup {[what |-> "grant", by |-> a, grant |-> grants[a],
                              expected |-> seen, text |-> Nothing, target |-> b,
                              wanted |-> [Revision |-> seen + 1, Active |-> active,
                                          ManageGrants |-> manage]]}
    BY <2>0
  <2> DEFINE w == [Revision |-> seen + 1, Active |-> active, ManageGrants |-> manage]
             q == [what |-> "grant", by |-> a, grant |-> grants[a], expected |-> seen,
                   text |-> Nothing, target |-> b, wanted |-> w]
  <2>2. seen \in Nat /\ seen + 1 \in Nat
    BY <1>2
  <2>3. w \in Grant
    BY <2>2 DEF Grant
  <2>4. asks' = asks \cup {q}
    BY <2>1
  <2> HIDE DEF w
  <2>5. q \in Asks /\ AskSound(q)
    BY <1>2, <2>2, <2>3 DEF Asks, AskSound
  <2> HIDE DEF q
  <2> QED BY <2>4, <2>5, <1>3
<1> QED BY <1>5, <1>6, <1>7

LEMMA PublishKeeps == ASSUME ConfigInv, NEW q \in asks, Publish(q) PROVE ConfigInv'
<1>1. /\ UNCHANGED <<indexRow, grants, marker, pool, invited, setups, syncs, load>>
      /\ asks' = asks \ {q} /\ q.what = "publish"
  BY DEF Publish, lease, access, people
<1>2. CASE UNCHANGED settings
  BY <1>1, <1>2
     DEF settings, ConfigInv, ConfigTypeOK, HistoryTold, ManagerRemains, PoolSound
<1>3. CASE /\ config.Text # Nothing /\ config.Revision = q.expected
           /\ config' = [Revision |-> q.expected + 1, Text |-> q.text, Override |-> TRUE,
                         Generation |-> 0]
           /\ versions' = versions \cup {[Revision |-> q.expected + 1, Text |-> q.text,
                                          By |-> q.by]}
  <2>1. q.text \in Contents /\ q.text # Nothing /\ q.by \in Admins /\ config.Revision + 1 \in Nat
    BY <1>1, NothingPublished DEF ConfigInv, ConfigTypeOK, AskSound, Asks, Config
  <2>2. config' \in Config /\ config'.Revision = config.Revision + 1 /\ config'.Text = q.text
    BY <1>3, <2>1 DEF Config
  <2>3. HistoryTold' /\ versions' \subseteq Version
    BY <1>3, <2>1, <2>2, HistoryGrows
  <2>4. \A y \in syncs' : ReadSound(y, versions')
    BY <1>1, <1>3, ReadsStay
  <2> QED BY <1>1, <2>1, <2>2, <2>3, <2>4
          DEF ConfigInv, ConfigTypeOK, ManagerRemains, PoolSound, LeaseSound
<1> QED BY <1>2, <1>3 DEF Publish

\* Who changes a grant manages grants at that moment, and changes another's.
LEMMA SetGrantKeeps == ASSUME ConfigInv, NEW q \in asks, SetGrant(q) PROVE ConfigInv'
<1>1. /\ UNCHANGED <<indexRow, config, versions, marker, pool, invited, setups, syncs, load>>
      /\ asks' = asks \ {q} /\ q.what = "grant"
  BY DEF SetGrant, lease, settings, people
<1>2. CASE UNCHANGED grants
  BY <1>1, <1>2
     DEF ConfigInv, ConfigTypeOK, HistoryTold, ManagerRemains, PoolSound
<1>3. CASE GrantCheck(q, TRUE) /\ grants' = [grants EXCEPT ![q.target] = q.wanted]
  <2>1. q.by \in Admins /\ q.target \in Admins /\ q.wanted \in Grant /\ q.target # q.by
    BY <1>1 DEF ConfigInv, ConfigTypeOK, Asks, AskSound
  <2>2. grants' \in [Admins -> Grant] /\ grants'[q.by] = grants[q.by]
    BY <1>3, <2>1 DEF ConfigInv, ConfigTypeOK
  <2>3. ManagerRemains'
    BY <1>3, <2>1, <2>2 DEF GrantCheck, ManagerRemains
  <2> QED BY <1>1, <2>2, <2>3 DEF ConfigInv, ConfigTypeOK, HistoryTold, PoolSound
<1> QED BY <1>2, <1>3 DEF SetGrant

----------------------------------------------------------------------------
\* Setups.

LEMMA SetupKeeps ==
  ASSUME ConfigInv,
         \/ \E a \in Admins : StartSetup(a)
         \/ \E s \in setups : Configure(s) \/ Invite(s) \/ BootstrapGrant(s) \/ SetupDies(s)
  PROVE  ConfigInv'
<1>1. UNCHANGED <<indexRow, config, versions, asks, syncs>>
  BY DEF StartSetup, Configure, Invite, BootstrapGrant, SetupDies, lease, settings
<1>2. ASSUME setups' \subseteq Setups, load' \in Nat, invited' \subseteq Admins,
             pool' \in [mfa : BOOLEAN, choices : BOOLEAN], marker' \in BOOLEAN,
             grants' \in [Admins -> Grant], ManagerRemains', PoolSound'
      PROVE  ConfigInv'
  BY <1>1, <1>2 DEF ConfigInv, ConfigTypeOK, HistoryTold
<1>3. /\ setups \subseteq Setups /\ load \in Nat /\ invited \subseteq Admins
      /\ pool \in [mfa : BOOLEAN, choices : BOOLEAN] /\ marker \in BOOLEAN
      /\ grants \in [Admins -> Grant] /\ ManagerRemains /\ PoolSound
      /\ pool.mfa \in BOOLEAN
  BY DEF ConfigInv, ConfigTypeOK
<1>4. ASSUME NEW s \in setups, NEW place \in SetupPlaces
      PROVE  [s EXCEPT !.at = place] \in Setups /\ [s EXCEPT !.at = place].at = place
  BY <1>3 DEF Setups
<1>5. ASSUME NEW a \in Admins, StartSetup(a) PROVE ConfigInv'
  <2> DEFINE n == [sub |-> a, at |-> "set"]
  <2>1. n \in Setups /\ n.at = "set"
    BY DEF Setups, SetupPlaces
  <2>2. /\ setups' = setups \cup {n} /\ load' = load + 1
        /\ UNCHANGED <<grants, marker, pool, invited>>
    BY <1>5 DEF StartSetup, access
  <2> HIDE DEF n
  <2>3. PoolSound'
    BY <2>1, <2>2, <1>3 DEF PoolSound
  <2> QED BY <2>1, <2>2, <2>3, <1>2, <1>3 DEF ManagerRemains
<1>6. ASSUME NEW s \in setups, Configure(s) PROVE ConfigInv'
  <2>1. UNCHANGED <<grants, marker, invited, load>>
    BY <1>6 DEF Configure, access
  <2>2. PICK place \in {"update", "again", "verify", "marker", "none"} :
          /\ setups' = IF place = "none" THEN setups \ {s}
                       ELSE (setups \ {s}) \cup {[s EXCEPT !.at = place]}
          /\ pool' \in [mfa : BOOLEAN, choices : BOOLEAN]
          /\ \/ s.at = "set" /\ place = "update" /\ pool'.mfa
             \/ s.at = "update" /\ place = "again"
             \/ s.at = "again" /\ place = "verify" /\ pool'.mfa
             \/ s.at = "verify" /\ place \in {"marker", "none"} /\ pool' = pool
    <3>1. CASE s.at = "set" /\ pool' = [pool EXCEPT !.mfa = TRUE] /\ SetupGoes(s, "update")
      BY <3>1, <1>3 DEF SetupGoes
    <3>2. CASE s.at = "again" /\ pool' = [pool EXCEPT !.mfa = TRUE] /\ SetupGoes(s, "verify")
      BY <3>2, <1>3 DEF SetupGoes
    <3>3. CASE /\ s.at = "update"
               /\ \E kept \in BOOLEAN : pool' = [mfa |-> pool.mfa /\ kept, choices |-> TRUE]
               /\ SetupGoes(s, "again")
      <4>1. pool' \in [mfa : BOOLEAN, choices : BOOLEAN]
        <5>1. PICK kept \in BOOLEAN : pool' = [mfa |-> pool.mfa /\ kept, choices |-> TRUE]
          BY <3>3
        <5>2. (pool.mfa /\ kept) \in BOOLEAN
          OBVIOUS
        <5> QED BY <5>1, <5>2
      <4> QED BY <3>3, <4>1 DEF SetupGoes
    <3>4. CASE s.at = "verify" /\ pool' = pool /\ (SetupGoes(s, "marker") \/ Ends(s))
      BY <3>4, <1>3 DEF SetupGoes, Ends
    <3> QED BY <3>1, <3>2, <3>3, <3>4, <1>6 DEF Configure
  <2> DEFINE n == [s EXCEPT !.at = place]
  <2>3. ASSUME place # "none" PROVE n \in Setups /\ n.at = place
    <3>1. place \in SetupPlaces
      BY <2>3 DEF SetupPlaces
    <3> QED BY <3>1, <1>4, Zenon
  <2>4. setups' = IF place = "none" THEN setups \ {s} ELSE (setups \ {s}) \cup {n}
    BY <2>2
  <2> HIDE DEF n
  <2>5. setups' \subseteq Setups
    BY <2>3, <2>4, <1>3
  <2>6. PoolSound'
    <3>1. CASE pool'.mfa
      BY <3>1 DEF PoolSound
    <3>2. CASE s.at = "update" /\ place = "again"
      BY <3>2, <2>3, <2>4 DEF PoolSound
    <3>3. CASE s.at = "verify" /\ place \in {"marker", "none"} /\ pool' = pool
      <4>1. pool.mfa \/ \E o \in setups : o # s /\ o.at \in {"again", "died"}
        BY <3>3, <1>3 DEF PoolSound
      <4> QED BY <3>3, <4>1, <2>4 DEF PoolSound
    <3> QED BY <3>1, <3>2, <3>3, <2>2
  <2>7. ManagerRemains'
    BY <2>1, <1>3 DEF ManagerRemains
  <2> QED BY <2>1, <2>2, <2>5, <2>6, <2>7, <1>2, <1>3
<1>7. ASSUME NEW s \in setups, Invite(s) \/ SetupDies(s) PROVE ConfigInv'
  <2>1. UNCHANGED <<grants, marker, pool, load>>
    BY <1>7 DEF Invite, SetupDies, access
  <2>2. PICK place \in {"user", "grant", "create", "died", "none"} :
          /\ setups' = IF place = "none" THEN setups \ {s}
                       ELSE (setups \ {s}) \cup {[s EXCEPT !.at = place]}
          /\ s.at = "again" => place = "died"
          /\ s.at # "died"
          /\ s.at = "set" => place = "none"
          /\ invited' \in {invited, invited \cup {s.sub}}
    BY <1>7 DEF Invite, SetupDies, SetupGoes, Ends
  <2>8. s.sub \in Admins
    BY <1>3 DEF Setups
  <2> DEFINE n == [s EXCEPT !.at = place]
  <2>3. ASSUME place # "none" PROVE n \in Setups /\ n.at = place
    <3>1. place \in SetupPlaces
      BY <2>3 DEF SetupPlaces
    <3> QED BY <3>1, <1>4, Zenon
  <2>4. setups' = IF place = "none" THEN setups \ {s} ELSE (setups \ {s}) \cup {n}
    BY <2>2
  <2> HIDE DEF n
  <2>5. PoolSound'
    <3>1. CASE place = "died"
      BY <3>1, <2>3, <2>4 DEF PoolSound
    <3>2. CASE place # "died"
      <4>1. s.at \notin {"again", "died"}
        BY <3>2, <2>2
      <4>2. (\E o \in setups' : o.at # "set") => \E o \in setups : o.at # "set"
        BY <2>2, <2>4
      <4>3. (\E o \in setups : o.at \in {"again", "died"})
              => \E o \in setups' : o.at \in {"again", "died"}
        BY <4>1, <2>4
      <4> QED BY <4>2, <4>3, <2>1, <1>3 DEF PoolSound
    <3> QED BY <3>1, <3>2
  <2>6. ManagerRemains'
    BY <2>1, <1>3 DEF ManagerRemains
  <2>7. setups' \subseteq Setups /\ invited' \subseteq Admins
    BY <2>2, <2>3, <2>4, <2>8, <1>3
  <2> QED BY <2>1, <2>5, <2>6, <2>7, <1>2, <1>3
<1>8. ASSUME NEW s \in setups, BootstrapGrant(s) PROVE ConfigInv'
  <2>1. /\ setups' = setups \ {s} /\ s.at = "grant" /\ s.sub \in Admins
        /\ UNCHANGED <<pool, invited, load>>
    BY <1>3, <1>8 DEF BootstrapGrant, Ends, Setups
  <2>2. PoolSound'
    <3>1. pool.mfa \/ \E o \in setups : o # s /\ o.at \in {"again", "died"}
      BY <2>1, <1>3 DEF PoolSound
    <3> QED BY <3>1, <2>1 DEF PoolSound
  <2>3. /\ marker' \in BOOLEAN /\ grants' \in [Admins -> Grant]
        /\ ManagerRemains'
    <3>1. CASE UNCHANGED access
      BY <3>1, <1>3 DEF access, ManagerRemains
    <3>2. CASE marker' = TRUE /\ grants' = [grants EXCEPT ![s.sub] = FirstGrant]
      <4>1. grants' \in [Admins -> Grant] /\ grants'[s.sub] = FirstGrant
        BY <3>2, <2>1, <1>3, GrantsTyped
      <4>2. FirstGrant.Active /\ FirstGrant.ManageGrants
        BY DEF FirstGrant
      <4> QED BY <3>2, <4>1, <4>2, <2>1 DEF ManagerRemains
    <3> QED BY <3>1, <3>2, <1>8 DEF BootstrapGrant
  <2> QED BY <2>1, <2>2, <2>3, <1>2, <1>3
<1> QED BY <1>5, <1>6, <1>7, <1>8

----------------------------------------------------------------------------
LEMMA StepInv == ConfigInv /\ [ConfigNext]_configVars => ConfigInv'
<1> SUFFICES ASSUME ConfigInv, [ConfigNext]_configVars PROVE ConfigInv'
  OBVIOUS
<1>1. CASE UNCHANGED configVars
  BY <1>1 DEF configVars, ConfigInv, ConfigTypeOK, HistoryTold, ManagerRemains, PoolSound
<1>2. CASE ConfigNext
  BY <1>2, LeaseKeeps, SyncReadKeeps, SyncWriteKeeps, AskKeeps, PublishKeeps, SetGrantKeeps,
     SetupKeeps DEF ConfigNext
<1> QED BY <1>1, <1>2

\* The inductive invariant holds of every behaviour of the configuration's writers.
THEOREM ConfigInvHolds == ConfigSpec => []ConfigInv
<1>1. ConfigInit /\ load = 0 => ConfigInv
  BY InitInv
<1> QED BY <1>1, StepInv, PTL DEF ConfigSpec

\* Rows, configurations, grants and requests keep their types, in particular every
\* version that a transaction of runtimeconfig/store.go puts has a configuration.
THEOREM ConfigTyped == ConfigSpec => []ConfigTypeOK
<1>1. ConfigInv => ConfigTypeOK
  BY DEF ConfigInv
<1> QED BY <1>1, ConfigInvHolds, PTL

\* The history has every revision once and ends with the configuration, whoever publishes,
\* rolls back or deploys at the same time (runtimeconfig/store.go Publish, SyncDefaults).
THEOREM HistoryIsTold == ConfigSpec => []HistoryTold
<1>1. ConfigInv => HistoryTold
  BY DEF ConfigInv
<1> QED BY <1>1, ConfigInvHolds, PTL

\* From the first grant on somebody can manage grants, whoever revokes whom
\* (runtimeconfig/store.go SetGrant, BootstrapGrant).
THEOREM ManagerAlwaysRemains == ConfigSpec => []ManagerRemains
<1>1. ConfigInv => ManagerRemains
  BY DEF ConfigInv
<1> QED BY <1>1, ConfigInvHolds, PTL

\* The administrators' pool demands its factors once there is a grant, whatever setups run
\* side by side, unless one died with the factors reset (adminsetup/setup.go).
THEOREM PoolRemainsStrict == ConfigSpec => []PoolStaysStrict
<1>1. ConfigInv => PoolStaysStrict
  BY DEF ConfigInv, PoolSound, PoolStaysStrict
<1> QED BY <1>1, ConfigInvHolds, PTL

LEMMA FencedStep == ConfigInv /\ ConfigNext => DefaultsFenced
<1> SUFFICES ASSUME ConfigInv, ConfigNext, config' # config, ~config'.Override
             PROVE  DefaultsFenced
  BY DEF DefaultsFenced
<1>1. CASE \E q \in asks : Publish(q)
  <2>1. PICK q \in asks :
          config' = [Revision |-> q.expected + 1, Text |-> q.text, Override |-> TRUE,
                     Generation |-> 0]
    BY <1>1 DEF Publish, settings
  <2>2. config'.Override = TRUE
    BY <2>1
  <2> QED BY <2>2
<1>2. ASSUME NEW y \in syncs, SyncWrite(y) PROVE DefaultsFenced
  <2>1. /\ SyncHolds(y) /\ ~config.Override /\ config.Generation < y.revision
        /\ config'.Generation = y.revision
    BY <1>2, SyncWrites DEF settings
  <2>2. y.token # 0 /\ y.revision \in Nat /\ config.Generation \in Nat
    BY DEF ConfigInv, ConfigTypeOK, ReadSound, Syncs, Config
  <2>3. indexRow.Lock # 0 /\ indexRow.Revision = y.revision
    BY <2>1, <2>2 DEF SyncHolds
  <2> QED BY <2>1, <2>2, <2>3 DEF DefaultsFenced
<1>3. ASSUME \/ Reserve \/ Yield \/ SyncRead
             \/ \E a \in Admins : AskPublish(a) \/ AskRollback(a) \/ AskGrant(a) \/ StartSetup(a)
             \/ \E q \in asks : SetGrant(q)
             \/ \E s \in setups : Configure(s) \/ Invite(s) \/ BootstrapGrant(s) \/ SetupDies(s)
      PROVE  config' = config
  BY <1>3 DEF Reserve, Yield, SyncRead, AskPublish, AskRollback, AskGrant, StartSetup,
              SetGrant, Configure, Invite, BootstrapGrant, SetupDies, settings
<1> QED BY <1>1, <1>2, <1>3 DEF ConfigNext

LEMMA ManagersStep == ConfigInv /\ ConfigNext => GrantsByManagers
<1> SUFFICES ASSUME ConfigInv, ConfigNext PROVE GrantsByManagers
  OBVIOUS
<1>1. ASSUME NEW q \in asks, SetGrant(q) PROVE GrantsByManagers
  <2>1. q.by \in Admins /\ q.target # q.by /\ grants \in [Admins -> Grant]
    BY <1>1 DEF SetGrant, ConfigInv, ConfigTypeOK, Asks, AskSound
  <2> QED BY <1>1, <2>1 DEF SetGrant, GrantCheck, GrantsByManagers
<1>2. ASSUME NEW s \in setups, BootstrapGrant(s) PROVE GrantsByManagers
  BY <1>2 DEF BootstrapGrant, access, GrantsByManagers
<1>3. ASSUME \/ Reserve \/ Yield \/ SyncRead \/ \E y \in syncs : SyncWrite(y)
             \/ \E a \in Admins : AskPublish(a) \/ AskRollback(a) \/ AskGrant(a) \/ StartSetup(a)
             \/ \E q \in asks : Publish(q)
             \/ \E s \in setups : Configure(s) \/ Invite(s) \/ SetupDies(s)
      PROVE  grants' = grants
  BY <1>3 DEF Reserve, Yield, SyncRead, SyncWrite, AskPublish, AskRollback, AskGrant,
              StartSetup, Publish, Configure, Invite, SetupDies, access
<1> QED BY <1>1, <1>2, <1>3 DEF ConfigNext, GrantsByManagers

\* Defaults never replace what an administrator chose, and only the deployment that holds
\* the lease brings them (runtimeconfig/store.go SyncDefaults).
THEOREM DefaultsAreFenced == ConfigSpec => [][DefaultsFenced]_configVars
<1>1. ConfigInv /\ [ConfigNext]_configVars => [DefaultsFenced]_configVars
  BY FencedStep
<1> QED BY <1>1, ConfigInvHolds, PTL DEF ConfigSpec

\* Once there is a grant, grants change by the hand of another who manages grants at that
\* moment; setup restores none (runtimeconfig/store.go SetGrant, BootstrapGrant).
THEOREM GrantsAreManagers == ConfigSpec => [][GrantsByManagers]_configVars
<1>1. ConfigInv /\ [ConfigNext]_configVars => [GrantsByManagers]_configVars
  BY ManagersStep
<1> QED BY <1>1, ConfigInvHolds, PTL DEF ConfigSpec

\* All of these together: what the runs check of the configuration and its administrators.
THEOREM AdministrationHolds == ConfigSpec => AdministrationSound
<1>1. ConfigInv => ConfigTypeOK /\ HistoryTold /\ ManagerRemains /\ PoolStaysStrict
  BY DEF ConfigInv, PoolSound, PoolStaysStrict
<1>2. ConfigInv /\ [ConfigNext]_configVars => [GrantsByManagers /\ DefaultsFenced]_configVars
  BY FencedStep, ManagersStep
<1> QED BY <1>1, <1>2, ConfigInvHolds, PTL DEF ConfigSpec, AdministrationSound
----------------------------------------------------------------------------
\* The users.  A visit knows only what has become true for good (VisitFacts), so that
\* what its answer is made from, read step by step, is true together at the end.  A
\* ticket that a trigger has found good opens no session but that trigger's (GoodOnce).

\* What a visit has read and done.
VisitFacts(v) ==
  /\ v.id <= load
  /\ v.what = "password" => v.password # 0
  /\ v.facts.Password => facts[v.user].Password
  /\ v.facts.Captured => facts[v.user].Captured
  /\ v.passkey => account[v.user].Passkey
  /\ v.at = "mark" => account[v.user].Password # 0
  /\ v.at = "set" => \E w \in versions : w.Text = v.policy

\* A good ticket was used for this visit, and has opened no session yet.
GoodOnce(v) ==
  v.at = "decide" /\ v.correct =>
    \A t \in tickets : t.id = v.id => t.used /\ t.sessions = 0

TicketSound(t) == t.id <= load /\ t.sessions <= 1 /\ (~t.used => t.sessions = 0)

UserSound(u) ==
  /\ facts[u].Password => account[u].Password # 0
  /\ facts[u].Captured => captures[u].Ever
  /\ captures[u].Flag \/ captures[u].State = "ready" => captures[u].Ever
  /\ account[u].Password # 0 => \E w \in versions : Accepts(w.Text, account[u].Password)
  /\ told[u] # Nothing =>
       Complete(told[u], account[u].Passkey, facts[u].Password, facts[u].Captured)

Apart(xs) == \A x, y \in xs : x.id = y.id => x = y

OnboardingInv ==
  /\ ConfigInv /\ UserTypeOK
  /\ \A v \in visits : VisitFacts(v) /\ GoodOnce(v)
  /\ \A t \in tickets : TicketSound(t)
  /\ \A u \in Users : UserSound(u)
  /\ Apart(visits) /\ Apart(tickets)

----------------------------------------------------------------------------
\* What a step of the users, or of the configuration, cannot take back.
Kept ==
  /\ load \in Nat /\ load' \in Nat /\ load <= load' /\ versions \subseteq versions'
  /\ \A u \in Users :
       /\ account[u].Passkey => account'[u].Passkey
       /\ account[u].Password # 0 => account'[u].Password # 0
       /\ facts[u].Password => facts'[u].Password
       /\ facts[u].Captured => facts'[u].Captured

LEMMA VisitKept ==
  ASSUME Kept, NEW v \in Visits, VisitFacts(v)
  PROVE  VisitFacts(v)'
<1>1. v.user \in Users /\ v.id \in Nat
  BY DEF Visits
<1>2. (v.id <= load)'
  BY <1>1 DEF Kept, VisitFacts
<1> QED BY <1>1, <1>2 DEF Kept, VisitFacts

LEMMA AccountsKept == ASSUME UNCHANGED <<account, facts>>, versions \subseteq versions',
                             load \in Nat, load' \in Nat, load <= load'
                      PROVE  Kept
BY DEF Kept

\* The configuration's part of the invariant does not ask how much was ever begun.
LEMMA ConfigRests ==
  ASSUME ConfigInv, load' \in Nat, UNCHANGED <<lease, settings, access, people, asks, syncs>>
  PROVE  ConfigInv'
<1>1. /\ indexRow' = indexRow /\ config' = config /\ versions' = versions
      /\ grants' = grants /\ marker' = marker /\ pool' = pool /\ invited' = invited
      /\ setups' = setups /\ asks' = asks /\ syncs' = syncs
  BY DEF lease, settings, access, people
<1>2. ConfigTypeOK'
  BY <1>1 DEF ConfigInv, ConfigTypeOK
<1>3. HistoryTold'
  BY <1>1 DEF ConfigInv, HistoryTold
<1>4. ManagerRemains' /\ PoolSound'
  BY <1>1 DEF ConfigInv, ManagerRemains, PoolSound
<1>5. LeaseSound(indexRow, config)'
  BY <1>1 DEF ConfigInv, LeaseSound
<1>6. (\A y \in syncs : ReadSound(y, versions))'
  BY <1>1 DEF ConfigInv, ReadSound
<1>7. (\A q \in asks : AskSound(q))'
  BY <1>1 DEF ConfigInv, AskSound
<1> QED BY <1>2, <1>3, <1>4, <1>5, <1>6, <1>7 DEF ConfigInv

LEMMA ConfigStays ==
  ASSUME ConfigInv, UNCHANGED configVars
  PROVE  ConfigInv' /\ load \in Nat /\ load' = load /\ versions' = versions /\ config' = config
<1>1. load \in Nat /\ load' = load /\ UNCHANGED <<lease, settings, access, people, asks, syncs>>
  BY DEF configVars, lease, settings, access, people, ConfigInv, ConfigTypeOK
<1> QED BY <1>1, ConfigRests DEF settings

\* Of a user whose account, facts and captures a step leaves alone.
LEMMA UserKept ==
  ASSUME NEW u \in Users, UserSound(u), versions \subseteq versions',
         account'[u] = account[u], facts'[u] = facts[u], captures'[u] = captures[u],
         told'[u] = told[u]
  PROVE  UserSound(u)'
BY DEF UserSound

LEMMA UsersKept ==
  ASSUME OnboardingInv, versions \subseteq versions', UNCHANGED <<account, facts, captures, told>>
  PROVE  \A u \in Users : UserSound(u)'
BY UserKept DEF OnboardingInv

----------------------------------------------------------------------------
\* A visit takes a step, or ends.
Moved(v, n) ==
  \/ visits' = visits \ {v}
  \/ visits' = (visits \ {v}) \cup {n}

LEMMA VisitMoves ==
  ASSUME OnboardingInv, Kept, NEW v \in visits, NEW n \in Visits, n.id = v.id,
         VisitFacts(n)', Moved(v, n)
  PROVE  /\ visits' \subseteq Visits /\ Apart(visits)'
         /\ \A w \in visits' : VisitFacts(w)'
<1>1. visits \subseteq Visits /\ Apart(visits) /\ \A w \in visits : VisitFacts(w)
  BY DEF OnboardingInv, UserTypeOK
<1>2. visits' \subseteq (visits \ {v}) \cup {n}
  BY DEF Moved
<1>3. \A w \in visits : VisitFacts(w)'
  BY <1>1, VisitKept
<1>4. Apart(visits)'
  BY <1>1, <1>2 DEF Apart
<1> QED BY <1>1, <1>2, <1>3, <1>4

\* Tickets that a step leaves alone.
LEMMA TicketsRest ==
  ASSUME OnboardingInv, Kept, UNCHANGED tickets,
         \A w \in visits' : w \in visits \/ w.at # "decide"
  PROVE  /\ tickets' \subseteq Tickets /\ Apart(tickets)'
         /\ \A t \in tickets' : TicketSound(t)'
         /\ \A w \in visits' : GoodOnce(w)'
<1>1. \A w \in visits' : GoodOnce(w)'
  BY DEF OnboardingInv, GoodOnce
<1>2. ASSUME NEW t \in tickets PROVE TicketSound(t)'
  <2>1. t.id \in Nat /\ TicketSound(t)
    BY DEF OnboardingInv, UserTypeOK, Tickets
  <2> QED BY <2>1 DEF TicketSound, Kept
<1>3. Apart(tickets)'
  BY DEF OnboardingInv, Apart
<1> QED BY <1>1, <1>2, <1>3 DEF OnboardingInv, UserTypeOK

\* A step of one visit that touches no ticket and no configuration.
LEMMA StepOfVisit ==
  ASSUME OnboardingInv, UNCHANGED <<configVars, tickets>>, Kept,
         NEW v \in visits, NEW n \in Visits, n.id = v.id, n.at # "decide",
         VisitFacts(n)', Moved(v, n),
         account' \in [Users -> Accounts], facts' \in [Users -> Facts],
         captures' \in [Users -> Captures], told' \in [Users -> Contents \cup {Nothing}],
         \A u \in Users : UserSound(u)'
  PROVE  OnboardingInv'
<1>1. ConfigInv'
  BY ConfigStays DEF OnboardingInv
<1>2. visits' \subseteq Visits /\ Apart(visits)' /\ \A w \in visits' : VisitFacts(w)'
  BY VisitMoves
<1>3. \A w \in visits' : w \in visits \/ w.at # "decide"
  BY DEF Moved
<1>4. /\ tickets' \subseteq Tickets /\ Apart(tickets)'
      /\ \A t \in tickets' : TicketSound(t)'
      /\ \A w \in visits' : GoodOnce(w)'
  BY <1>3, TicketsRest
<1>5. UserTypeOK'
  BY <1>2, <1>4 DEF UserTypeOK
<1> QED BY <1>1, <1>2, <1>4, <1>5 DEF OnboardingInv

----------------------------------------------------------------------------
\* The actions of a visit.

\* What the lemmas about them need to know of where they start.
LEMMA VisitTyped ==
  ASSUME OnboardingInv, NEW v \in visits
  PROVE  /\ v \in Visits /\ VisitFacts(v) /\ v.user \in Users /\ v.id \in Nat
         /\ v.facts \in Facts /\ v.password \in Passwords \cup {0}
         /\ v.policy \in Contents \cup {Nothing}
         /\ account[v.user] \in Accounts /\ facts[v.user] \in Facts
         /\ captures[v.user] \in Captures /\ UserSound(v.user)
<1>1. v \in Visits
  BY DEF OnboardingInv, UserTypeOK
<1>2. v.user \in Users
  BY <1>1 DEF Visits
<1> QED BY <1>1, <1>2 DEF OnboardingInv, UserTypeOK, Visits

\* An account, and no fact or answer, gains something.
LEMMA AccountGrows ==
  ASSUME OnboardingInv, UNCHANGED <<facts, captures, told>>, UNCHANGED configVars,
         NEW u \in Users, NEW a \in Accounts, account' = [account EXCEPT ![u] = a],
         account[u].Passkey => a.Passkey,
         account[u].Password # 0 => a.Password # 0,
         a.Password # account[u].Password => \E w \in versions : Accepts(w.Text, a.Password)
  PROVE  /\ Kept /\ account' \in [Users -> Accounts] /\ \A x \in Users : UserSound(x)'
<1>1. account \in [Users -> Accounts] /\ \A x \in Users : UserSound(x)
  BY DEF OnboardingInv, UserTypeOK
<1>2. versions' = versions /\ load' = load /\ load \in Nat
  BY ConfigStays DEF OnboardingInv
<1>3. \A x \in Users : account'[x] = IF x = u THEN a ELSE account[x]
  BY <1>1
<1>4. Kept
  BY <1>2, <1>3 DEF Kept
<1>5. UserSound(u)'
  <2>1. account'[u] = a
    BY <1>3
  <2>2. Complete(told[u], account[u].Passkey, facts[u].Password, facts[u].Captured)
          => Complete(told[u], a.Passkey, facts[u].Password, facts[u].Captured)
    BY DEF Complete
  <2> QED BY <1>1, <1>2, <2>1, <2>2 DEF UserSound
<1>6. ASSUME NEW x \in Users, x # u PROVE UserSound(x)'
  BY <1>1, <1>2, <1>3, <1>6, UserKept
<1> QED BY <1>1, <1>4, <1>5, <1>6

\* A fact is recorded of what has happened.
LEMMA FactsGrow ==
  ASSUME OnboardingInv, UNCHANGED <<account, captures, told>>, UNCHANGED configVars,
         NEW u \in Users, NEW f \in Facts, facts' = [facts EXCEPT ![u] = f],
         facts[u].Password => f.Password, facts[u].Captured => f.Captured,
         f.Password => account[u].Password # 0, f.Captured => captures[u].Ever
  PROVE  /\ Kept /\ facts' \in [Users -> Facts] /\ \A x \in Users : UserSound(x)'
<1>1. facts \in [Users -> Facts] /\ \A x \in Users : UserSound(x)
  BY DEF OnboardingInv, UserTypeOK
<1>2. versions' = versions /\ load' = load /\ load \in Nat
  BY ConfigStays DEF OnboardingInv
<1>3. \A x \in Users : facts'[x] = IF x = u THEN f ELSE facts[x]
  BY <1>1
<1>4. Kept
  BY <1>2, <1>3 DEF Kept
<1>5. UserSound(u)'
  <2>1. facts'[u] = f
    BY <1>3
  <2>2. Complete(told[u], account[u].Passkey, facts[u].Password, facts[u].Captured)
          => Complete(told[u], account[u].Passkey, f.Password, f.Captured)
    BY DEF Complete
  <2> QED BY <1>1, <1>2, <2>1, <2>2 DEF UserSound
<1>6. ASSUME NEW x \in Users, x # u PROVE UserSound(x)'
  BY <1>1, <1>2, <1>3, <1>6, UserKept
<1> QED BY <1>1, <1>4, <1>5, <1>6

\* A step that changes nothing but the visit.
LEMMA OnlyVisit ==
  ASSUME OnboardingInv, UNCHANGED <<configVars, account, facts, captures, tickets, told>>,
         NEW v \in visits, NEW n \in Visits, n.id = v.id, n.at # "decide",
         VisitFacts(n), Moved(v, n)
  PROVE  OnboardingInv'
<1>1. load' = load /\ load \in Nat /\ versions' = versions
  BY ConfigStays DEF OnboardingInv
<1>2. Kept
  BY <1>1, AccountsKept
<1>3. VisitFacts(n)'
  BY <1>2, VisitKept
<1>4. \A u \in Users : UserSound(u)'
  BY <1>1, UsersKept
<1>5. UserTypeOK
  BY DEF OnboardingInv
<1> QED BY <1>2, <1>3, <1>4, <1>5, StepOfVisit DEF UserTypeOK

LEMMA CreateKeeps ==
  ASSUME OnboardingInv, NEW v \in visits, DefineAndCreate(v) PROVE OnboardingInv'
<1> DEFINE n == [v EXCEPT !.at = "verify"]
<1>1. v \in Visits /\ VisitFacts(v)
  BY VisitTyped
<1>2. n \in Visits /\ n.id = v.id /\ n.at = "verify" /\ VisitFacts(n)
  BY <1>1 DEF Visits, VisitFacts
<1>3. Moved(v, n)
  BY DEF DefineAndCreate, Place, Becomes, Moved
<1> QED BY <1>2, <1>3, OnlyVisit DEF DefineAndCreate

LEMMA FinishKeeps == ASSUME OnboardingInv, NEW v \in visits, Finish(v) PROVE OnboardingInv'
<1>1. account[v.user] \in Accounts /\ v.user \in Users /\ v \in Visits /\ VisitFacts(v)
  BY VisitTyped
<1>2. PICK a \in Accounts : a = [account[v.user] EXCEPT !.Session = TRUE]
  BY <1>1 DEF Accounts
<1>3. /\ account' = [account EXCEPT ![v.user] = a]
      /\ a.Passkey = account[v.user].Passkey /\ a.Password = account[v.user].Password
  BY <1>1, <1>2 DEF Finish, Accounts
<1>4. UNCHANGED configVars /\ UNCHANGED <<facts, captures, told>> /\ UNCHANGED tickets
  BY DEF Finish
<1>5. Kept /\ account' \in [Users -> Accounts] /\ \A x \in Users : UserSound(x)'
  BY <1>1, <1>3, <1>4, AccountGrows
<1>6. Moved(v, v) /\ v.at # "decide"
  BY DEF Finish, Done, Moved
<1>7. VisitFacts(v)'
  BY <1>1, <1>5, VisitKept
<1>8. UserTypeOK
  BY DEF OnboardingInv
<1> QED BY <1>1, <1>4, <1>5, <1>6, <1>7, <1>8, StepOfVisit DEF UserTypeOK

LEMMA PasskeyKeeps ==
  ASSUME OnboardingInv, NEW v \in visits, CompletePasskey(v) PROVE OnboardingInv'
<1>1. account[v.user] \in Accounts /\ v.user \in Users /\ v \in Visits /\ VisitFacts(v)
  BY VisitTyped
<1>2. PICK a \in Accounts : a = [account[v.user] EXCEPT !.Passkey = TRUE]
  BY <1>1 DEF Accounts
<1>3. /\ account' = [account EXCEPT ![v.user] = a]
      /\ a.Passkey /\ a.Password = account[v.user].Password
  BY <1>1, <1>2 DEF CompletePasskey, Accounts
<1>4. UNCHANGED configVars /\ UNCHANGED <<facts, captures, told>> /\ UNCHANGED tickets
  BY DEF CompletePasskey
<1>5. Kept /\ account' \in [Users -> Accounts] /\ \A x \in Users : UserSound(x)'
  BY <1>1, <1>3, <1>4, AccountGrows
<1>6. Moved(v, v) /\ v.at # "decide"
  BY DEF CompletePasskey, Done, Moved
<1>7. VisitFacts(v)'
  BY <1>1, <1>5, VisitKept
<1>8. UserTypeOK
  BY DEF OnboardingInv
<1> QED BY <1>1, <1>4, <1>5, <1>6, <1>7, <1>8, StepOfVisit DEF UserTypeOK

\* What is read is a policy of the history.
LEMMA PolicyKeeps ==
  ASSUME OnboardingInv, NEW v \in visits, ReadPolicy(v) PROVE OnboardingInv'
<1>1. v \in Visits /\ VisitFacts(v) /\ config.Text \in Contents \cup {Nothing}
  BY VisitTyped DEF OnboardingInv, ConfigInv, ConfigTypeOK, Config
<1>2. UNCHANGED <<configVars, account, facts, captures, tickets, told>> /\ v.at = "policy"
  BY DEF ReadPolicy
<1>3. CASE config.Text = Nothing
  <2>1. Moved(v, v)
    BY <1>3 DEF ReadPolicy, Done, Moved
  <2> QED BY <1>1, <1>2, <2>1, OnlyVisit
<1>4. CASE config.Text # Nothing
  <2>1. PICK n \in Visits :
          n = [v EXCEPT !.policy = config.Text,
                        !.at = IF v.what = "password" THEN "set" ELSE "facts"]
    BY <1>1 DEF Visits
  <2>2. /\ n.id = v.id /\ n.user = v.user /\ n.what = v.what /\ n.policy = config.Text
        /\ n.at \in {"set", "facts"} /\ n.facts = v.facts /\ n.passkey = v.passkey
        /\ n.password = v.password
    BY <1>1, <2>1 DEF Visits
  <2>3. Moved(v, n)
    BY <1>4, <2>1 DEF ReadPolicy, Becomes, Moved
  <2>4. \E w \in versions : w.Text = n.policy
    BY <1>4, <2>2 DEF OnboardingInv, ConfigInv, HistoryTold
  <2>5. VisitFacts(n)
    BY <1>1, <2>2, <2>4 DEF VisitFacts
  <2> QED BY <1>2, <2>2, <2>3, <2>5, OnlyVisit
<1> QED BY <1>3, <1>4

\* Passwords passed the policy that the visit had read.
LEMMA SetKeeps ==
  ASSUME OnboardingInv, NEW v \in visits, SetPassword(v) PROVE OnboardingInv'
<1>1. /\ account[v.user] \in Accounts /\ v.user \in Users /\ v \in Visits /\ VisitFacts(v)
      /\ v.password \in Passwords \cup {0}
  BY VisitTyped
<1>2. UNCHANGED configVars /\ UNCHANGED <<facts, captures, told>> /\ UNCHANGED tickets
  BY DEF SetPassword
<1>3. v.what = "password" /\ v.at = "set"
  BY DEF SetPassword
<1>4. CASE Accepts(v.policy, v.password)
  <2>1. PICK a \in Accounts : a = [account[v.user] EXCEPT !.Password = v.password]
    BY <1>1 DEF Accounts
  <2>2. /\ account' = [account EXCEPT ![v.user] = a]
        /\ a.Passkey = account[v.user].Passkey /\ a.Password = v.password
    BY <1>1, <1>4, <2>1 DEF SetPassword, Accounts
  <2>3. a.Password # 0 /\ \E w \in versions : Accepts(w.Text, a.Password)
    BY <1>1, <1>3, <1>4, <2>2 DEF VisitFacts
  <2>4. Kept /\ account' \in [Users -> Accounts] /\ \A x \in Users : UserSound(x)'
    BY <1>1, <1>2, <2>2, <2>3, AccountGrows
  <2> DEFINE n == [v EXCEPT !.at = "mark"]
  <2>5. /\ n \in Visits /\ n.id = v.id /\ n.at = "mark" /\ n.user = v.user /\ n.what = v.what
        /\ n.facts = v.facts /\ n.passkey = v.passkey /\ n.password = v.password
    BY <1>1 DEF Visits
  <2>6. Moved(v, n)
    BY <1>4 DEF SetPassword, Place, Becomes, Done, Moved
  <2>7. VisitFacts(v)'
    BY <1>1, <2>4, VisitKept
  <2>8. account'[n.user].Password # 0
    BY <1>1, <2>2, <2>3, <2>5 DEF OnboardingInv, UserTypeOK
  <2> HIDE DEF n
  <2>9. VisitFacts(n)'
    BY <2>5, <2>7, <2>8 DEF VisitFacts
  <2>10. UserTypeOK
    BY DEF OnboardingInv
  <2> QED BY <1>2, <2>4, <2>5, <2>6, <2>9, <2>10, StepOfVisit DEF UserTypeOK
<1>5. CASE ~Accepts(v.policy, v.password)
  <2>1. Moved(v, v) /\ UNCHANGED account
    BY <1>5 DEF SetPassword, Done, Moved
  <2> QED BY <1>1, <1>2, <1>3, <2>1, OnlyVisit
<1> QED BY <1>4, <1>5

LEMMA MarkKeeps ==
  ASSUME OnboardingInv, NEW v \in visits, MarkPassword(v) PROVE OnboardingInv'
<1>1. facts[v.user] \in Facts /\ v.user \in Users /\ v \in Visits /\ VisitFacts(v)
  BY VisitTyped
<1>2. PICK f \in Facts : f = [facts[v.user] EXCEPT !.Password = TRUE]
  BY <1>1 DEF Facts
<1>3. /\ facts' = [facts EXCEPT ![v.user] = f]
      /\ f.Password /\ f.Captured = facts[v.user].Captured
  BY <1>1, <1>2 DEF MarkPassword, Facts
<1>4. UNCHANGED configVars /\ UNCHANGED <<account, captures, told>> /\ UNCHANGED tickets
  BY DEF MarkPassword
<1>5. /\ account[v.user].Password # 0
      /\ facts[v.user].Captured => captures[v.user].Ever
  BY <1>1, VisitTyped DEF MarkPassword, VisitFacts, UserSound
<1>6. Kept /\ facts' \in [Users -> Facts] /\ \A x \in Users : UserSound(x)'
  BY <1>1, <1>3, <1>4, <1>5, FactsGrow
<1>7. Moved(v, v) /\ v.at # "decide"
  BY DEF MarkPassword, Done, Moved
<1>8. VisitFacts(v)'
  BY <1>1, <1>6, VisitKept
<1>9. UserTypeOK
  BY DEF OnboardingInv
<1> QED BY <1>1, <1>4, <1>6, <1>7, <1>8, <1>9, StepOfVisit DEF UserTypeOK

LEMMA ReadFactsKeeps ==
  ASSUME OnboardingInv, NEW v \in visits, ReadFacts(v) PROVE OnboardingInv'
<1>1. v \in Visits /\ VisitFacts(v) /\ facts[v.user] \in Facts
  BY VisitTyped
<1>2. UNCHANGED <<configVars, account, facts, captures, tickets, told>> /\ v.at = "facts"
  BY DEF ReadFacts
<1>3. PICK n \in Visits : n = [v EXCEPT !.at = "passkeys", !.facts = facts[v.user]]
  BY <1>1 DEF Visits
<1>4. /\ n.id = v.id /\ n.user = v.user /\ n.what = v.what /\ n.at = "passkeys"
      /\ n.facts = facts[v.user] /\ n.passkey = v.passkey /\ n.password = v.password
  BY <1>1, <1>3 DEF Visits
<1>5. Moved(v, n)
  BY <1>3 DEF ReadFacts, Becomes, Moved
<1>6. VisitFacts(n)
  BY <1>1, <1>4 DEF VisitFacts
<1> QED BY <1>2, <1>4, <1>5, <1>6, OnlyVisit

LEMMA ReadPasskeysKeeps ==
  ASSUME OnboardingInv, NEW v \in visits, ReadPasskeys(v) PROVE OnboardingInv'
<1>1. v \in Visits /\ VisitFacts(v) /\ account[v.user] \in Accounts
  BY VisitTyped
<1>2. UNCHANGED <<configVars, account, facts, captures, tickets, told>> /\ v.at = "passkeys"
  BY DEF ReadPasskeys
<1>3. PICK n \in Visits : n = [v EXCEPT !.at = IF v.facts.Captured THEN "answer" ELSE "account",
                                        !.passkey = account[v.user].Passkey]
  BY <1>1 DEF Visits, Accounts
<1>4. /\ n.id = v.id /\ n.user = v.user /\ n.what = v.what /\ n.at \in {"answer", "account"}
      /\ n.facts = v.facts /\ n.passkey = account[v.user].Passkey /\ n.password = v.password
  BY <1>1, <1>3 DEF Visits
<1>5. Moved(v, n)
  BY <1>3 DEF ReadPasskeys, Becomes, Moved
<1>6. VisitFacts(n)
  BY <1>1, <1>4 DEF VisitFacts
<1> QED BY <1>2, <1>4, <1>5, <1>6, OnlyVisit

\* A capture is recorded that was once ready.
LEMMA CapturedKeeps ==
  ASSUME OnboardingInv, NEW v \in visits, Captured(v), captures[v.user].Ever,
         UNCHANGED <<configVars, account, captures, tickets, told>>
  PROVE  OnboardingInv'
<1>1. /\ facts[v.user] \in Facts /\ v.user \in Users /\ v \in Visits /\ VisitFacts(v)
      /\ v.facts \in Facts
  BY VisitTyped
<1>2. PICK f \in Facts : f = [facts[v.user] EXCEPT !.Captured = TRUE]
  BY <1>1 DEF Facts
<1>3. /\ facts' = [facts EXCEPT ![v.user] = f]
      /\ f.Captured /\ f.Password = facts[v.user].Password
  BY <1>1, <1>2 DEF Captured, Facts
<1>4. UNCHANGED configVars /\ UNCHANGED <<account, captures, told>> /\ UNCHANGED tickets
  OBVIOUS
<1>5. facts[v.user].Password => account[v.user].Password # 0
  BY VisitTyped DEF UserSound
<1>6. Kept /\ facts' \in [Users -> Facts] /\ \A x \in Users : UserSound(x)'
  BY <1>1, <1>3, <1>4, <1>5, FactsGrow
<1> DEFINE g == [v.facts EXCEPT !.Captured = TRUE]
           n == [v EXCEPT !.at = "answer", !.facts.Captured = TRUE]
<1>7. /\ g \in Facts /\ g.Captured /\ g.Password = v.facts.Password
      /\ n = [v EXCEPT !.at = "answer", !.facts = g]
  BY <1>1 DEF Facts, Visits
<1>8. /\ n \in Visits /\ n.id = v.id /\ n.user = v.user /\ n.what = v.what /\ n.at = "answer"
      /\ n.facts = g /\ n.passkey = v.passkey /\ n.password = v.password
  BY <1>1, <1>7 DEF Visits
<1>9. Moved(v, n)
  BY DEF Captured, Becomes, Moved
<1>10. VisitFacts(v)' /\ facts'[v.user].Captured
  BY <1>1, <1>3, <1>6, VisitKept DEF OnboardingInv, UserTypeOK
<1> HIDE DEF n
<1>11. VisitFacts(n)'
  BY <1>7, <1>8, <1>10 DEF VisitFacts
<1>12. UserTypeOK
  BY DEF OnboardingInv
<1> QED BY <1>4, <1>6, <1>8, <1>9, <1>11, <1>12, StepOfVisit DEF UserTypeOK

LEMMA ReadCaptureKeeps ==
  ASSUME OnboardingInv, NEW v \in visits, ReadCapture(v) PROVE OnboardingInv'
<1> DEFINE c == captures[v.user]
<1>1. v \in Visits /\ VisitFacts(v) /\ UserSound(v.user)
  BY VisitTyped
<1>2. UNCHANGED <<configVars, account, captures, tickets, told>>
  BY DEF ReadCapture
<1>3. CASE (c.Flag \/ c.State = "ready") /\ Captured(v)
  BY <1>1, <1>2, <1>3, CapturedKeeps DEF UserSound
<1>4. ASSUME NEW place \in {"answer", "record"}, Place(v, place), UNCHANGED facts
      PROVE  OnboardingInv'
  <2> DEFINE n == [v EXCEPT !.at = place]
  <2>1. /\ n \in Visits /\ n.id = v.id /\ n.user = v.user /\ n.what = v.what /\ n.at = place
        /\ n.facts = v.facts /\ n.passkey = v.passkey /\ n.password = v.password
    BY <1>1 DEF Visits
  <2>2. Moved(v, n)
    BY <1>4 DEF Place, Becomes, Moved
  <2> HIDE DEF n
  <2>3. VisitFacts(n)
    BY <1>1, <2>1 DEF VisitFacts
  <2> QED BY <1>2, <1>4, <2>1, <2>2, <2>3, OnlyVisit
<1> QED BY <1>3, <1>4 DEF ReadCapture

\* The answer is made of what the visit read, all of it still so.
LEMMA AnswerKeeps ==
  ASSUME OnboardingInv, NEW v \in visits, AnswerStatus(v) PROVE OnboardingInv'
<1>1. /\ v.user \in Users /\ v \in Visits /\ VisitFacts(v) /\ v.policy \in Contents \cup {Nothing}
  BY VisitTyped
<1>2. UNCHANGED configVars /\ UNCHANGED <<account, facts, captures>> /\ UNCHANGED tickets
  BY DEF AnswerStatus
<1>3. versions' = versions /\ load' = load /\ load \in Nat
  BY <1>2, ConfigStays DEF OnboardingInv
<1>4. Kept
  BY <1>2, <1>3, AccountsKept
<1>5. Moved(v, v) /\ v.at # "decide"
  BY DEF AnswerStatus, Done, Moved
<1>6. VisitFacts(v)'
  BY <1>1, <1>4, VisitKept
<1>7. UserTypeOK /\ told \in [Users -> Contents \cup {Nothing}] /\ \A x \in Users : UserSound(x)
  BY DEF OnboardingInv, UserTypeOK
<1>8. told' \in [Users -> Contents \cup {Nothing}]
  BY <1>1, <1>7 DEF AnswerStatus
<1>9. ASSUME NEW x \in Users PROVE UserSound(x)'
  <2>1. CASE told'[x] = told[x]
    BY <1>2, <1>3, <1>7, <2>1, UserKept
  <2>2. CASE told'[x] # told[x]
    <3>1. /\ x = v.user /\ told'[x] = v.policy
          /\ Complete(v.policy, v.passkey, v.facts.Password, v.facts.Captured)
      BY <1>1, <1>7, <2>2 DEF AnswerStatus
    <3>2. Complete(v.policy, account[x].Passkey, facts[x].Password, facts[x].Captured)
      BY <1>1, <3>1 DEF Complete, VisitFacts
    <3>3. UserSound(x)
      BY <1>7
    <3> QED BY <1>2, <1>3, <3>1, <3>2, <3>3 DEF UserSound
  <2> QED BY <2>1, <2>2
<1> QED BY <1>1, <1>2, <1>4, <1>5, <1>6, <1>7, <1>8, <1>9, StepOfVisit DEF UserTypeOK

----------------------------------------------------------------------------
\* The tickets.

\* A good ticket is the visit's own, and a visit has only one.
LEMMA OneTicket ==
  ASSUME OnboardingInv, NEW v \in visits, NEW s \in tickets, NEW t \in tickets,
         s.id = v.id, t.id = v.id
  PROVE  s = t
BY DEF OnboardingInv, Apart

LEMMA TicketTyped ==
  ASSUME OnboardingInv, NEW t \in tickets
  PROVE  /\ t \in Tickets /\ t.id \in Nat /\ t.sessions \in Nat /\ t.used \in BOOLEAN
         /\ TicketSound(t)
BY DEF OnboardingInv, UserTypeOK, Tickets

\* A step of one visit, and of its ticket: what becomes of every ticket is a ticket of
\* the same name.
LEMMA StepOfTicket ==
  ASSUME OnboardingInv, UNCHANGED <<configVars, facts, captures, told>>, Kept,
         NEW v \in visits, NEW n \in Visits, n.id = v.id, VisitFacts(n),
         visits' = visits \/ Moved(v, n),
         account' \in [Users -> Accounts], \A u \in Users : UserSound(u)',
         tickets' \subseteq Tickets,
         \A t \in tickets' : TicketSound(t)
           /\ \E s \in tickets : s.id = t.id /\ (s.id # v.id => s = t),
         Apart(tickets)', GoodOnce(n)', v.at # "decide" \/ visits' # visits
  PROVE  OnboardingInv'
<1>1. ConfigInv' /\ load' = load
  BY ConfigStays DEF OnboardingInv
<1>2. VisitFacts(n)'
  BY VisitKept
<1>3. visits' \subseteq Visits /\ Apart(visits)' /\ \A w \in visits' : VisitFacts(w)'
  <2>1. CASE visits' = visits
    BY <2>1, VisitKept DEF OnboardingInv, UserTypeOK, Apart
  <2>2. CASE Moved(v, n)
    BY <1>2, <2>2, VisitMoves
  <2> QED BY <2>1, <2>2
<1>4. ASSUME NEW t \in tickets' PROVE TicketSound(t)'
  BY <1>1 DEF TicketSound
<1>5. ASSUME NEW w \in visits' PROVE GoodOnce(w)'
  <2>1. CASE w \in visits /\ w # v
    <3>1. w.id # v.id /\ GoodOnce(w)
      BY <2>1 DEF OnboardingInv, Apart
    <3>2. \A t \in tickets' : t.id = w.id => t \in tickets
      BY <3>1
    <3> QED BY <3>1, <3>2 DEF GoodOnce
  <2>2. CASE w = v /\ v.at # "decide"
    BY <2>2 DEF GoodOnce
  <2>3. CASE w = n
    BY <2>3
  <2>4. (w \in visits /\ w # v) \/ (w = v /\ v.at # "decide") \/ w = n
    BY DEF Moved
  <2> QED BY <2>1, <2>2, <2>3, <2>4
<1>6. UserTypeOK'
  <2>1. UserTypeOK
    BY DEF OnboardingInv
  <2> QED BY <1>3, <2>1 DEF UserTypeOK
<1> QED BY <1>1, <1>3, <1>4, <1>5, <1>6 DEF OnboardingInv

\* The first update that finds the ticket good is the only one.
LEMMA VerifyKeeps == ASSUME OnboardingInv, NEW v \in visits, Verify(v) PROVE OnboardingInv'
<1> DEFINE Used(t) == [t EXCEPT !.used = TRUE]
<1>1. v \in Visits /\ VisitFacts(v)
  BY VisitTyped
<1>2. /\ UNCHANGED <<configVars, facts, captures, told>> /\ UNCHANGED account
      /\ v.at = "verify" /\ v.what = "ticket"
  BY DEF Verify
<1>3. versions' = versions /\ load' = load /\ load \in Nat
  BY <1>2, ConfigStays DEF OnboardingInv
<1>4. Kept /\ \A u \in Users : UserSound(u)'
  BY <1>2, <1>3, AccountsKept, UsersKept
<1>5. PICK good \in SUBSET tickets :
        /\ \A t \in tickets : t \in good <=> Valid(t, v)
        /\ tickets' = (tickets \ good) \cup {Used(t) : t \in good}
        /\ \/ Becomes(v, [v EXCEPT !.at = "decide", !.correct = good # {}])
           \/ UNCHANGED visits
  <2>1. {t \in tickets : Valid(t, v)} \in SUBSET tickets
    OBVIOUS
  <2> QED BY <2>1 DEF Verify
<1>6. \A t \in good : /\ t \in tickets /\ t.id = v.id /\ t.used = FALSE /\ t.sessions = 0
  BY <1>5, TicketTyped DEF Valid, TicketSound
<1>7. ASSUME NEW t \in good
      PROVE  /\ Used(t) \in Tickets /\ Used(t).id = v.id /\ Used(t).used
             /\ Used(t).sessions = 0 /\ TicketSound(Used(t))
  <2>1. t \in tickets /\ t \in Tickets /\ t.id = v.id /\ TicketSound(t) /\ t.sessions = 0
    BY <1>6, TicketTyped
  <2> QED BY <2>1 DEF Tickets, TicketSound
<1>8. tickets' \subseteq Tickets
  BY <1>5, <1>7, TicketTyped
<1> HIDE DEF Used
<1>9. \A t \in tickets' : TicketSound(t)
           /\ \E s \in tickets : s.id = t.id /\ (s.id # v.id => s = t)
  BY <1>5, <1>6, <1>7, TicketTyped
<1>10. \A s, t \in good : s = t
  BY <1>6, OneTicket
<1>11. good # {} => \A t \in tickets : t.id = v.id => t \in good
  BY <1>6, OneTicket
<1>12. Apart(tickets)'
  <2>1. ASSUME NEW s \in tickets', NEW t \in tickets', s.id = t.id PROVE s = t
    <3>1. CASE s \in tickets \ good /\ t \in tickets \ good
      BY <2>1, <3>1 DEF OnboardingInv, Apart
    <3>2. CASE s \in tickets \ good /\ t \notin tickets \ good
      BY <1>5, <1>7, <1>11, <2>1, <3>2
    <3>3. CASE s \notin tickets \ good /\ t \in tickets \ good
      BY <1>5, <1>7, <1>11, <2>1, <3>3
    <3>4. CASE s \notin tickets \ good /\ t \notin tickets \ good
      BY <1>5, <1>10, <3>4
    <3> QED BY <3>1, <3>2, <3>3, <3>4
  <2> QED BY <2>1 DEF Apart
<1>13. PICK n \in Visits : n = [v EXCEPT !.at = "decide", !.correct = good # {}]
  BY <1>1 DEF Visits
<1>14. /\ n.id = v.id /\ n.user = v.user /\ n.what = v.what /\ n.at = "decide"
       /\ n.correct = (good # {})
       /\ n.facts = v.facts /\ n.passkey = v.passkey /\ n.password = v.password
  BY <1>1, <1>13 DEF Visits
<1>15. VisitFacts(n)
  BY <1>1, <1>14 DEF VisitFacts
<1>16. GoodOnce(n)'
  <2>1. good # {} => \A t \in tickets' : t.id = v.id => t.used /\ t.sessions = 0
    BY <1>5, <1>7, <1>11
  <2> QED BY <1>14, <2>1 DEF GoodOnce
<1>17. visits' = visits \/ Moved(v, n)
  BY <1>5, <1>13 DEF Becomes, Moved
<1>18. account' \in [Users -> Accounts]
  BY <1>2 DEF OnboardingInv, UserTypeOK
<1>19. v.at # "decide"
  BY <1>2
<1> QED BY <1>2, <1>4, <1>8, <1>9, <1>12, <1>14, <1>15, <1>16, <1>17, <1>18, <1>19, StepOfTicket

\* The ticket that was good opens the visit's session, its first.
LEMMA DecideKeeps == ASSUME OnboardingInv, NEW v \in visits, Decide(v) PROVE OnboardingInv'
<1>1. v \in Visits /\ VisitFacts(v) /\ v.user \in Users /\ account[v.user] \in Accounts
  BY VisitTyped
<1>2. UNCHANGED <<configVars, facts, captures, told>> /\ v.at = "decide" /\ v.what = "ticket"
  BY DEF Decide
<1> DEFINE n == [v EXCEPT !.at = "verify"]
<1>3. /\ n \in Visits /\ n.id = v.id /\ n.user = v.user /\ n.what = v.what /\ n.at = "verify"
      /\ n.facts = v.facts /\ n.passkey = v.passkey /\ n.password = v.password
  BY <1>1 DEF Visits
<1>4. Moved(v, n)
  BY DEF Decide, Done, Place, Becomes, Moved
<1> HIDE DEF n
<1>5. VisitFacts(n)
  BY <1>1, <1>3 DEF VisitFacts
<1>6. CASE ~v.correct
  <2>1. UNCHANGED <<configVars, account, facts, captures, tickets, told>>
    BY <1>2, <1>6 DEF Decide
  <2> QED BY <1>3, <1>4, <1>5, <2>1, OnlyVisit
<1>7. CASE v.correct
  <2>1. PICK a \in Accounts : a = [account[v.user] EXCEPT !.Session = TRUE]
    BY <1>1 DEF Accounts
  <2>2. /\ account' = [account EXCEPT ![v.user] = a]
        /\ a.Passkey = account[v.user].Passkey /\ a.Password = account[v.user].Password
    BY <1>1, <1>7, <2>1 DEF Decide, Accounts
  <2>3. Kept /\ account' \in [Users -> Accounts] /\ \A x \in Users : UserSound(x)'
    BY <1>1, <1>2, <2>2, AccountGrows
  <2> DEFINE Opened(t) == [t EXCEPT !.sessions = @ + 1]
  <2>4. tickets' = {IF t.id = v.id THEN Opened(t) ELSE t : t \in tickets}
    BY <1>7 DEF Decide
  <2>5. ASSUME NEW t \in tickets, t.id = v.id
        PROVE  /\ Opened(t) \in Tickets /\ Opened(t).id = v.id /\ TicketSound(Opened(t))
    <3>1. t \in Tickets /\ TicketSound(t) /\ t.used /\ t.sessions = 0
      BY <1>2, <1>7, <2>5, TicketTyped DEF OnboardingInv, GoodOnce
    <3>2. t.sessions + 1 \in Nat /\ t.sessions + 1 = 1
      BY <3>1
    <3>3. Opened(t) \in Tickets /\ Opened(t).id = t.id /\ Opened(t).used = t.used
          /\ Opened(t).sessions = 1
      BY <3>1, <3>2 DEF Tickets
    <3> HIDE DEF Opened
    <3> QED BY <2>5, <3>1, <3>3 DEF TicketSound
  <2> HIDE DEF Opened
  <2>6. tickets' \subseteq Tickets
    BY <2>4, <2>5, TicketTyped
  <2>7. \A t \in tickets' : TicketSound(t)
           /\ \E s \in tickets : s.id = t.id /\ (s.id # v.id => s = t)
    BY <2>4, <2>5, TicketTyped
  <2>8. Apart(tickets)'
    <3>1. ASSUME NEW s \in tickets, NEW t \in tickets,
                 (IF s.id = v.id THEN Opened(s) ELSE s).id
                   = (IF t.id = v.id THEN Opened(t) ELSE t).id
          PROVE  s = t
      <4>1. s.id = t.id
        BY <2>5, <3>1
      <4> QED BY <4>1 DEF OnboardingInv, Apart
    <3> QED BY <2>4, <3>1 DEF Apart
  <2>9. GoodOnce(n)'
    BY <1>3 DEF GoodOnce
  <2>10. visits' # visits
    BY <1>2, <1>3, <1>4 DEF Moved
  <2> QED BY <1>2, <1>3, <1>4, <1>5, <2>3, <2>6, <2>7, <2>8, <2>9, <2>10, StepOfTicket
<1> QED BY <1>6, <1>7

LEMMA ExpiryKeeps ==
  ASSUME OnboardingInv, NEW t \in tickets, TicketExpires(t) PROVE OnboardingInv'
<1> DEFINE n == [t EXCEPT !.expired = TRUE]
<1>1. UNCHANGED <<configVars, account, facts, captures, visits, told>>
  BY DEF TicketExpires
<1>2. load' = load /\ load \in Nat /\ versions' = versions /\ ConfigInv'
  BY <1>1, ConfigStays DEF OnboardingInv
<1>3. t \in Tickets /\ TicketSound(t)
  BY TicketTyped
<1>4. n \in Tickets /\ n.id = t.id /\ n.used = t.used /\ n.sessions = t.sessions
  BY <1>3 DEF Tickets
<1>5. tickets' = (tickets \ {t}) \cup {n}
  BY DEF TicketExpires
<1> HIDE DEF n
<1>6. TicketSound(n)
  BY <1>3, <1>4 DEF TicketSound
<1>7. ASSUME NEW s \in tickets' PROVE TicketSound(s)'
  BY <1>2, <1>5, <1>6, TicketTyped DEF TicketSound
<1>8. Apart(tickets)'
  BY <1>4, <1>5 DEF OnboardingInv, Apart
<1>9. Kept
  BY <1>1, <1>2, AccountsKept
<1>10. ASSUME NEW w \in visits PROVE VisitFacts(w)' /\ GoodOnce(w)'
  <2>1. VisitFacts(w)'
    BY <1>9, VisitTyped, VisitKept
  <2>2. GoodOnce(w)'
    BY <1>4, <1>5 DEF OnboardingInv, GoodOnce
  <2> QED BY <2>1, <2>2
<1>11. \A u \in Users : UserSound(u)'
  BY <1>1, <1>2, UsersKept
<1>12. UserTypeOK' /\ Apart(visits)'
  <2>1. UserTypeOK /\ Apart(visits)
    BY DEF OnboardingInv
  <2>2. tickets' \subseteq Tickets
    BY <1>4, <1>5, TicketTyped
  <2> QED BY <1>1, <2>1, <2>2 DEF UserTypeOK, Apart
<1> QED BY <1>1, <1>2, <1>7, <1>8, <1>10, <1>11, <1>12 DEF OnboardingInv

----------------------------------------------------------------------------
\* What is begun.

\* A sign-up, a new visit, a new ticket: what is new has a number of its own.
LEMMA BegunKeeps ==
  ASSUME OnboardingInv, load' = load + 1,
         UNCHANGED <<lease, settings, access, people, asks, syncs>>,
         UNCHANGED <<facts, captures, told>>, account' \in [Users -> Accounts],
         \A u \in Users : account'[u].Password = account[u].Password
                          /\ account'[u].Passkey = account[u].Passkey,
         NEW vs \in SUBSET Visits, visits' = visits \cup vs, Apart(vs),
         \A w \in vs : w.id = load + 1 /\ VisitFacts(w)' /\ w.at # "decide",
         NEW ts \in SUBSET Tickets, tickets' = tickets \cup ts, Apart(ts),
         \A t \in ts : t.id = load + 1 /\ TicketSound(t)'
  PROVE  OnboardingInv'
<1>1. load \in Nat /\ load' \in Nat /\ load <= load' /\ versions' = versions
  BY DEF OnboardingInv, ConfigInv, ConfigTypeOK, settings
<1>2. ConfigInv'
  BY <1>1, ConfigRests DEF OnboardingInv
<1>3. Kept
  BY <1>1 DEF Kept
<1>4. ASSUME NEW u \in Users PROVE UserSound(u)'
  <2>1. UserSound(u) /\ account'[u].Password = account[u].Password
        /\ account'[u].Passkey = account[u].Passkey
    BY DEF OnboardingInv
  <2> QED BY <1>1, <2>1 DEF UserSound
<1>5. \A w \in visits : w.id # load + 1 /\ VisitFacts(w)'
  <2>1. ASSUME NEW w \in visits PROVE w.id # load + 1
    BY <1>1, VisitTyped DEF VisitFacts
  <2> QED BY <1>3, <2>1, VisitTyped, VisitKept
<1>6. \A t \in tickets : t.id # load + 1 /\ TicketSound(t)'
  <2>1. ASSUME NEW t \in tickets PROVE t.id # load + 1 /\ (t.id <= load)'
    BY <1>1, TicketTyped DEF TicketSound
  <2> QED BY <2>1, TicketTyped DEF TicketSound
<1>7. Apart(visits)' /\ Apart(tickets)'
  BY <1>5, <1>6 DEF OnboardingInv, Apart
<1>8. ASSUME NEW w \in visits' PROVE GoodOnce(w)'
  <2>1. CASE w \in visits
    BY <1>5, <2>1 DEF OnboardingInv, GoodOnce
  <2>2. CASE w \in vs
    BY <2>2 DEF GoodOnce
  <2> QED BY <2>1, <2>2
<1>9. UserTypeOK'
  <2>1. UserTypeOK
    BY DEF OnboardingInv
  <2> QED BY <2>1 DEF UserTypeOK
<1>10. \A w \in visits' : VisitFacts(w)'
  BY <1>5
<1>11. \A t \in tickets' : TicketSound(t)'
  BY <1>6
<1> QED BY <1>2, <1>4, <1>7, <1>8, <1>9, <1>10, <1>11 DEF OnboardingInv

\* A visit that has just begun knows nothing.
LEMMA FreshVisit ==
  ASSUME OnboardingInv, NEW n \in Visits, n.id = load + 1, load' = load + 1,
         n.facts = NoFacts, ~n.passkey, n.at \notin {"mark", "set"},
         n.what = "password" => n.password # 0
  PROVE  VisitFacts(n)'
<1>1. n.id \in Nat /\ n.id <= load'
  BY DEF Visits
<1> QED BY <1>1 DEF VisitFacts, NoFacts

LEMMA StartedKeeps ==
  ASSUME OnboardingInv, NEW n \in Visits, Started(n), n.id = load + 1,
         n.facts = NoFacts, ~n.passkey, n.at \notin {"mark", "set", "decide"},
         n.what = "password" => n.password # 0,
         UNCHANGED <<account, facts, captures, told>>,
         NEW ts \in SUBSET Tickets, tickets' = tickets \cup ts, Apart(ts),
         \A t \in ts : t.id = load + 1 /\ t.sessions = 0
  PROVE  OnboardingInv'
<1>1. load' = load + 1 /\ load \in Nat /\ visits' = visits \cup {n}
      /\ UNCHANGED <<lease, settings, access, people, asks, syncs>>
  BY DEF Started, OnboardingInv, ConfigInv, ConfigTypeOK
<1>2. VisitFacts(n)'
  BY <1>1, FreshVisit
<1>3. \A t \in ts : t.id = load + 1 /\ TicketSound(t)'
  BY <1>1 DEF TicketSound
<1>4. Apart({n}) /\ {n} \in SUBSET Visits
  BY DEF Apart
<1>5. account' \in [Users -> Accounts]
  BY DEF OnboardingInv, UserTypeOK
<1>6. \A u \in Users : account'[u].Password = account[u].Password
                          /\ account'[u].Passkey = account[u].Passkey
  OBVIOUS
<1>7. \A w \in {n} : w.id = load + 1 /\ VisitFacts(w)' /\ w.at # "decide"
  BY <1>2
<1> HIDE DEF OnboardingInv
<1> QED BY <1>1, <1>3, <1>4, <1>5, <1>6, <1>7, BegunKeeps

LEMMA NewVisitTyped ==
  ASSUME OnboardingInv, NEW u \in Users,
         NEW what \in {"ticket", "signin", "passkey", "password", "status"},
         NEW at \in {"initiate", "finish", "complete", "policy"}
  PROVE  LET n == NewVisit(u, what, at)
         IN  /\ n \in Visits /\ n.id = load + 1 /\ n.what = what /\ n.at = at
             /\ n.facts = NoFacts /\ ~n.passkey
<1>1. load + 1 \in Nat /\ NoFacts \in Facts /\ "EMAIL_OTP" \in Methods
  BY DEF NoFacts, Facts, Methods, OnboardingInv, ConfigInv, ConfigTypeOK
<1> QED BY <1>1 DEF NewVisit, Visits

\* A visit that brings no ticket.
LEMMA VisitBegins ==
  ASSUME OnboardingInv, NEW n \in Visits, Started(n), n.id = load + 1,
         n.facts = NoFacts, ~n.passkey, n.at \notin {"mark", "set", "decide"},
         n.what = "password" => n.password # 0,
         UNCHANGED <<account, facts, captures, tickets, told>>
  PROVE  OnboardingInv'
<1>1. Apart({}) /\ {} \in SUBSET Tickets /\ tickets' = tickets \cup {}
  BY DEF Apart
<1>2. \A t \in {} : t.id = load + 1 /\ t.sessions = 0
  OBVIOUS
<1> QED BY <1>1, <1>2, StartedKeeps

LEMMA StartsKeep ==
  ASSUME OnboardingInv, NEW u \in Users,
         \/ Options(u) \/ StartStatus(u)
         \/ \E method \in Methods : Start(u, method)
         \/ \E password \in Passwords : StartPassword(u, password)
  PROVE  OnboardingInv'
<1>1. CASE Options(u)
  <2>1. PICK n \in Visits : n = NewVisit(u, "passkey", "complete")
    BY NewVisitTyped
  <2>2. n.id = load + 1 /\ n.what = "passkey" /\ n.at = "complete" /\ n.facts = NoFacts
        /\ ~n.passkey
    BY <2>1, NewVisitTyped
  <2>3. Started(n) /\ UNCHANGED <<account, facts, captures, tickets, told>>
    BY <1>1, <2>1 DEF Options, Started
  <2> QED BY <2>2, <2>3, VisitBegins
<1>2. CASE StartStatus(u)
  <2>1. PICK n \in Visits : n = NewVisit(u, "status", "policy")
    BY NewVisitTyped
  <2>2. n.id = load + 1 /\ n.what = "status" /\ n.at = "policy" /\ n.facts = NoFacts
        /\ ~n.passkey
    BY <2>1, NewVisitTyped
  <2>3. Started(n) /\ UNCHANGED <<account, facts, captures, tickets, told>>
    BY <1>2, <2>1 DEF StartStatus, Started
  <2> QED BY <2>2, <2>3, VisitBegins
<1>3. ASSUME NEW method \in Methods, Start(u, method) PROVE OnboardingInv'
  <2>1. PICK m \in Visits : m = NewVisit(u, "signin", "finish")
    BY NewVisitTyped
  <2>2. m.id = load + 1 /\ m.what = "signin" /\ m.at = "finish" /\ m.facts = NoFacts
        /\ ~m.passkey
    BY <2>1, NewVisitTyped
  <2> DEFINE n == [m EXCEPT !.method = method]
  <2>3. n \in Visits /\ n.id = load + 1 /\ n.what = "signin" /\ n.at = "finish"
        /\ n.facts = NoFacts /\ ~n.passkey
    BY <2>2 DEF Visits
  <2>4. Started(n) /\ UNCHANGED <<account, facts, captures, tickets, told>>
    BY <1>3, <2>1 DEF Start, Started
  <2> QED BY <2>3, <2>4, VisitBegins
<1>4. ASSUME NEW password \in Passwords, StartPassword(u, password) PROVE OnboardingInv'
  <2>1. PICK m \in Visits : m = NewVisit(u, "password", "policy")
    BY NewVisitTyped
  <2>2. m.id = load + 1 /\ m.what = "password" /\ m.at = "policy" /\ m.facts = NoFacts
        /\ ~m.passkey
    BY <2>1, NewVisitTyped
  <2> DEFINE n == [m EXCEPT !.password = password]
  <2>3. n \in Visits /\ n.id = load + 1 /\ n.what = "password" /\ n.at = "policy"
        /\ n.facts = NoFacts /\ ~n.passkey /\ n.password = password
    BY <2>2 DEF Visits
  <2>4. Started(n) /\ UNCHANGED <<account, facts, captures, tickets, told>>
    BY <1>4, <2>1 DEF StartPassword, Started
  <2>5. password # 0
    BY PolicyAssumption
  <2> QED BY <2>3, <2>4, <2>5, VisitBegins
<1> QED BY <1>1, <1>2, <1>3, <1>4

LEMMA GrantKeeps == ASSUME OnboardingInv, NEW u \in Users, PutGrant(u) PROVE OnboardingInv'
<1>1. load + 1 \in Nat
  BY DEF OnboardingInv, ConfigInv, ConfigTypeOK
<1>2. PICK n \in Visits : n = NewVisit(u, "ticket", "initiate")
  BY NewVisitTyped
<1>3. n.id = load + 1 /\ n.what = "ticket" /\ n.at = "initiate" /\ n.facts = NoFacts
      /\ ~n.passkey
  BY <1>2, NewVisitTyped
<1>4. Started(n) /\ UNCHANGED <<account, facts, captures, told>>
  BY <1>2 DEF PutGrant, Started
<1>5. [id |-> load + 1, user |-> u, used |-> FALSE, expired |-> FALSE, sessions |-> 0] \in Tickets
  BY <1>1 DEF Tickets
<1>6. PICK t \in Tickets : t = [id |-> load + 1, user |-> u, used |-> FALSE,
                                expired |-> FALSE, sessions |-> 0]
  BY <1>5
<1>7. tickets' = tickets \cup {t}
  BY <1>6 DEF PutGrant
<1>8. {t} \in SUBSET Tickets /\ Apart({t}) /\ \A s \in {t} : s.id = load + 1 /\ s.sessions = 0
  BY <1>6 DEF Apart
<1> QED BY <1>3, <1>4, <1>7, <1>8, StartedKeeps

LEMMA SignUpKeeps == ASSUME OnboardingInv, NEW u \in Users, SignUp(u) PROVE OnboardingInv'
<1>1. account \in [Users -> Accounts] /\ account[u] \in Accounts
  BY DEF OnboardingInv, UserTypeOK
<1>2. PICK a \in Accounts : a = [account[u] EXCEPT !.Known = TRUE]
  BY <1>1 DEF Accounts
<1>3. account' = [account EXCEPT ![u] = a]
      /\ a.Passkey = account[u].Passkey /\ a.Password = account[u].Password
  BY <1>1, <1>2 DEF SignUp, Accounts
<1>4. /\ account' \in [Users -> Accounts]
      /\ \A x \in Users : account'[x].Password = account[x].Password
                          /\ account'[x].Passkey = account[x].Passkey
  BY <1>1, <1>3
<1>5. /\ {} \in SUBSET Visits /\ visits' = visits \cup {} /\ Apart({})
      /\ {} \in SUBSET Tickets /\ tickets' = tickets \cup {}
  BY DEF SignUp, Apart
<1>6. /\ load' = load + 1 /\ UNCHANGED <<lease, settings, access, people, asks, syncs>>
      /\ UNCHANGED <<facts, captures, told>>
  BY DEF SignUp
<1>7. /\ \A w \in {} : w.id = load + 1 /\ VisitFacts(w)' /\ w.at # "decide"
      /\ \A t \in {} : t.id = load + 1 /\ TicketSound(t)'
  OBVIOUS
<1> QED BY <1>4, <1>5, <1>6, <1>7, BegunKeeps

\* A capture's state is none of a visit's business; that one was ready is for good.
LEMMA CaptureKeeps ==
  ASSUME OnboardingInv, NEW u \in Users, CaptureMoves(u) PROVE OnboardingInv'
<1>1. UNCHANGED configVars /\ UNCHANGED <<account, facts, tickets, visits, told>>
  BY DEF CaptureMoves
<1>2. load' = load /\ load \in Nat /\ versions' = versions /\ ConfigInv'
  BY <1>1, ConfigStays DEF OnboardingInv
<1>3. Kept
  BY <1>1, <1>2, AccountsKept
<1>4. captures \in [Users -> Captures] /\ captures[u] \in Captures /\ UserSound(u)
  BY DEF OnboardingInv, UserTypeOK
<1>5. PICK c \in Captures :
        /\ captures' = [captures EXCEPT ![u] = c]
        /\ captures[u].Ever => c.Ever
        /\ c.Flag \/ c.State = "ready" => c.Ever
  <2>1. CASE captures[u].State = "none" /\ captures' = [captures EXCEPT ![u].State = "open"]
    <3> DEFINE c == [captures[u] EXCEPT !.State = "open"]
    <3>1. c \in Captures /\ c.Flag = captures[u].Flag /\ c.Ever = captures[u].Ever
          /\ c.State = "open"
      BY <1>4 DEF Captures
    <3> HIDE DEF c
    <3>2. captures' = [captures EXCEPT ![u] = c]
      BY <2>1 DEF c
    <3> QED BY <1>4, <3>1, <3>2 DEF UserSound
  <2>2. CASE captures[u].State = "open"
             /\ captures' = [captures EXCEPT
                               ![u] = [State |-> "ready", Flag |-> TRUE, Ever |-> TRUE]]
    <3>1. [State |-> "ready", Flag |-> TRUE, Ever |-> TRUE] \in Captures
      BY DEF Captures
    <3> QED BY <2>2, <3>1
  <2>3. CASE captures[u].State = "ready" /\ captures' = [captures EXCEPT ![u].State = "erased"]
    <3> DEFINE c == [captures[u] EXCEPT !.State = "erased"]
    <3>1. c \in Captures /\ c.Flag = captures[u].Flag /\ c.Ever = captures[u].Ever
          /\ c.State = "erased"
      BY <1>4 DEF Captures
    <3> HIDE DEF c
    <3>2. captures' = [captures EXCEPT ![u] = c]
      BY <2>3 DEF c
    <3> QED BY <1>4, <3>1, <3>2 DEF UserSound
  <2> QED BY <2>1, <2>2, <2>3 DEF CaptureMoves
<1>6. /\ captures' \in [Users -> Captures]
      /\ \A x \in Users : captures'[x] = IF x = u THEN c ELSE captures[x]
  BY <1>4, <1>5
<1>7. ASSUME NEW x \in Users PROVE UserSound(x)'
  <2>1. UserSound(x)
    BY DEF OnboardingInv
  <2> QED BY <1>1, <1>2, <1>5, <1>6, <2>1 DEF UserSound
<1>8. \A w \in visits' : VisitFacts(w)'
  BY <1>1, <1>3, VisitTyped, VisitKept
<1>9. /\ tickets' \subseteq Tickets /\ Apart(tickets)'
      /\ \A t \in tickets' : TicketSound(t)'
      /\ \A w \in visits' : GoodOnce(w)'
  BY <1>1, <1>3, TicketsRest
<1>10. UserTypeOK' /\ Apart(visits)'
  <2>1. UserTypeOK /\ Apart(visits)
    BY DEF OnboardingInv
  <2> QED BY <1>1, <1>6, <2>1 DEF UserTypeOK, Apart
<1> QED BY <1>2, <1>7, <1>8, <1>9, <1>10 DEF OnboardingInv

\* The history only grows, and so does what was ever begun.
LEMMA ConfigGrows ==
  ASSUME ConfigInv, ConfigNext
  PROVE  versions \subseteq versions' /\ load \in Nat /\ load' \in Nat /\ load <= load'
<1>1. load \in Nat
  BY DEF ConfigInv, ConfigTypeOK
<1>2. versions \subseteq versions'
  <2>1. CASE UNCHANGED settings
    BY <2>1 DEF settings
  <2>2. CASE \E y \in syncs : SyncWrite(y)
    BY <2>2 DEF SyncWrite, settings
  <2>3. CASE \E q \in asks : Publish(q)
    BY <2>3 DEF Publish, settings
  <2> QED BY <2>1, <2>2, <2>3
       DEF ConfigNext, Reserve, Yield, SyncRead, AskPublish, AskRollback, AskGrant, StartSetup,
           SetGrant, Configure, Invite, BootstrapGrant, SetupDies
<1>3. load' = load \/ load' = load + 1
  BY DEF ConfigNext, Reserve, Yield, SyncRead, SyncWrite, AskPublish, AskRollback, AskGrant,
         StartSetup, Publish, SetGrant, Configure, Invite, BootstrapGrant, SetupDies
<1> QED BY <1>1, <1>2, <1>3

LEMMA ConfigStepKeeps ==
  ASSUME OnboardingInv, ConfigNext, UNCHANGED userVars PROVE OnboardingInv'
<1>1. ConfigInv'
  BY StepInv DEF OnboardingInv
<1>2. UNCHANGED <<account, facts, captures, tickets, visits, told>>
  BY DEF userVars
<1>3. versions \subseteq versions' /\ load \in Nat /\ load' \in Nat /\ load <= load'
  BY ConfigGrows DEF OnboardingInv
<1>4. Kept /\ \A u \in Users : UserSound(u)'
  BY <1>2, <1>3, AccountsKept, UsersKept
<1>5. \A w \in visits' : VisitFacts(w)'
  BY <1>2, <1>4, VisitTyped, VisitKept
<1>6. /\ tickets' \subseteq Tickets /\ Apart(tickets)'
      /\ \A t \in tickets' : TicketSound(t)'
      /\ \A w \in visits' : GoodOnce(w)'
  BY <1>2, <1>4, TicketsRest
<1>7. UserTypeOK' /\ Apart(visits)'
  BY <1>2 DEF OnboardingInv, UserTypeOK, Apart
<1> QED BY <1>1, <1>4, <1>5, <1>6, <1>7 DEF OnboardingInv

LEMMA UsersRest ==
  ASSUME OnboardingInv, UNCHANGED onboardingVars PROVE OnboardingInv'
<1>1. UNCHANGED configVars /\ UNCHANGED <<account, facts, captures, tickets, visits, told>>
  BY DEF onboardingVars, userVars
<1>2. load' = load /\ load \in Nat /\ versions' = versions /\ ConfigInv'
  BY <1>1, ConfigStays DEF OnboardingInv
<1>3. Kept /\ \A u \in Users : UserSound(u)'
  BY <1>1, <1>2, AccountsKept, UsersKept
<1>4. \A w \in visits' : VisitFacts(w)'
  BY <1>1, <1>3, VisitTyped, VisitKept
<1>5. /\ tickets' \subseteq Tickets /\ Apart(tickets)'
      /\ \A t \in tickets' : TicketSound(t)'
      /\ \A w \in visits' : GoodOnce(w)'
  BY <1>1, <1>3, TicketsRest
<1>6. UserTypeOK' /\ Apart(visits)'
  BY <1>1 DEF OnboardingInv, UserTypeOK, Apart
<1> QED BY <1>2, <1>3, <1>4, <1>5, <1>6 DEF OnboardingInv

----------------------------------------------------------------------------
\* Where the users start: a password was chosen under the configuration that is there.
LEMMA OnboardingInitInv == OnboardingInit => OnboardingInv
<1> SUFFICES ASSUME ConfigInit, UserInit PROVE OnboardingInv
  BY DEF OnboardingInit
<1>1. load \in Nat
  BY DEF UserInit
<1>2. ConfigInv
  BY <1>1, InitInv
<1>3. tickets = {} /\ visits = {} /\ told = [u \in Users |-> Nothing]
  BY DEF UserInit
<1>4. marker => \E w \in versions : w.Text = config.Text
  <2>1. marker => config.Text # Nothing
    <3> SUFFICES ASSUME marker PROVE config.Text # Nothing
      OBVIOUS
    <3>1. PICK c \in Contents :
            config = [Revision |-> 0, Text |-> c, Override |-> FALSE, Generation |-> 1]
      BY DEF ConfigInit
    <3> QED BY <3>1, NothingPublished
  <2> QED BY <1>2, <2>1 DEF ConfigInv, HistoryTold
<1>5. PICK past \in IF marker THEN {"none", "in", "out"} ELSE {"none"},
           password \in {0} \cup {q \in Passwords : marker /\ Accepts(config.Text, q)} :
        /\ password # 0 => past = "out"
        /\ \E has \in IF past = "none" THEN {FALSE} ELSE BOOLEAN :
             account = [u \in Users |->
               [Known |-> past # "none", Password |-> password, Passkey |-> has,
                Session |-> past = "in"]]
        /\ facts = [u \in Users |-> [Password |-> password # 0, Captured |-> FALSE]]
        /\ load = IF past = "none" THEN 0 ELSE 1
        /\ \E old \in IF past = "none" THEN {"none"} ELSE {"open", "ready"} :
             captures = [u \in Users |-> [State |-> old, Flag |-> FALSE, Ever |-> old = "ready"]]
  BY Zenon DEF UserInit
<1>6. PICK has \in BOOLEAN :
        account = [u \in Users |->
          [Known |-> past # "none", Password |-> password, Passkey |-> has,
           Session |-> past = "in"]]
  BY <1>5
<1>7. PICK old \in {"none", "open", "ready"} :
        captures = [u \in Users |-> [State |-> old, Flag |-> FALSE, Ever |-> old = "ready"]]
  BY <1>5
<1>8. facts = [u \in Users |-> [Password |-> password # 0, Captured |-> FALSE]]
  BY <1>5
<1>9. account \in [Users -> Accounts]
  <2>1. password \in Passwords \cup {0}
    BY <1>5
  <2> QED BY <1>6, <2>1 DEF Accounts
<1>10. facts \in [Users -> Facts] /\ captures \in [Users -> Captures]
  BY <1>7, <1>8 DEF Facts, Captures
<1>11. ASSUME NEW u \in Users PROVE UserSound(u)
  <2>1. /\ account[u].Password = password /\ facts[u].Password = (password # 0)
        /\ ~facts[u].Captured /\ ~captures[u].Flag
        /\ captures[u].State = "ready" => captures[u].Ever
        /\ told[u] = Nothing
    BY <1>3, <1>6, <1>7, <1>8
  <2>2. password # 0 => marker /\ Accepts(config.Text, password)
    BY <1>5
  <2>3. password # 0 => \E w \in versions : Accepts(w.Text, password)
    BY <1>4, <2>2
  <2> QED BY <2>1, <2>3 DEF UserSound
<1>12. UserTypeOK
  BY <1>3, <1>9, <1>10 DEF UserTypeOK
<1> QED BY <1>2, <1>3, <1>11, <1>12 DEF OnboardingInv, Apart

LEMMA OnboardingStepInv == OnboardingInv /\ [OnboardingNext]_onboardingVars => OnboardingInv'
<1> SUFFICES ASSUME OnboardingInv, [OnboardingNext]_onboardingVars PROVE OnboardingInv'
  OBVIOUS
<1>1. CASE ConfigNext /\ UNCHANGED userVars
  BY <1>1, ConfigStepKeeps
<1>2. CASE UNCHANGED onboardingVars
  BY <1>2, UsersRest
<1>3. ASSUME NEW u \in Users,
             \/ SignUp(u) \/ PutGrant(u) \/ Options(u) \/ StartStatus(u)
             \/ CaptureMoves(u)
             \/ \E method \in Methods : Start(u, method)
             \/ \E password \in Passwords : StartPassword(u, password)
      PROVE  OnboardingInv'
  BY <1>3, SignUpKeeps, GrantKeeps, CaptureKeeps, StartsKeep
<1>4. ASSUME NEW v \in visits,
             \/ DefineAndCreate(v) \/ Verify(v) \/ Decide(v) \/ Finish(v) \/ CompletePasskey(v)
             \/ ReadPolicy(v) \/ SetPassword(v) \/ MarkPassword(v)
             \/ ReadFacts(v) \/ ReadPasskeys(v) \/ ReadCapture(v) \/ AnswerStatus(v)
      PROVE  OnboardingInv'
  BY <1>4, CreateKeeps, VerifyKeeps, DecideKeeps, FinishKeeps, PasskeyKeeps, PolicyKeeps,
     SetKeeps, MarkKeeps, ReadFactsKeeps, ReadPasskeysKeeps, ReadCaptureKeeps, AnswerKeeps
<1>5. ASSUME NEW t \in tickets, TicketExpires(t) PROVE OnboardingInv'
  BY <1>5, ExpiryKeeps
<1> QED BY <1>1, <1>2, <1>3, <1>4, <1>5 DEF OnboardingNext, UserNext

\* OnboardingInv always: what the calls of sign-in, passkeys and enrollment have read
\* stays true while other calls, and publications, move on.
THEOREM OnboardingInvHolds == OnboardingSpec => []OnboardingInv
BY OnboardingInitInv, OnboardingStepInv, PTL DEF OnboardingSpec

\* A ticket opens one session (the custom challenge), facts were earned (enrollment.go's
\* Facts.Mark), passwords passed a published policy, and what a user was told by the status
\* it had completed, it has.
THEOREM EnrollmentHolds == OnboardingSpec => []EnrollmentSound
<1>1. OnboardingInv => EnrollmentSound
  <2> SUFFICES ASSUME OnboardingInv PROVE EnrollmentSound
    OBVIOUS
  <2>1. OnboardingTypeOK
    BY DEF OnboardingInv, ConfigInv, OnboardingTypeOK
  <2>2. OneSessionPerTicket
    BY DEF OnboardingInv, TicketSound, OneSessionPerTicket
  <2>3. ToldTruly
    BY DEF OnboardingInv, UserSound, ToldTruly, Complete
  <2>4. FactsEarned /\ PasswordUnderPolicy
    BY DEF OnboardingInv, UserSound, FactsEarned, PasswordUnderPolicy
  <2> QED BY <2>1, <2>2, <2>3, <2>4 DEF EnrollmentSound
<1> QED BY <1>1, OnboardingInvHolds, PTL

\* Administration stays sound beside the users' calls, which only read the configuration.
THEOREM AdministrationUnderUsers == OnboardingSpec => AdministrationSound
<1>1. OnboardingInv => ConfigTypeOK /\ HistoryTold /\ ManagerRemains /\ PoolStaysStrict
  BY DEF OnboardingInv, ConfigInv, PoolSound, PoolStaysStrict
<1>2. OnboardingInv /\ [OnboardingNext]_onboardingVars
        => [GrantsByManagers /\ DefaultsFenced]_configVars
  <2> SUFFICES ASSUME OnboardingInv, [OnboardingNext]_onboardingVars
               PROVE  [GrantsByManagers /\ DefaultsFenced]_configVars
    OBVIOUS
  <2>1. CASE ConfigNext
    BY <2>1, FencedStep, ManagersStep DEF OnboardingInv
  <2>2. CASE UNCHANGED configVars
    BY <2>2
  <2>3. CASE config' = config /\ grants' = grants
    BY <2>3 DEF GrantsByManagers, DefaultsFenced
  <2>4. UserNext => UNCHANGED configVars \/ (config' = config /\ grants' = grants)
    BY DEF UserNext, SignUp, PutGrant, Options, StartStatus, CaptureMoves, Start, StartPassword,
           DefineAndCreate, Verify, Decide, Finish, CompletePasskey, ReadPolicy, SetPassword,
           MarkPassword, ReadFacts, ReadPasskeys, ReadCapture, AnswerStatus, TicketExpires,
           Started, settings, access
  <2> QED BY <2>1, <2>2, <2>3, <2>4 DEF OnboardingNext, onboardingVars
<1> QED BY <1>1, <1>2, OnboardingInvHolds, PTL DEF OnboardingSpec, AdministrationSound
============================================================================
