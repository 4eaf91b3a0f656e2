---------------------------- MODULE RuntimeConfig ----------------------------
(* The configuration of one environment, its history, and who may change either.

   Three kinds of writers meet in the table "runtime": deployments, which put defaults
   there under the lease of the environment's index row (runtimeconfig/store.go
   SyncDefaults); administrators, through handlers that read a grant first and commit a
   transaction later (adminapi/handler.go); and the setup command that invites the first
   administrator (cmd/admin-setup), whose pool it configures first (adminsetup).

   indexRow is the index row with the operations of RegistryRow; IndexLease has the tools
   that drive it. *)
EXTENDS RegistryRow, FiniteSets

CONSTANTS Admins,       \* subjects of the administrators' pool
          MaxLoad       \* bound: leases, requests, synchronizations and setups ever begun

VARIABLES indexRow, config, versions, grants, marker, pool, invited, asks, syncs, setups, load

lease == <<indexRow>>
settings == <<config, versions>>
access == <<grants, marker>>
people == <<pool, invited, setups>>
configVars == <<indexRow, config, versions, grants, marker, pool, invited, asks, syncs,
                setups, load>>

\* the items CONFIG and VERSION#; By is the actor
Config == [Revision : Nat, Text : Contents \cup {Nothing}, Override : BOOLEAN, Generation : Nat]
NoConfig == [Revision |-> 0, Text |-> Nothing, Override |-> FALSE, Generation |-> 0]
Version == [Revision : Nat, Text : Contents, By : Admins \cup {"deployment"}]

Grant == [Revision : Nat, Active : BOOLEAN, ManageGrants : BOOLEAN]
NoGrant == [Revision |-> 0, Active |-> FALSE, ManageGrants |-> FALSE]
FirstGrant == [Revision |-> 1, Active |-> TRUE, ManageGrants |-> TRUE]

\* a request of an administrator between reading the grant and the transaction
Asks == [what : {"publish", "grant"}, by : Admins, grant : Grant, expected : Nat,
         text : Contents \cup {Nothing}, target : Admins, wanted : Grant]
Syncs == [token : Nat, revision : Nat, text : Contents, old : Config]
SetupPlaces == {"set", "update", "again", "verify", "marker", "user", "create", "grant", "died"}
Setups == [sub : Admins, at : SetupPlaces]

\* A fresh environment, or one that is deployed and has its first administrator.
ConfigInit ==
  /\ pool \in [mfa : BOOLEAN, choices : {FALSE}]
  /\ asks = {} /\ syncs = {} /\ setups = {}
  /\ \/ /\ indexRow = NoRow /\ config = NoConfig /\ versions = {}
        /\ grants = [a \in Admins |-> NoGrant] /\ marker = FALSE /\ invited = {}
        /\ ~pool.mfa
     \/ /\ pool.mfa
        /\ \E c \in Contents, a \in Admins :
             /\ indexRow = Published(Begun(NoRow, 1), [token |-> 1, revision |-> 1, content |-> c],
                                Nothing, 0)
             /\ config = [Revision |-> 0, Text |-> c, Override |-> FALSE, Generation |-> 1]
             /\ versions = {[Revision |-> 0, Text |-> c, By |-> "deployment"]}
             /\ grants = [b \in Admins |-> IF b = a THEN FirstGrant ELSE NoGrant]
             /\ marker = TRUE /\ invited = {a}

----------------------------------------------------------------------------
\* Deployments.

Reserve ==
  /\ load < MaxLoad
  /\ load' = load + 1
  /\ Free(indexRow, indexRow.Revision + 1)
  /\ indexRow' = Begun(indexRow, indexRow.Revision + 1)
  /\ UNCHANGED <<settings, access, people, asks, syncs>>

\* The deployment ends; what it sent to the table may still be on its way.
Yield ==
  /\ indexRow.Lock # 0
  /\ indexRow' = Abandoned(indexRow, [token |-> indexRow.Lock])
  /\ UNCHANGED <<settings, access, people, asks, syncs, load>>

\* SyncDefaults reads the configuration; a retry, or a second tool with the token, may
\* bring another text.
SyncRead ==
  /\ indexRow.Lock # 0 /\ load < MaxLoad
  /\ load' = load + 1
  /\ \E c \in Contents :
       syncs' = syncs \cup {[token |-> indexRow.Lock, revision |-> indexRow.Revision, text |-> c,
                             old |-> config]}
  /\ UNCHANGED <<lease, settings, access, people, asks>>

\* an override, this very synchronization done before, or a later deployment
SyncNeedless(y) == y.old.Text # Nothing /\ (y.old.Override \/ y.old.Generation >= y.revision)

\* FAULTY variant: the lease is not asked for.
SyncHolds_NoFence(y) ==
  IF y.old.Text = Nothing THEN config.Text = Nothing
  ELSE config.Revision = y.old.Revision /\ ~config.Override
\* what the transaction asks of the lease and of CONFIG
SyncHolds(y) ==
  /\ indexRow.Lock = y.token /\ indexRow.Revision = y.revision
  /\ IF y.old.Text = Nothing THEN config.Text = Nothing
     ELSE /\ config.Revision = y.old.Revision
          /\ ~config.Override /\ config.Generation < y.revision

SyncWrite(y) ==
  /\ syncs' = syncs \ {y}
  /\ LET changed == y.old.Text # y.text
         revision == IF y.old.Text # Nothing /\ changed THEN y.old.Revision + 1
                     ELSE y.old.Revision
     IN \/ /\ ~SyncNeedless(y) /\ SyncHolds(y)
           /\ changed => \A v \in versions : v.Revision # revision
           /\ config' = [Revision |-> revision, Text |-> y.text, Override |-> FALSE,
                         Generation |-> y.revision]
           /\ versions' = IF changed
                          THEN versions \cup {[Revision |-> revision, Text |-> y.text,
                                               By |-> "deployment"]}
                          ELSE versions
        \/ UNCHANGED settings   \* needless, a condition failed, or the call did
  /\ UNCHANGED <<lease, access, people, asks, load>>

----------------------------------------------------------------------------
\* Administrators.  A request names the revision its sender once saw.

Authorized(a) == grants[a].Active

AskPublish(a) ==
  /\ Authorized(a) /\ load < MaxLoad
  /\ load' = load + 1
  /\ \E expected \in 0..config.Revision, c \in Contents :
       asks' = asks \cup {[what |-> "publish", by |-> a, grant |-> grants[a],
                           expected |-> expected, text |-> c, target |-> a,
                           wanted |-> NoGrant]}
  /\ UNCHANGED <<lease, settings, access, people, syncs>>

\* GetVersion; the version read is never changed
AskRollback(a) ==
  /\ Authorized(a) /\ load < MaxLoad
  /\ load' = load + 1
  /\ \E expected \in 0..config.Revision, v \in versions :
       asks' = asks \cup {[what |-> "publish", by |-> a, grant |-> grants[a],
                           expected |-> expected, text |-> v.Text, target |-> a,
                           wanted |-> NoGrant]}
  /\ UNCHANGED <<lease, settings, access, people, syncs>>

AskGrant(a) ==
  /\ Authorized(a) /\ grants[a].ManageGrants /\ load < MaxLoad
  /\ load' = load + 1
  /\ \E b \in Admins \ {a}, active, manage \in BOOLEAN :
       \E seen \in 0..grants[b].Revision :
         asks' = asks \cup {[what |-> "grant", by |-> a, grant |-> grants[a], expected |-> seen,
                             text |-> Nothing, target |-> b,
                             wanted |-> [Revision |-> seen + 1, Active |-> active,
                                         ManageGrants |-> manage]]}
  /\ UNCHANGED <<lease, settings, access, people, syncs>>

\* FAULTY variant: the grant that was read is taken for the grant that is.
GrantCheck_AsRead(q, manage) == q.grant.Active /\ (manage => q.grant.ManageGrants)
\* the condition on the actor's own grant, in the same transaction
GrantCheck(q, manage) ==
  LET g == grants[q.by] IN
  g.Revision = q.grant.Revision /\ g.Active /\ (manage => g.ManageGrants)

\* FAULTY variant: the last to publish wins, whatever it had seen.
Publish_Blind(q) ==
  /\ q.what = "publish"
  /\ asks' = asks \ {q}
  /\ GrantCheck(q, FALSE) /\ config.Text # Nothing
  /\ config' = [Revision |-> q.expected + 1, Text |-> q.text, Override |-> TRUE,
                Generation |-> 0]
  /\ versions' = versions \cup {[Revision |-> q.expected + 1, Text |-> q.text, By |-> q.by]}
  /\ UNCHANGED <<lease, access, people, syncs, load>>
Publish(q) ==
  /\ q.what = "publish"
  /\ asks' = asks \ {q}
  /\ \/ /\ GrantCheck(q, FALSE) /\ config.Text # Nothing /\ config.Revision = q.expected
        /\ \A v \in versions : v.Revision # q.expected + 1
        /\ config' = [Revision |-> q.expected + 1, Text |-> q.text, Override |-> TRUE,
                      Generation |-> 0]
        /\ versions' = versions \cup {[Revision |-> q.expected + 1, Text |-> q.text,
                                       By |-> q.by]}
     \/ UNCHANGED settings      \* a condition failed, or the call did
  /\ UNCHANGED <<lease, access, people, syncs, load>>

SetGrant(q) ==
  /\ q.what = "grant"
  /\ asks' = asks \ {q}
  /\ \/ /\ GrantCheck(q, TRUE) /\ grants[q.target].Revision = q.expected
        /\ grants' = [grants EXCEPT ![q.target] = q.wanted]
     \/ UNCHANGED grants
  /\ UNCHANGED <<lease, settings, marker, people, syncs, load>>

----------------------------------------------------------------------------
\* The setup of the administrators' pool and of the first grant.

StartSetup(a) ==
  /\ load < MaxLoad
  /\ load' = load + 1
  /\ setups' = setups \cup {[sub |-> a, at |-> "set"]}
  /\ UNCHANGED <<lease, settings, access, pool, invited, asks, syncs>>

SetupGoes(s, place) == setups' = (setups \ {s}) \cup {[s EXCEPT !.at = place]}
Ends(s) == setups' = setups \ {s}

\* FAULTY variant: the factors are set once.
Configure_Once(s) ==
  /\ \/ s.at = "set" /\ pool' = [pool EXCEPT !.mfa = TRUE] /\ SetupGoes(s, "update")
     \/ /\ s.at = "update"
        /\ \E kept \in BOOLEAN : pool' = [mfa |-> pool.mfa /\ kept, choices |-> TRUE]
        /\ SetupGoes(s, "marker")
  /\ UNCHANGED <<lease, settings, access, invited, asks, syncs, load>>
\* Configure: the factors, then the choices, and the factors again, for the provider's
\* update may reset what it is not told; then all of it is read back.
Configure(s) ==
  /\ \/ s.at = "set" /\ pool' = [pool EXCEPT !.mfa = TRUE] /\ SetupGoes(s, "update")
     \/ /\ s.at = "update"
        /\ \E kept \in BOOLEAN : pool' = [mfa |-> pool.mfa /\ kept, choices |-> TRUE]
        /\ SetupGoes(s, "again")
     \/ s.at = "again" /\ pool' = [pool EXCEPT !.mfa = TRUE] /\ SetupGoes(s, "verify")
     \/ s.at = "verify" /\ pool.mfa /\ SetupGoes(s, "marker") /\ UNCHANGED pool
     \/ s.at = "verify" /\ ~pool.mfa /\ Ends(s) /\ UNCHANGED pool
  /\ UNCHANGED <<lease, settings, access, invited, asks, syncs, load>>

\* Bootstrapped, then AdminGetUser, then AdminCreateUser
Invite(s) ==
  /\ \/ s.at = "marker" /\ (IF marker THEN Ends(s) ELSE SetupGoes(s, "user")) /\ UNCHANGED invited
     \/ /\ s.at = "user" /\ SetupGoes(s, IF s.sub \in invited THEN "grant" ELSE "create")
        /\ UNCHANGED invited
     \/ /\ s.at = "create" /\ (IF s.sub \in invited THEN Ends(s) ELSE SetupGoes(s, "grant"))
        /\ invited' = invited \cup {s.sub}
  /\ UNCHANGED <<lease, settings, access, pool, asks, syncs, load>>

\* the permanent marker and the grant, both new, in one transaction
BootstrapGrant(s) ==
  /\ s.at = "grant" /\ Ends(s)
  /\ IF ~marker /\ grants[s.sub].Revision = 0
     THEN marker' = TRUE /\ grants' = [grants EXCEPT ![s.sub] = FirstGrant]
     ELSE UNCHANGED access
  /\ UNCHANGED <<lease, settings, pool, invited, asks, syncs, load>>

\* The command dies.  One that dies with the factors reset leaves them so.
SetupDies(s) ==
  /\ s.at # "died"
  /\ IF s.at = "again" THEN SetupGoes(s, "died") ELSE Ends(s)
  /\ UNCHANGED <<lease, settings, access, pool, invited, asks, syncs, load>>

ConfigNext ==
  \/ Reserve \/ Yield \/ SyncRead
  \/ \E y \in syncs : SyncWrite(y)
  \/ \E a \in Admins : AskPublish(a) \/ AskRollback(a) \/ AskGrant(a) \/ StartSetup(a)
  \/ \E q \in asks : Publish(q) \/ SetGrant(q)
  \/ \E s \in setups : Configure(s) \/ Invite(s) \/ BootstrapGrant(s) \/ SetupDies(s)

ConfigSpec == ConfigInit /\ load = 0 /\ [][ConfigNext]_configVars

----------------------------------------------------------------------------
\* Properties.

ConfigTypeOK ==
  /\ indexRow \in Row /\ config \in Config /\ versions \subseteq Version
  /\ grants \in [Admins -> Grant] /\ marker \in BOOLEAN
  /\ pool \in [mfa : BOOLEAN, choices : BOOLEAN] /\ invited \subseteq Admins
  /\ asks \subseteq Asks /\ syncs \subseteq Syncs /\ setups \subseteq Setups
  /\ load \in Nat

\* The history holds every revision once and the configuration is its last entry: no
\* publication, rollback or default is lost, skipped or kept under another text.
HistoryTold ==
  /\ config.Text = Nothing => versions = {}
  /\ config.Text # Nothing =>
       /\ \E v \in versions : v.Revision = config.Revision /\ v.Text = config.Text
       /\ \A r \in 0..config.Revision : \E v \in versions : v.Revision = r
  /\ \A v, w \in versions : v.Revision = w.Revision => v = w
  /\ \A v \in versions : v.Revision <= config.Revision

\* From the first grant on somebody can manage grants: two managers who revoke each
\* other at the same time do not both succeed.
ManagerRemains == marker => \E a \in Admins : grants[a].Active /\ grants[a].ManageGrants

\* Of every step: grants change only by the hand of another who manages grants at that
\* moment; setup never restores one.
GrantsByManagers ==
  \A b \in Admins : marker /\ grants'[b] # grants[b]
    => \E a \in Admins \ {b} : grants[a].Active /\ grants[a].ManageGrants

\* Of every step: defaults never replace what an administrator chose, and only the
\* deployment that holds the lease brings them, never an earlier one.
DefaultsFenced ==
  config' # config /\ ~config'.Override
    => /\ ~config.Override
       /\ indexRow.Lock # 0 /\ config'.Generation = indexRow.Revision
       /\ config'.Generation > config.Generation

\* Whoever holds a grant came through a pool that demands its factors: setups that run
\* side by side never leave it without them, only one that dies does.
PoolStaysStrict ==
  marker => pool.mfa \/ \E s \in setups : s.at \in {"again", "died"}

\* All of these together: no publication, default or right of an administrator is lost,
\* replaced by one who may not, or kept under another name.
AdministrationSound ==
  /\ [](ConfigTypeOK /\ HistoryTold /\ ManagerRemains /\ PoolStaysStrict)
  /\ [][GrantsByManagers /\ DefaultsFenced]_configVars
=============================================================================
