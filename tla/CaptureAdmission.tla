-------------------------- MODULE CaptureAdmission --------------------------
(***************************************************************************)
(* How an account opens captures: Service.Create, the three-row            *)
(* transaction of awscapture Store.Create, and the account update inside   *)
(* the ready transaction of Store.Swap, with any number of creations in    *)
(* flight for one account.  Create reads the operation mapping, then the   *)
(* account, then the current capture, and writes later; only the           *)
(* conditions of its transaction protect what it read.                     *)
(*                                                                         *)
(* What happens to a capture once it is open is CaptureLifecycle; here it  *)
(* is that diagram with the states admission cannot tell apart merged      *)
(* ("closed" is ready, requires_recapture or cancelled), the passing of    *)
(* the session deadline as a move ("lapsed" is an uploading row past it),  *)
(* and the 90-day TTL of erased rows.                                      *)
(***************************************************************************)
EXTENDS Naturals, FiniteSets

CONSTANTS
  Owners, Captures, Keys,
  Creators,     \* concurrent invocations of Create
  DailyLimit,   \* captures per account and UTC day (5)
  NoCapture,    \* CurrentID = ""
  MaxDay        \* bound: days that pass

ASSUME AdmissionConstants ==
  /\ Owners # {} /\ Keys # {}
  /\ DailyLimit \in Nat
  /\ MaxDay \in Nat
  /\ NoCapture \notin Captures

VARIABLES
  day,          \* the UTC day
  account,      \* account[o]: the ACCOUNT# row; Revision 0: no row
  capture,      \* capture[c]: what admission knows of the capture row
  mapping,      \* mapping[o][k]: the CREATE# row, or NoCapture
  creator       \* creator[p]: the invocation p of Create

admissionVars == <<day, account, capture, mapping, creator>>

Account ==
  [Revision: Nat, Version: Nat, CurrentID: Captures \cup {NoCapture},
   IDCaptured: BOOLEAN, Day: Nat, CreatedToday: Nat]

\* "gone": deleted by TTL; the id, being random, is never used again.
Statuses == {"absent", "uploading", "lapsed", "finalizing", "failed", "closed",
             "expired", "gone"}
Capture ==
  [State: Statuses, Owner: Owners, CreateKey: Keys, EvidenceVersion: Nat,
   Day: Nat, Ready: BOOLEAN]

Creator ==
  [pc: {"idle", "account", "current", "commit"}, Owner: Owners, key: Keys,
   before: Account, after: Account]

NoAccount ==
  [Revision |-> 0, Version |-> 0, CurrentID |-> NoCapture, IDCaptured |-> FALSE,
   Day |-> 0, CreatedToday |-> 0]
AnyOwner == CHOOSE o \in Owners : TRUE
AnyKey == CHOOSE k \in Keys : TRUE
NoRow ==
  [State |-> "absent", Owner |-> AnyOwner, CreateKey |-> AnyKey,
   EvidenceVersion |-> 0, Day |-> 0, Ready |-> FALSE]
Idle ==
  [pc |-> "idle", Owner |-> AnyOwner, key |-> AnyKey, before |-> NoAccount,
   after |-> NoAccount]

AdmissionTypeOK ==
  /\ day \in Nat
  /\ account \in [Owners -> Account]
  /\ capture \in [Captures -> Capture]
  /\ mapping \in [Owners -> [Keys -> Captures \cup {NoCapture}]]
  /\ creator \in [Creators -> Creator]

AdmissionInit ==
  /\ day = 1
  /\ account = [o \in Owners |-> NoAccount]
  /\ capture = [c \in Captures |-> NoRow]
  /\ mapping = [o \in Owners |-> [k \in Keys |-> NoCapture]]
  /\ creator = [p \in Creators |-> Idle]

Exists(c) == c # NoCapture /\ capture[c].State \notin {"absent", "gone"}

----------------------------------------------------------------------------
\* Create.

\* FindCreate found neither the mapping nor, behind one, its capture.
Find(p, o, k) ==
  /\ creator[p].pc = "idle"
  /\ ~Exists(mapping[o][k])
  /\ creator' = [creator EXCEPT ![p] = [Idle EXCEPT !.pc = "account",
                                                    !.Owner = o, !.key = k]]
  /\ UNCHANGED <<day, account, capture, mapping>>

ReadAccount(p) ==
  /\ creator[p].pc = "account"
  /\ creator' = [creator EXCEPT ![p].pc = "current",
                                ![p].before = account[creator[p].Owner]]
  /\ UNCHANGED <<day, account, capture, mapping>>

\* FAULTY variant: an open upload session does not block another.
Blocks_NotUploading(c) ==
  /\ c # NoCapture
  /\ capture[c].State = "finalizing"

\* The state Get reports for the current capture blocks another session.
Blocks(c) ==
  /\ c # NoCapture
  /\ capture[c].State \in {"uploading", "finalizing"}

CountedToday(a) == IF a.Day = day THEN a.CreatedToday ELSE 0

\* The account with one more capture; its id is drawn with the row.
Charged(a) ==
  [a EXCEPT !.Revision = @ + 1, !.Version = @ + 1, !.Day = day,
            !.CreatedToday = CountedToday(a) + 1]

\* FAULTY variant: one capture too many per day.
CheckCurrent_OffByOne(p) ==
  LET a == creator[p].before
  IN /\ creator[p].pc = "current"
     /\ ~Blocks(a.CurrentID)
     /\ CountedToday(a) <= DailyLimit
     /\ creator' = [creator EXCEPT ![p].pc = "commit", ![p].after = Charged(a)]
     /\ UNCHANGED <<day, account, capture, mapping>>

CheckCurrent(p) ==
  LET a == creator[p].before
  IN /\ creator[p].pc = "current"
     /\ ~Blocks(a.CurrentID)
     /\ CountedToday(a) < DailyLimit
     /\ creator' = [creator EXCEPT ![p].pc = "commit", ![p].after = Charged(a)]
     /\ UNCHANGED <<day, account, capture, mapping>>

\* FAULTY variant: the account row is written whatever it has become.
AccountUnchanged_Ignored(p) == TRUE

\* The condition on the account row: unchanged since it was read.
AccountUnchanged(p) ==
  account[creator[p].Owner].Revision = creator[p].before.Revision

\* FAULTY variants: the mapping row is put unconditionally; it names the key.
Commit_OverMapping(p, c) ==
  LET o == creator[p].Owner  k == creator[p].key  a == creator[p].after
  IN /\ creator[p].pc = "commit"
     /\ AccountUnchanged(p)
     /\ capture[c].State = "absent"
     /\ account' = [account EXCEPT ![o] = [a EXCEPT !.CurrentID = c]]
     /\ capture' = [capture EXCEPT ![c] =
          [State |-> "uploading", Owner |-> o, CreateKey |-> k,
           EvidenceVersion |-> a.Version, Day |-> a.Day, Ready |-> FALSE]]
     /\ mapping' = [mapping EXCEPT ![o][k] = c]
     /\ creator' = [creator EXCEPT ![p] = Idle]
     /\ UNCHANGED <<day>>
Commit_NamesKey(p, c) ==
  LET o == creator[p].Owner  k == creator[p].key  a == creator[p].after
  IN /\ creator[p].pc = "commit"
     /\ AccountUnchanged(p)
     /\ capture[c].State = "absent"
     /\ mapping[o][k] = NoCapture
     /\ mapping' = [mapping EXCEPT ![o][k] = k]
     /\ creator' = [creator EXCEPT ![p] = Idle]
     /\ UNCHANGED <<day, account, capture>>

Commit(p, c) ==
  LET o == creator[p].Owner  k == creator[p].key  a == creator[p].after
  IN /\ creator[p].pc = "commit"
     /\ AccountUnchanged(p)
     /\ capture[c].State = "absent"
     /\ mapping[o][k] = NoCapture
     /\ account' = [account EXCEPT ![o] = [a EXCEPT !.CurrentID = c]]
     /\ capture' = [capture EXCEPT ![c] =
          [State |-> "uploading", Owner |-> o, CreateKey |-> k,
           EvidenceVersion |-> a.Version, Day |-> a.Day, Ready |-> FALSE]]
     /\ mapping' = [mapping EXCEPT ![o][k] = c]
     /\ creator' = [creator EXCEPT ![p] = Idle]
     /\ UNCHANGED <<day>>

\* A conflict, the daily limit, a store error or a timeout.
CreateEnds(p) ==
  /\ creator[p].pc # "idle"
  /\ creator' = [creator EXCEPT ![p] = Idle]
  /\ UNCHANGED <<day, account, capture, mapping>>

----------------------------------------------------------------------------
\* The rest of a capture's life, as far as admission can see it.

Moves ==
  { <<"uploading", "lapsed">>, <<"uploading", "finalizing">>,
    \* a finalization decided just before the deadline
    <<"lapsed", "finalizing">>,
    <<"finalizing", "failed">>, <<"failed", "finalizing">> }
  \cup ({"uploading", "lapsed", "finalizing", "failed"} \X {"closed", "expired"})
  \cup {<<"closed", "expired">>}

Move(c, to) ==
  /\ <<capture[c].State, to>> \in Moves
  /\ capture' = [capture EXCEPT ![c].State = to]
  /\ UNCHANGED <<day, account, mapping, creator>>

\* FAULTY variant: the update of the account leaves its revision alone.
PublishReady_SameRevision(c) ==
  LET o == capture[c].Owner
  IN /\ capture[c].State = "finalizing"
     /\ capture' = [capture EXCEPT ![c].State = "closed", ![c].Ready = TRUE]
     /\ account' = [account EXCEPT ![o].IDCaptured = TRUE]
     /\ UNCHANGED <<day, mapping, creator>>

\* The ready transaction: the row, and an update of the account in place.
PublishReady(c) ==
  LET o == capture[c].Owner
  IN /\ capture[c].State = "finalizing"
     /\ capture' = [capture EXCEPT ![c].State = "closed", ![c].Ready = TRUE]
     /\ account' = [account EXCEPT ![o].IDCaptured = TRUE, ![o].Revision = @ + 1]
     /\ UNCHANGED <<day, mapping, creator>>

\* TTL removes an erased row and its mapping, each in its own time.
ForgetRow(c) ==
  /\ capture[c].State = "expired"
  /\ capture' = [capture EXCEPT ![c].State = "gone"]
  /\ UNCHANGED <<day, account, mapping, creator>>
ForgetMapping(o, k) ==
  /\ mapping[o][k] # NoCapture
  /\ capture[mapping[o][k]].State \in {"expired", "gone"}
  /\ mapping' = [mapping EXCEPT ![o][k] = NoCapture]
  /\ UNCHANGED <<day, account, capture, creator>>

NextDay ==
  /\ day < MaxDay
  /\ day' = day + 1
  /\ UNCHANGED <<account, capture, mapping, creator>>

AdmissionNext ==
  \/ \E p \in Creators, o \in Owners, k \in Keys : Find(p, o, k)
  \/ \E p \in Creators : ReadAccount(p) \/ CheckCurrent(p) \/ CreateEnds(p)
  \/ \E p \in Creators, c \in Captures : Commit(p, c)
  \/ \E c \in Captures : PublishReady(c) \/ ForgetRow(c)
  \/ \E c \in Captures, to \in Statuses : Move(c, to)
  \/ \E o \in Owners, k \in Keys : ForgetMapping(o, k)
  \/ NextDay

AdmissionSpec == AdmissionInit /\ [][AdmissionNext]_admissionVars

----------------------------------------------------------------------------
\* However many creations race, an account never has two upload sessions that
\* can still be finalized (Create's check of the current capture).
OneUploadSession ==
  \A c, d \in Captures :
    /\ capture[c].State = "uploading"
    /\ capture[d].State = "uploading"
    /\ capture[c].Owner = capture[d].Owner
    => c = d

\* One operation key opens one capture: a creation repeated after a lost
\* response, even concurrently, never opens a second while the first is kept.
OneCapturePerKey ==
  \A c, d \in Captures :
    /\ Exists(c) /\ Exists(d)
    /\ capture[c].State # "expired" /\ capture[d].State # "expired"
    /\ capture[c].Owner = capture[d].Owner
    /\ capture[c].CreateKey = capture[d].CreateKey
    => c = d

\* Racing creations never exceed the daily budget, midnight included.
WithinDailyLimit ==
  \A o \in Owners, d \in 1..day :
    Cardinality({c \in Captures : /\ capture[c].State # "absent"
                                  /\ capture[c].Owner = o
                                  /\ capture[c].Day = d}) <= DailyLimit

\* Evidence versions number an account's captures without repetition, and the
\* account's current capture carries the last one.
EvidenceVersionsOrdered ==
  /\ \A c, d \in Captures :
       /\ capture[c].State # "absent" /\ capture[d].State # "absent"
       /\ capture[c].Owner = capture[d].Owner
       /\ capture[c].EvidenceVersion = capture[d].EvidenceVersion
       => c = d
  /\ \A o \in Owners : LET a == account[o] IN
       a.CurrentID # NoCapture => capture[a.CurrentID].EvidenceVersion = a.Version

\* The durable onboarding fact: an account is marked exactly when one of its
\* captures has been ready, and no creation based on an older read unmarks it.
CapturedIsDurable ==
  \A o \in Owners :
    account[o].IDCaptured <=> \E c \in Captures : capture[c].Owner = o /\ capture[c].Ready
============================================================================
