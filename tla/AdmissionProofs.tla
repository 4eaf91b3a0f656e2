--------------------------- MODULE AdmissionProofs ---------------------------
(* What holds of every account, for any number of creations, captures, keys and days.

   The condition of Create's transaction is that the account's revision has not moved.
   It protects all that Create decided because a revision names one account row
   (ReadOnce) and because a current capture that takes no uploads never takes any again
   (Admitted): so the new capture is the only one that does, its version is new, and the
   day's count is exact, even when midnight falls between the decision and the write. *)
EXTENDS AdmissionInvariant, FiniteSetTheorems, TLAPS

----------------------------------------------------------------------------
\* Types.

LEMMA IdleTyped == Idle \in Creator /\ NoRow \in Capture /\ NoAccount \in Account
<1>1. AnyOwner \in Owners /\ AnyKey \in Keys
  BY AdmissionConstants DEF AnyOwner, AnyKey
<1>2. NoAccount \in Account
  BY DEF NoAccount, Account
<1>3. NoRow \in Capture
  BY <1>1 DEF NoRow, Capture, Statuses
<1>4. Idle \in Creator
  BY <1>1, <1>2 DEF Idle, Creator
<1> QED BY <1>2, <1>3, <1>4

LEMMA ChargedTyped ==
  ASSUME NEW a \in Account, day \in Nat
  PROVE  /\ Charged(a) \in Account
         /\ Charged(a).Revision = a.Revision + 1 /\ Charged(a).Version = a.Version + 1
         /\ Charged(a).IDCaptured = a.IDCaptured /\ Charged(a).CurrentID = a.CurrentID
         /\ Charged(a).Day = day /\ Charged(a).CreatedToday = CountedToday(a) + 1
<1>1. CountedToday(a) + 1 \in Nat
  BY DEF CountedToday, Account
<1>2. a.Revision + 1 \in Nat /\ a.Version + 1 \in Nat
  BY DEF Account
<1>3. Charged(a) \in Account
  BY <1>1, <1>2 DEF Charged, Account
<1>4. Charged(a).IDCaptured = a.IDCaptured /\ Charged(a).CurrentID = a.CurrentID
  BY DEF Charged, Account
<1>5. Charged(a).Revision = a.Revision + 1 /\ Charged(a).Version = a.Version + 1
  BY DEF Charged, Account
<1>6. Charged(a).Day = day /\ Charged(a).CreatedToday = CountedToday(a) + 1
  BY DEF Charged, Account
<1> QED BY <1>3, <1>4, <1>5, <1>6

\* Accounts, captures and mappings, looked up, have their types.
LEMMA Looked ==
  ASSUME AdmissionTypeOK
  PROVE  /\ day \in Nat
         /\ \A o \in Owners : account[o] \in Account
         /\ \A c \in Captures : capture[c] \in Capture
         /\ \A o \in Owners, k \in Keys : mapping[o][k] \in Captures \cup {NoCapture}
         /\ \A p \in Creators :
              /\ creator[p] \in Creator
              /\ creator[p].Owner \in Owners /\ creator[p].key \in Keys
              /\ creator[p].before \in Account /\ creator[p].after \in Account
<1>1. \A p \in Creators : creator[p] \in Creator
  BY DEF AdmissionTypeOK
<1>2. \A p \in Creators :
        /\ creator[p].Owner \in Owners /\ creator[p].key \in Keys
        /\ creator[p].before \in Account /\ creator[p].after \in Account
  BY <1>1 DEF Creator
<1> QED BY <1>1, <1>2 DEF AdmissionTypeOK

LEMMA CommitTyped ==
  ASSUME AdmissionTypeOK, NEW p \in Creators, NEW c \in Captures, Commit(p, c)
  PROVE  AdmissionTypeOK'
<1> DEFINE o == creator[p].Owner
           k == creator[p].key
           a == [creator[p].after EXCEPT !.CurrentID = c]
           r == [State |-> "uploading", Owner |-> o, CreateKey |-> k,
                 EvidenceVersion |-> creator[p].after.Version,
                 Day |-> creator[p].after.Day, Ready |-> FALSE]
<1>1. o \in Owners /\ k \in Keys /\ creator[p].after \in Account
  BY Looked
<1>2. a \in Account
  BY <1>1 DEF Account
<1>3. r \in Capture
  BY <1>1 DEF Account, Capture, Statuses
<1>4. account' = [account EXCEPT ![o] = a] /\ capture' = [capture EXCEPT ![c] = r]
  BY DEF Commit
<1> HIDE DEF a, r
<1>5. mapping' \in [Owners -> [Keys -> Captures \cup {NoCapture}]]
  BY <1>1 DEF Commit, AdmissionTypeOK
<1>6. creator' \in [Creators -> Creator]
  BY IdleTyped DEF Commit, AdmissionTypeOK
<1>7. account' \in [Owners -> Account]
  BY <1>1, <1>2, <1>4 DEF AdmissionTypeOK
<1>8. capture' \in [Captures -> Capture]
  BY <1>3, <1>4 DEF AdmissionTypeOK
<1> QED BY <1>5, <1>6, <1>7, <1>8 DEF Commit, AdmissionTypeOK

\* The invocations of Create, but for their transactions.
LEMMA CreatorTyped ==
  ASSUME AdmissionTypeOK, NEW p \in Creators,
         \/ \E o \in Owners, k \in Keys : Find(p, o, k)
         \/ ReadAccount(p) \/ CheckCurrent(p) \/ CreateEnds(p)
  PROVE  AdmissionTypeOK'
<1>1. UNCHANGED <<day, account, capture, mapping>>
  BY DEF Find, ReadAccount, CheckCurrent, CreateEnds
<1>2. creator' \in [Creators -> Creator]
  <2>1. CASE \E o \in Owners, k \in Keys : Find(p, o, k)
    <3>1. PICK o \in Owners, k \in Keys : Find(p, o, k)
      BY <2>1
    <3>2. [Idle EXCEPT !.pc = "account", !.Owner = o, !.key = k] \in Creator
      BY IdleTyped DEF Creator
    <3> QED BY <3>1, <3>2 DEF Find, AdmissionTypeOK
  <2>2. CASE ReadAccount(p)
    <3>1. [creator[p] EXCEPT !.pc = "current", !.before = account[creator[p].Owner]]
            \in Creator
      BY Looked DEF Creator
    <3>2. creator' = [creator EXCEPT ![p] =
            [creator[p] EXCEPT !.pc = "current", !.before = account[creator[p].Owner]]]
      BY <2>2 DEF ReadAccount, AdmissionTypeOK
    <3> QED BY <3>1, <3>2 DEF AdmissionTypeOK
  <2>3. CASE CheckCurrent(p)
    <3>1. Charged(creator[p].before) \in Account
      BY Looked, ChargedTyped
    <3>2. [creator[p] EXCEPT !.pc = "commit", !.after = Charged(creator[p].before)]
            \in Creator
      BY <3>1, Looked DEF Creator
    <3>3. creator' = [creator EXCEPT ![p] =
            [creator[p] EXCEPT !.pc = "commit", !.after = Charged(creator[p].before)]]
      BY <2>3 DEF CheckCurrent, AdmissionTypeOK
    <3> QED BY <3>2, <3>3 DEF AdmissionTypeOK
  <2>4. CASE CreateEnds(p)
    BY <2>4, IdleTyped DEF CreateEnds, AdmissionTypeOK
  <2> QED BY <2>1, <2>2, <2>3, <2>4
<1> QED BY <1>1, <1>2 DEF AdmissionTypeOK

\* The rest of a capture's life writes states, the marks of a ready capture, and time.
LEMMA LifeTyped ==
  ASSUME AdmissionTypeOK,
         \/ \E c \in Captures : PublishReady(c) \/ ForgetRow(c)
         \/ \E c \in Captures, to \in Statuses : Move(c, to)
         \/ \E o \in Owners, k \in Keys : ForgetMapping(o, k)
         \/ NextDay
  PROVE  AdmissionTypeOK'
<1>1. CASE \E c \in Captures : PublishReady(c)
  <2>1. PICK c \in Captures : PublishReady(c)
    BY <1>1
  <2> DEFINE o == capture[c].Owner
             a == [account[o] EXCEPT !.IDCaptured = TRUE, !.Revision = @ + 1]
             r == [capture[c] EXCEPT !.State = "closed", !.Ready = TRUE]
  <2>2. o \in Owners
    BY Looked DEF Capture
  <2>3. a \in Account
    <3>1. account[o] \in Account
      BY <2>2, Looked
    <3>2. account[o].Revision + 1 \in Nat
      BY <3>1 DEF Account
    <3> QED BY <3>1, <3>2 DEF Account
  <2>4. r \in Capture
    BY Looked DEF Capture, Statuses
  <2>5. account' = [account EXCEPT ![o] = a] /\ capture' = [capture EXCEPT ![c] = r]
    BY <2>1, <2>2 DEF PublishReady, AdmissionTypeOK
  <2> HIDE DEF a, r
  <2>6. account' \in [Owners -> Account] /\ capture' \in [Captures -> Capture]
    BY <2>2, <2>3, <2>4, <2>5 DEF AdmissionTypeOK
  <2> QED BY <2>1, <2>6 DEF PublishReady, AdmissionTypeOK
<1>2. CASE \E c \in Captures : ForgetRow(c) \/ \E to \in Statuses : Move(c, to)
  <2>1. PICK c \in Captures, to \in Statuses :
          capture' = [capture EXCEPT ![c].State = to]
    BY <1>2 DEF ForgetRow, Move, Statuses
  <2>2. [capture[c] EXCEPT !.State = to] \in Capture
    BY Looked DEF Capture
  <2>3. capture' = [capture EXCEPT ![c] = [capture[c] EXCEPT !.State = to]]
    BY <2>1 DEF AdmissionTypeOK
  <2>4. UNCHANGED <<day, account, mapping, creator>>
    BY <1>2 DEF ForgetRow, Move
  <2> QED BY <2>2, <2>3, <2>4 DEF AdmissionTypeOK
<1>3. CASE \E o \in Owners, k \in Keys : ForgetMapping(o, k)
  BY <1>3 DEF ForgetMapping, AdmissionTypeOK
<1>4. CASE NextDay
  BY <1>4 DEF NextDay, AdmissionTypeOK
<1> QED BY <1>1, <1>2, <1>3, <1>4

LEMMA AdmissionTypeStep ==
  ASSUME AdmissionTypeOK, [AdmissionNext]_admissionVars
  PROVE  AdmissionTypeOK'
<1>1. CASE UNCHANGED admissionVars
  BY <1>1 DEF AdmissionTypeOK, admissionVars
<1>2. CASE AdmissionNext
  BY <1>2, CommitTyped, CreatorTyped, LifeTyped DEF AdmissionNext
<1> QED BY <1>1, <1>2

----------------------------------------------------------------------------
\* Invocations of Create, but for their transactions, touch no row.

LEMMA CreatorStep ==
  ASSUME AdmissionInv, NEW p \in Creators,
         \/ \E o \in Owners, k \in Keys : Find(p, o, k)
         \/ ReadAccount(p) \/ CheckCurrent(p) \/ CreateEnds(p)
  PROVE  AdmissionInv'
<1>1. UNCHANGED <<day, account, capture, mapping>>
  BY DEF Find, ReadAccount, CheckCurrent, CreateEnds
<1>2. AdmissionTypeOK /\ AdmissionTypeOK'
  BY CreatorTyped DEF AdmissionInv
<1>3. \A q \in Creators : q # p => creator'[q] = creator[q]
  BY <1>2 DEF AdmissionTypeOK, Find, ReadAccount, CheckCurrent, CreateEnds
<1>4. ReadOnce(p)' /\ Admitted(p)'
  <2>1. CASE \E o \in Owners, k \in Keys : Find(p, o, k)
    <3>1. creator'[p].pc = "account"
      <4>1. PICK o \in Owners, k \in Keys : Find(p, o, k)
        BY <2>1
      <4>2. [Idle EXCEPT !.pc = "account", !.Owner = o, !.key = k].pc = "account"
        BY IdleTyped DEF Creator
      <4> QED BY <1>2, <4>1, <4>2 DEF Find, AdmissionTypeOK
    <3> QED BY <3>1 DEF ReadOnce, Admitted
  <2>2. CASE ReadAccount(p)
    <3>1. /\ creator'[p].pc = "current" /\ creator'[p].Owner = creator[p].Owner
          /\ creator'[p].before = account[creator[p].Owner]
      BY <1>2, <2>2, Looked DEF ReadAccount, AdmissionTypeOK, Creator
    <3>2. account[creator[p].Owner].Revision \in Nat
      BY <1>2, Looked DEF Account
    <3>3. LET a == account[creator[p].Owner]
          IN /\ a.Day <= day
             /\ a.CurrentID # NoCapture => capture[a.CurrentID].State # "absent"
      BY <1>2, Looked DEF AdmissionInv, Counted, CurrentOK
    <3>4. ReadOnce(p)'
      BY <1>1, <3>1, <3>2, <3>3 DEF ReadOnce
    <3> QED BY <3>1, <3>4 DEF Admitted
  <2>3. CASE CheckCurrent(p)
    <3> DEFINE b == creator[p].before
    <3>1. b \in Account /\ Charged(b) \in Account /\ day \in Nat
      BY <1>2, Looked, ChargedTyped
    <3>2. /\ creator'[p].pc = "commit" /\ creator'[p].Owner = creator[p].Owner
          /\ creator'[p].before = b /\ creator'[p].after = Charged(b)
      BY <1>2, <2>3, Looked DEF CheckCurrent, AdmissionTypeOK, Creator
    <3>3. ReadOnce(p)'
      BY <1>1, <2>3, <3>2 DEF ReadOnce, CheckCurrent, AdmissionInv
    <3>4. Charged(b).Day = day /\ Charged(b).CreatedToday = CountedToday(b) + 1
          /\ Charged(b).Revision = b.Revision + 1 /\ Charged(b).Version = b.Version + 1
          /\ Charged(b).IDCaptured = b.IDCaptured
      BY <3>1, ChargedTyped
    <3>5. CountedToday(b) \in Nat /\ CountedToday(b) < DailyLimit
      BY <2>3, <3>1 DEF CheckCurrent, CountedToday, Account
    <3>6. CountedToday(b) = IF b.Day = day THEN b.CreatedToday ELSE 0
      BY DEF CountedToday
    <3>7. b.Day <= day
          /\ (b.CurrentID # NoCapture => capture[b.CurrentID].State # "absent")
      BY <2>3 DEF ReadOnce, CheckCurrent, AdmissionInv
    <3>8. b.CurrentID # NoCapture => capture[b.CurrentID].State # "uploading"
      BY <2>3 DEF CheckCurrent, Blocks
    <3> HIDE DEF b
    <3>9. CountedToday(b) + 1 <= DailyLimit
      BY <3>5, AdmissionConstants
    <3>10. Admitted(p)'
      BY <1>1, <3>1, <3>2, <3>4, <3>6, <3>7, <3>8, <3>9 DEF Admitted
    <3> QED BY <3>3, <3>10
  <2>4. CASE CreateEnds(p)
    <3>1. creator'[p].pc = "idle"
      BY <1>2, <2>4 DEF CreateEnds, AdmissionTypeOK, Idle
    <3> QED BY <3>1 DEF ReadOnce, Admitted
  <2> QED BY <2>1, <2>2, <2>3, <2>4
<1>5. ASSUME NEW q \in Creators PROVE ReadOnce(q)' /\ Admitted(q)'
  <2>1. CASE q = p
    BY <1>4, <2>1
  <2>2. CASE q # p
    <3>1. ReadOnce(q) /\ Admitted(q) /\ creator'[q] = creator[q]
      BY <1>3, <2>2 DEF AdmissionInv
    <3> QED BY <1>1, <3>1 DEF ReadOnce, Admitted
  <2> QED BY <2>1, <2>2
<1>6. \A c \in Captures : RowOK(c)'
  BY <1>1 DEF AdmissionInv, RowOK
<1>7. \A o \in Owners : CurrentOK(o)'
  BY <1>1 DEF AdmissionInv, CurrentOK
<1>8. \A o \in Owners : Counted(o)'
  BY <1>1 DEF AdmissionInv, Counted, OpenedOn
<1>9. VersionsDiffer' /\ CapturedIsDurable'
  BY <1>1 DEF AdmissionInv, VersionsDiffer, CapturedIsDurable
<1> QED BY <1>2, <1>5, <1>6, <1>7, <1>8, <1>9 DEF AdmissionInv
----------------------------------------------------------------------------
\* Create's transaction.  What its condition gives: the account is the one that was
\* read, and none of its captures takes uploads.
LEMMA CommitAccount ==
  ASSUME AdmissionInv, NEW p \in Creators, NEW c \in Captures, Commit(p, c)
  PROVE  LET o == creator[p].Owner
         IN
         /\ account[o] = creator[p].before
         /\ \A d \in Captures : capture[d].State = "uploading" => capture[d].Owner # o
         /\ \A x \in Owners \ {o} : account'[x] = account[x]
         /\ account'[o].Revision = account[o].Revision + 1
         /\ account'[o].Version = account[o].Version + 1
         /\ account'[o].IDCaptured = account[o].IDCaptured
         /\ account'[o].CurrentID = c
         /\ account[o].Day <= account'[o].Day /\ account'[o].Day <= day
         /\ account'[o].CreatedToday =
              (IF account[o].Day = account'[o].Day THEN account[o].CreatedToday ELSE 0) + 1
         /\ account'[o].CreatedToday <= DailyLimit
<1> DEFINE o == creator[p].Owner
           a == creator[p].after
           b == creator[p].before
<1>1. ReadOnce(p) /\ Admitted(p) /\ AdmissionTypeOK /\ o \in Owners
  BY Looked DEF AdmissionInv
<1>2. creator[p].pc = "commit" /\ account[o].Revision = b.Revision
  BY DEF Commit, AccountUnchanged
<1>3. account[o] = b
  BY <1>1, <1>2 DEF ReadOnce
<1>4. \A d \in Captures : capture[d].State = "uploading" => capture[d].Owner # o
  <2> SUFFICES ASSUME NEW d \in Captures, capture[d].State = "uploading",
                      capture[d].Owner = o
               PROVE  FALSE
    OBVIOUS
  <2>1. account[o].CurrentID = d
    BY DEF AdmissionInv, RowOK
  <2>2. b.CurrentID # NoCapture
    BY <1>3, <2>1, AdmissionConstants
  <2> QED BY <1>1, <1>2, <1>3, <2>1, <2>2 DEF Admitted
<1>5. account' = [account EXCEPT ![o] = [a EXCEPT !.CurrentID = c]]
  BY DEF Commit
<1>6. /\ account'[o] = [a EXCEPT !.CurrentID = c]
      /\ \A x \in Owners \ {o} : account'[x] = account[x]
  BY <1>1, <1>5 DEF AdmissionTypeOK
<1>7. a \in Account
  BY <1>1, Looked
<1>8. /\ account'[o].Revision = a.Revision /\ account'[o].Version = a.Version
      /\ account'[o].IDCaptured = a.IDCaptured /\ account'[o].CurrentID = c
      /\ account'[o].Day = a.Day /\ account'[o].CreatedToday = a.CreatedToday
  BY <1>6, <1>7 DEF Account
<1>9. /\ a.Revision = b.Revision + 1 /\ a.Version = b.Version + 1
      /\ a.IDCaptured = b.IDCaptured
      /\ b.Day <= a.Day /\ a.Day <= day
      /\ a.CreatedToday = (IF b.Day = a.Day THEN b.CreatedToday ELSE 0) + 1
      /\ a.CreatedToday <= DailyLimit
  BY <1>1, <1>2 DEF Admitted
<1> HIDE DEF a
<1> QED BY <1>3, <1>4, <1>6, <1>8, <1>9

\* What it writes beside the account: the new row, and the end of the invocation.
LEMMA CommitRow ==
  ASSUME AdmissionTypeOK, NEW p \in Creators, NEW c \in Captures, Commit(p, c)
  PROVE  /\ capture[c].State = "absent"
         /\ capture'[c].State = "uploading" /\ capture'[c].Ready = FALSE
         /\ capture'[c].Owner = creator[p].Owner
         /\ capture'[c].CreateKey = creator[p].key
         /\ capture'[c].EvidenceVersion = account'[creator[p].Owner].Version
         /\ capture'[c].Day = account'[creator[p].Owner].Day
<1> DEFINE o == creator[p].Owner
           a == creator[p].after
<1>1. o \in Owners /\ a \in Account
  BY Looked
<1>2. account'[o] = [a EXCEPT !.CurrentID = c]
  BY <1>1 DEF Commit, AdmissionTypeOK
<1>3. account'[o].Version = a.Version /\ account'[o].Day = a.Day
  BY <1>1, <1>2 DEF Account
<1>4. capture'[c] = [State |-> "uploading", Owner |-> o, CreateKey |-> creator[p].key,
                     EvidenceVersion |-> a.Version, Day |-> a.Day, Ready |-> FALSE]
  BY DEF Commit, AdmissionTypeOK
<1>5. capture[c].State = "absent"
  BY DEF Commit
<1> HIDE DEF a
<1> QED BY <1>3, <1>4, <1>5

LEMMA CommitEnds ==
  ASSUME AdmissionTypeOK, NEW p \in Creators, NEW c \in Captures, Commit(p, c)
  PROVE  creator'[p].pc = "idle"
BY DEF Commit, AdmissionTypeOK, Idle

LEMMA CommitReads ==
  ASSUME AdmissionInv, NEW p \in Creators, NEW c \in Captures, Commit(p, c),
         NEW q \in Creators
  PROVE  ReadOnce(q)' /\ Admitted(q)'
<1> DEFINE o == creator[p].Owner
           k == creator[p].key
<1>1. AdmissionTypeOK /\ o \in Owners /\ k \in Keys
  BY Looked DEF AdmissionInv
<1>2. CASE q = p
  BY <1>1, <1>2, CommitEnds DEF ReadOnce, Admitted
<1>3. CASE q # p
  <2>1. creator'[q] = creator[q] /\ day' = day
    BY <1>1, <1>3 DEF Commit, AdmissionTypeOK
  <2>2. ReadOnce(q) /\ Admitted(q)
    BY DEF AdmissionInv
  <2> DEFINE b == creator[q].before
             x == creator[q].Owner
  <2>3. \A d \in Captures \cup {NoCapture} :
          d # NoCapture /\ capture[d].State # "absent" => capture'[d] = capture[d]
    BY <1>1 DEF Commit, AdmissionTypeOK
  <2>4. /\ b \in Account /\ x \in Owners /\ b.Revision \in Nat
        /\ b.CurrentID \in Captures \cup {NoCapture}
    BY <1>1, Looked DEF Account
  <2>5. Admitted(q)'
    BY <2>1, <2>2, <2>3, <2>4 DEF Admitted
  <2>6. account'[x] = account[x] \/ account'[x].Revision = account[x].Revision + 1
    BY <1>1, <2>4, CommitAccount
  <2>7. account[x].Revision \in Nat
    BY <1>1, <2>4, Looked DEF Account
  <2>8. ReadOnce(q)'
    BY <2>1, <2>2, <2>3, <2>4, <2>6, <2>7 DEF ReadOnce
  <2> QED BY <2>5, <2>8
<1> QED BY <1>2, <1>3

LEMMA CommitRows ==
  ASSUME AdmissionInv, NEW p \in Creators, NEW c \in Captures, Commit(p, c),
         NEW d \in Captures
  PROVE  RowOK(d)'
<1> DEFINE o == creator[p].Owner
           k == creator[p].key
<1>1. AdmissionTypeOK /\ o \in Owners /\ k \in Keys
  BY Looked DEF AdmissionInv
<1>2. AdmissionTypeOK'
  BY <1>1, CommitTyped
<1>3. CASE d = c
  <2>1. account'[o].Version \in Nat /\ account'[o].Day \in Nat
    BY <1>1, <1>2 DEF AdmissionTypeOK, Account
  <2>2. /\ capture'[c].State = "uploading" /\ capture'[c].Owner = o
        /\ capture'[c].CreateKey = k /\ capture'[c].EvidenceVersion = account'[o].Version
        /\ capture'[c].Day = account'[o].Day
    BY <1>1, CommitRow
  <2>3. mapping'[o][k] = c
    BY <1>1 DEF Commit, AdmissionTypeOK
  <2>4. account'[o].CurrentID = c
    BY <1>1, CommitAccount
  <2> QED BY <1>3, <2>1, <2>2, <2>3, <2>4 DEF RowOK
<1>4. CASE d # c
  <2>1. capture'[d] = capture[d] /\ RowOK(d)
    <3>1. capture'[d] = capture[d]
      BY <1>1, <1>4 DEF Commit, AdmissionTypeOK
    <3>2. RowOK(d)
      BY DEF AdmissionInv
    <3> QED BY <3>1, <3>2
  <2> DEFINE x == capture[d].Owner
             y == capture[d].CreateKey
  <2>2. x \in Owners /\ y \in Keys
        /\ capture[d].EvidenceVersion \in Nat /\ capture[d].Day \in Nat
    BY <1>1, Looked DEF Capture
  <2>3. capture[d].State # "absent" =>
          /\ capture[d].EvidenceVersion <= account'[x].Version
          /\ capture[d].Day <= account'[x].Day
    <3>1. account[x].Version <= account'[x].Version /\ account[x].Day <= account'[x].Day
          /\ account[x].Version \in Nat /\ account[x].Day \in Nat
          /\ account'[x].Version \in Nat /\ account'[x].Day \in Nat
      <4>1. account[x].Version \in Nat /\ account[x].Day \in Nat
        BY <1>1, <2>2, Looked DEF Account
      <4>2. account'[x].Version \in Nat /\ account'[x].Day \in Nat
        BY <1>2, <2>2 DEF AdmissionTypeOK, Account
      <4>3. CASE x = o
        BY <1>1, <4>1, <4>2, <4>3, CommitAccount
      <4>4. CASE x # o
        BY <1>1, <2>2, <4>1, <4>4, CommitAccount
      <4> QED BY <4>3, <4>4
    <3> QED BY <2>1, <2>2, <3>1 DEF RowOK
  <2>4. capture[d].State = "uploading" => account'[x].CurrentID = d
    BY <1>1, <2>1, <2>2, CommitAccount DEF RowOK
  <2>5. capture[d].State \notin {"absent", "expired", "gone"} => mapping'[x][y] = d
    <3>1. capture[d].State \notin {"absent", "expired", "gone"} => mapping[x][y] = d
      BY <2>1 DEF RowOK
    <3>2. mapping[x][y] = d => ~(x = o /\ y = k)
      <4>1. mapping[o][k] = NoCapture /\ d # NoCapture
        BY AdmissionConstants DEF Commit
      <4> QED BY <4>1
    <3>3. mapping'[x][y] = IF x = o /\ y = k THEN c ELSE mapping[x][y]
      BY <1>1, <2>2 DEF Commit, AdmissionTypeOK
    <3> QED BY <3>1, <3>2, <3>3
  <2> QED BY <2>1, <2>3, <2>4, <2>5 DEF RowOK
<1> QED BY <1>3, <1>4
\* The new capture is the current one, under a version that none had.
LEMMA CommitVersions ==
  ASSUME AdmissionInv, NEW p \in Creators, NEW c \in Captures, Commit(p, c)
  PROVE  VersionsDiffer' /\ \A x \in Owners : CurrentOK(x)'
<1> DEFINE o == creator[p].Owner
<1>1. AdmissionTypeOK /\ o \in Owners
  BY Looked DEF AdmissionInv
<1>2. \A d \in Captures \ {c} : capture'[d] = capture[d]
  BY <1>1 DEF Commit, AdmissionTypeOK
<1>3. /\ capture[c].State = "absent"
      /\ capture'[c].State = "uploading" /\ capture'[c].Owner = o
      /\ capture'[c].EvidenceVersion = account'[o].Version
  BY <1>1, CommitRow
<1>4. account'[o].Version = account[o].Version + 1 /\ account'[o].CurrentID = c
  BY <1>1, CommitAccount
<1>5. account[o].Version \in Nat
  BY <1>1, Looked DEF Account
<1>6. \A d \in Captures : capture[d].State # "absent" /\ capture[d].Owner = o =>
        /\ capture[d].EvidenceVersion \in Nat
        /\ capture[d].EvidenceVersion <= account[o].Version
  <2>1. \A d \in Captures : capture[d].EvidenceVersion \in Nat
    BY <1>1, Looked DEF Capture
  <2> QED BY <2>1 DEF AdmissionInv, RowOK
<1>7. \A d \in Captures : d # c /\ capture[d].State # "absent" /\ capture[d].Owner = o =>
        capture[d].EvidenceVersion # capture'[c].EvidenceVersion
  BY <1>3, <1>4, <1>5, <1>6
<1>8. VersionsDiffer'
  <2> SUFFICES ASSUME NEW d \in Captures, NEW e \in Captures,
                      capture'[d].State # "absent", capture'[e].State # "absent",
                      capture'[d].Owner = capture'[e].Owner,
                      capture'[d].EvidenceVersion = capture'[e].EvidenceVersion
               PROVE  d = e
    BY DEF VersionsDiffer
  <2>1. CASE d # c /\ e # c
    <3>1. capture'[d] = capture[d] /\ capture'[e] = capture[e]
      BY <1>2, <2>1
    <3> QED BY <3>1 DEF AdmissionInv, VersionsDiffer
  <2>2. CASE d = c /\ e # c
    BY <1>2, <1>3, <1>7, <2>2
  <2>3. CASE d # c /\ e = c
    BY <1>2, <1>3, <1>7, <2>3
  <2> QED BY <2>1, <2>2, <2>3
<1>9. ASSUME NEW x \in Owners PROVE CurrentOK(x)'
  <2>1. CASE x = o
    BY <1>3, <1>4, <2>1 DEF CurrentOK
  <2>2. CASE x # o
    <3>1. account'[x] = account[x] /\ account[x].CurrentID \in Captures \cup {NoCapture}
      <4>1. account'[x] = account[x]
        BY <1>1, <2>2 DEF Commit, AdmissionTypeOK
      <4>2. account[x] \in Account
        BY <1>1, Looked
      <4> QED BY <4>1, <4>2 DEF Account
    <3>2. CurrentOK(x)
      BY DEF AdmissionInv
    <3>3. account[x].CurrentID # NoCapture =>
            capture'[account[x].CurrentID] = capture[account[x].CurrentID]
      BY <1>2, <1>3, <3>1, <3>2 DEF CurrentOK
    <3> QED BY <3>1, <3>2, <3>3 DEF CurrentOK
  <2> QED BY <2>1, <2>2
<1> QED BY <1>8, <1>9

\* The account's day is counted exactly; the other days are over and stay as they are.
LEMMA CommitCounted ==
  ASSUME AdmissionInv, NEW p \in Creators, NEW c \in Captures, Commit(p, c),
         NEW x \in Owners
  PROVE  Counted(x)'
<1> DEFINE o == creator[p].Owner
<1>1. AdmissionTypeOK /\ o \in Owners /\ day \in Nat /\ day' = day
  BY Looked DEF AdmissionInv, Commit
<1>2. \A d \in Captures \ {c} : capture'[d] = capture[d]
  BY <1>1 DEF Commit, AdmissionTypeOK
<1>3. /\ capture[c].State = "absent"
      /\ capture'[c].State = "uploading" /\ capture'[c].Owner = o
      /\ capture'[c].Day = account'[o].Day
  BY <1>1, CommitRow
<1>4. Counted(x)
  BY DEF AdmissionInv
<1>5. CASE x # o
  <2>1. account'[x] = account[x]
    BY <1>1, <1>5 DEF Commit, AdmissionTypeOK
  <2>2. \A d \in 0..day : OpenedOn(x, d)' = OpenedOn(x, d)
    BY <1>2, <1>3, <1>5 DEF OpenedOn
  <2> QED BY <1>1, <1>4, <2>1, <2>2 DEF Counted
<1>6. CASE x = o
  <2>0. PICK before \in Nat, after \in Nat, n \in Nat :
          before = account[o].Day /\ after = account'[o].Day /\ n = account[o].CreatedToday
    <3>1. AdmissionTypeOK'
      BY <1>1, CommitTyped
    <3>2. account[o] \in Account /\ account'[o] \in Account
      BY <1>1, <3>1 DEF AdmissionTypeOK
    <3> QED BY <3>2 DEF Account
  <2>1. /\ before <= after /\ after <= day
        /\ account'[o].CreatedToday <= DailyLimit
        /\ account'[o].CreatedToday = (IF before = after THEN n ELSE 0) + 1
    BY <1>1, <2>0, CommitAccount
  <2>2. \A d \in 0..day : d # after => OpenedOn(x, d)' = OpenedOn(x, d)
    BY <1>2, <1>3, <1>6, <2>0 DEF OpenedOn
  <2>3. OpenedOn(x, after)' = OpenedOn(x, after) \cup {c} /\ c \notin OpenedOn(x, after)
    BY <1>2, <1>3, <1>6, <2>0 DEF OpenedOn
  <2>4. /\ n <= DailyLimit
        /\ \A d \in 0..day : /\ IsFiniteSet(OpenedOn(x, d))
                             /\ Cardinality(OpenedOn(x, d)) \in Nat
                             /\ Cardinality(OpenedOn(x, d)) <=
                                  IF d = before THEN n ELSE DailyLimit
    BY <1>4, <1>6, <2>0, FS_CardinalityType DEF Counted
  <2>5. before # after => OpenedOn(x, after) = {}
    <3>1. \A d \in Captures : capture[d].State # "absent" /\ capture[d].Owner = o =>
            capture[d].Day \in Nat /\ capture[d].Day <= before
      <4>1. \A d \in Captures : capture[d].Day \in Nat
        BY <1>1, Looked DEF Capture
      <4> QED BY <4>1, <2>0 DEF AdmissionInv, RowOK
    <3>2. before # after => \A m \in Nat : m <= before => m # after
      BY <2>0, <2>1
    <3> QED BY <1>6, <3>1, <3>2 DEF OpenedOn
  <2>6. after \in 0..day
    BY <1>1, <2>0, <2>1
  <2>7. /\ IsFiniteSet(OpenedOn(x, after) \cup {c})
        /\ Cardinality(OpenedOn(x, after) \cup {c}) = Cardinality(OpenedOn(x, after)) + 1
    BY <2>3, <2>4, <2>6, FS_AddElement
  <2>8. Cardinality(OpenedOn(x, after)) <= IF before = after THEN n ELSE 0
    <3>1. CASE before = after
      BY <2>4, <2>6, <3>1
    <3>2. CASE before # after
      BY <2>5, <3>2, FS_EmptySet
    <3> QED BY <3>1, <3>2
  <2>9. Cardinality(OpenedOn(x, after) \cup {c}) <= account'[o].CreatedToday
    <3>1. Cardinality(OpenedOn(x, after)) \in Nat
      BY <2>4, <2>6
    <3>2. account'[o].CreatedToday = (IF before = after THEN n ELSE 0) + 1
      BY <2>1
    <3>3. \A i, m \in Nat : i <= m => i + 1 <= m + 1
      OBVIOUS
    <3>4. (IF before = after THEN n ELSE 0) \in Nat
      OBVIOUS
    <3> QED BY <2>7, <2>8, <3>1, <3>2, <3>3, <3>4
  <2>10. ASSUME NEW d \in 0..day
         PROVE  /\ IsFiniteSet(OpenedOn(x, d)')
                /\ Cardinality(OpenedOn(x, d)') <=
                     IF d = after THEN account'[o].CreatedToday ELSE DailyLimit
    <3>1. CASE d = after
      BY <2>3, <2>7, <2>9, <3>1
    <3>2. CASE d # after
      <4>1. OpenedOn(x, d)' = OpenedOn(x, d)
        BY <2>2, <3>2
      <4>2. Cardinality(OpenedOn(x, d)) <= DailyLimit
        BY <2>0, <2>4, AdmissionConstants
      <4> QED BY <2>4, <3>2, <4>1, <4>2
    <3> QED BY <3>1, <3>2
  <2> QED BY <1>1, <1>6, <2>0, <2>1, <2>10 DEF Counted
<1> QED BY <1>5, <1>6

\* The account keeps its mark, and the new capture is not ready.
LEMMA CommitDurable ==
  ASSUME AdmissionInv, NEW p \in Creators, NEW c \in Captures, Commit(p, c)
  PROVE  CapturedIsDurable'
<1>1. AdmissionTypeOK
  BY DEF AdmissionInv
<1>2. \A x \in Owners : account'[x].IDCaptured = account[x].IDCaptured
  <2>1. account'[creator[p].Owner].IDCaptured = account[creator[p].Owner].IDCaptured
    BY CommitAccount
  <2>2. \A x \in Owners : x # creator[p].Owner => account'[x] = account[x]
    BY <1>1 DEF Commit, AdmissionTypeOK
  <2> QED BY <2>1, <2>2
<1>3. /\ ~capture[c].Ready /\ ~capture'[c].Ready
      /\ \A d \in Captures \ {c} : capture'[d] = capture[d]
  <2>1. capture[c].State = "absent" /\ capture'[c].Ready = FALSE
    BY <1>1, CommitRow
  <2>2. ~capture[c].Ready
    BY <2>1 DEF AdmissionInv, RowOK
  <2>3. \A d \in Captures \ {c} : capture'[d] = capture[d]
    BY <1>1 DEF Commit, AdmissionTypeOK
  <2> QED BY <2>1, <2>2, <2>3
<1>4. ASSUME NEW x \in Owners
      PROVE  (\E d \in Captures : capture'[d].Owner = x /\ capture'[d].Ready)
               <=> \E d \in Captures : capture[d].Owner = x /\ capture[d].Ready
  BY <1>3
<1> QED BY <1>2, <1>4 DEF AdmissionInv, CapturedIsDurable

LEMMA CommitStep ==
  ASSUME AdmissionInv, NEW p \in Creators, NEW c \in Captures, Commit(p, c)
  PROVE  AdmissionInv'
<1>1. AdmissionTypeOK'
  BY CommitTyped DEF AdmissionInv
<1> QED BY <1>1, CommitReads, CommitRows, CommitVersions, CommitCounted, CommitDurable
        DEF AdmissionInv
----------------------------------------------------------------------------
\* The rest of a capture's life.

\* A capture that was opened goes on, never to take uploads again; one that leaves the
\* erased ones out stays out.
GoesOn(c) ==
  /\ capture[c].State # "absent"
  /\ capture'[c].State \notin {"absent", "uploading"}
  /\ capture'[c].State \notin {"expired", "gone"} =>
       capture[c].State \notin {"expired", "gone"}
  /\ capture'[c].Owner = capture[c].Owner /\ capture'[c].CreateKey = capture[c].CreateKey
  /\ capture'[c].EvidenceVersion = capture[c].EvidenceVersion
  /\ capture'[c].Day = capture[c].Day
  /\ \A d \in Captures \ {c} : capture'[d] = capture[d]

\* No account takes part, but for the mark and the revision of a ready capture's.
Limits(o) ==
  /\ account'[o].CurrentID = account[o].CurrentID
  /\ account'[o].Version = account[o].Version
  /\ account'[o].Day = account[o].Day
  /\ account'[o].CreatedToday = account[o].CreatedToday

LEMMA GoingOnKeeps ==
  ASSUME AdmissionInv, NEW c \in Captures, GoesOn(c), \A o \in Owners : Limits(o),
         UNCHANGED <<day, mapping, creator>>
  PROVE  /\ \A p \in Creators : Admitted(p)'
         /\ \A d \in Captures : RowOK(d)'
         /\ \A o \in Owners : CurrentOK(o)' /\ Counted(o)'
         /\ VersionsDiffer'
<1>1. AdmissionTypeOK
  BY DEF AdmissionInv
<1>2. \A d \in Captures :
        /\ capture[d].State = "absent" <=> capture'[d].State = "absent"
        /\ capture'[d].State = "uploading" => capture[d].State = "uploading"
        /\ capture'[d].State \notin {"absent", "expired", "gone"} =>
             capture[d].State \notin {"absent", "expired", "gone"}
        /\ capture'[d].Owner = capture[d].Owner
        /\ capture'[d].CreateKey = capture[d].CreateKey
        /\ capture'[d].EvidenceVersion = capture[d].EvidenceVersion
        /\ capture'[d].Day = capture[d].Day
  BY DEF GoesOn
<1>3. ASSUME NEW p \in Creators PROVE Admitted(p)'
  <2>1. creator[p].before.CurrentID \in Captures \cup {NoCapture}
    BY <1>1, Looked DEF Account
  <2>2. Admitted(p) /\ creator' = creator /\ day' = day
    BY DEF AdmissionInv
  <2> QED BY <1>2, <2>1, <2>2 DEF Admitted
<1>4. ASSUME NEW d \in Captures PROVE RowOK(d)'
  <2>1. capture[d].Owner \in Owners
    BY <1>1, Looked DEF Capture
  <2>2. Limits(capture[d].Owner) /\ RowOK(d)
    BY <2>1 DEF AdmissionInv
  <2>3. ~(capture'[d].Ready /\ capture'[d].State = "absent")
    BY <1>2, <2>2 DEF RowOK, GoesOn
  <2> QED BY <1>2, <2>2, <2>3 DEF RowOK, Limits
<1>5. ASSUME NEW o \in Owners PROVE CurrentOK(o)' /\ Counted(o)'
  <2>1. CurrentOK(o) /\ Counted(o) /\ Limits(o)
    BY DEF AdmissionInv
  <2>2. account[o].CurrentID \in Captures \cup {NoCapture}
    BY <1>1, Looked DEF Account
  <2>3. CurrentOK(o)'
    BY <1>2, <2>1, <2>2 DEF CurrentOK, Limits
  <2>4. \A e \in 0..day : OpenedOn(o, e)' = OpenedOn(o, e)
    BY <1>2 DEF OpenedOn
  <2>5. Counted(o)'
    BY <2>1, <2>4 DEF Counted, Limits
  <2> QED BY <2>3, <2>5
<1>6. VersionsDiffer'
  BY <1>2 DEF AdmissionInv, VersionsDiffer
<1> QED BY <1>3, <1>4, <1>5, <1>6

LEMMA MovesOn ==
  ASSUME NEW from, NEW to, <<from, to>> \in Moves
  PROVE  /\ from \notin {"absent", "expired", "gone"}
         /\ to \notin {"absent", "uploading", "gone"}
BY DEF Moves

\* A state is written, by admission's own account of a capture's life or by TTL.
LEMMA MoveStep ==
  ASSUME AdmissionInv, NEW c \in Captures,
         ForgetRow(c) \/ \E to \in Statuses : Move(c, to)
  PROVE  AdmissionInv'
<1>1. AdmissionTypeOK /\ AdmissionTypeOK'
  BY LifeTyped DEF AdmissionInv
<1>2. UNCHANGED <<day, account, mapping, creator>>
  BY DEF ForgetRow, Move
<1>3. PICK to \in Statuses :
        /\ capture' = [capture EXCEPT ![c].State = to]
        /\ capture[c].State # "absent" /\ to \notin {"absent", "uploading"}
        /\ to \notin {"expired", "gone"} => capture[c].State \notin {"expired", "gone"}
  <2>1. CASE ForgetRow(c)
    BY <2>1 DEF ForgetRow, Statuses
  <2>2. CASE \E to \in Statuses : Move(c, to)
    BY <2>2, MovesOn DEF Move
  <2> QED BY <2>1, <2>2
<1>4. /\ capture'[c] = [capture[c] EXCEPT !.State = to]
      /\ \A d \in Captures \ {c} : capture'[d] = capture[d]
  BY <1>1, <1>3 DEF AdmissionTypeOK
<1>5. capture[c] \in Capture
  BY <1>1, Looked
<1>6. GoesOn(c) /\ capture'[c].Ready = capture[c].Ready
  BY <1>3, <1>4, <1>5 DEF GoesOn, Capture
<1>7. \A o \in Owners : Limits(o)
  BY <1>2 DEF Limits
<1>8. \A p \in Creators : ReadOnce(p)'
  <2> SUFFICES ASSUME NEW p \in Creators PROVE ReadOnce(p)'
    OBVIOUS
  <2>1. creator[p].before.CurrentID \in Captures \cup {NoCapture}
    BY <1>1, Looked DEF Account
  <2>2. \A d \in Captures : capture[d].State # "absent" => capture'[d].State # "absent"
    BY <1>6 DEF GoesOn
  <2>3. ReadOnce(p)
    BY DEF AdmissionInv
  <2> QED BY <1>2, <2>1, <2>2, <2>3 DEF ReadOnce
<1>9. CapturedIsDurable'
  <2>1. \A d \in Captures :
          capture'[d].Ready = capture[d].Ready /\ capture'[d].Owner = capture[d].Owner
    BY <1>4, <1>6 DEF GoesOn
  <2> QED BY <1>2, <2>1 DEF AdmissionInv, CapturedIsDurable
<1> QED BY <1>1, <1>2, <1>6, <1>7, <1>8, <1>9, GoingOnKeeps DEF AdmissionInv

\* The ready transaction moves the account's revision, so that whatever was read before
\* it cannot be written back without the mark.
LEMMA ReadyStep ==
  ASSUME AdmissionInv, NEW c \in Captures, PublishReady(c)
  PROVE  AdmissionInv'
<1>1. AdmissionTypeOK /\ AdmissionTypeOK'
  BY LifeTyped DEF AdmissionInv
<1>2. UNCHANGED <<day, mapping, creator>> /\ capture[c].State = "finalizing"
  BY DEF PublishReady
<1>3. PICK o \in Owners : o = capture[c].Owner
  BY <1>1, Looked DEF Capture
<1>4. capture[c] \in Capture /\ account[o] \in Account /\ account[o].Revision \in Nat
  BY <1>1, Looked DEF Account
<1>5. /\ capture'[c] = [capture[c] EXCEPT !.State = "closed", !.Ready = TRUE]
      /\ \A d \in Captures \ {c} : capture'[d] = capture[d]
  BY <1>1 DEF PublishReady, AdmissionTypeOK
<1>6. /\ account'[o] = [account[o] EXCEPT !.IDCaptured = TRUE, !.Revision = @ + 1]
      /\ \A x \in Owners \ {o} : account'[x] = account[x]
  BY <1>1, <1>3 DEF PublishReady, AdmissionTypeOK
<1>7. GoesOn(c) /\ capture'[c].Ready
  BY <1>2, <1>4, <1>5 DEF GoesOn, Capture
<1>8. account'[o].IDCaptured /\ account'[o].Revision = account[o].Revision + 1
  BY <1>4, <1>6 DEF Account
<1>9. \A x \in Owners : Limits(x)
  <2>1. Limits(o)
    BY <1>4, <1>6 DEF Limits, Account
  <2> QED BY <1>6, <2>1 DEF Limits
<1>10. \A p \in Creators : ReadOnce(p)'
  <2> SUFFICES ASSUME NEW p \in Creators PROVE ReadOnce(p)'
    OBVIOUS
  <2> DEFINE x == creator[p].Owner
             b == creator[p].before
  <2>1. /\ x \in Owners /\ b.CurrentID \in Captures \cup {NoCapture}
        /\ b.Revision \in Nat /\ account[x].Revision \in Nat
    BY <1>1, Looked DEF Account
  <2>2. \A d \in Captures : capture[d].State # "absent" => capture'[d].State # "absent"
    BY <1>7 DEF GoesOn
  <2>3. ReadOnce(p)
    BY DEF AdmissionInv
  <2>4. account'[x] = account[x] \/ account'[x].Revision = account[x].Revision + 1
    BY <1>6, <1>8, <2>1
  <2> QED BY <1>2, <2>1, <2>2, <2>3, <2>4 DEF ReadOnce
<1>11. CapturedIsDurable'
  <2> SUFFICES ASSUME NEW x \in Owners
               PROVE  account'[x].IDCaptured <=>
                        \E d \in Captures : capture'[d].Owner = x /\ capture'[d].Ready
    BY DEF CapturedIsDurable
  <2>1. CASE x = o
    BY <1>3, <1>7, <1>8, <2>1 DEF GoesOn
  <2>2. CASE x # o
    <3>1. account'[x] = account[x]
      BY <1>6, <2>2
    <3>2. \A d \in Captures : (capture'[d].Owner = x /\ capture'[d].Ready)
                                <=> (capture[d].Owner = x /\ capture[d].Ready)
      BY <1>3, <1>5, <1>7, <2>2 DEF GoesOn
    <3> QED BY <3>1, <3>2 DEF AdmissionInv, CapturedIsDurable
  <2> QED BY <2>1, <2>2
<1> QED BY <1>1, <1>2, <1>7, <1>9, <1>10, <1>11, GoingOnKeeps DEF AdmissionInv

\* TTL drops the mapping of an erased capture only.
LEMMA ForgetMappingStep ==
  ASSUME AdmissionInv, NEW o \in Owners, NEW k \in Keys, ForgetMapping(o, k)
  PROVE  AdmissionInv'
<1>1. AdmissionTypeOK /\ AdmissionTypeOK'
  BY LifeTyped DEF AdmissionInv
<1>2. UNCHANGED <<day, account, capture, creator>>
  BY DEF ForgetMapping
<1>3. \A p \in Creators : ReadOnce(p)' /\ Admitted(p)'
  BY <1>2 DEF AdmissionInv, ReadOnce, Admitted
<1>4. ASSUME NEW c \in Captures PROVE RowOK(c)'
  <2> DEFINE x == capture[c].Owner
             y == capture[c].CreateKey
  <2>1. RowOK(c)
    BY DEF AdmissionInv
  <2>2. capture[mapping[o][k]].State \in {"expired", "gone"}
    BY DEF ForgetMapping
  <2>3. x \in Owners /\ y \in Keys
    BY <1>1, Looked DEF Capture
  <2>4. ~(x = o /\ y = k) => mapping'[x][y] = mapping[x][y]
    BY <1>1, <2>3 DEF ForgetMapping, AdmissionTypeOK
  <2>5. mapping[x][y] = c /\ x = o /\ y = k => capture[c].State \in {"expired", "gone"}
    BY <2>2
  <2> QED BY <1>2, <2>1, <2>4, <2>5 DEF RowOK
<1>5. \A x \in Owners : CurrentOK(x)'
  BY <1>2 DEF AdmissionInv, CurrentOK
<1>6. \A x \in Owners : Counted(x)'
  BY <1>2 DEF AdmissionInv, Counted, OpenedOn
<1>7. VersionsDiffer' /\ CapturedIsDurable'
  BY <1>2 DEF AdmissionInv, VersionsDiffer, CapturedIsDurable
<1> QED BY <1>1, <1>3, <1>4, <1>5, <1>6, <1>7 DEF AdmissionInv

\* Midnight: nothing was opened on the day that begins.
LEMMA NextDayStep ==
  ASSUME AdmissionInv, NextDay
  PROVE  AdmissionInv'
<1>1. AdmissionTypeOK /\ AdmissionTypeOK' /\ day \in Nat
  BY LifeTyped, Looked DEF AdmissionInv
<1>2. UNCHANGED <<account, capture, mapping, creator>> /\ day' = day + 1
  BY DEF NextDay
<1>3. ASSUME NEW p \in Creators PROVE ReadOnce(p)' /\ Admitted(p)'
  <2>1. creator[p].before.Day \in Nat /\ creator[p].after.Day \in Nat
    BY <1>1, Looked DEF Account
  <2>2. ReadOnce(p) /\ Admitted(p)
    BY DEF AdmissionInv
  <2>3. \A d \in Nat : d <= day => d <= day + 1
    BY <1>1
  <2> QED BY <1>2, <2>1, <2>2, <2>3 DEF ReadOnce, Admitted
<1>4. \A c \in Captures : RowOK(c)'
  BY <1>2 DEF AdmissionInv, RowOK
<1>5. \A x \in Owners : CurrentOK(x)'
  BY <1>2 DEF AdmissionInv, CurrentOK
<1>6. ASSUME NEW x \in Owners PROVE Counted(x)'
  <2>1. Counted(x)
    BY DEF AdmissionInv
  <2>2. account[x].Day \in Nat /\ account[x].CreatedToday \in Nat /\ account[x].Day <= day
    BY <1>1, <2>1, Looked DEF Account, Counted
  <2>3. \A d : OpenedOn(x, d)' = OpenedOn(x, d)
    BY <1>2 DEF OpenedOn
  <2>4. OpenedOn(x, day + 1) = {}
    <3>1. \A c \in Captures : capture[c].State # "absent" /\ capture[c].Owner = x =>
            capture[c].Day \in Nat /\ capture[c].Day <= account[x].Day
      <4>1. \A c \in Captures : capture[c].Day \in Nat
        BY <1>1, Looked DEF Capture
      <4> QED BY <4>1 DEF AdmissionInv, RowOK
    <3>2. \A m \in Nat : m <= account[x].Day => m # day + 1
      BY <1>1, <2>2
    <3> QED BY <3>1, <3>2 DEF OpenedOn
  <2>5. IsFiniteSet({}) /\ Cardinality({}) <= DailyLimit /\ account[x].Day # day + 1
    BY <1>1, <2>2, FS_EmptySet, AdmissionConstants
  <2>6. \A d \in 0..(day + 1) : d \in 0..day \/ d = day + 1
    BY <1>1
  <2>7. ASSUME NEW d \in 0..(day + 1)
        PROVE  /\ IsFiniteSet(OpenedOn(x, d))
               /\ Cardinality(OpenedOn(x, d)) <=
                    IF d = account[x].Day THEN account[x].CreatedToday ELSE DailyLimit
    BY <2>1, <2>4, <2>5, <2>6 DEF Counted
  <2>8. account[x].Day <= day + 1 /\ account[x].CreatedToday <= DailyLimit
    BY <1>1, <2>1, <2>2 DEF Counted
  <2> QED BY <1>2, <2>3, <2>7, <2>8 DEF Counted
<1>7. VersionsDiffer' /\ CapturedIsDurable'
  BY <1>2 DEF AdmissionInv, VersionsDiffer, CapturedIsDurable
<1> QED BY <1>1, <1>3, <1>4, <1>5, <1>6, <1>7 DEF AdmissionInv

----------------------------------------------------------------------------
\* The theorems.

LEMMA AdmissionInitially ==
  ASSUME AdmissionInit
  PROVE  AdmissionInv
<1>1. AdmissionTypeOK
  BY IdleTyped DEF AdmissionInit, AdmissionTypeOK
<1>2. \A p \in Creators : ReadOnce(p) /\ Admitted(p)
  <2>1. \A p \in Creators : creator[p].pc = "idle"
    BY DEF AdmissionInit, Idle
  <2> QED BY <2>1 DEF ReadOnce, Admitted
<1>3. \A c \in Captures : capture[c].State = "absent" /\ capture[c].Ready = FALSE
  BY DEF AdmissionInit, NoRow
<1>4. /\ \A o \in Owners : /\ account[o].CurrentID = NoCapture /\ account[o].Day = 0
                           /\ account[o].CreatedToday = 0
                           /\ account[o].IDCaptured = FALSE
      /\ day = 1
  BY DEF AdmissionInit, NoAccount
<1>5. (\A c \in Captures : RowOK(c)) /\ VersionsDiffer /\ CapturedIsDurable
  BY <1>3, <1>4 DEF RowOK, VersionsDiffer, CapturedIsDurable
<1>6. ASSUME NEW o \in Owners PROVE CurrentOK(o) /\ Counted(o)
  <2>1. \A d : OpenedOn(o, d) = {}
    BY <1>3 DEF OpenedOn
  <2>2. IsFiniteSet({}) /\ Cardinality({}) = 0
    BY FS_EmptySet
  <2>3. 0 <= DailyLimit
    BY AdmissionConstants
  <2> QED BY <1>4, <2>1, <2>2, <2>3 DEF CurrentOK, Counted
<1> QED BY <1>1, <1>2, <1>5, <1>6 DEF AdmissionInv

LEMMA AdmissionInvStep ==
  ASSUME AdmissionInv, [AdmissionNext]_admissionVars
  PROVE  AdmissionInv'
<1>1. CASE UNCHANGED admissionVars
  <2>1. AdmissionTypeOK'
    BY <1>1 DEF AdmissionInv, AdmissionTypeOK, admissionVars
  <2>2. \A p \in Creators : ReadOnce(p)' /\ Admitted(p)'
    BY <1>1 DEF AdmissionInv, ReadOnce, Admitted, admissionVars
  <2>3. \A c \in Captures : RowOK(c)'
    BY <1>1 DEF AdmissionInv, RowOK, admissionVars
  <2>4. \A o \in Owners : CurrentOK(o)'
    BY <1>1 DEF AdmissionInv, CurrentOK, admissionVars
  <2>5. \A o \in Owners : Counted(o)'
    BY <1>1 DEF AdmissionInv, Counted, OpenedOn, admissionVars
  <2>6. VersionsDiffer' /\ CapturedIsDurable'
    BY <1>1 DEF AdmissionInv, VersionsDiffer, CapturedIsDurable, admissionVars
  <2> QED BY <2>1, <2>2, <2>3, <2>4, <2>5, <2>6 DEF AdmissionInv
<1>2. CASE AdmissionNext
  BY <1>2, CreatorStep, CommitStep, ReadyStep, MoveStep, ForgetMappingStep, NextDayStep
     DEF AdmissionNext
<1> QED BY <1>1, <1>2

\* The conjunction of what AdmissionInvariant names is an invariant of Create racing
\* itself, the ready transactions of earlier captures, midnight and TTL.
THEOREM AdmissionInductive == AdmissionSpec => []AdmissionInv
<1>1. AdmissionInit => AdmissionInv
  BY AdmissionInitially
<1>2. AdmissionInv /\ [AdmissionNext]_admissionVars => AdmissionInv'
  BY AdmissionInvStep
<1> QED BY <1>1, <1>2, PTL DEF AdmissionSpec

\* Every row and every creation in flight has its type: a mapping names a capture.
THEOREM AdmissionTyped == AdmissionSpec => []AdmissionTypeOK
<1>1. AdmissionInv => AdmissionTypeOK
  BY DEF AdmissionInv
<1> QED BY <1>1, AdmissionInductive, PTL

\* However many creations race, one session of an account takes uploads: Create's check
\* of the current capture, made on an earlier read, is enough.
THEOREM OneSession == AdmissionSpec => []OneUploadSession
<1>1. AdmissionInv => OneUploadSession
  BY DEF AdmissionInv, RowOK, OneUploadSession
<1> QED BY <1>1, AdmissionInductive, PTL

\* One operation key opens one capture while that capture is kept: the mapping row
\* outlives what it maps, whatever TTL removes first.
THEOREM OnePerKey == AdmissionSpec => []OneCapturePerKey
<1>1. AdmissionInv => OneCapturePerKey
  <2> SUFFICES ASSUME AdmissionInv, NEW c \in Captures, NEW d \in Captures,
                      Exists(c), Exists(d),
                      capture[c].State # "expired", capture[d].State # "expired",
                      capture[c].Owner = capture[d].Owner,
                      capture[c].CreateKey = capture[d].CreateKey
               PROVE  c = d
    BY DEF OneCapturePerKey
  <2>1. /\ mapping[capture[c].Owner][capture[c].CreateKey] = c
        /\ mapping[capture[d].Owner][capture[d].CreateKey] = d
    BY DEF AdmissionInv, RowOK, Exists
  <2> QED BY <2>1
<1> QED BY <1>1, AdmissionInductive, PTL

\* No day ever sees more captures of an account than its limit.
THEOREM DailyLimitKept == AdmissionSpec => []WithinDailyLimit
<1>1. AdmissionInv => WithinDailyLimit
  <2> SUFFICES ASSUME AdmissionInv, NEW o \in Owners, NEW d \in 1..day
               PROVE  Cardinality(OpenedOn(o, d)) <= DailyLimit
    BY DEF WithinDailyLimit, OpenedOn
  <2>1. AdmissionTypeOK /\ Counted(o) /\ day \in Nat
    BY Looked DEF AdmissionInv
  <2>2. d \in 0..day
    BY <2>1
  <2>3. /\ IsFiniteSet(OpenedOn(o, d)) /\ account[o].CreatedToday <= DailyLimit
        /\ Cardinality(OpenedOn(o, d)) <=
             IF d = account[o].Day THEN account[o].CreatedToday ELSE DailyLimit
    BY <2>1, <2>2 DEF Counted
  <2>4. Cardinality(OpenedOn(o, d)) \in Nat /\ account[o].CreatedToday \in Nat
    BY <2>1, <2>3, FS_CardinalityType, Looked DEF Account
  <2> QED BY <2>3, <2>4, AdmissionConstants
<1> QED BY <1>1, AdmissionInductive, PTL

\* Evidence versions number an account's captures without repetition, the current one
\* last.
THEOREM VersionsOrdered == AdmissionSpec => []EvidenceVersionsOrdered
<1>1. AdmissionInv => EvidenceVersionsOrdered
  <2> SUFFICES ASSUME AdmissionInv PROVE EvidenceVersionsOrdered
    OBVIOUS
  <2>1. VersionsDiffer /\ \A o \in Owners : CurrentOK(o)
    BY DEF AdmissionInv
  <2> QED BY <2>1 DEF EvidenceVersionsOrdered, VersionsDiffer, CurrentOK
<1> QED BY <1>1, AdmissionInductive, PTL

\* An account is marked as captured exactly when one of its captures has been ready: no
\* creation that read the account earlier writes the mark away.
THEOREM MarkIsDurable == AdmissionSpec => []CapturedIsDurable
<1>1. AdmissionInv => CapturedIsDurable
  BY DEF AdmissionInv
<1> QED BY <1>1, AdmissionInductive, PTL
============================================================================
