------------------------- MODULE AdmissionInvariant -------------------------
(* The inductive invariant behind the safety theorems of CaptureAdmission: what a
   creation read, and decided on, is still true of the account when the condition of
   its transaction holds.                                                             *)
EXTENDS CaptureAdmission

\* A revision names one account row: what a creation read is older than the row that is
\* stored, or is that row; its day has come, and its current capture was opened.
ReadOnce(p) ==
  LET a == account[creator[p].Owner]  b == creator[p].before
  IN creator[p].pc \in {"current", "commit"} =>
       /\ b.Revision <= a.Revision
       /\ b.Revision = a.Revision => b = a
       /\ b.Day <= day
       /\ b.CurrentID # NoCapture => capture[b.CurrentID].State # "absent"

\* What CheckCurrent has established: the row to write, and that the account's current
\* capture takes no more uploads.  That capture may be finalizing again by now.
Admitted(p) ==
  LET a == creator[p].after  b == creator[p].before
  IN creator[p].pc = "commit" =>
       /\ a.Revision = b.Revision + 1 /\ a.Version = b.Version + 1
       /\ a.IDCaptured = b.IDCaptured
       /\ b.Day <= a.Day /\ a.Day <= day
       /\ a.CreatedToday = (IF b.Day = a.Day THEN b.CreatedToday ELSE 0) + 1
       /\ a.CreatedToday <= DailyLimit
       /\ b.CurrentID # NoCapture =>
            capture[b.CurrentID].State \notin {"absent", "uploading"}

\* Only an account's current capture takes uploads, and its row bears the last version.
CurrentOK(o) ==
  LET c == account[o].CurrentID
  IN c # NoCapture =>
       /\ capture[c].State # "absent" /\ capture[c].Owner = o
       /\ capture[c].EvidenceVersion = account[o].Version

\* An erased capture may lose its mapping; any other is found under its key.
RowOK(c) ==
  LET r == capture[c]
  IN /\ r.State = "absent" => ~r.Ready
     /\ r.State = "uploading" => account[r.Owner].CurrentID = c
     /\ r.State \notin {"absent", "expired", "gone"} => mapping[r.Owner][r.CreateKey] = c
     /\ r.State # "absent" =>
          /\ r.EvidenceVersion <= account[r.Owner].Version
          /\ r.Day <= account[r.Owner].Day

VersionsDiffer ==
  \A c, d \in Captures :
    /\ capture[c].State # "absent" /\ capture[d].State # "absent"
    /\ capture[c].Owner = capture[d].Owner
    /\ capture[c].EvidenceVersion = capture[d].EvidenceVersion
    => c = d

\* The account counts the captures of its last day; the days before it are closed.
OpenedOn(o, d) ==
  {c \in Captures : /\ capture[c].State # "absent"
                    /\ capture[c].Owner = o
                    /\ capture[c].Day = d}
Counted(o) ==
  /\ account[o].Day <= day
  /\ account[o].CreatedToday <= DailyLimit
  /\ \A d \in 0..day :
       /\ IsFiniteSet(OpenedOn(o, d))
       /\ Cardinality(OpenedOn(o, d)) <=
            IF d = account[o].Day THEN account[o].CreatedToday ELSE DailyLimit

AdmissionInv ==
  /\ AdmissionTypeOK
  /\ \A p \in Creators : ReadOnce(p) /\ Admitted(p)
  /\ \A c \in Captures : RowOK(c)
  /\ \A o \in Owners : CurrentOK(o) /\ Counted(o)
  /\ VersionsDiffer
  /\ CapturedIsDurable
=============================================================================
