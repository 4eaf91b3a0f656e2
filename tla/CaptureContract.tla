-------------------------- MODULE CaptureContract ---------------------------
(***************************************************************************)
(* What a capture promises its account, its consumers and its owner's      *)
(* privacy, with no worker, queue, revision or clock: the state diagram of *)
(* docs/id-capture.md, one ready event per capture, published only while   *)
(* evidence is held, and evidence that is erased only once the capture has *)
(* expired and never comes back once the obligation to erase it is closed, *)
(* but for what an upload leaves that was already under way when its URL   *)
(* ended: nothing is promised of when that goes.                           *)
(***************************************************************************)
CONSTANT Captures

VARIABLES
  status,    \* status[c]: the state of capture c
  notified,  \* notified[c]: its ready event was published
  held,      \* held[c]: some of its images are in the bucket
  stray,     \* stray[c]: one is, of an upload that outlived its URL
  closed     \* closed[c]: nothing more is scheduled for it

contractVars == <<status, notified, held, stray, closed>>

Init ==
  /\ status = [c \in Captures |-> "absent"]
  /\ notified = [c \in Captures |-> FALSE]
  /\ held = [c \in Captures |-> FALSE]
  /\ stray = [c \in Captures |-> FALSE]
  /\ closed = [c \in Captures |-> FALSE]

Move(c, from, to) ==
  /\ status[c] \in from
  /\ status' = [status EXCEPT ![c] = to]

Open(c) == Move(c, {"absent"}, "uploading") /\ UNCHANGED <<notified, held, stray, closed>>
Submit(c) ==
  /\ Move(c, {"uploading"}, "finalizing")
  /\ UNCHANGED <<notified, held, stray, closed>>
Promote(c) ==
  /\ Move(c, {"finalizing"}, "ready")
  /\ held[c] /\ ~notified[c]
  /\ notified' = [notified EXCEPT ![c] = TRUE]
  /\ UNCHANGED <<held, stray, closed>>
Reject(c) ==
  /\ Move(c, {"finalizing"}, "requires_recapture")
  /\ UNCHANGED <<notified, held, stray, closed>>
GiveUp(c) ==
  /\ Move(c, {"finalizing"}, "failed")
  /\ UNCHANGED <<notified, held, stray, closed>>
Resume(c) ==
  /\ Move(c, {"failed"}, "finalizing")
  /\ UNCHANGED <<notified, held, stray, closed>>
Withdraw(c) ==
  /\ Move(c, {"uploading", "finalizing", "ready", "requires_recapture", "failed"},
          "cancelled")
  /\ UNCHANGED <<notified, held, stray, closed>>
Lapse(c) ==
  /\ Move(c, {"uploading", "finalizing", "ready", "requires_recapture", "failed",
              "cancelled"}, "expired")
  /\ UNCHANGED <<notified, held, stray, closed>>

\* Images arrive while somebody still has the duty to erase them.
Store(c) ==
  /\ status[c] # "absent"
  /\ ~closed[c]
  /\ held' = [held EXCEPT ![c] = TRUE]
  /\ UNCHANGED <<status, notified, stray, closed>>
Stray(c) ==
  /\ status[c] # "absent"
  /\ stray' = [stray EXCEPT ![c] = TRUE]
  /\ UNCHANGED <<status, notified, held, closed>>
\* All of them, or those of one kind.
Erase(c) ==
  /\ status[c] = "expired"
  /\ held' \in {held, [held EXCEPT ![c] = FALSE]}
  /\ stray' \in {stray, [stray EXCEPT ![c] = FALSE]}
  /\ UNCHANGED <<status, notified, closed>>
Close(c) ==
  /\ status[c] = "expired"
  /\ ~held[c]
  /\ closed' = [closed EXCEPT ![c] = TRUE]
  /\ UNCHANGED <<status, notified, held, stray>>

Next == \E c \in Captures :
  \/ Open(c) \/ Submit(c) \/ Promote(c) \/ Reject(c) \/ GiveUp(c) \/ Resume(c)
  \/ Withdraw(c) \/ Lapse(c) \/ Store(c) \/ Stray(c) \/ Erase(c) \/ Close(c)

Spec == Init /\ [][Next]_contractVars
============================================================================
