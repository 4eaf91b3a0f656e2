----------------------------- MODULE RegistryRow -----------------------------
(* One row of the environment index and what the registry's operations make of it
   (registry/registry.go).  A row is never removed: a deletion leaves a tombstone.

   Tokens are numbers in the order the tools draw them; no token is 0.  A
   configuration is its content; two have the same ConfigHash when they are equal. *)
EXTENDS Naturals

CONSTANTS Contents,     \* what a deployment can publish
          Nothing       \* no entry, no deployment

ASSUME NothingPublished == Nothing \notin Contents

Row == [Revision : Nat, Lock : Nat, LastToken : Nat, Deleted : BOOLEAN,
        Entry : Contents \cup {Nothing}, Since : Nat]

\* a row nobody has written; Since is Entry.Revision
NoRow == [Revision |-> 0, Lock |-> 0, LastToken |-> 0, Deleted |-> FALSE,
          Entry |-> Nothing, Since |-> 0]

Operations == {"begin", "defaults", "publish", "retire", "delete", "abandon"}

\* FAULTY variant: a lock is taken over.
Free_Stolen(row, token) == row.LastToken # token
\* "attribute_not_exists(#lock) AND lastToken <> :token"
Free(row, token) == row.Lock = 0 /\ row.LastToken # token

Begun(row, token) == [row EXCEPT !.Lock = token, !.Revision = @ + 1]

\* "#lock = :token AND revision = :revision"
Owned(row, q) == row.Lock = q.token /\ row.Revision = q.revision

\* The request was already carried out, so it is answered as if it just had been.
Settled(row, q) ==
  /\ row.Lock = 0 /\ row.LastToken = q.token
  /\ \/ q.op = "abandon"
     \/ q.op = "delete" /\ row.Deleted
     \/ q.op = "publish" /\ ~row.Deleted /\ row.Entry = q.content

\* seen and since are the entry and its revision as the handler read them: an entry
\* with the same hash is kept whole.
Published(row, q, seen, since) ==
  [row EXCEPT !.LastToken = q.token, !.Lock = 0, !.Deleted = FALSE, !.Entry = q.content,
              !.Since = IF seen = q.content THEN since ELSE q.revision]

\* The tombstone is published and the lock kept.
Retired(row) == [row EXCEPT !.Deleted = TRUE, !.Entry = Nothing, !.Since = 0]

Removed(row, q) ==
  [row EXCEPT !.LastToken = q.token, !.Lock = 0, !.Deleted = TRUE, !.Entry = Nothing,
              !.Since = 0]

\* FAULTY variant: the lock becomes a null instead of being removed.
Abandoned_Null(row, q) == [row EXCEPT !.LastToken = q.token, !.Lock = Nothing]
Abandoned(row, q) == [row EXCEPT !.LastToken = q.token, !.Lock = 0]

\* What the registry lists: GET /v1/environments
Listed(row) == IF row.Deleted THEN Nothing ELSE row.Entry
=============================================================================
