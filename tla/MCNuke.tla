------------------------------- MODULE MCNuke -------------------------------
(* Nuke with one environment and the shared index, each in a bucket of its own. *)
EXTENDS Nuke

NamedByAll == Targets \X Resources
HomeOf == [t \in Targets |-> IF t \in Apps THEN "b1" ELSE "b2"]

\* The environment's secrets have a provider nuke does not know.
OtherProvider ==
  {[secrets |-> [t \in Targets |-> IF t \in Apps THEN "other" ELSE "kms"], sealed |-> {"b2"}]}
=============================================================================
