---------------------------- MODULE MCOperations ----------------------------
(* The operators' commands, the runtime configuration and the users it governs, on
   small instances.  The parts share no state in this model: a behaviour is one of a
   single part, and the others rest in an initial state. *)
EXTENDS IndexLease, Onboarding, Teardown, Nuke, TLC

VARIABLE part

\* A lenient policy and one that requires everything.
Lenient == [password |-> "optional", passkey |-> "optional", capture |-> "disabled",
            strength |-> 1]
Strict == [password |-> "required", passkey |-> "required", capture |-> "required",
           strength |-> 2]
Published2 == {Lenient, Strict}

\* The stacks of nuke: a key for everything; the passphrase for the shared index; secrets
\* of a kind nuke does not know.
EncryptedWith(app, index, b) ==
  [secrets |-> [t \in {"app", "index"} |-> IF t = "app" THEN app ELSE index], sealed |-> b]

NamedByAll == Targets \X Resources
HomeOf == [t \in Targets |-> IF t \in Apps THEN "b1" ELSE "b2"]
Encrypted ==
  {EncryptedWith("kms", "kms", {"b1", "b2"}), EncryptedWith("other", "kms", {"b2"}),
   EncryptedWith("kms", "passphrase", {"b1"})}

\* Administrators are alike: the users' is "a1".  A user who has been here before and signed
\* out has a passkey and the strongest password; one who is signed in has yet to set them.
SignedOut(a) == a.Known /\ ~a.Session
Resting ==
  /\ part = "config" => load = 0
  /\ part \notin {"config", "users"} => ~marker
  /\ part = "users" =>
       /\ grants["a2"] = NoGrant
       /\ account["user"].Passkey = SignedOut(account["user"])
       /\ SignedOut(account["user"]) => account["user"].Password = 2
  /\ part # "teardown" => exported = Things /\ ~evidence /\ ~records /\ ~files
                          /\ indexed
  /\ part = "teardown" => files
  /\ entry.Entry # Strict
  /\ part # "nuke" => local = {} /\ sealed = {"b1", "b2"}

\* What goes wrong in nuke, and how many runs and deployments there are, taken together.
SeldomBoth ==
  rounds' + failures' <= IF notes'.Captured = {} THEN 4 ELSE 3

\* An environment is deployed from here first and publishes Lenient; one thing at a time is
\* changed by hand.  That, and evidence, is in its first life only.
SeldomChanged ==
  /\ entry'.Entry # Strict /\ ~(role' = "changed" /\ github' = "changed")
  /\ evidence' \/ "changed" \in {role', github'} => life' = 1

AllInit ==
  /\ part \in {"lease", "config", "users", "teardown", "nuke"}
  /\ Init /\ OnboardingInit /\ TeardownInit /\ NukeInit /\ Resting

\* Checkouts are alike and so are configurations to a lease: the first lease is asked for
\* by "c1" and deploys Lenient.
WithoutLoss ==
  drawn' = 1 => stack' # Strict /\ \A t \in Tools \ {"c1"} : file'[t].token = 0
\* Of what administration does, users meet publications; the part "config" has the rest.
OnlyPublications ==
  indexRow' = indexRow /\ setups' = {} /\ \A q \in asks' : q.what = "publish"

LeaseStep ==
  /\ part = "lease" /\ Next /\ WithoutLoss
  /\ UNCHANGED <<part, onboardingVars, teardownVars, nukeVars>>
ConfigStep ==
  /\ part = "config" /\ ConfigNext
  /\ UNCHANGED <<part, vars, userVars, teardownVars, nukeVars>>
UserStep ==
  /\ part = "users" /\ OnboardingNext /\ OnlyPublications
  /\ UNCHANGED <<part, vars, teardownVars, nukeVars>>
TeardownStep ==
  /\ part = "teardown" /\ TeardownNext /\ SeldomChanged
  /\ UNCHANGED <<part, vars, onboardingVars, nukeVars>>
NukeStep ==
  /\ part = "nuke" /\ NukeNext /\ SeldomBoth
  /\ UNCHANGED <<part, vars, onboardingVars, teardownVars>>

AllNext == LeaseStep \/ ConfigStep \/ UserStep \/ TeardownStep \/ NukeStep

AllSpec == AllInit /\ [][AllNext]_<<part, vars, onboardingVars, teardownVars, nukeVars>>

=============================================================================
