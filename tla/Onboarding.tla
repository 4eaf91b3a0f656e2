----------------------------- MODULE Onboarding -----------------------------
(* The users' side of one environment while its configuration changes under them: the
   ticket that turns a finished sign-up into a session (awsidentity Session, challenge),
   sign-in (signin/service.go), passkeys (passkey/service.go), and the enrollment that
   the published policy asks for (signin/enrollment.go), whose every step is a call of
   its own.

   Cognito keeps the account: what it is asked and what it answers is in the actions, and
   an answer that never arrives is the caller's failure whether or not Cognito acted. *)
EXTENDS RuntimeConfig

CONSTANTS Users,
          Passwords     \* ordered by strength

Rules == {"required", "optional", "disabled"}
Policies == [password : Rules, passkey : Rules, capture : Rules, strength : Nat]
ASSUME PolicyAssumption ==
  Contents \subseteq Policies /\ Passwords \subseteq Nat \ {0}

VARIABLES account,      \* per user, what Cognito has
          facts,        \* per user, the item enrollment#<subject>
          captures,     \* per user, its capture
          tickets,      \* the items grant#<id>
          visits,       \* calls under way
          told          \* per user, the policy it was last told it had completed

userVars == <<account, facts, captures, tickets, visits, told>>
onboardingVars == <<configVars, userVars>>

\* Password is 0 before one is set.
Accounts == [Known : BOOLEAN, Password : Passwords \cup {0}, Passkey : BOOLEAN, Session : BOOLEAN]
Facts == [Password : BOOLEAN, Captured : BOOLEAN]
\* Flag is Account.IDCaptured; Ever is history, whether a capture was ever ready.
Captures == [State : {"none", "open", "ready", "erased"}, Flag : BOOLEAN, Ever : BOOLEAN]
Tickets == [id : Nat, user : Users, used : BOOLEAN, expired : BOOLEAN, sessions : Nat]
Methods == {"EMAIL_OTP", "WEB_AUTHN", "PASSWORD"}
Visits == [id : Nat, user : Users,
           what : {"ticket", "signin", "passkey", "password", "status"},
           at : {"initiate", "verify", "decide", "finish", "complete", "policy", "set", "mark",
                 "facts", "passkeys", "account", "record", "answer"},
           method : Methods, password : Passwords \cup {0}, policy : Contents \cup {Nothing},
           facts : Facts, passkey : BOOLEAN, correct : BOOLEAN]

\* PasswordPolicy.Check
Accepts(policy, password) == policy.password # "disabled" /\ password >= policy.strength

NoFacts == [Password |-> FALSE, Captured |-> FALSE]
NewVisit(u, what, at) ==
  [id |-> load + 1, user |-> u, what |-> what, at |-> at, method |-> "EMAIL_OTP",
   password |-> 0, policy |-> Nothing, facts |-> NoFacts, passkey |-> FALSE, correct |-> FALSE]

\* A user has signed in, perhaps with a capture older than the flag; or has been here
\* before and signed out, perhaps with a password that the configuration let it set; or
\* has yet to sign up.
UserInit ==
  /\ \E past \in IF marker THEN {"none", "in", "out"} ELSE {"none"},
        password \in {0} \cup {q \in Passwords : marker /\ Accepts(config.Text, q)} :
       /\ password # 0 => past = "out"
       /\ \E has \in IF past = "none" THEN {FALSE} ELSE BOOLEAN :
            account = [u \in Users |->
              [Known |-> past # "none", Password |-> password, Passkey |-> has,
               Session |-> past = "in"]]
       /\ facts = [u \in Users |-> [Password |-> password # 0, Captured |-> FALSE]]
       /\ load = IF past = "none" THEN 0 ELSE 1
       /\ \E old \in IF past = "none" THEN {"none"} ELSE {"open", "ready"} :
            captures = [u \in Users |-> [State |-> old, Flag |-> FALSE, Ever |-> old = "ready"]]
  /\ tickets = {} /\ visits = {}
  /\ told = [u \in Users |-> Nothing]

OnboardingInit == ConfigInit /\ UserInit

----------------------------------------------------------------------------
\* A call that fails where no action says so, or dies, takes no further step.
Started(visit) ==
  /\ load < MaxLoad
  /\ load' = load + 1
  /\ visits' = visits \cup {visit}
  /\ UNCHANGED <<lease, settings, access, people, asks, syncs>>

Becomes(v, next) == visits' = (visits \ {v}) \cup {next}
Place(v, place) == Becomes(v, [v EXCEPT !.at = place])
Done(v) == visits' = visits \ {v}

\* Identity.Confirm at the end of a sign-up (EmailProof)
SignUp(u) ==
  /\ ~account[u].Known /\ config.Text # Nothing /\ load < MaxLoad
  /\ load' = load + 1
  /\ account' = [account EXCEPT ![u].Known = TRUE]
  /\ UNCHANGED <<lease, settings, access, people, asks, syncs, facts, captures, tickets,
                 visits, told>>

\* The ticket: Session puts a grant, initiates the custom challenge and answers it; the
\* trigger decides, verifies, and decides again.
PutGrant(u) ==
  /\ account[u].Known /\ ~account[u].Session
  /\ Started(NewVisit(u, "ticket", "initiate"))
  /\ tickets' = tickets \cup {[id |-> load + 1, user |-> u, used |-> FALSE,
                               expired |-> FALSE, sessions |-> 0]}
  /\ UNCHANGED <<account, facts, captures, told>>

\* DefineAuthChallenge with no step yet, and CreateAuthChallenge
DefineAndCreate(v) ==
  /\ v.what = "ticket" /\ v.at = "initiate"
  /\ Place(v, "verify")
  /\ UNCHANGED <<configVars, account, facts, captures, tickets, told>>

\* FAULTY variant: a ticket used before is taken again.
Valid_Again(t, v) == t.id = v.id /\ t.user = v.user /\ ~t.expired
\* "#sub = :sub AND digest = :digest AND expires > :now AND attribute_not_exists(used)"
Valid(t, v) == t.id = v.id /\ t.user = v.user /\ ~t.expired /\ ~t.used

\* The trigger is asked again when its answer is late: the update may be carried out and
\* the answer of the second one, FALSE, be the one that counts.
Verify(v) ==
  /\ v.what = "ticket" /\ v.at = "verify"
  /\ LET good == {t \in tickets : Valid(t, v)} IN
       /\ tickets' = (tickets \ good) \cup {[t EXCEPT !.used = TRUE] : t \in good}
       /\ \/ Becomes(v, [v EXCEPT !.at = "decide", !.correct = good # {}])
          \/ UNCHANGED visits
  /\ UNCHANGED <<configVars, account, facts, captures, told>>

\* DefineAuthChallenge with the result: tokens, or the authentication fails.  The tokens
\* are issued whether or not Session hears of them, and then it may be asked once more.
Decide(v) ==
  /\ v.what = "ticket" /\ v.at = "decide"
  /\ IF v.correct
     THEN /\ account' = [account EXCEPT ![v.user].Session = TRUE]
          /\ tickets' = {IF t.id = v.id THEN [t EXCEPT !.sessions = @ + 1] ELSE t :
                         t \in tickets}
          /\ Done(v) \/ Place(v, "verify")
     ELSE Done(v) /\ UNCHANGED <<account, tickets>>
  /\ UNCHANGED <<configVars, facts, captures, told>>

\* two minutes
TicketExpires(t) ==
  /\ ~t.expired
  /\ tickets' = (tickets \ {t}) \cup {[t EXCEPT !.expired = TRUE]}
  /\ UNCHANGED <<configVars, account, facts, captures, visits, told>>

----------------------------------------------------------------------------
\* Cognito offers the challenge asked for when the account has the factor, or another.
Has(u, method) ==
  CASE method = "PASSWORD" -> account[u].Password # 0
    [] method = "WEB_AUTHN" -> account[u].Passkey
    [] OTHER -> TRUE

Start(u, method) ==
  /\ account[u].Known /\ ~account[u].Session /\ Has(u, method)
  /\ Started([NewVisit(u, "signin", "finish") EXCEPT !.method = method])
  /\ UNCHANGED <<account, facts, captures, tickets, told>>

Finish(v) ==
  /\ v.what = "signin" /\ v.at = "finish" /\ Has(v.user, v.method)
  /\ account' = [account EXCEPT ![v.user].Session = TRUE]
  /\ Done(v)
  /\ UNCHANGED <<configVars, facts, captures, tickets, told>>

Options(u) ==
  /\ account[u].Session
  /\ Started(NewVisit(u, "passkey", "complete"))
  /\ UNCHANGED <<account, facts, captures, tickets, told>>

\* also when the answer is lost
CompletePasskey(v) ==
  /\ v.what = "passkey" /\ v.at = "complete"
  /\ account' = [account EXCEPT ![v.user].Passkey = TRUE]
  /\ Done(v)
  /\ UNCHANGED <<configVars, facts, captures, tickets, told>>

----------------------------------------------------------------------------
\* The policy is read once a call; without a configuration nothing is answered.
ReadPolicy(v) ==
  /\ v.at = "policy"
  /\ IF config.Text = Nothing THEN Done(v)
     ELSE Becomes(v, [v EXCEPT !.policy = config.Text,
                             !.at = IF v.what = "password" THEN "set" ELSE "facts"])
  /\ UNCHANGED <<configVars, account, facts, captures, tickets, told>>

StartPassword(u, password) ==
  /\ account[u].Session
  /\ Started([NewVisit(u, "password", "policy") EXCEPT !.password = password])
  /\ UNCHANGED <<account, facts, captures, tickets, told>>

\* FAULTY variant: the fact is recorded although the provider's call failed.
SetPassword_Unheard(v) ==
  /\ v.what = "password" /\ v.at = "set"
  /\ IF Accepts(v.policy, v.password)
     THEN /\ account' \in {account, [account EXCEPT ![v.user].Password = v.password]}
          /\ Place(v, "mark")
     ELSE Done(v) /\ UNCHANGED account
  /\ UNCHANGED <<configVars, facts, captures, tickets, told>>
\* AdminSetUserPassword; a call that fails may have been carried out
SetPassword(v) ==
  /\ v.what = "password" /\ v.at = "set"
  /\ IF Accepts(v.policy, v.password)
     THEN /\ account' = [account EXCEPT ![v.user].Password = v.password]
          /\ Place(v, "mark") \/ Done(v)
     ELSE Done(v) /\ UNCHANGED account
  /\ UNCHANGED <<configVars, facts, captures, tickets, told>>

\* Facts.Mark(subject, true, false)
MarkPassword(v) ==
  /\ v.what = "password" /\ v.at = "mark"
  /\ facts' = [facts EXCEPT ![v.user].Password = TRUE]
  /\ Done(v)
  /\ UNCHANGED <<configVars, account, captures, tickets, told>>

----------------------------------------------------------------------------
StartStatus(u) ==
  /\ account[u].Session
  /\ Started(NewVisit(u, "status", "policy"))
  /\ UNCHANGED <<account, facts, captures, tickets, told>>

ReadFacts(v) ==
  /\ v.what = "status" /\ v.at = "facts"
  /\ Becomes(v, [v EXCEPT !.at = "passkeys", !.facts = facts[v.user]])
  /\ UNCHANGED <<configVars, account, facts, captures, tickets, told>>

ReadPasskeys(v) ==
  /\ v.what = "status" /\ v.at = "passkeys"
  /\ Becomes(v, [v EXCEPT !.at = IF v.facts.Captured THEN "answer" ELSE "account",
                        !.passkey = account[v.user].Passkey])
  /\ UNCHANGED <<configVars, account, facts, captures, tickets, told>>

\* Facts.Mark(subject, false, true), which leaves the password's fact alone
Captured(v) ==
  /\ facts' = [facts EXCEPT ![v.user].Captured = TRUE]
  /\ Becomes(v, [v EXCEPT !.at = "answer", !.facts.Captured = TRUE])

\* FAULTY variant: a capture that is under way counts.
ReadCapture_Early(v) ==
  LET c == captures[v.user] IN
  /\ v.what = "status"
  /\ \/ v.at = "account" /\ c.State # "none" /\ Captured(v)
     \/ /\ v.at = "account" /\ c.State = "none" /\ Place(v, "answer") /\ UNCHANGED facts
  /\ UNCHANGED <<configVars, account, captures, tickets, told>>
\* The account, and then the record it names, which may be replaced between the two.
ReadCapture(v) ==
  LET c == captures[v.user] IN
  /\ v.what = "status"
  /\ \/ v.at = "account" /\ c.Flag /\ Captured(v)
     \/ /\ v.at = "account" /\ ~c.Flag
        /\ Place(v, IF c.State = "none" THEN "answer" ELSE "record")
        /\ UNCHANGED facts
     \/ v.at = "record" /\ c.State = "ready" /\ Captured(v)
     \/ /\ v.at = "record" /\ (c.State # "ready" \/ c.Flag)      \* perhaps of a later one
        /\ Place(v, "answer")
        /\ UNCHANGED facts
  /\ UNCHANGED <<configVars, account, captures, tickets, told>>

\* Onboarding.Complete
Complete(policy, passkey, password, captured) ==
  /\ policy.passkey = "required" => passkey
  /\ policy.password = "required" => password
  /\ policy.capture = "required" => captured

AnswerStatus(v) ==
  /\ v.what = "status" /\ v.at = "answer"
  /\ Done(v)
  /\ told' = IF Complete(v.policy, v.passkey, v.facts.Password, v.facts.Captured)
             THEN [told EXCEPT ![v.user] = v.policy] ELSE told
  /\ UNCHANGED <<configVars, account, facts, captures, tickets>>

\* CaptureLifecycle and CaptureAdmission: a capture is opened, becomes ready, and its
\* evidence is erased.
CaptureMoves(u) ==
  /\ account[u].Known
  /\ \/ /\ captures[u].State = "none" /\ captures' = [captures EXCEPT ![u].State = "open"]
     \/ /\ captures[u].State = "open"
        /\ captures' = [captures EXCEPT ![u] = [State |-> "ready", Flag |-> TRUE, Ever |-> TRUE]]
     \/ /\ captures[u].State = "ready"
        /\ captures' = [captures EXCEPT ![u].State = "erased"]
  /\ UNCHANGED <<configVars, account, facts, tickets, visits, told>>

----------------------------------------------------------------------------
UserNext ==
  \/ \E u \in Users :
       \/ SignUp(u) \/ PutGrant(u) \/ Options(u) \/ StartStatus(u)
       \/ CaptureMoves(u)
       \/ \E method \in Methods : Start(u, method)
       \/ \E password \in Passwords : StartPassword(u, password)
  \/ \E v \in visits :
       \/ DefineAndCreate(v) \/ Verify(v) \/ Decide(v) \/ Finish(v) \/ CompletePasskey(v)
       \/ ReadPolicy(v) \/ SetPassword(v) \/ MarkPassword(v)
       \/ ReadFacts(v) \/ ReadPasskeys(v) \/ ReadCapture(v) \/ AnswerStatus(v)
  \/ \E t \in tickets : TicketExpires(t)

OnboardingNext == (ConfigNext /\ UNCHANGED userVars) \/ UserNext

OnboardingSpec == OnboardingInit /\ [][OnboardingNext]_onboardingVars

----------------------------------------------------------------------------
\* Properties.

UserTypeOK ==
  /\ account \in [Users -> Accounts] /\ facts \in [Users -> Facts]
  /\ captures \in [Users -> Captures]
  /\ tickets \subseteq Tickets /\ visits \subseteq Visits
  /\ told \in [Users -> Contents \cup {Nothing}]
OnboardingTypeOK == ConfigTypeOK /\ UserTypeOK

\* A ticket opens one session, however often the trigger, the update or the answer is
\* repeated.
OneSessionPerTicket == \A t \in tickets : t.sessions <= 1

\* What a user was told it had completed, its account and its captures bear out: a fact
\* stands for something that happened, and no write of one loses the other.
ToldTruly ==
  \A u \in Users : told[u] # Nothing =>
    Complete(told[u], account[u].Passkey, facts[u].Password /\ account[u].Password # 0,
             facts[u].Captured)

\* The facts outlive the evidence, and nothing but a finished capture makes one.
FactsEarned ==
  \A u \in Users :
    /\ facts[u].Password => account[u].Password # 0
    /\ facts[u].Captured => captures[u].Ever

\* A password passed the rules of a configuration that was published.
PasswordUnderPolicy ==
  \A u \in Users : account[u].Password # 0 =>
    \E w \in versions : Accepts(w.Text, account[u].Password)

\* The four together, and the types: a ticket opens one session, and what a user is told
\* it has completed, it has.
EnrollmentSound ==
  /\ OnboardingTypeOK
  /\ OneSessionPerTicket /\ ToldTruly /\ FactsEarned /\ PasswordUnderPolicy
=============================================================================
