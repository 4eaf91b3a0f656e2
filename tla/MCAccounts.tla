----------------------------- MODULE MCAccounts -----------------------------
(* What an account limits, on small instances: the sign-up that creates it (EmailProof)
   and the captures it may open (CaptureAdmission).  Sign-up and admission share no
   state: a behaviour is one of a single part, and the other stays in its initial state.
   The creations of captures are as alike as the invocations of sign-up and go by their
   names; two of one account race each other and the account's earlier captures.       *)
EXTENDS EmailProof, CaptureAdmission, TLC

VARIABLE part

\* a third signup is refused, the source having paid; no resends and no codes
TwoSignups ==
  [k \in Kinds |-> IF k = "signup-source" THEN 3
                   ELSE IF k = "signup-email" THEN 2 ELSE 0]

AllInit == Init /\ AdmissionInit /\ part \in {"signup", "admission"}

SignupStep == part = "signup" /\ Next /\ UNCHANGED <<part, admissionVars>>
\* Captures and keys are alike: captures are opened in order, the first under "k1".
WithoutLoss ==
  /\ capture'["c2"].State # "absent" => capture["c1"].State # "absent"
  /\ capture'["c3"].State # "absent" => capture["c2"].State # "absent"
  /\ capture["c1"].State = "absent" /\ capture'["c1"].State # "absent"
       => capture'["c1"].CreateKey = "k1"
AdmissionStep ==
  part = "admission" /\ AdmissionNext /\ WithoutLoss /\ UNCHANGED <<part, vars>>
AllSpec == AllInit /\ [][SignupStep \/ AdmissionStep]_<<part, vars, admissionVars>>

InvocationSymmetry == Permutations(Invocations)
=============================================================================
