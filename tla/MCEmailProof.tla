---------------------------- MODULE MCEmailProof ----------------------------
(* EmailProof with small limits and interchangeable invocations.           *)
EXTENDS EmailInvariant, TLC

OneEach == [k \in Kinds |-> IF k \in {"code-email", "signup-source"} THEN 2 ELSE 1]

InvocationSymmetry == Permutations(Invocations)
=============================================================================
