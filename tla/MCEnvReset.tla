------------------------------ MODULE MCEnvReset ------------------------------
\* EnvReset for TLC: two functions, one of them with no reserved concurrency.
EXTENDS EnvReset, TLC

CONSTANTS f1, f2, w1, w2

Configured == (f1 :> Unreserved) @@ (f2 :> 2)
ConfiguredOne == f1 :> 2

WorkerSymmetry == Permutations({w1, w2})
================================================================================
