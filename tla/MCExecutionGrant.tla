-------------------------- MODULE MCExecutionGrant --------------------------
(* Small instances of ExecutionGrant; the configurations give the bounds.   *)
EXTENDS ExecutionGrant, TLC

\* Recoveries are alike; an invariant does not tell them apart.
RecoverySymmetry == Permutations(Recoveries)
=============================================================================
