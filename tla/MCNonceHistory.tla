--------------------------- MODULE MCNonceHistory ---------------------------
(* Small instances of NonceHistory; the configurations give the bounds.     *)
EXTENDS NonceHistory, TLC

\* Every semantic digest has one supersession scope: the plans differ in what
\* neither the policy nor the source intent says.
OneScope == [s \in Semantics |-> "scope"]

\* Failure codes are alike, and so are nonces: an invariant does not tell them
\* apart. Preflights are not, since their names order their entries.
Alike == Permutations(Failures) \cup Permutations(Nonces)
=============================================================================
