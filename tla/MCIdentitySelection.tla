-------------------------- MODULE MCIdentitySelection --------------------------
(* Instances of IdentitySelection for TLC. *)
EXTENDS IdentitySelection, TLC

CONSTANTS i1, i2, t1, t2, core

\* Routes that spend the same quota.
OneResource == [t \in Routes |-> core]
\* Or two quotas.
TwoResources == t1 :> core @@ t2 :> GraphQL

\* The second identity is preferred.
Weights == [i \in Identities |-> IF i = i2 THEN 1 ELSE 0]

\* Every identity serves every route.
All == {Identities}

Symmetry == Permutations(Requests)
================================================================================
