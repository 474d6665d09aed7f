------------------------------ MODULE MCRelayFlow ------------------------------
(* Instances of RelayFlow for TLC. *)
EXTENDS RelayFlow, TLC

CONSTANT w1

\* Requests in one isolate.
OneIsolate == [c \in Requests |-> w1]

Kind(superset, anonymous, fallback) ==
    [superset |-> superset, anonymous |-> anonymous, fallback |-> fallback]

\* Lists of workflow runs, of an account without a pool, and plain reads of one
\* with it, both in a media type that only a credential reads.
Credentialed == {Kind(TRUE, FALSE, "local"), Kind(FALSE, FALSE, "pool")}

\* And reads that anyone may revalidate, with every fallback.
Mixed ==
    Credentialed \cup
    {Kind(FALSE, TRUE, "pool"), Kind(FALSE, FALSE, "github_public"),
     Kind(FALSE, TRUE, "local"), Kind(FALSE, TRUE, "token_free_only")}

Symmetry == Permutations(Requests)
================================================================================
