---------------------------- MODULE MCPublication -----------------------------
(* Instances of Publication for TLC. *)
EXTENDS Publication, TLC

\* Requests are interchangeable; no property names one.
Symmetry == Permutations(Clients)

\* The coordinator granted the fill to a worker that died at once: only its row is
\* left, which goes when its lease has run out.
AbandonedInit ==
    /\ next = 1 /\ row = [id |-> 1, left |-> Lease] /\ body = NoBody /\ late = {}
    /\ edge = 0
    /\ group = NoGroup /\ due = {} /\ gate = Nobody
    /\ req = [c \in Clients |-> NewRequest]
    /\ version = 1 /\ faults = 0
    /\ stored = {} /\ ended = {} /\ since = 1

AbandonedSpec == AbandonedInit /\ [][Next]_vars
================================================================================
