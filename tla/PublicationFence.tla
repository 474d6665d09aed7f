--------------------------- MODULE PublicationFence ----------------------------
(***************************************************************************)
(* What publication authority promises to the readers of one shared cache  *)
(* resource, with the lease, the coordinator, its followers and every      *)
(* message left out.  Authority passes from grant to grant; only the       *)
(* current grant can publish, once, over an earlier grant's body, and what *)
(* it publishes was observed after it was granted.                         *)
(***************************************************************************)
EXTENDS Naturals

VARIABLES
    issued,   \* the last grant
    holder,   \* the grant that may publish, 0 when none may
    since,    \* the upstream version at the last grant
    version,  \* the upstream version now
    shown     \* the published body: the grant and the version; grant 0: none

vars == <<issued, holder, since, version, shown>>

Nothing == [id |-> 0, seen |-> 0]

Init ==
    /\ issued = 0 /\ holder = 0
    /\ since = 1 /\ version = 1
    /\ shown = Nothing

Observable == version' = version + 1 /\ UNCHANGED <<issued, holder, since, shown>>

\* Grants are numbered upwards and a new one ends the one before.
NewGrant ==
    /\ issued' \in Nat /\ issued' > issued
    /\ holder' = issued'
    /\ since' = version
    /\ UNCHANGED <<version, shown>>

EndGrant ==
    /\ holder # 0
    /\ holder' = 0
    /\ UNCHANGED <<issued, since, version, shown>>

PublishGrant ==
    /\ holder # 0
    /\ shown.id < holder
    /\ \E v \in since..version : shown' = [id |-> holder, seen |-> v]
    /\ UNCHANGED <<issued, holder, since, version>>

Withdraw ==
    /\ shown # Nothing
    /\ shown' = Nothing
    /\ UNCHANGED <<issued, holder, since, version>>

Next == Observable \/ NewGrant \/ EndGrant \/ PublishGrant \/ Withdraw

Spec == Init /\ [][Next]_vars
================================================================================
