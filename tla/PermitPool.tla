------------------------------- MODULE PermitPool -------------------------------
(***************************************************************************)
(* What admission promises about the work of one client, with permits that *)
(* expire, renewals, retries and every message left out.  A pool counts    *)
(* some of the invocations; an invocation begins to work only while it is  *)
(* counted, is counted for as long as it works, and works once.            *)
(***************************************************************************)
EXTENDS Naturals, FiniteSets

CONSTANTS Works, Background, Limit, HalfLimit

VARIABLES
    counted,  \* the invocations that hold a permit
    phase     \* of each invocation: "idle", "working" or "over"

vars == <<counted, phase>>

Init ==
    /\ counted = {}
    /\ phase = [w \in Works |-> "idle"]

Room(w) == IF w \in Background THEN HalfLimit ELSE Limit

\* One more is counted while there are fewer than it may be counted with.
Count(w) ==
    /\ w \notin counted
    /\ Cardinality(counted) < Room(w)
    /\ counted' = counted \cup {w}
    /\ UNCHANGED phase

Start(w) ==
    /\ phase[w] = "idle" /\ w \in counted
    /\ phase' = [phase EXCEPT ![w] = "working"]
    /\ UNCHANGED counted

\* Some are not counted any more and some are over, for good: all those that
\* would work without being counted are.
Leave(gone, ended) ==
    /\ {w \in gone : phase[w] = "working"} \subseteq ended
    /\ counted' = counted \ gone
    /\ phase' = [w \in Works |-> IF w \in ended THEN "over" ELSE phase[w]]

Next ==
    \/ \E w \in Works : Count(w) \/ Start(w)
    \/ \E gone, ended \in SUBSET Works : Leave(gone, ended)

Spec == Init /\ [][Next]_vars
================================================================================
