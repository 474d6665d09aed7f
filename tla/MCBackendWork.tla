---------------------------- MODULE MCBackendWork -----------------------------
(* Instances of BackendWork for TLC. *)
EXTENDS BackendWork, TLC

\* Foreground relays are interchangeable, and so are background refreshes.
Symmetry == Permutations(Works \ Background) \cup Permutations(Background)
================================================================================
