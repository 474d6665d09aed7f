---------------------------- MODULE RevisionRegister ----------------------------
(***************************************************************************)
(* What the string-rewrite policy promises to those who read and replace   *)
(* it: a register with revisions, without the object that answers for it,  *)
(* its snapshot, its gate and the database.  A read may be answered with a *)
(* revision that has been replaced, but not for MaxAge when the read was   *)
(* asked, nor with one behind what had been vouched for by then.  A write  *)
(* takes effect at most once, replacing the revision it expects, and its   *)
(* writer is told what became of it or that nobody knows.                  *)
(***************************************************************************)
EXTENDS Naturals, Sequences

CONSTANTS Readers, Writers, MaxAge

VARIABLES
    now,
    replaced,  \* when each revision was replaced; the next one is current
    known,     \* the latest revision that was vouched for
    reads,
    writes

vars == <<now, replaced, known, reads, writes>>

Current == Len(replaced) + 1

NewRead == [stage |-> "new", asked |-> 0, floor |-> 0, answer |-> "none", rev |-> 0]
NewWrite == [expected |-> 0, answer |-> "none", made |-> 0]

Init ==
    /\ now = 0 /\ replaced = <<>> /\ known = 1
    /\ reads = [c \in Readers |-> NewRead]
    /\ writes = [c \in Writers |-> NewWrite]

Pass == now' = now + 1 /\ UNCHANGED <<replaced, known, reads, writes>>

ReplaceCurrent == replaced' = Append(replaced, now)

\* Somebody else replaces the current revision.
Intrude == ReplaceCurrent /\ UNCHANGED <<now, known, reads, writes>>

Vouch(rev) == known' = IF known >= rev THEN known ELSE rev

--------------------------------------------------------------------------------

\* A read that has come, with what it may count on.
Asked(c) ==
    IF reads[c].stage = "new"
    THEN [reads[c] EXCEPT !.stage = "asked", !.asked = now, !.floor = known]
    ELSE reads[c]

Ask(c) ==
    /\ reads[c].stage = "new"
    /\ reads' = [reads EXCEPT ![c] = Asked(c)]
    /\ UNCHANGED <<now, replaced, known, writes>>

Acceptable(rev, q) ==
    /\ rev \in 1..Current /\ q.floor <= rev
    /\ rev # Current => q.asked < replaced[rev] + MaxAge

AnswerRead(c, rev) ==
    /\ reads[c].stage # "done"
    /\ Acceptable(rev, Asked(c))
    /\ reads' = [reads EXCEPT ![c] =
                   [Asked(c) EXCEPT !.stage = "done", !.answer = "ok", !.rev = rev]]
    /\ Vouch(rev)
    /\ UNCHANGED <<now, replaced, writes>>

FailRead(c) ==
    /\ reads[c].stage = "asked"
    /\ reads' = [reads EXCEPT ![c].stage = "done", ![c].answer = "unavailable"]
    /\ UNCHANGED <<now, replaced, known, writes>>

--------------------------------------------------------------------------------

\* The revisions a write may name: once it has come, the one it did.
Named(c) ==
    IF writes[c].expected = 0 THEN 1..(Current + 1) ELSE {writes[c].expected}

Expect(c, rev) ==
    /\ writes[c].expected = 0
    /\ writes' = [writes EXCEPT ![c].expected = rev]
    /\ UNCHANGED <<now, replaced, known, reads>>

\* The write takes effect: before it is answered, or after nobody knew.
TakeEffect(c) ==
    /\ writes[c].made = 0 /\ writes[c].answer \in {"none", "unavailable"}
    /\ writes[c].expected = Current
    /\ ReplaceCurrent
    /\ writes' = [writes EXCEPT ![c].made = Current + 1]
    /\ UNCHANGED <<now, known, reads>>

Acknowledge(c) ==
    /\ writes[c].answer = "none" /\ writes[c].made # 0
    /\ writes' = [writes EXCEPT ![c].answer = "ok"]
    /\ Vouch(writes[c].made)
    /\ UNCHANGED <<now, replaced, reads>>

\* Refused for good: the write will not take effect.
Refuse(c, rev) ==
    /\ writes[c].answer = "none" /\ writes[c].made = 0
    /\ writes' = [writes EXCEPT ![c].expected = rev, ![c].answer = "conflict"]
    /\ UNCHANGED <<now, replaced, known, reads>>

\* Nobody knows; what has taken effect is vouched for all the same.
GiveUp(c) ==
    /\ writes[c].answer = "none" /\ writes[c].expected # 0
    /\ writes' = [writes EXCEPT ![c].answer = "unavailable"]
    /\ Vouch(writes[c].made)
    /\ UNCHANGED <<now, replaced, reads>>

Next ==
    \/ Pass \/ Intrude
    \/ \E c \in Readers :
         \/ Ask(c) \/ FailRead(c)
         \/ \E rev \in 1..Current : AnswerRead(c, rev)
    \/ \E c \in Writers :
         \/ TakeEffect(c) \/ Acknowledge(c) \/ GiveUp(c)
         \/ \E rev \in Named(c) : Expect(c, rev) \/ Refuse(c, rev)

Spec == Init /\ [][Next]_vars
================================================================================
