----------------------------- MODULE PolicySnapshot ----------------------------
(***************************************************************************)
(* The string-rewrite policy: one revisioned row in D1, and the one        *)
(* Durable Object through which every relay reads it and administrators    *)
(* replace it.                                                             *)
(*                                                                         *)
(* The object keeps a snapshot in memory for MaxAge.  It answers a read    *)
(* from a fresh snapshot at once; every other request holds the object's   *)
(* gate (blockConcurrencyWhile) while it reloads the row from the primary  *)
(* if the snapshot is not fresh, and, to replace the policy, compares      *)
(* revisions, drops the snapshot and updates the row under the same        *)
(* comparison.  No event is delivered to the object while the gate is held.*)
(*                                                                         *)
(* The rules are left out: a policy is its revision.  The clock does not   *)
(* run backwards.  MaxTime and MaxFaults bound the behaviours.             *)
(***************************************************************************)
EXTENDS Naturals, Sequences

CONSTANTS
    Readers,    \* GET requests
    Writers,    \* PUT requests
    Nobody,     \* holder of the gate when it is free
    MaxAge,     \* POLICY_SNAPSHOT_MAX_AGE_MS
    MaxTime,    \* bound: the last moment
    MaxFaults   \* bound: failures and outside writes in one behaviour

ASSUME RequestsAssumption ==
    Readers \cap Writers = {} /\ Nobody \notin Readers \cup Writers
ASSUME MaxAgeAssumption == MaxAge \in Nat \ {0}
ASSUME BoundsAssumption == MaxTime \in Nat /\ MaxFaults \in Nat

VARIABLES
    now,
    revision,   \* of the row
    late,       \* writers whose update failed but may still reach the row
    snapshot,   \* the revision the object holds, 0 for none, and its age's start
    gate,       \* the request that holds it
    req,
    faults,
    \* history: when each revision was replaced, the revision each writer made,
    \* and the latest revision that an answer has vouched for
    replaced,
    made,
    known

vars == <<now, revision, late, snapshot, gate, req, faults, replaced, made, known>>

row == <<revision, replaced, made>>

Requests == Readers \cup Writers

NoSnapshot == [rev |-> 0, loaded |-> 0]

\* loaded: when the call under way was started; read: what a load has read.
\* answer: "ok", "conflict" or "unavailable"; rev: what an "ok" was about.
\* asked and floor are history: the moment and "known" when the read came.
NewRequest ==
    [stage |-> "new", expected |-> 0, loaded |-> 0, read |-> 0,
     answer |-> "none", rev |-> 0, asked |-> 0, floor |-> 0]

Init ==
    /\ now = 0 /\ revision = 1 /\ late = {}
    /\ snapshot = NoSnapshot /\ gate = Nobody
    /\ req = [c \in Requests |-> NewRequest]
    /\ faults = 0
    /\ replaced = <<>> /\ made = [c \in Writers |-> 0] /\ known = 1

--------------------------------------------------------------------------------

\* freshSnapshot: there is one, and it is younger than MaxAge.
Fresh == snapshot.rev # 0 /\ now - snapshot.loaded < MaxAge

Larger(a, b) == IF a >= b THEN a ELSE b

Answered(q, answer, rev) ==
    [q EXCEPT !.stage = "done", !.answer = answer, !.rev = rev]

\* The handler returns and the gate, if it was held, is free.
Return(c, answer, rev) ==
    /\ req' = [req EXCEPT ![c] = Answered(@, answer, rev)]
    /\ gate' = Nobody
    /\ known' = Larger(known, rev)

Fault == faults < MaxFaults /\ faults' = faults + 1

\* Mutant: the row is updated whatever its revision is.
UpdateBlindly(c) ==
    /\ revision' = revision + 1
    /\ replaced' = Append(replaced, now)
    /\ made' = [made EXCEPT ![c] = revision + 1]

\* ReplaceStringRewritePolicy, for a writer that expects this revision.
Update(c) ==
    /\ revision = req[c].expected
    /\ revision' = revision + 1
    /\ replaced' = Append(replaced, now)
    /\ made' = [made EXCEPT ![c] = revision + 1]

--------------------------------------------------------------------------------
(* The handler.  q is the request as it stands, held a snapshot to go on   *)
(* with.                                                                   *)

\* replace(): an update that names this revision drops the snapshot first.
Replace(c, q, held) ==
    /\ snapshot' = NoSnapshot
    /\ req' = [req EXCEPT ![c] = [q EXCEPT !.stage = "writing", !.loaded = now]]
    /\ gate' = c
    /\ UNCHANGED known

Proceed(c, q, held) ==
    \/ /\ c \in Readers
       /\ snapshot' = held
       /\ req' = [req EXCEPT ![c] = Answered(q, "ok", held.rev)]
       /\ gate' = Nobody
       /\ known' = Larger(known, held.rev)
    \/ /\ c \in Writers /\ held.rev # q.expected
       /\ snapshot' = held
       /\ req' = [req EXCEPT ![c] = Answered(q, "conflict", 0)]
       /\ gate' = Nobody
       /\ UNCHANGED known
    \/ /\ c \in Writers /\ held.rev = q.expected
       /\ Replace(c, q, held)

\* readPrimary(): an expired snapshot is dropped before the row is read.
ReadPrimary(c, q) ==
    /\ snapshot' = NoSnapshot
    /\ req' = [req EXCEPT ![c] = [q EXCEPT !.stage = "loading", !.loaded = now]]
    /\ gate' = c
    /\ UNCHANGED known

\* A read is delivered.
Get(c) ==
    /\ gate = Nobody
    /\ c \in Readers /\ req[c].stage = "new"
    /\ LET q == [req[c] EXCEPT !.asked = now, !.floor = known] IN
       \/ Fresh /\ Proceed(c, q, snapshot)
       \/ ~Fresh /\ ReadPrimary(c, q)
    /\ UNCHANGED <<now, row, late, faults>>

\* An update whose body has been read and parsed.
Put(c, expected) ==
    /\ gate = Nobody
    /\ c \in Writers /\ req[c].stage = "new"
    /\ LET q == [req[c] EXCEPT !.expected = expected] IN
       \/ Fresh /\ Proceed(c, q, snapshot)
       \/ ~Fresh /\ ReadPrimary(c, q)
    /\ UNCHANGED <<now, row, late, faults>>

\* The primary reads the row; its answer is under way.
Load(c) ==
    /\ req[c].stage = "loading"
    /\ req' = [req EXCEPT ![c].stage = "loaded", ![c].read = revision]
    /\ UNCHANGED <<now, row, late, snapshot, gate, faults, known>>

\* The answer arrives: the snapshot's age counts from the start of the call.
Loaded(c) ==
    /\ req[c].stage = "loaded"
    /\ Proceed(c, req[c], [rev |-> req[c].read, loaded |-> req[c].loaded])
    /\ UNCHANGED <<now, row, late, faults>>

\* Mutant: the gate is not given back.
LoadFailsHolding(c) ==
    /\ req[c].stage \in {"loading", "loaded"}
    /\ Fault
    /\ req' = [req EXCEPT ![c] = Answered(@, "unavailable", 0)]
    /\ UNCHANGED <<now, row, late, snapshot, gate, known>>

LoadFails(c) ==
    /\ req[c].stage \in {"loading", "loaded"}
    /\ Fault
    /\ Return(c, "unavailable", 0)
    /\ UNCHANGED <<now, row, late, snapshot>>

\* The primary serves the update; its answer is under way.
Write(c) ==
    /\ req[c].stage = "writing"
    /\ \/ /\ Update(c)
          /\ req' = [req EXCEPT ![c].stage = "written"]
       \/ /\ revision # req[c].expected
          /\ req' = [req EXCEPT ![c].stage = "refused"]
          /\ UNCHANGED row
    /\ UNCHANGED <<now, late, snapshot, gate, faults, known>>

Written(c) ==
    /\ req[c].stage = "written"
    /\ snapshot' = [rev |-> req[c].expected + 1, loaded |-> req[c].loaded]
    /\ Return(c, "ok", req[c].expected + 1)
    /\ UNCHANGED <<now, row, late, faults>>

Refused(c) ==
    /\ req[c].stage = "refused"
    /\ Return(c, "conflict", 0)
    /\ UNCHANGED <<now, row, late, snapshot, faults>>

\* What a failure makes of the update a request has under way: one that has
\* not been served may be served later; one that has been is there to be seen.
Abandoned(c) ==
    /\ late' \in {late} \cup
                 IF req[c].stage = "writing" THEN {late \cup {c}} ELSE {}
    /\ known' = IF req[c].stage = "written"
                THEN Larger(known, req[c].expected + 1) ELSE known

\* Mutant: a call that failed is reported like an update that was refused.
WriteFailsRefused(c) ==
    /\ req[c].stage \in {"writing", "written", "refused"}
    /\ Fault
    /\ Abandoned(c)
    /\ req' = [req EXCEPT ![c] = Answered(@, "conflict", 0)]
    /\ gate' = Nobody
    /\ UNCHANGED <<now, row, snapshot>>

WriteFails(c) ==
    /\ req[c].stage \in {"writing", "written", "refused"}
    /\ Fault
    /\ Abandoned(c)
    /\ req' = [req EXCEPT ![c] = Answered(@, "unavailable", 0)]
    /\ gate' = Nobody
    /\ UNCHANGED <<now, row, snapshot>>

\* The primary serves an update its writer has given up.
LateWrite(c) ==
    /\ c \in late
    /\ late' = late \ {c}
    /\ \/ Update(c)
       \/ revision # req[c].expected /\ UNCHANGED row
    /\ UNCHANGED <<now, snapshot, gate, req, faults, known>>

\* An older Worker, or an administrator of the database, replaces the policy
\* without asking the object.
Bypass ==
    /\ Fault
    /\ revision' = revision + 1
    /\ replaced' = Append(replaced, now)
    /\ UNCHANGED <<now, late, snapshot, gate, req, made, known>>

\* The object is evicted or reset; the request inside its gate fails.
Reset ==
    /\ Fault
    /\ snapshot' = NoSnapshot
    /\ gate' = Nobody
    /\ \/ /\ gate = Nobody
          /\ UNCHANGED <<req, late, known>>
       \/ /\ gate # Nobody
          /\ Abandoned(gate)
          /\ req' = [req EXCEPT ![gate] = Answered(@, "unavailable", 0)]
    /\ UNCHANGED <<now, row>>

Tick ==
    /\ now < MaxTime
    /\ now' = now + 1
    /\ UNCHANGED <<row, late, snapshot, gate, req, faults, known>>

Done(c) == req[c].stage = "done"

Finished ==
    /\ now = MaxTime /\ late = {}
    /\ \A c \in Requests : Done(c)
    /\ UNCHANGED vars

Call(c) ==
    \/ Load(c) \/ Loaded(c) \/ LoadFails(c)
    \/ Write(c) \/ Written(c) \/ Refused(c) \/ WriteFails(c)

Next ==
    \/ \E c \in Readers : Get(c)
    \/ \E c \in Writers, expected \in 1..(revision + 1) : Put(c, expected)
    \/ \E c \in Requests : Call(c)
    \/ \E c \in Writers : LateWrite(c)
    \/ Bypass \/ Reset \/ Tick \/ Finished

Spec == Init /\ [][Next]_vars

\* A call to the database is answered or fails, and a request that has come is
\* delivered when the gate stays free.
Fairness ==
    /\ \A c \in Requests : WF_vars(Call(c))
    /\ \A c \in Readers : WF_vars(Get(c))

FairSpec == Spec /\ Fairness

--------------------------------------------------------------------------------
(* Properties.                                                             *)

RequestType ==
    [stage : {"new", "loading", "loaded", "writing", "written", "refused", "done"},
     expected : Nat, loaded : Nat, read : Nat,
     answer : {"none", "ok", "conflict", "unavailable"},
     rev : Nat, asked : Nat, floor : Nat]

\* The shape of the state; at most the holder of the gate has a call under way.
TypeOK ==
    /\ now \in Nat /\ revision \in Nat \ {0} /\ faults \in Nat /\ known \in Nat
    /\ late \subseteq Writers
    /\ snapshot \in [rev : Nat, loaded : Nat]
    /\ gate \in Requests \cup {Nobody}
    /\ req \in [Requests -> RequestType]
    /\ replaced \in Seq(Nat) /\ made \in [Writers -> Nat]
    /\ \A c \in Requests : req[c].stage \notin {"new", "done"} => gate = c

\* A relay is never given a policy that was replaced a full MaxAge or more
\* before the relay asked, however slowly the database answered the load or the
\* update that the snapshot came from (loadedAt is taken before the call).
BoundedStaleness ==
    \A c \in Readers :
        req[c].answer = "ok" /\ req[c].rev <= Len(replaced)
        => req[c].asked < replaced[req[c].rev] + MaxAge

\* A relay that asks after an answer vouched for a revision is given that one or
\* a later one: a read answered, an update acknowledged, or an update that the
\* database made although its writer was told the policy is unavailable.
ReadsCatchUp ==
    \A c \in Readers : req[c].answer = "ok" => req[c].rev >= req[c].floor

\* What a writer is told is true, now and later: an acknowledged update was
\* made, a refused one never is, and each revision replaces the one its writer
\* had seen, so that no update is lost unseen.
OutcomesTrue ==
    \A c \in Writers :
        /\ req[c].answer = "ok" => made[c] # 0
        /\ req[c].answer = "conflict" => made[c] = 0 /\ c \notin late
        /\ made[c] # 0 => made[c] = req[c].expected + 1

\* Every read is answered, with a policy or with the policy being unavailable.
EveryReadAnswered == \A c \in Readers : <>Done(c)

--------------------------------------------------------------------------------
(* The object implements RevisionRegister: a request that has not been     *)
(* delivered has not come, and one that is not done has been asked.        *)

ReadOf(c) ==
    LET q == req[c] IN
    [stage |-> IF q.stage \in {"new", "done"} THEN q.stage ELSE "asked",
     asked |-> q.asked, floor |-> q.floor, answer |-> q.answer, rev |-> q.rev]

WriteOf(c) ==
    [expected |-> req[c].expected, answer |-> req[c].answer, made |-> made[c]]

Register ==
    INSTANCE RevisionRegister
      WITH reads <- [c \in Readers |-> ReadOf(c)],
           writes <- [c \in Writers |-> WriteOf(c)]

\* Every behaviour of the object, with its snapshot, gate, resets and failing
\* calls, is one of the register: reads are recent and catch up, writes take
\* effect at most once and as their writers were told, and answers are final.
ImplementsRegister == Register!Spec
================================================================================
