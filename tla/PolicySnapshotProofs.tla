------------------------- MODULE PolicySnapshotProofs --------------------------
(***************************************************************************)
(* Proofs about PolicySnapshot: type correctness, bounded staleness, that  *)
(* reads catch up, and that what writers are told is true, for any number  *)
(* of requests, any maximum age and any number of failures.                *)
(***************************************************************************)
EXTENDS PolicySnapshot, TLAPS

(***************************************************************************)
(* The inductive invariant.  A revision "stands from" a moment if it was   *)
(* not replaced before it; the row, the snapshot, and every answer under   *)
(* way hold a revision that stands from the start of the call it came      *)
(* from, and none of them is behind what has been vouched for.             *)
(***************************************************************************)

StandsFrom(rev, from) ==
    /\ rev \in 1..revision
    /\ from <= now
    /\ rev < revision => from <= replaced[rev]

\* The history of the row.
History ==
    /\ Len(replaced) = revision - 1
    /\ \A i \in 1..(revision - 1) : replaced[i] <= now
    /\ known <= revision

\* The snapshot, if there is one.
SnapshotSound ==
    snapshot.rev # 0 =>
        /\ StandsFrom(snapshot.rev, snapshot.loaded)
        /\ known <= snapshot.rev

\* A request with a call under way: nothing is vouched for meanwhile, and there
\* is no snapshot.
Calling(q) ==
    q.stage \notin {"new", "done"} =>
        /\ snapshot.rev = 0
        /\ q.asked <= q.loaded /\ q.loaded <= now
        /\ q.stage = "loaded" => StandsFrom(q.read, q.loaded) /\ known <= q.read
        /\ q.stage \in {"writing", "written", "refused"} => known <= q.expected
        /\ q.stage = "written" => StandsFrom(q.expected + 1, q.loaded)

\* A read, before and after it was answered.
Reading(q) ==
    /\ q.stage \notin {"writing", "written", "refused"}
    /\ q.answer = "ok" =>
         /\ q.rev \in 1..revision
         /\ q.rev < revision => q.asked < replaced[q.rev] + MaxAge
         /\ q.floor <= q.rev

\* What has become of the update of the writer c.
Writing(c, q) ==
    /\ made[c] # 0 => made[c] = q.expected + 1 /\ q.stage \in {"written", "done"}
    /\ q.stage = "written" \/ q.answer = "ok" => made[c] # 0
    /\ c \in late => q.answer = "unavailable" /\ made[c] = 0
    /\ q.answer = "conflict" => made[c] = 0

Sound(c, q) ==
    /\ (q.stage = "done") = (q.answer # "none")
    /\ q.asked <= now /\ q.floor <= known
    /\ Calling(q)
    /\ c \in Readers => Reading(q)
    /\ c \in Writers => Writing(c, q)

PolicyInv ==
    /\ TypeOK
    /\ History
    /\ SnapshotSound
    /\ \A c \in Requests : Sound(c, req[c])

--------------------------------------------------------------------------------
(* Facts every step uses.                                                  *)

\* The constants the proofs do arithmetic with.
LEMMA Constants ==
    /\ MaxAge \in Nat /\ MaxAge > 0
    /\ Nobody \notin Requests
    /\ \A c \in Requests : (c \in Writers) = (c \notin Readers)
    /\ Readers \subseteq Requests /\ Writers \subseteq Requests
  BY MaxAgeAssumption, RequestsAssumption DEF Requests

Idle(c) == req[c].stage \in {"new", "done"}

\* At most one request has a call under way, the holder of the gate.
LEMMA OneCaller ==
    ASSUME PolicyInv
    PROVE  /\ gate = Nobody => \A d \in Requests : Idle(d)
           /\ \A c \in Requests : ~Idle(c) =>
                gate = c /\ \A d \in Requests \ {c} : Idle(d)
  BY Constants DEF PolicyInv, TypeOK, Idle

\* A step of one request that leaves the row and the clock alone keeps the
\* invariant if its own record and the snapshot are sound afterwards.
LEMMA RequestStep ==
    ASSUME PolicyInv, NEW c \in Requests, NEW q \in RequestType,
           req' = [req EXCEPT ![c] = q],
           UNCHANGED <<now, revision, replaced, made>>,
           late' = late \/ (c \in Writers /\ late' = late \cup {c}),
           known' \in Nat, known <= known', known' <= revision,
           snapshot' \in [rev : Nat, loaded : Nat],
           gate' \in Requests \cup {Nobody}, faults' \in Nat,
           \A d \in Requests \ {c} : Idle(d),
           q.stage \in {"new", "done"} \/ gate' = c,
           SnapshotSound', Sound(c, q)'
    PROVE  PolicyInv'
  <1>1. \A d \in Requests : req'[d] = IF d = c THEN q ELSE req[d]
    BY DEF PolicyInv, TypeOK
  <1>2. TypeOK'
    BY <1>1 DEF PolicyInv, TypeOK, Idle
  <1>3. History'
    BY DEF PolicyInv, History
  <1>4. ASSUME NEW d \in Requests, d # c
        PROVE  Sound(d, req[d])'
    <2>1. req'[d] = req[d] /\ Idle(d) /\ Sound(d, req[d])
      BY <1>1, <1>4 DEF PolicyInv
    <2>n. known \in Nat /\ req[d] \in RequestType
      BY DEF PolicyInv, TypeOK
    <2>2. Calling(req[d])'
      BY <1>1, <1>4, <2>1 DEF Calling, Idle
    <2>3. d \in Readers => Reading(req[d])'
      BY <1>1, <1>4, <2>1 DEF Sound, Reading
    <2>4. d \in Writers => Writing(d, req[d])'
      BY <1>1, <1>4, <2>1 DEF Sound, Writing
    <2>5. req[d].floor <= known'
      BY <2>1, <2>n DEF Sound, RequestType
    <2> QED BY <1>1, <1>4, <2>1, <2>2, <2>3, <2>4, <2>5 DEF Sound
  <1>5. Sound(c, req[c])'
    <2>1. req'[c] = q
      BY <1>1
    <2> QED BY <2>1 DEF Sound, Calling, Reading, Writing, StandsFrom
  <1>6. (\A d \in Requests : Sound(d, req[d]))'
    BY <1>4, <1>5
  <1> QED BY <1>2, <1>3, <1>6 DEF PolicyInv
--------------------------------------------------------------------------------
(* The two ways the handler goes on inside the gate.                       *)

\* A request that has asked the database nothing that could still come back.
Unanswered(c, q) ==
    /\ q \in RequestType /\ q.answer = "none"
    /\ q.asked <= now /\ q.floor <= known
    /\ c \in Writers => made[c] = 0 /\ c \notin late

\* Once a load is under way there is no snapshot.
LEMMA ReadPrimaryKeeps ==
    ASSUME PolicyInv, NEW c \in Requests, NEW q, Unanswered(c, q),
           ReadPrimary(c, q), \A d \in Requests \ {c} : Idle(d),
           UNCHANGED <<now, row, late, faults>>
    PROVE  PolicyInv'
  <1>t. /\ now \in Nat /\ known \in Nat /\ revision \in Nat /\ faults \in Nat
        /\ known <= revision
    BY DEF PolicyInv, TypeOK, History
  <1>1. PICK p \in RequestType : p = [q EXCEPT !.stage = "loading", !.loaded = now]
    BY <1>t DEF Unanswered, RequestType
  <1>2. Sound(c, p)'
    BY <1>t, <1>1, Constants
    DEF ReadPrimary, Unanswered, RequestType, NoSnapshot, row,
        Sound, Calling, Reading, Writing
  <1>3. SnapshotSound'
    BY DEF ReadPrimary, NoSnapshot, SnapshotSound
  <1>4. /\ UNCHANGED <<now, revision, replaced, made>> /\ late' = late
        /\ known' \in Nat /\ known <= known' /\ known' <= revision
        /\ faults' \in Nat /\ gate' = c /\ gate' \in Requests \cup {Nobody}
        /\ snapshot' \in [rev : Nat, loaded : Nat]
        /\ req' = [req EXCEPT ![c] = p]
    BY <1>t, <1>1 DEF ReadPrimary, row, NoSnapshot
  <1> QED BY <1>2, <1>3, <1>4, RequestStep

\* With a snapshot that stands from its moment and is not behind, the request is
\* answered, or starts to write with the snapshot dropped.
LEMMA ProceedKeeps ==
    ASSUME PolicyInv, NEW c \in Requests, NEW q, Unanswered(c, q),
           NEW held \in [rev : Nat, loaded : Nat], Proceed(c, q, held),
           \A d \in Requests \ {c} : Idle(d),
           StandsFrom(held.rev, held.loaded), known <= held.rev,
           q.asked < held.loaded + MaxAge,
           UNCHANGED <<now, row, late, faults>>
    PROVE  PolicyInv'
  <1>t. /\ now \in Nat /\ known \in Nat /\ revision \in Nat /\ faults \in Nat
        /\ known <= revision /\ held.rev \in Nat /\ held.loaded \in Nat
        /\ held.rev \in 1..revision
    BY DEF PolicyInv, TypeOK, History, StandsFrom
  <1>1. CASE c \in Readers /\ Proceed(c, q, held)!1
    <2>0. PICK p \in RequestType : p = Answered(q, "ok", held.rev)
      BY <1>t DEF Answered, Unanswered, RequestType
    <2>1. /\ snapshot' = held /\ req' = [req EXCEPT ![c] = p]
          /\ gate' = Nobody /\ known' = held.rev
      BY <1>t, <2>0, <1>1 DEF Larger
    <2>3. held.rev < revision => q.asked < replaced[held.rev] + MaxAge
      <3> SUFFICES ASSUME held.rev < revision
          PROVE q.asked < replaced[held.rev] + MaxAge
        OBVIOUS
      <3>1. held.rev \in 1..Len(replaced) /\ replaced \in Seq(Nat)
        BY <1>t DEF PolicyInv, TypeOK, History
      <3>2. replaced[held.rev] \in Nat /\ held.loaded <= replaced[held.rev]
        BY <1>t, <3>1 DEF StandsFrom
      <3>3. q.asked \in Nat
        BY DEF Unanswered, RequestType
      <3> QED BY <1>t, <3>2, <3>3, Constants
    <2>4. Sound(c, p)'
      BY <1>t, <1>1, <2>0, <2>1, <2>3, Constants
      DEF Answered, Unanswered, RequestType, Sound, Calling, Reading, Writing, row
    <2>5. SnapshotSound'
      BY <1>t, <2>1 DEF SnapshotSound, StandsFrom, row
    <2>6. p.stage = "done"
      BY <2>0 DEF Answered, Unanswered, RequestType
    <2>7. /\ UNCHANGED <<now, revision, replaced, made>> /\ late' = late
          /\ known' \in Nat /\ known <= known' /\ known' <= revision
          /\ faults' \in Nat /\ gate' \in Requests \cup {Nobody}
          /\ snapshot' \in [rev : Nat, loaded : Nat]
      BY <1>t, <2>1 DEF row
    <2> QED BY <2>1, <2>4, <2>5, <2>6, <2>7, RequestStep
  <1>2. CASE c \in Writers /\ held.rev # q.expected /\ Proceed(c, q, held)!2
    <2>0. PICK p \in RequestType : p = Answered(q, "conflict", 0)
      BY <1>t DEF Answered, Unanswered, RequestType
    <2>1. /\ snapshot' = held /\ req' = [req EXCEPT ![c] = p]
          /\ gate' = Nobody /\ known' = known
      BY <2>0, <1>2
    <2>4. Sound(c, p)'
      BY <1>t, <1>2, <2>0, <2>1, Constants
      DEF Answered, Unanswered, RequestType, Sound, Calling, Reading, Writing, row
    <2>5. SnapshotSound'
      BY <1>t, <2>1 DEF SnapshotSound, StandsFrom, row
    <2>6. p.stage = "done"
      BY <2>0 DEF Answered, Unanswered, RequestType
    <2>7. /\ UNCHANGED <<now, revision, replaced, made>> /\ late' = late
          /\ known' \in Nat /\ known <= known' /\ known' <= revision
          /\ faults' \in Nat /\ gate' \in Requests \cup {Nobody}
          /\ snapshot' \in [rev : Nat, loaded : Nat]
      BY <1>t, <2>1 DEF row
    <2> QED BY <2>1, <2>4, <2>5, <2>6, <2>7, RequestStep
  <1>3. CASE c \in Writers /\ held.rev = q.expected /\ Replace(c, q, held)
    <2>0. PICK p \in RequestType : p = [q EXCEPT !.stage = "writing", !.loaded = now]
      BY <1>t DEF Answered, Unanswered, RequestType
    <2>1. /\ snapshot' = NoSnapshot /\ req' = [req EXCEPT ![c] = p]
          /\ gate' = c /\ known' = known
      BY <2>0, <1>3 DEF Replace
    <2>4. Sound(c, p)'
      BY <1>t, <1>3, <2>0, <2>1, Constants
      DEF Unanswered, RequestType, Sound, Calling, Reading, Writing, row, NoSnapshot
    <2>5. SnapshotSound'
      BY <2>1 DEF SnapshotSound, NoSnapshot
    <2>7. /\ UNCHANGED <<now, revision, replaced, made>> /\ late' = late
          /\ known' \in Nat /\ known <= known' /\ known' <= revision
          /\ faults' \in Nat /\ gate' = c /\ gate' \in Requests \cup {Nobody}
          /\ snapshot' \in [rev : Nat, loaded : Nat]
      BY <1>t, <2>1 DEF row, NoSnapshot
    <2> QED BY <2>1, <2>4, <2>5, <2>7, RequestStep
  <1> QED BY <1>1, <1>2, <1>3 DEF Proceed
--------------------------------------------------------------------------------
(* The actions of one request.                                             *)

\* The numbers in the state.
LEMMA Numbers ==
    ASSUME PolicyInv
    PROVE  /\ now \in Nat /\ known \in Nat /\ revision \in Nat \ {0} /\ faults \in Nat
           /\ known <= revision
           /\ snapshot.rev \in Nat /\ snapshot.loaded \in Nat
  BY DEF PolicyInv, TypeOK, History

\* A delivered read.
LEMMA GetKeeps ==
    ASSUME PolicyInv, NEW c \in Readers, Get(c)
    PROVE  PolicyInv'
  <1>1. /\ c \in Requests /\ c \notin Writers /\ req[c] \in RequestType
        /\ req[c].stage = "new" /\ Sound(c, req[c]) /\ gate = Nobody
        /\ \A d \in Requests : Idle(d)
    BY Constants, OneCaller DEF Get, PolicyInv, TypeOK
  <1>2. PICK q \in RequestType : q = [req[c] EXCEPT !.asked = now, !.floor = known]
    BY <1>1, Numbers DEF RequestType
  <1>3. Unanswered(c, q) /\ q.asked = now
    BY <1>1, <1>2, Numbers DEF Unanswered, Sound, RequestType
  <1>4. PICK held \in [rev : Nat, loaded : Nat] : held = snapshot
    BY DEF PolicyInv, TypeOK
  <1>5. UNCHANGED <<now, row, late, faults>>
    BY DEF Get
  <1>6. CASE Fresh /\ Proceed(c, q, held)
    <2>1. StandsFrom(held.rev, held.loaded) /\ known <= held.rev
      BY <1>4, <1>6 DEF Fresh, PolicyInv, SnapshotSound
    <2>2. q.asked < held.loaded + MaxAge
      BY <1>3, <1>4, <1>6, Numbers, Constants DEF Fresh
    <2> QED BY <1>1, <1>3, <1>5, <1>6, <2>1, <2>2, ProceedKeeps
  <1>7. CASE ReadPrimary(c, q)
    BY <1>1, <1>3, <1>5, <1>7, ReadPrimaryKeeps
  <1> QED BY <1>2, <1>4, <1>6, <1>7 DEF Get

\* A delivered update, whatever revision it expects.
LEMMA PutKeeps ==
    ASSUME PolicyInv, NEW c \in Writers, NEW expected \in Nat, Put(c, expected)
    PROVE  PolicyInv'
  <1>1. /\ c \in Requests /\ req[c] \in RequestType
        /\ req[c].stage = "new" /\ Sound(c, req[c]) /\ gate = Nobody
        /\ \A d \in Requests : Idle(d)
    BY Constants, OneCaller DEF Put, PolicyInv, TypeOK
  <1>2. PICK q \in RequestType : q = [req[c] EXCEPT !.expected = expected]
    BY <1>1 DEF RequestType
  <1>3. Unanswered(c, q)
    BY <1>1, <1>2, Numbers DEF Unanswered, Sound, Writing, RequestType
  <1>4. PICK held \in [rev : Nat, loaded : Nat] : held = snapshot
    BY DEF PolicyInv, TypeOK
  <1>5. UNCHANGED <<now, row, late, faults>>
    BY DEF Put
  <1>6. CASE Fresh /\ Proceed(c, q, held)
    <2>1. StandsFrom(held.rev, held.loaded) /\ known <= held.rev
      BY <1>4, <1>6 DEF Fresh, PolicyInv, SnapshotSound
    <2>2. q.asked < held.loaded + MaxAge
      BY <1>2, <1>3, <1>4, <1>6, Numbers, Constants
      DEF Fresh, Unanswered, RequestType
    <2> QED BY <1>1, <1>3, <1>5, <1>6, <2>1, <2>2, ProceedKeeps
  <1>7. CASE ReadPrimary(c, q)
    BY <1>1, <1>3, <1>5, <1>7, ReadPrimaryKeeps
  <1> QED BY <1>2, <1>4, <1>6, <1>7 DEF Put

\* The row as the database reads it stands from the start of the call.
LEMMA LoadKeeps ==
    ASSUME PolicyInv, NEW c \in Requests, Load(c)
    PROVE  PolicyInv'
  <1>1. /\ req[c] \in RequestType /\ req[c].stage = "loading" /\ Sound(c, req[c])
        /\ gate = c /\ \A d \in Requests \ {c} : Idle(d)
    BY OneCaller DEF Load, PolicyInv, TypeOK, Idle
  <1>2. PICK p \in RequestType : p = [req[c] EXCEPT !.stage = "loaded", !.read = revision]
    BY <1>1, Numbers DEF RequestType
  <1>3. /\ UNCHANGED <<now, revision, replaced, made>> /\ late' = late
        /\ known' = known /\ snapshot' = snapshot /\ faults' = faults /\ gate' = gate
        /\ req' = [req EXCEPT ![c] = p]
    BY <1>1, <1>2 DEF Load, row, PolicyInv, TypeOK
  <1>4. Sound(c, p)'
    BY <1>1, <1>2, <1>3, Numbers
    DEF RequestType, Sound, Calling, Reading, Writing, StandsFrom
  <1>5. SnapshotSound'
    BY <1>3 DEF PolicyInv, SnapshotSound, StandsFrom
  <1>6. known' \in Nat /\ known <= known' /\ known' <= revision /\ faults' \in Nat
    BY <1>3, Numbers
  <1>7. gate' = c /\ gate' \in Requests \cup {Nobody} /\ snapshot' \in [rev : Nat, loaded : Nat]
    BY <1>1, <1>3 DEF PolicyInv, TypeOK
  <1> QED BY <1>1, <1>3, <1>4, <1>5, <1>6, <1>7, RequestStep

\* What was loaded becomes the snapshot the handler goes on with.
LEMMA LoadedKeeps ==
    ASSUME PolicyInv, NEW c \in Requests, Loaded(c)
    PROVE  PolicyInv'
  <1>1. /\ req[c] \in RequestType /\ req[c].stage = "loaded" /\ Sound(c, req[c])
        /\ \A d \in Requests \ {c} : Idle(d)
    BY OneCaller DEF Loaded, PolicyInv, TypeOK, Idle
  <1>2. PICK q \in RequestType : q = req[c]
    BY <1>1
  <1>3. PICK held \in [rev : Nat, loaded : Nat] :
          held = [rev |-> req[c].read, loaded |-> req[c].loaded]
    BY <1>1 DEF RequestType
  <1>4. Unanswered(c, q)
    BY <1>1, <1>2 DEF Unanswered, Sound, Writing, RequestType
  <1>5. /\ StandsFrom(held.rev, held.loaded) /\ known <= held.rev
        /\ q.asked < held.loaded + MaxAge
    BY <1>1, <1>2, <1>3, Constants DEF Sound, Calling, RequestType
  <1>6. Proceed(c, q, held) /\ UNCHANGED <<now, row, late, faults>>
    BY <1>2, <1>3 DEF Loaded
  <1> QED BY <1>1, <1>4, <1>5, <1>6, ProceedKeeps

\* An answered request has no call under way, so its step is sound if what is
\* true of its update agrees with the answer.
LEMMA AnswerKeeps ==
    ASSUME PolicyInv, NEW c \in Requests, NEW p \in RequestType,
           req' = [req EXCEPT ![c] = p], p.stage = "done", p.answer # "none",
           p.asked <= now, p.floor <= known, \A d \in Requests \ {c} : Idle(d),
           UNCHANGED <<now, revision, replaced, made>>,
           late' = late \/ (c \in Writers /\ late' = late \cup {c}),
           known' \in Nat, known <= known', known' <= revision,
           snapshot' \in [rev : Nat, loaded : Nat],
           gate' = Nobody, faults' \in Nat, SnapshotSound',
           c \in Readers => p.answer # "ok",
           c \in Writers => Writing(c, p)'
    PROVE  PolicyInv'
  <1>1. Sound(c, p)'
    BY Numbers DEF Sound, Calling, Reading, RequestType
  <1>2. gate' \in Requests \cup {Nobody}
    OBVIOUS
  <1> QED BY <1>1, <1>2, RequestStep

\* A load that fails leaves the object without a snapshot and free.
LEMMA LoadFailsKeeps ==
    ASSUME PolicyInv, NEW c \in Requests, LoadFails(c)
    PROVE  PolicyInv'
  <1>1. /\ req[c] \in RequestType /\ req[c].stage \in {"loading", "loaded"}
        /\ Sound(c, req[c]) /\ \A d \in Requests \ {c} : Idle(d)
    BY OneCaller DEF LoadFails, PolicyInv, TypeOK, Idle
  <1>2. PICK p \in RequestType : p = Answered(req[c], "unavailable", 0)
    BY <1>1 DEF RequestType, Answered
  <1>3. /\ p.stage = "done" /\ p.answer = "unavailable"
        /\ p.asked = req[c].asked /\ p.floor = req[c].floor
        /\ p.expected = req[c].expected
    BY <1>1, <1>2 DEF RequestType, Answered
  <1>4. /\ UNCHANGED <<now, revision, replaced, made>> /\ late' = late
        /\ known' = known /\ snapshot' = snapshot /\ faults' \in Nat
        /\ gate' = Nobody /\ req' = [req EXCEPT ![c] = p]
    BY <1>1, <1>2, Numbers
    DEF LoadFails, Fault, Return, Larger, row, PolicyInv, TypeOK
  <1>5. SnapshotSound'
    BY <1>4 DEF PolicyInv, SnapshotSound, StandsFrom
  <1>6. c \in Writers => Writing(c, p)'
    BY <1>1, <1>3, <1>4 DEF Sound, Writing
  <1>7. /\ p.asked <= now /\ p.floor <= known /\ p.answer # "none" /\ p.answer # "ok"
        /\ known' \in Nat /\ known <= known' /\ known' <= revision
        /\ snapshot' \in [rev : Nat, loaded : Nat]
    BY <1>1, <1>3, <1>4, Numbers DEF Sound, PolicyInv, TypeOK
  <1> QED BY <1>1, <1>3, <1>4, <1>5, <1>6, <1>7, AnswerKeeps

\* An acknowledged update becomes the snapshot, as old as the call.
LEMMA WrittenKeeps ==
    ASSUME PolicyInv, NEW c \in Requests, Written(c)
    PROVE  PolicyInv'
  <1>1. /\ req[c] \in RequestType /\ req[c].stage = "written"
        /\ Sound(c, req[c]) /\ \A d \in Requests \ {c} : Idle(d)
    BY OneCaller DEF Written, PolicyInv, TypeOK, Idle
  <1>w. c \in Writers /\ c \notin Readers
    BY <1>1, Constants DEF Sound, Reading
  <1>r. PICK next \in Nat : next = req[c].expected + 1
    BY <1>1 DEF RequestType
  <1>2. PICK p \in RequestType : p = Answered(req[c], "ok", next)
    BY <1>1 DEF RequestType, Answered
  <1>3. /\ p.stage = "done" /\ p.answer = "ok"
        /\ p.asked = req[c].asked /\ p.floor = req[c].floor
        /\ p.expected = req[c].expected
    BY <1>1, <1>2 DEF RequestType, Answered
  <1>e. /\ req[c].expected \in Nat /\ req[c].loaded \in Nat
        /\ StandsFrom(req[c].expected + 1, req[c].loaded)
        /\ known <= req[c].expected
    BY <1>1 DEF RequestType, Sound, Calling
  <1>4. /\ UNCHANGED <<now, revision, replaced, made>> /\ late' = late
        /\ known' = req[c].expected + 1
        /\ snapshot' = [rev |-> req[c].expected + 1, loaded |-> req[c].loaded]
        /\ faults' \in Nat
        /\ gate' = Nobody /\ req' = [req EXCEPT ![c] = p]
    BY <1>1, <1>r, <1>2, <1>e, Numbers
    DEF Written, Return, Larger, row, PolicyInv, TypeOK
  <1>5. SnapshotSound'
    BY <1>4, <1>e DEF SnapshotSound, StandsFrom
  <1>6. Writing(c, p)'
    BY <1>1, <1>w, <1>3, <1>4 DEF Sound, Writing
  <1>7. /\ p.asked <= now /\ p.floor <= known /\ p.answer # "none"
        /\ known' \in Nat /\ known <= known' /\ known' <= revision
        /\ snapshot' \in [rev : Nat, loaded : Nat]
    BY <1>1, <1>3, <1>4, <1>e, Numbers DEF Sound, StandsFrom
  <1> QED BY <1>1, <1>w, <1>3, <1>4, <1>5, <1>6, <1>7, AnswerKeeps

\* An update the row refused was not made.
LEMMA RefusedKeeps ==
    ASSUME PolicyInv, NEW c \in Requests, Refused(c)
    PROVE  PolicyInv'
  <1>1. /\ req[c] \in RequestType /\ req[c].stage = "refused"
        /\ Sound(c, req[c]) /\ \A d \in Requests \ {c} : Idle(d)
    BY OneCaller DEF Refused, PolicyInv, TypeOK, Idle
  <1>2. PICK p \in RequestType : p = Answered(req[c], "conflict", 0)
    BY <1>1 DEF RequestType, Answered
  <1>3. /\ p.stage = "done" /\ p.answer = "conflict"
        /\ p.asked = req[c].asked /\ p.floor = req[c].floor
        /\ p.expected = req[c].expected
    BY <1>1, <1>2 DEF RequestType, Answered
  <1>4. /\ UNCHANGED <<now, revision, replaced, made>> /\ late' = late
        /\ known' = known /\ snapshot' = snapshot /\ faults' \in Nat
        /\ gate' = Nobody /\ req' = [req EXCEPT ![c] = p]
    BY <1>1, <1>2, Numbers
    DEF Refused, Return, Larger, row, PolicyInv, TypeOK
  <1>5. SnapshotSound'
    BY <1>4 DEF PolicyInv, SnapshotSound, StandsFrom
  <1>6. c \in Writers => Writing(c, p)'
    BY <1>1, <1>3, <1>4 DEF Sound, Writing
  <1>7. /\ p.asked <= now /\ p.floor <= known /\ p.answer # "none" /\ p.answer # "ok"
        /\ known' \in Nat /\ known <= known' /\ known' <= revision
        /\ snapshot' \in [rev : Nat, loaded : Nat]
    BY <1>1, <1>3, <1>4, Numbers DEF Sound, PolicyInv, TypeOK
  <1> QED BY <1>1, <1>3, <1>4, <1>5, <1>6, <1>7, AnswerKeeps

--------------------------------------------------------------------------------
(* Failures.                                                               *)

\* A request that is given up with the policy unavailable, and no snapshot left.
LEMMA AbandonKeeps ==
    ASSUME PolicyInv, NEW c \in Requests, Abandoned(c),
           req' = [req EXCEPT ![c] = Answered(@, "unavailable", 0)],
           gate' = Nobody, faults' \in Nat, UNCHANGED <<now, row>>,
           snapshot' \in [rev : Nat, loaded : Nat], snapshot'.rev = 0,
           \A d \in Requests \ {c} : Idle(d)
    PROVE  PolicyInv'
  <1>1. req[c] \in RequestType /\ Sound(c, req[c])
    BY DEF PolicyInv, TypeOK
  <1>2. PICK p \in RequestType : p = Answered(req[c], "unavailable", 0)
    BY <1>1 DEF RequestType, Answered
  <1>3. /\ p.stage = "done" /\ p.answer = "unavailable"
        /\ p.asked = req[c].asked /\ p.floor = req[c].floor
        /\ p.expected = req[c].expected
    BY <1>1, <1>2 DEF RequestType, Answered
  <1>4. UNCHANGED <<now, revision, replaced, made>> /\ req' = [req EXCEPT ![c] = p]
    BY <1>2 DEF row, PolicyInv, TypeOK
  <1>5. late' = late \/ (req[c].stage = "writing" /\ late' = late \cup {c})
    BY DEF Abandoned
  <1>6. req[c].stage = "writing" => c \in Writers /\ made[c] = 0
    BY <1>1, Constants DEF Sound, Reading, Writing
  <1>7. known' \in Nat /\ known <= known' /\ known' <= revision
    <2>1. CASE req[c].stage = "written"
      <3>1. req[c].expected \in Nat /\ req[c].expected + 1 \in 1..revision
        BY <1>1, <2>1 DEF Sound, Calling, StandsFrom, RequestType
      <3> QED BY <2>1, <3>1, Numbers DEF Abandoned, Larger
    <2>2. CASE req[c].stage # "written"
      BY <2>2, Numbers DEF Abandoned
    <2> QED BY <2>1, <2>2
  <1>8. c \in Writers => Writing(c, p)'
    BY <1>1, <1>3, <1>4, <1>5, <1>6 DEF Sound, Writing
  <1>9. SnapshotSound'
    BY DEF SnapshotSound
  <1>10. p.asked <= now /\ p.floor <= known /\ p.answer # "none" /\ p.answer # "ok"
    BY <1>1, <1>3 DEF Sound
  <1>11. late' = late \/ (c \in Writers /\ late' = late \cup {c})
    BY <1>5, <1>6
  <1> QED BY <1>3, <1>4, <1>7, <1>8, <1>9, <1>10, <1>11, AnswerKeeps

\* An update that fails, served or not.
LEMMA WriteFailsKeeps ==
    ASSUME PolicyInv, NEW c \in Requests, WriteFails(c)
    PROVE  PolicyInv'
  <1>1. /\ req[c] \in RequestType /\ ~Idle(c) /\ Sound(c, req[c])
        /\ \A d \in Requests \ {c} : Idle(d)
    BY OneCaller DEF WriteFails, PolicyInv, TypeOK, Idle
  <1>2. snapshot.rev = 0
    BY <1>1 DEF Sound, Calling, Idle
  <1>3. /\ Abandoned(c) /\ gate' = Nobody /\ UNCHANGED <<now, row>>
        /\ req' = [req EXCEPT ![c] = Answered(@, "unavailable", 0)]
        /\ snapshot' = snapshot /\ faults' \in Nat
    BY Numbers DEF WriteFails, Fault
  <1>4. snapshot' \in [rev : Nat, loaded : Nat] /\ snapshot'.rev = 0
    BY <1>2, <1>3 DEF PolicyInv, TypeOK
  <1> QED BY <1>1, <1>3, <1>4, AbandonKeeps

\* A reset of the object, with the gate free or held.
LEMMA ResetKeeps ==
    ASSUME PolicyInv, Reset
    PROVE  PolicyInv'
  <1>1. /\ snapshot' = NoSnapshot /\ gate' = Nobody /\ faults' \in Nat
        /\ UNCHANGED <<now, row>>
    BY Numbers DEF Reset, Fault
  <1>2. snapshot' \in [rev : Nat, loaded : Nat] /\ snapshot'.rev = 0
    BY <1>1 DEF NoSnapshot
  <1>3. CASE gate # Nobody
    <2>1. PICK c \in Requests : c = gate
      BY <1>3 DEF PolicyInv, TypeOK
    <2>2. \A d \in Requests \ {c} : Idle(d)
      BY <2>1 DEF PolicyInv, TypeOK, Idle
    <2>3. Abandoned(c) /\ req' = [req EXCEPT ![c] = Answered(@, "unavailable", 0)]
      BY <1>3, <2>1 DEF Reset
    <2> QED BY <1>1, <1>2, <2>2, <2>3, AbandonKeeps
  <1>4. CASE gate = Nobody
    <2>1. UNCHANGED <<req, late, known, now, revision, replaced, made>>
      BY <1>1, <1>4, Constants DEF Reset, row
    <2>2. TypeOK'
      BY <1>1, <1>2, <1>4, <2>1, OneCaller DEF PolicyInv, TypeOK, Idle
    <2>3. History' /\ SnapshotSound'
      BY <1>2, <2>1 DEF PolicyInv, History, SnapshotSound
    <2>4. ASSUME NEW d \in Requests PROVE Sound(d, req[d])'
      <3>1. Sound(d, req[d]) /\ Idle(d)
        BY <1>4, OneCaller DEF PolicyInv
      <3> QED BY <2>1, <3>1 DEF Sound, Idle, Calling, Reading, Writing
    <2> QED BY <2>2, <2>3, <2>4 DEF PolicyInv
  <1> QED BY <1>3, <1>4
--------------------------------------------------------------------------------
(* The row and the clock.                                                  *)

\* What a new revision does to the history.
LEMMA RowGrows ==
    ASSUME PolicyInv, revision' = revision + 1, replaced' = Append(replaced, now),
           now' = now, known' = known
    PROVE  /\ replaced' \in Seq(Nat)
           /\ \A i \in 1..(revision - 1) : replaced'[i] = replaced[i]
           /\ replaced'[revision] = now
           /\ History'
           /\ \A rev, from : StandsFrom(rev, from) => StandsFrom(rev, from)'
  <1>t. /\ replaced \in Seq(Nat) /\ now \in Nat /\ revision \in Nat \ {0}
        /\ Len(replaced) = revision - 1 /\ known \in Nat /\ known <= revision
    BY DEF PolicyInv, TypeOK, History
  <1>1. replaced' \in Seq(Nat) /\ Len(replaced') = revision
    BY <1>t
  <1>2. \A i \in 1..(revision - 1) : replaced'[i] = replaced[i]
    BY <1>t
  <1>3. replaced'[revision] = now
    BY <1>t
  <1>4. \A i \in 1..revision : replaced'[i] <= now
    <2> SUFFICES ASSUME NEW i \in 1..revision PROVE replaced'[i] <= now
      OBVIOUS
    <2>1. CASE i = revision
      BY <1>t, <1>3, <2>1
    <2>2. CASE i # revision
      BY <1>t, <1>2, <2>2 DEF PolicyInv, History
    <2> QED BY <2>1, <2>2
  <1>5. History'
    BY <1>t, <1>1, <1>4 DEF History
  <1>6. ASSUME NEW rev, NEW from, StandsFrom(rev, from)
        PROVE  StandsFrom(rev, from)'
    <2>1. CASE rev = revision
      BY <1>t, <1>3, <1>6, <2>1 DEF StandsFrom
    <2>2. CASE rev # revision
      BY <1>t, <1>2, <1>6, <2>2 DEF StandsFrom
    <2> QED BY <2>1, <2>2
  <1> QED BY <1>1, <1>2, <1>3, <1>5, <1>6

\* A new revision leaves every request sound whose update it is not.
LEMMA RowStep ==
    ASSUME PolicyInv, revision' = revision + 1, replaced' = Append(replaced, now),
           UNCHANGED <<now, known, snapshot>>, late' \subseteq late,
           NEW d \in Requests, NEW q \in RequestType, Sound(d, q),
           d \in Writers => made'[d] = made[d]
    PROVE  Sound(d, q)'
  <1>1. Calling(q)'
    BY RowGrows DEF Sound, Calling
  <1>2. ASSUME d \in Readers PROVE Reading(q)'
    <2>1. ASSUME q.answer = "ok"
          PROVE  /\ q.rev \in 1..(revision + 1)
                 /\ q.rev < revision + 1 => q.asked < replaced'[q.rev] + MaxAge
                 /\ q.floor <= q.rev
      <3>t. q.asked \in Nat /\ q.asked <= now
        BY DEF RequestType, Sound
      <3>1. /\ q.rev \in 1..revision /\ q.floor <= q.rev
            /\ q.rev < revision => q.asked < replaced[q.rev] + MaxAge
        BY <1>2, <2>1 DEF Sound, Reading
      <3>g. /\ \A i \in 1..(revision - 1) : replaced'[i] = replaced[i]
            /\ replaced'[revision] = now
        BY RowGrows
      <3>2. CASE q.rev = revision
        BY <3>t, <3>1, <3>2, <3>g, Numbers, Constants
      <3>3. CASE q.rev # revision
        <4>1. q.rev \in 1..(revision - 1) /\ q.rev < revision
          BY <3>1, <3>3, Numbers
        <4>2. replaced'[q.rev] = replaced[q.rev]
          BY <4>1, <3>g
        <4> QED BY <3>1, <4>1, <4>2, Numbers
      <3> QED BY <3>1, <3>2, <3>3, Numbers
    <2> QED BY <1>2, <2>1 DEF Sound, Reading
  <1>3. d \in Writers => Writing(d, q)'
    BY DEF Sound, Writing
  <1> QED BY <1>1, <1>2, <1>3 DEF Sound

\* A row that changed leaves the snapshot sound.
LEMMA RowKeepsSnapshot ==
    ASSUME PolicyInv, revision' = revision + 1, replaced' = Append(replaced, now),
           UNCHANGED <<now, known, snapshot>>
    PROVE  SnapshotSound'
  BY RowGrows DEF PolicyInv, SnapshotSound

\* The policy is replaced without asking the object.
LEMMA BypassKeeps ==
    ASSUME PolicyInv, Bypass
    PROVE  PolicyInv'
  <1>1. /\ revision' = revision + 1 /\ replaced' = Append(replaced, now)
        /\ UNCHANGED <<now, late, snapshot, gate, req, made, known>>
        /\ faults' \in Nat
    BY Numbers DEF Bypass, Fault
  <1>2. replaced' \in Seq(Nat) /\ History' /\ SnapshotSound'
    BY <1>1, RowGrows, RowKeepsSnapshot
  <1>3. TypeOK'
    BY <1>1, <1>2, Numbers DEF PolicyInv, TypeOK
  <1>4. ASSUME NEW d \in Requests PROVE Sound(d, req[d])'
    <2>1. PICK q \in RequestType : q = req[d]
      BY DEF PolicyInv, TypeOK
    <2>2. Sound(d, q)
      BY <2>1 DEF PolicyInv
    <2>3. Sound(d, q)'
      BY <1>1, <2>2, RowStep
    <2> QED BY <1>1, <2>1, <2>3 DEF Sound, Calling, Reading, Writing, StandsFrom
  <1> QED BY <1>2, <1>3, <1>4 DEF PolicyInv

\* The clock.
LEMMA TickKeeps ==
    ASSUME PolicyInv, Tick
    PROVE  PolicyInv'
  <1>1. /\ now' = now + 1
        /\ UNCHANGED <<revision, replaced, made, late, snapshot, gate, req, faults, known>>
    BY DEF Tick, row
  <1>2. TypeOK'
    BY <1>1, Numbers DEF PolicyInv, TypeOK
  <1>3. History'
    <2>1. ASSUME NEW i \in 1..(revision - 1) PROVE replaced[i] <= now + 1
      <3>1. replaced[i] \in Nat /\ replaced[i] <= now
        BY Numbers DEF PolicyInv, TypeOK, History
      <3> QED BY <3>1, Numbers
    <2> QED BY <1>1, <2>1 DEF PolicyInv, History
  <1>4. ASSUME NEW rev, NEW from \in Nat, StandsFrom(rev, from)
        PROVE  StandsFrom(rev, from)'
    BY <1>1, <1>4, Numbers DEF StandsFrom
  <1>5. SnapshotSound'
    BY <1>1, <1>4, Numbers DEF PolicyInv, SnapshotSound
  <1>6. ASSUME NEW d \in Requests PROVE Sound(d, req[d])'
    <2>1. PICK q \in RequestType : q = req[d]
      BY DEF PolicyInv, TypeOK
    <2>2. Sound(d, q)
      BY <2>1 DEF PolicyInv
    <2>3. q.loaded \in Nat /\ q.asked \in Nat
      BY DEF RequestType
    <2>4. Calling(q)'
      BY <1>1, <1>4, <2>2, <2>3, Numbers DEF Sound, Calling
    <2>5. q.asked <= now' /\ (d \in Readers => Reading(q)') /\ (d \in Writers => Writing(d, q)')
      BY <1>1, <2>2, <2>3, Numbers DEF Sound, Reading, Writing
    <2>6. Sound(d, q)'
      BY <1>1, <2>2, <2>4, <2>5 DEF Sound
    <2> QED BY <1>1, <2>1, <2>6 DEF Sound, Calling, Reading, Writing, StandsFrom
  <1> QED BY <1>2, <1>3, <1>5, <1>6 DEF PolicyInv

\* An update served or refused after its writer gave it up.
LEMMA LateWriteKeeps ==
    ASSUME PolicyInv, NEW c \in Writers, LateWrite(c)
    PROVE  PolicyInv'
  <1>1. /\ late' = late \ {c} /\ c \in late /\ c \in Requests
        /\ UNCHANGED <<now, snapshot, gate, req, faults, known>>
    BY Constants DEF LateWrite
  <1>c. /\ req[c] \in RequestType /\ Sound(c, req[c])
        /\ req[c].answer = "unavailable" /\ made[c] = 0 /\ req[c].stage = "done"
    BY <1>1 DEF PolicyInv, TypeOK, Sound, Writing
  <1>2. CASE Update(c)
    <2>1. /\ revision = req[c].expected /\ revision' = revision + 1
          /\ replaced' = Append(replaced, now)
          /\ made' = [made EXCEPT ![c] = revision + 1]
      BY <1>2 DEF Update
    <2>2. replaced' \in Seq(Nat) /\ History' /\ SnapshotSound'
      BY <1>1, <2>1, RowGrows, RowKeepsSnapshot
    <2>3. /\ made' \in [Writers -> Nat] /\ made'[c] = revision + 1
          /\ \A d \in Writers \ {c} : made'[d] = made[d]
      BY <2>1, Numbers DEF PolicyInv, TypeOK
    <2>4. TypeOK'
      BY <1>1, <2>1, <2>2, <2>3, Numbers DEF PolicyInv, TypeOK
    <2>5. ASSUME NEW d \in Requests, d # c PROVE Sound(d, req[d])'
      <3>1. PICK q \in RequestType : q = req[d]
        BY DEF PolicyInv, TypeOK
      <3>2. Sound(d, q)
        BY <3>1 DEF PolicyInv
      <3>3. d \in Writers => made'[d] = made[d]
        BY <2>3, <2>5
      <3>4. Sound(d, q)'
        BY <1>1, <2>1, <3>2, <3>3, RowStep
      <3> QED BY <1>1, <3>1, <3>4 DEF Sound, Calling, Reading, Writing, StandsFrom
    <2>6. Sound(c, req[c])'
      <3>1. Writing(c, req[c])'
        BY <1>1, <1>c, <2>1, <2>3 DEF Writing
      <3>2. c \notin Readers
        BY <1>1, Constants
      <3> QED BY <1>1, <1>c, <3>1, <3>2 DEF Sound, Calling
    <2> QED BY <2>2, <2>4, <2>5, <2>6 DEF PolicyInv
  <1>3. CASE UNCHANGED row
    <2>1. UNCHANGED <<revision, replaced, made>>
      BY <1>3 DEF row
    <2>2. TypeOK' /\ History' /\ SnapshotSound'
      BY <1>1, <2>1 DEF PolicyInv, TypeOK, History, SnapshotSound, StandsFrom
    <2>3. ASSUME NEW d \in Requests PROVE Sound(d, req[d])'
      <3>1. Sound(d, req[d])
        BY DEF PolicyInv
      <3> QED BY <1>1, <2>1, <3>1 DEF Sound, Calling, Reading, Writing, StandsFrom
    <2> QED BY <2>2, <2>3 DEF PolicyInv
  <1> QED BY <1>2, <1>3 DEF LateWrite

\* An update served or refused while its writer waits for the answer.
LEMMA WriteKeeps ==
    ASSUME PolicyInv, NEW c \in Requests, Write(c)
    PROVE  PolicyInv'
  <1>1. /\ req[c] \in RequestType /\ req[c].stage = "writing" /\ Sound(c, req[c])
        /\ gate = c /\ \A d \in Requests \ {c} : Idle(d)
        /\ UNCHANGED <<now, late, snapshot, gate, faults, known>>
    BY OneCaller DEF Write, PolicyInv, TypeOK, Idle
  <1>w. c \in Writers /\ c \notin Readers
    BY <1>1, Constants DEF Sound, Reading
  <1>2. CASE Update(c) /\ req' = [req EXCEPT ![c].stage = "written"]
    <2>0. PICK p \in RequestType : p = [req[c] EXCEPT !.stage = "written"]
      BY <1>1 DEF RequestType
    <2>1. /\ revision = req[c].expected /\ revision' = revision + 1
          /\ replaced' = Append(replaced, now)
          /\ made' = [made EXCEPT ![c] = revision + 1]
          /\ req' = [req EXCEPT ![c] = p]
      BY <1>2, <2>0 DEF Update, PolicyInv, TypeOK
    <2>2. replaced' \in Seq(Nat) /\ History' /\ SnapshotSound'
      BY <1>1, <2>1, RowGrows, RowKeepsSnapshot
    <2>3. /\ made' \in [Writers -> Nat] /\ made'[c] = revision + 1
          /\ \A d \in Writers \ {c} : made'[d] = made[d]
          /\ \A d \in Requests : req'[d] = IF d = c THEN p ELSE req[d]
      BY <1>w, <2>1, Numbers DEF PolicyInv, TypeOK
    <2>4. TypeOK'
      BY <1>1, <2>1, <2>2, <2>3, Numbers DEF PolicyInv, TypeOK
    <2>5. ASSUME NEW d \in Requests, d # c PROVE Sound(d, req[d])'
      <3>1. PICK q \in RequestType : q = req[d]
        BY DEF PolicyInv, TypeOK
      <3>2. Sound(d, q)
        BY <3>1 DEF PolicyInv
      <3>3. d \in Writers => made'[d] = made[d]
        BY <2>3, <2>5
      <3>4. Sound(d, q)'
        BY <1>1, <2>1, <3>2, <3>3, RowStep
      <3>5. req'[d] = q
        BY <2>3, <2>5, <3>1
      <3> QED BY <3>4, <3>5 DEF Sound, Calling, Reading, Writing, StandsFrom
    <2>6. Sound(c, p)'
      <3>1. /\ p.stage = "written" /\ p.expected = revision /\ p.answer = "none"
            /\ p.asked = req[c].asked /\ p.loaded = req[c].loaded
            /\ p.floor = req[c].floor
        BY <1>1, <2>0, <2>1 DEF RequestType, Sound
      <3>2. StandsFrom(p.expected + 1, p.loaded)'
        BY <1>1, <2>1, <3>1, Numbers DEF Sound, Calling, StandsFrom
      <3>3. Calling(p)'
        BY <1>1, <2>1, <3>1, <3>2, Numbers DEF Sound, Calling
      <3>4. Writing(c, p)'
        <4>1. c \notin late' /\ made'[c] = p.expected + 1 /\ made'[c] # 0
          BY <1>1, <1>w, <2>3, <3>1, Numbers DEF Sound, Writing
        <4> QED BY <3>1, <4>1 DEF Writing
      <3> QED BY <1>1, <1>w, <3>1, <3>3, <3>4 DEF Sound
    <2>7. Sound(c, req[c])'
      <3>1. req'[c] = p
        BY <2>3
      <3> QED BY <2>6, <3>1 DEF Sound, Calling, Reading, Writing, StandsFrom
    <2> QED BY <2>2, <2>4, <2>5, <2>7 DEF PolicyInv
  <1>3. CASE UNCHANGED row /\ req' = [req EXCEPT ![c].stage = "refused"]
    <2>0. PICK p \in RequestType : p = [req[c] EXCEPT !.stage = "refused"]
      BY <1>1 DEF RequestType
    <2>1. UNCHANGED <<now, revision, replaced, made>> /\ req' = [req EXCEPT ![c] = p]
      BY <1>1, <1>3, <2>0 DEF row, PolicyInv, TypeOK
    <2>2. Sound(c, p)'
      BY <1>1, <1>w, <2>0, <2>1, Numbers
      DEF RequestType, Sound, Calling, Reading, Writing
    <2>3. SnapshotSound'
      BY <1>1, <2>1 DEF PolicyInv, SnapshotSound, StandsFrom
    <2>4. /\ late' = late /\ gate' = c /\ gate' \in Requests \cup {Nobody}
          /\ known' \in Nat /\ known <= known' /\ known' <= revision
          /\ faults' \in Nat /\ snapshot' \in [rev : Nat, loaded : Nat]
      BY <1>1, Numbers DEF PolicyInv, TypeOK
    <2> QED BY <1>1, <2>1, <2>2, <2>3, <2>4, RequestStep
  <1> QED BY <1>2, <1>3 DEF Write
--------------------------------------------------------------------------------
(* The invariant.                                                          *)

\* The invariant holds at first.
LEMMA PolicyInvInitial == Init => PolicyInv
  <1> SUFFICES ASSUME Init PROVE PolicyInv
    OBVIOUS
  <1>1. TypeOK
    BY DEF Init, TypeOK, RequestType, NewRequest, NoSnapshot
  <1>2. History /\ SnapshotSound
    BY DEF Init, History, SnapshotSound, NoSnapshot
  <1>3. ASSUME NEW c \in Requests PROVE Sound(c, req[c])
    BY DEF Init, NewRequest, Sound, Calling, Reading, Writing
  <1> QED BY <1>1, <1>2, <1>3 DEF PolicyInv

\* Every step keeps it.
LEMMA PolicyInvStep == PolicyInv /\ [Next]_vars => PolicyInv'
  <1> SUFFICES ASSUME PolicyInv, [Next]_vars PROVE PolicyInv'
    OBVIOUS
  <1>1. ASSUME NEW c \in Readers, Get(c) PROVE PolicyInv'
    BY <1>1, GetKeeps
  <1>2. ASSUME NEW c \in Writers, NEW expected \in 1..(revision + 1), Put(c, expected)
        PROVE  PolicyInv'
    <2>1. expected \in Nat
      BY Numbers
    <2> QED BY <1>2, <2>1, PutKeeps
  <1>3. ASSUME NEW c \in Requests, Call(c) PROVE PolicyInv'
    BY <1>3, LoadKeeps, LoadedKeeps, LoadFailsKeeps, WriteKeeps, WrittenKeeps,
       RefusedKeeps, WriteFailsKeeps DEF Call
  <1>4. ASSUME NEW c \in Writers, LateWrite(c) PROVE PolicyInv'
    BY <1>4, LateWriteKeeps
  <1>5. CASE Bypass
    BY <1>5, BypassKeeps
  <1>6. CASE Reset
    BY <1>6, ResetKeeps
  <1>7. CASE Tick
    BY <1>7, TickKeeps
  <1>8. CASE UNCHANGED vars
    BY <1>8 DEF vars, row, PolicyInv, TypeOK, History, SnapshotSound, Sound, Calling,
       Reading, Writing, StandsFrom
  <1> QED BY <1>1, <1>2, <1>3, <1>4, <1>5, <1>6, <1>7, <1>8 DEF Next, Finished

\* It is an invariant of the specification.
LEMMA PolicyInvariant == Spec => []PolicyInv
  BY PolicyInvInitial, PolicyInvStep, PTL DEF Spec

--------------------------------------------------------------------------------
(* The theorems.                                                           *)

\* The state keeps its shape, and the gate its promise: at most its holder has
\* a call to the database under way.
THEOREM PolicyTypeCorrect == Spec => []TypeOK
  <1>1. PolicyInv => TypeOK
    BY DEF PolicyInv
  <1> QED BY <1>1, PolicyInvariant, PTL

\* No relay is given a policy replaced MaxAge or more before it asked, because a
\* snapshot is as old as the start of the call it came from.
THEOREM StalenessIsBounded == Spec => []BoundedStaleness
  <1>1. PolicyInv => BoundedStaleness
    <2> SUFFICES ASSUME PolicyInv, NEW c \in Readers, req[c].answer = "ok",
                        req[c].rev <= Len(replaced)
        PROVE  req[c].asked < replaced[req[c].rev] + MaxAge
      BY DEF BoundedStaleness
    <2>1. Reading(req[c]) /\ Len(replaced) = revision - 1
      BY Constants DEF PolicyInv, Sound, History
    <2>2. req[c].rev < revision
      BY <2>1, Numbers DEF Reading
    <2> QED BY <2>1, <2>2 DEF Reading
  <1> QED BY <1>1, PolicyInvariant, PTL

\* A relay never goes back behind a revision an earlier answer vouched for,
\* because there is no snapshot while an update is under way.
THEOREM AnswersCatchUp == Spec => []ReadsCatchUp
  <1>1. PolicyInv => ReadsCatchUp
    <2> SUFFICES ASSUME PolicyInv, NEW c \in Readers, req[c].answer = "ok"
        PROVE  req[c].rev >= req[c].floor
      BY DEF ReadsCatchUp
    <2>1. Reading(req[c]) /\ req[c] \in RequestType
      BY Constants DEF PolicyInv, TypeOK, Sound
    <2> QED BY <2>1 DEF Reading, RequestType
  <1> QED BY <1>1, PolicyInvariant, PTL

\* A writer told "ok" made its revision, one told of a conflict never will, and
\* every revision made replaced the one its writer had seen.
THEOREM WritersAreToldTheTruth == Spec => []OutcomesTrue
  <1>1. PolicyInv => OutcomesTrue
    BY Constants DEF PolicyInv, OutcomesTrue, Sound, Writing
  <1> QED BY <1>1, PolicyInvariant, PTL

--------------------------------------------------------------------------------
(* The refinement.  It needs to be known besides that a request that has   *)
(* not been delivered is as it was at first, that one that has not been    *)
(* answered has no revision yet, that a writer that has come expects one,  *)
(* and that the gate is held by a request with a call under way: so that a *)
(* reset answers nobody twice.                                             *)

Pending(c, q) ==
    /\ q.stage = "new" => q = NewRequest
    /\ q.stage # "done" => q.rev = 0
    /\ c \in Writers /\ q.stage # "new" => q.expected # 0

RegisterInv ==
    /\ \A c \in Requests : Pending(c, req[c])
    /\ gate = Nobody \/ ~Idle(gate)

\* A step of one request.
LEMMA RegisterStep ==
    ASSUME PolicyInv, RegisterInv, NEW c \in Requests, NEW q,
           req' = [req EXCEPT ![c] = q], Pending(c, q),
           gate' = Nobody \/ (gate' = c /\ q.stage \notin {"new", "done"})
    PROVE  RegisterInv'
  <1>1. \A d \in Requests : req'[d] = IF d = c THEN q ELSE req[d]
    BY DEF PolicyInv, TypeOK
  <1> QED BY <1>1 DEF RegisterInv, Pending, Idle

LEMMA AnsweredFields ==
    ASSUME NEW q \in RequestType, NEW answer, NEW rev
    PROVE  LET r == Answered(q, answer, rev) IN
           /\ r.stage = "done" /\ r.answer = answer /\ r.rev = rev
           /\ r.expected = q.expected /\ r.asked = q.asked /\ r.floor = q.floor
  BY DEF Answered, RequestType

\* A request that goes on with a snapshot is done or writes; one without loads.
LEMMA HandlerStep ==
    ASSUME PolicyInv, NEW c \in Requests, NEW q \in RequestType, NEW held \in [rev : Nat, loaded : Nat],
           Proceed(c, q, held) \/ ReadPrimary(c, q),
           q.rev = 0, c \in Writers => q.expected # 0
    PROVE  \E r : /\ req' = [req EXCEPT ![c] = r] /\ Pending(c, r)
                  /\ gate' = Nobody \/ (gate' = c /\ r.stage \notin {"new", "done"})
  <1>t. req \in [Requests -> RequestType]
    BY DEF PolicyInv, TypeOK
  <1> DEFINE r == req'[c]
  <1>1. req' = [req EXCEPT ![c] = r]
    BY <1>t DEF Proceed, ReadPrimary, Replace
  <1>2. Pending(c, r) /\ (gate' = Nobody \/ (gate' = c /\ r.stage \notin {"new", "done"}))
    <2>1. CASE req' = [req EXCEPT ![c] = Answered(q, "ok", held.rev)] /\ gate' = Nobody
      <3>1. r = Answered(q, "ok", held.rev)
        BY <1>t, <2>1
      <3>2. /\ Answered(q, "ok", held.rev).stage = "done"
           /\ Answered(q, "ok", held.rev).expected = q.expected
        BY AnsweredFields
      <3> QED BY <2>1, <3>1, <3>2 DEF Pending
    <2>2. CASE req' = [req EXCEPT ![c] = Answered(q, "conflict", 0)] /\ gate' = Nobody
      <3>1. r = Answered(q, "conflict", 0)
        BY <1>t, <2>2
      <3>2. /\ Answered(q, "conflict", 0).stage = "done"
           /\ Answered(q, "conflict", 0).expected = q.expected
        BY AnsweredFields
      <3> QED BY <2>2, <3>1, <3>2 DEF Pending
    <2>3. CASE /\ req' = [req EXCEPT ![c] = [q EXCEPT !.stage = "writing", !.loaded = now]]
               /\ gate' = c
      BY <1>t, <2>3 DEF RequestType, Pending
    <2>4. CASE ReadPrimary(c, q)
      BY <1>t, <2>4 DEF ReadPrimary, RequestType, Pending
    <2> QED BY <2>1, <2>2, <2>3, <2>4 DEF Proceed, Replace
  <1> QED BY <1>1, <1>2

LEMMA RegisterInvStep == PolicyInv /\ RegisterInv /\ [Next]_vars => RegisterInv'
  <1> SUFFICES ASSUME PolicyInv, RegisterInv, [Next]_vars PROVE RegisterInv'
    OBVIOUS
  <1>t. /\ req \in [Requests -> RequestType] /\ snapshot \in [rev : Nat, loaded : Nat]
        /\ now \in Nat /\ known \in Nat /\ Readers \subseteq Requests /\ Writers \subseteq Requests
        /\ gate \in Requests \cup {Nobody}
        /\ \A c \in Requests : ~Idle(c) => gate = c
        /\ \A c \in Requests : Pending(c, req[c])
    BY Constants DEF PolicyInv, TypeOK, RegisterInv, Idle
  <1>1. ASSUME NEW c \in Readers, Get(c) PROVE RegisterInv'
    <2> DEFINE q == [req[c] EXCEPT !.asked = now, !.floor = known]
    <2>1. q \in RequestType
      BY <1>t DEF RequestType
    <2>2. Proceed(c, q, snapshot) \/ ReadPrimary(c, q)
      BY <1>1 DEF Get
    <2>3. q.rev = 0
      BY <1>t, <1>1 DEF Get, Pending, RequestType
    <2> HIDE DEF q
    <2> QED BY <1>t, <2>1, <2>2, <2>3, Constants, HandlerStep, RegisterStep
  <1>2. ASSUME NEW c \in Writers, NEW expected \in 1..(revision + 1), Put(c, expected)
        PROVE  RegisterInv'
    <2> DEFINE q == [req[c] EXCEPT !.expected = expected]
    <2>1. q \in RequestType
      BY <1>t, Numbers DEF RequestType
    <2>2. Proceed(c, q, snapshot) \/ ReadPrimary(c, q)
      BY <1>2 DEF Put
    <2>3. q.rev = 0 /\ q.expected # 0
      BY <1>t, <1>2, Numbers DEF Put, Pending, RequestType
    <2> HIDE DEF q
    <2> QED BY <1>t, <2>1, <2>2, <2>3, HandlerStep, RegisterStep
  <1>3. ASSUME NEW c \in Requests, Loaded(c) PROVE RegisterInv'
    <2> DEFINE held == [rev |-> req[c].read, loaded |-> req[c].loaded]
    <2>1. held \in [rev : Nat, loaded : Nat] /\ req[c] \in RequestType
      BY <1>t DEF RequestType
    <2>2. Proceed(c, req[c], held)
      BY <1>3 DEF Loaded
    <2>3. req[c].rev = 0 /\ (c \in Writers => req[c].expected # 0)
      BY <1>t, <1>3 DEF Loaded, Pending
    <2> HIDE DEF held
    <2> QED BY <1>t, <2>1, <2>2, <2>3, HandlerStep, RegisterStep
  <1>4. ASSUME NEW c \in Requests, Load(c) \/ Write(c) PROVE RegisterInv'
    <2> DEFINE q == req'[c]
    <2>1. req' = [req EXCEPT ![c] = q] /\ gate' = c
      BY <1>t, <1>4 DEF Load, Write, Idle
    <2>2. q.stage \notin {"new", "done"} /\ Pending(c, q)
      BY <1>t, <1>4 DEF Load, Write, Pending, RequestType
    <2> HIDE DEF q
    <2> QED BY <2>1, <2>2, RegisterStep
  <1>5. ASSUME NEW c \in Requests,
               LoadFails(c) \/ Written(c) \/ Refused(c) \/ WriteFails(c)
        PROVE  RegisterInv'
    <2> DEFINE q == req'[c]
    <2>1. PICK answer, rev : /\ req' = [req EXCEPT ![c] = Answered(req[c], answer, rev)]
                             /\ gate' = Nobody
      BY <1>t, <1>5 DEF LoadFails, Written, Refused, WriteFails, Return
    <2>2. q = Answered(req[c], answer, rev)
      BY <1>t, <2>1
    <2>3. /\ q.stage = "done" /\ q.expected = req[c].expected
          /\ req' = [req EXCEPT ![c] = q] /\ req[c].stage # "new"
      BY <1>t, <1>5, <2>1, <2>2, AnsweredFields DEF LoadFails, Written, Refused, WriteFails
    <2>4. Pending(c, q)
      BY <1>t, <2>3 DEF Pending
    <2> HIDE DEF q
    <2> QED BY <2>1, <2>3, <2>4, RegisterStep
  <1>6. CASE Reset
    <2>1. CASE gate = Nobody /\ UNCHANGED req
      BY <1>6, <2>1 DEF Reset, RegisterInv
    <2>2. CASE gate # Nobody /\ req' = [req EXCEPT ![gate] = Answered(@, "unavailable", 0)]
      <3>1. gate \in Requests /\ gate' = Nobody
        BY <1>t, <1>6, <2>2 DEF Reset
      <3>2. PICK q : q = Answered(req[gate], "unavailable", 0)
        OBVIOUS
      <3>3. /\ q.stage = "done" /\ q.expected = req[gate].expected
            /\ req' = [req EXCEPT ![gate] = q]
        BY <1>t, <2>2, <3>1, <3>2, AnsweredFields
      <3>4. PICK c \in Requests : c = gate
        BY <3>1
      <3>5. RegisterInv'
        <4>1. req' = [req EXCEPT ![c] = q] /\ Pending(c, q)
          BY <1>t, <2>2, <3>3, <3>4 DEF RegisterInv, Pending, Idle
        <4> QED BY <3>1, <4>1, RegisterStep
      <3> QED BY <3>5
    <2> QED BY <1>6, <2>1, <2>2 DEF Reset
  <1>7. CASE Bypass \/ Tick \/ (\E c \in Writers : LateWrite(c)) \/ UNCHANGED vars
    BY <1>7 DEF Bypass, Tick, LateWrite, vars, RegisterInv, Pending, Idle
  <1> QED BY <1>1, <1>2, <1>3, <1>4, <1>5, <1>6, <1>7 DEF Next, Call, Finished

\* What the register sees of a read and of a write follows from its record.
Seen(q) ==
    [stage |-> IF q.stage \in {"new", "done"} THEN q.stage ELSE "asked",
     asked |-> q.asked, floor |-> q.floor, answer |-> q.answer, rev |-> q.rev]

Outcome(q, id) == [expected |-> q.expected, answer |-> q.answer, made |-> id]

AllReads == [c \in Readers |-> ReadOf(c)]
AllWrites == [c \in Writers |-> WriteOf(c)]

\* The register's own idea of a sequence is that of the model.
LEMMA Mapped ==
    /\ Register!Current = Len(replaced) + 1
    /\ Register!ReplaceCurrent <=> replaced' = Append(replaced, now)
    /\ \A rev : Register!Vouch(rev) <=> known' = Larger(known, rev)
  BY DEF Register!Current, Register!ReplaceCurrent, Register!Vouch, Larger

LEMMA ReaderMoves ==
    ASSUME PolicyInv, NEW c \in Readers, NEW q, req' = [req EXCEPT ![c] = q],
           UNCHANGED made
    PROVE  AllReads' = [AllReads EXCEPT ![c] = Seen(q)] /\ AllWrites' = AllWrites
  <1>1. c \in Requests /\ c \notin Writers /\ Readers \subseteq Requests
        /\ Writers \subseteq Requests
    BY Constants
  <1>2. \A d \in Requests : req'[d] = IF d = c THEN q ELSE req[d]
    BY <1>1 DEF PolicyInv, TypeOK
  <1>3. AllWrites' = AllWrites
    BY <1>1, <1>2 DEF AllWrites, WriteOf
  <1>4. \A d \in Readers : ReadOf(d)' = IF d = c THEN Seen(q) ELSE ReadOf(d)
    BY <1>1, <1>2 DEF ReadOf, Seen
  <1> QED BY <1>3, <1>4 DEF AllReads

LEMMA WriterMoves ==
    ASSUME PolicyInv, NEW c \in Writers, NEW q, req' = [req EXCEPT ![c] = q],
           NEW id, made' = [made EXCEPT ![c] = id]
    PROVE  AllWrites' = [AllWrites EXCEPT ![c] = Outcome(q, id)] /\ AllReads' = AllReads
  <1>1. c \in Requests /\ c \notin Readers /\ Readers \subseteq Requests
        /\ Writers \subseteq Requests
    BY Constants
  <1>2. \A d \in Requests : req'[d] = IF d = c THEN q ELSE req[d]
    BY <1>1 DEF PolicyInv, TypeOK
  <1>3. AllReads' = AllReads
    BY <1>1, <1>2 DEF AllReads, ReadOf
  <1>m. \A d \in Writers : made'[d] = IF d = c THEN id ELSE made[d]
    BY DEF PolicyInv, TypeOK
  <1>4. \A d \in Writers : WriteOf(d)' = IF d = c THEN Outcome(q, id) ELSE WriteOf(d)
    BY <1>1, <1>2, <1>m DEF WriteOf, Outcome
  <1> QED BY <1>3, <1>4 DEF AllWrites

\* A read that has been asked and is not done.
Open(q) == q.stage \notin {"new", "done"}

\* Reads as the register sees them: two are the same if their fields are.
ViewType ==
    [stage : {"new", "asked", "done"}, asked : Nat, floor : Nat,
     answer : {"none", "ok", "conflict", "unavailable"}, rev : Nat]

LEMMA SameView ==
    ASSUME NEW v \in ViewType, NEW w \in ViewType, v.stage = w.stage, v.asked = w.asked,
           v.floor = w.floor, v.answer = w.answer, v.rev = w.rev
    PROVE  v = w
  BY DEF ViewType

LEMMA SeenFields ==
    ASSUME NEW q \in RequestType
    PROVE  LET v == Seen(q) IN
           /\ v \in ViewType
           /\ v.stage = IF q.stage \in {"new", "done"} THEN q.stage ELSE "asked"
           /\ v.asked = q.asked /\ v.floor = q.floor /\ v.answer = q.answer /\ v.rev = q.rev
  BY DEF Seen, ViewType, RequestType

LEMMA ViewComes ==
    ASSUME NEW v \in ViewType, NEW asked \in Nat, NEW floor \in Nat
    PROVE  LET w == [v EXCEPT !.stage = "asked", !.asked = asked, !.floor = floor] IN
           /\ w \in ViewType /\ w.stage = "asked" /\ w.asked = asked /\ w.floor = floor
           /\ w.answer = v.answer /\ w.rev = v.rev
  BY DEF ViewType

LEMMA ViewAnswered ==
    ASSUME NEW v \in ViewType, NEW rev \in Nat
    PROVE  LET w == [v EXCEPT !.stage = "done", !.answer = "ok", !.rev = rev] IN
           /\ w \in ViewType /\ w.stage = "done" /\ w.answer = "ok" /\ w.rev = rev
           /\ w.asked = v.asked /\ w.floor = v.floor
  BY DEF ViewType

LEMMA ViewFails ==
    ASSUME NEW v \in ViewType
    PROVE  LET w == [v EXCEPT !.stage = "done", !.answer = "unavailable"] IN
           /\ w \in ViewType /\ w.stage = "done" /\ w.answer = "unavailable"
           /\ w.asked = v.asked /\ w.floor = v.floor /\ w.rev = v.rev
  BY DEF ViewType

\* A read that comes, or has come, as the register goes on with it.
LEMMA AskedView ==
    ASSUME PolicyInv, NEW c \in Readers, req[c].stage # "done"
    PROVE  LET v == Register!Asked(c) IN
           /\ v \in ViewType /\ v.stage = "asked"
           /\ v.answer = req[c].answer /\ v.rev = req[c].rev
           /\ v.asked = IF req[c].stage = "new" THEN now ELSE req[c].asked
           /\ v.floor = IF req[c].stage = "new" THEN known ELSE req[c].floor
  <1>t. c \in Requests /\ req[c] \in RequestType /\ now \in Nat /\ known \in Nat
    BY Constants DEF PolicyInv, TypeOK
  <1>0. PICK v : v = Seen(req[c])
    OBVIOUS
  <1>1. AllReads[c] = v
    BY <1>0 DEF AllReads, ReadOf, Seen
  <1>2. /\ v \in ViewType
        /\ v.stage = IF req[c].stage = "new" THEN "new" ELSE "asked"
        /\ v.asked = req[c].asked /\ v.floor = req[c].floor
        /\ v.answer = req[c].answer /\ v.rev = req[c].rev
    BY <1>0, <1>t, SeenFields
  <1>3. Register!Asked(c) =
          IF v.stage = "new"
          THEN [v EXCEPT !.stage = "asked", !.asked = now, !.floor = known] ELSE v
    BY <1>1 DEF Register!Asked, AllReads
  <1>4. CASE req[c].stage = "new"
    <2>1. PICK w : w = [v EXCEPT !.stage = "asked", !.asked = now, !.floor = known]
      OBVIOUS
    <2>2. /\ w \in ViewType /\ w.stage = "asked" /\ w.asked = now /\ w.floor = known
          /\ w.answer = v.answer /\ w.rev = v.rev
      <3>1. v \in ViewType /\ now \in Nat /\ known \in Nat
        BY <1>t, <1>2
      <3>2. \A asked, floor \in Nat :
              LET x == [v EXCEPT !.stage = "asked", !.asked = asked, !.floor = floor] IN
              /\ x \in ViewType /\ x.stage = "asked" /\ x.asked = asked /\ x.floor = floor
              /\ x.answer = v.answer /\ x.rev = v.rev
        BY <3>1, ViewComes
      <3> QED BY <2>1, <3>1, <3>2, Zenon
    <2>3. Register!Asked(c) = w
      BY <1>2, <1>3, <1>4, <2>1
    <2> QED BY <1>2, <1>4, <2>2, <2>3
  <1>5. CASE req[c].stage # "new"
    BY <1>2, <1>3, <1>5
  <1> QED BY <1>4, <1>5

\* A read is given a revision: that it may be given it is what PolicyInv says of
\* it afterwards.
LEMMA ReadAnswers ==
    ASSUME PolicyInv, PolicyInv', RegisterInv, NEW c \in Readers, NEW q \in RequestType, NEW rev,
           req' = [req EXCEPT ![c] = Answered(q, "ok", rev)],
           UNCHANGED <<now, replaced, made>>, known' = Larger(known, rev),
           \/ req[c].stage = "new" /\ q = [req[c] EXCEPT !.asked = now, !.floor = known]
           \/ Open(req[c]) /\ q = req[c]
    PROVE  Register!Next
  <1> DEFINE r == Answered(q, "ok", rev)
  <1>t. /\ req \in [Requests -> RequestType] /\ c \in Requests
        /\ revision \in Nat \ {0} /\ known \in Nat /\ now \in Nat
    BY Constants DEF PolicyInv, TypeOK
  <1>1. /\ r.stage = "done" /\ r.answer = "ok" /\ r.rev = rev
        /\ r.asked = q.asked /\ r.floor = q.floor
    BY AnsweredFields
  <1>2. req'[c] = r /\ Sound(c, req[c])'
    BY <1>t DEF PolicyInv
  <1>3. Reading(r)'
    BY <1>2 DEF Sound
  <1> HIDE DEF r
  <1>4. Len(replaced) + 1 = revision /\ revision' = revision
    <2>1. Len(replaced) = revision - 1
      BY DEF PolicyInv, History
    <2>2. Len(replaced') = revision' - 1 /\ revision' \in Nat
      BY DEF PolicyInv, TypeOK, History
    <2>3. Len(replaced') = Len(replaced)
      OBVIOUS
    <2> QED BY <2>1, <2>2, <2>3, <1>t
  <1>5. /\ rev \in 1..revision /\ q.floor <= rev
        /\ rev < revision => q.asked < replaced[rev] + MaxAge
    BY <1>1, <1>3, <1>4 DEF Reading
  <1>6. AllReads' = [AllReads EXCEPT ![c] = Seen(r)] /\ AllWrites' = AllWrites
    BY ReaderMoves DEF r
  <1>7. req[c].answer = "none" /\ req[c].stage # "done"
    BY <1>t DEF PolicyInv, Sound, Open
  <1>8. PICK v : v = Register!Asked(c)
    OBVIOUS
  <1>9. v \in ViewType /\ v.asked = q.asked /\ v.floor = q.floor
    <2>1. CASE req[c].stage = "new" /\ q = [req[c] EXCEPT !.asked = now, !.floor = known]
      <3>2. q.asked = now /\ q.floor = known
        BY <1>t, <2>1 DEF RequestType
      <3> QED BY <1>7, <1>8, <2>1, <3>2, AskedView
    <2>2. CASE Open(req[c]) /\ q = req[c]
      BY <1>7, <1>8, <2>2, AskedView DEF Open
    <2> QED BY <2>1, <2>2
  <1>10. Register!Acceptable(rev, v)
    <2>2. Register!Current = revision
      BY <1>4, Mapped
    <2>3. rev # revision => rev < revision
      BY <1>5, <1>t
    <2> QED BY <1>5, <1>9, <2>2, <2>3 DEF Register!Acceptable
  <1>11. Seen(r) = [v EXCEPT !.stage = "done", !.answer = "ok", !.rev = rev]
    <2>1. PICK w : w = [v EXCEPT !.stage = "done", !.answer = "ok", !.rev = rev]
      OBVIOUS
    <2>n. rev \in Nat
      BY <1>5, <1>t
    <2>2. /\ w \in ViewType /\ w.stage = "done" /\ w.answer = "ok" /\ w.rev = rev
          /\ w.asked = q.asked /\ w.floor = q.floor
      BY <1>9, <2>1, <2>n, ViewAnswered
    <2>3. r \in RequestType
      BY <1>2, <1>t DEF PolicyInv, TypeOK
    <2>4. Seen(r) = w
      BY <1>1, <2>2, <2>3, SeenFields, SameView
    <2> QED BY <2>1, <2>4
  <1>12. Register!AnswerRead(c, rev)
    <2>1. AllReads[c].stage # "done"
      BY <1>7 DEF AllReads, ReadOf
    <2>2. AllReads' = [AllReads EXCEPT ![c] =
              [Register!Asked(c) EXCEPT !.stage = "done", !.answer = "ok", !.rev = rev]]
      BY <1>6, <1>8, <1>11
    <2>3. Register!Acceptable(rev, Register!Asked(c))
      BY <1>8, <1>10
    <2> QED BY <1>6, <2>1, <2>2, <2>3, Mapped
            DEF Register!AnswerRead, AllReads, AllWrites
  <1> QED BY <1>4, <1>5, <1>12, Mapped DEF Register!Next

LEMMA ReaderAsks ==
    ASSUME PolicyInv, NEW c \in Readers, NEW q \in RequestType,
           req[c].stage = "new", req' = [req EXCEPT ![c] = q], Open(q),
           q.asked = now, q.floor = known, q.answer = req[c].answer, q.rev = req[c].rev,
           UNCHANGED <<now, replaced, known, made>>
    PROVE  Register!Next
  <1>1. AllReads' = [AllReads EXCEPT ![c] = Seen(q)] /\ AllWrites' = AllWrites
    BY ReaderMoves
  <1>2. PICK v : v = Register!Asked(c)
    OBVIOUS
  <1>3. /\ v \in ViewType /\ v.stage = "asked" /\ v.asked = now /\ v.floor = known
        /\ v.answer = req[c].answer /\ v.rev = req[c].rev
    BY <1>2, AskedView
  <1>4. Seen(q) = v
    BY <1>3, SeenFields, SameView DEF Open
  <1>5. AllReads[c].stage = "new"
    BY DEF AllReads, ReadOf
  <1>6. AllReads' = [AllReads EXCEPT ![c] = Register!Asked(c)]
    BY <1>1, <1>2, <1>4
  <1>7. Register!Ask(c)
    BY <1>1, <1>5, <1>6 DEF Register!Ask, AllReads, AllWrites
  <1> QED BY <1>7 DEF Register!Next

LEMMA ReaderFails ==
    ASSUME PolicyInv, RegisterInv, NEW c \in Readers, Open(req[c]),
           req' = [req EXCEPT ![c] = Answered(req[c], "unavailable", 0)],
           UNCHANGED <<now, replaced, known, made>>
    PROVE  Register!Next
  <1>t. c \in Requests /\ req[c] \in RequestType
    BY Constants DEF PolicyInv, TypeOK
  <1>1. PICK q : q = Answered(req[c], "unavailable", 0)
    OBVIOUS
  <1>2. /\ q \in RequestType /\ q.stage = "done" /\ q.answer = "unavailable" /\ q.rev = 0
        /\ q.asked = req[c].asked /\ q.floor = req[c].floor
    <2>1. q \in RequestType
      BY <1>t, <1>1 DEF Answered, RequestType
    <2> QED BY <1>t, <1>1, <2>1, AnsweredFields
  <1>3. AllReads' = [AllReads EXCEPT ![c] = Seen(q)] /\ AllWrites' = AllWrites
    BY <1>1, ReaderMoves
  <1>4. PICK v : v = Seen(req[c])
    OBVIOUS
  <1>5. /\ v \in ViewType /\ v.stage = "asked" /\ v.rev = 0
        /\ v.asked = q.asked /\ v.floor = q.floor
    BY <1>t, <1>2, <1>4, SeenFields DEF Open, RegisterInv, Pending
  <1>6. AllReads[c] = v
    BY <1>4 DEF AllReads, ReadOf, Seen
  <1>7. PICK w : w = [v EXCEPT !.stage = "done", !.answer = "unavailable"]
    OBVIOUS
  <1>8. /\ w \in ViewType /\ w.stage = "done" /\ w.answer = "unavailable" /\ w.rev = 0
        /\ w.asked = q.asked /\ w.floor = q.floor
    BY <1>5, <1>7, ViewFails
  <1>9. Seen(q) = w
    BY <1>2, <1>8, SeenFields, SameView
  <1>10. AllReads' = [AllReads EXCEPT ![c].stage = "done", ![c].answer = "unavailable"]
    BY <1>3, <1>6, <1>7, <1>9 DEF AllReads
  <1>11. Register!FailRead(c)
    BY <1>3, <1>5, <1>6, <1>10 DEF Register!FailRead, AllReads, AllWrites
  <1> QED BY <1>11 DEF Register!Next

\* A call of a reader that goes on is not seen.
LEMMA ReaderRests ==
    ASSUME PolicyInv, NEW c \in Readers, NEW q \in RequestType,
           Open(req[c]), Open(q), req' = [req EXCEPT ![c] = q],
           q.asked = req[c].asked, q.floor = req[c].floor,
           q.answer = req[c].answer, q.rev = req[c].rev,
           UNCHANGED <<now, replaced, known, made>>
    PROVE  UNCHANGED Register!vars
  <1>t. c \in Requests /\ req[c] \in RequestType
    BY Constants DEF PolicyInv, TypeOK
  <1>1. AllReads' = [AllReads EXCEPT ![c] = Seen(q)] /\ AllWrites' = AllWrites
    BY ReaderMoves
  <1>2. Seen(q) = Seen(req[c])
    BY <1>t, SeenFields, SameView DEF Open
  <1>3. AllReads[c] = Seen(req[c])
    BY DEF AllReads, ReadOf, Seen
  <1>4. AllReads' = AllReads
    BY <1>1, <1>2, <1>3 DEF AllReads
  <1> QED BY <1>1, <1>4 DEF Register!vars, AllReads, AllWrites

\* Writes as the register sees them.
OutcomeType ==
    [expected : Nat, answer : {"none", "ok", "conflict", "unavailable"}, made : Nat]

LEMMA SameOutcome ==
    ASSUME NEW v \in OutcomeType, NEW w \in OutcomeType, v.expected = w.expected,
           v.answer = w.answer, v.made = w.made
    PROVE  v = w
  BY DEF OutcomeType

LEMMA OutcomeFields ==
    ASSUME NEW q \in RequestType, NEW id \in Nat
    PROVE  LET v == Outcome(q, id) IN
           /\ v \in OutcomeType
           /\ v.expected = q.expected /\ v.answer = q.answer /\ v.made = id
  BY DEF Outcome, OutcomeType, RequestType

LEMMA OutcomeExpects ==
    ASSUME NEW v \in OutcomeType, NEW rev \in Nat
    PROVE  LET w == [v EXCEPT !.expected = rev] IN
           w \in OutcomeType /\ w.expected = rev /\ w.answer = v.answer /\ w.made = v.made
  BY DEF OutcomeType

LEMMA OutcomeRefused ==
    ASSUME NEW v \in OutcomeType, NEW rev \in Nat
    PROVE  LET w == [v EXCEPT !.expected = rev, !.answer = "conflict"] IN
           w \in OutcomeType /\ w.expected = rev /\ w.answer = "conflict" /\ w.made = v.made
  BY DEF OutcomeType

LEMMA OutcomeAnswered ==
    ASSUME NEW v \in OutcomeType, NEW answer \in {"ok", "unavailable"}
    PROVE  LET w == [v EXCEPT !.answer = answer] IN
           w \in OutcomeType /\ w.expected = v.expected /\ w.answer = answer /\ w.made = v.made
  BY DEF OutcomeType

LEMMA OutcomeMade ==
    ASSUME NEW v \in OutcomeType, NEW id \in Nat
    PROVE  LET w == [v EXCEPT !.made = id] IN
           w \in OutcomeType /\ w.expected = v.expected /\ w.answer = v.answer /\ w.made = id
  BY DEF OutcomeType

\* What the register has of a write, before it and after a step of its request.
LEMMA WriterStands ==
    ASSUME PolicyInv, RegisterInv, NEW c \in Writers
    PROVE  /\ c \in Requests /\ req[c] \in RequestType /\ made[c] \in Nat
           /\ AllWrites[c] = Outcome(req[c], made[c])
           /\ Outcome(req[c], made[c]) \in OutcomeType
           /\ (req[c].stage = "done") = (req[c].answer # "none")
           /\ made[c] # 0 =>
                made[c] = req[c].expected + 1 /\ req[c].stage \in {"written", "done"}
           /\ req[c].stage = "written" => made[c] # 0
           /\ c \in late => req[c].answer = "unavailable" /\ made[c] = 0
           /\ req[c].stage = "new" =>
                req[c].expected = 0 /\ req[c].answer = "none" /\ req[c].rev = 0
           /\ req[c].stage # "new" => req[c].expected # 0
  <1>t. c \in Requests /\ req[c] \in RequestType /\ made[c] \in Nat
    BY Constants DEF PolicyInv, TypeOK
  <1>1. AllWrites[c] = Outcome(req[c], made[c])
    BY DEF AllWrites, WriteOf, Outcome
  <1>2. Sound(c, req[c]) /\ Writing(c, req[c]) /\ Pending(c, req[c])
    BY <1>t DEF PolicyInv, Sound, RegisterInv
  <1>3. req[c].stage = "new" =>
          req[c].expected = 0 /\ req[c].answer = "none" /\ req[c].rev = 0
    BY <1>2 DEF Pending, NewRequest
  <1> QED BY <1>t, <1>1, <1>2, <1>3, OutcomeFields DEF Sound, Writing, Pending

LEMMA WriterExpects ==
    ASSUME PolicyInv, RegisterInv, NEW c \in Writers, NEW q \in RequestType,
           req[c].stage = "new", req' = [req EXCEPT ![c] = q],
           q.expected \in 1..(revision + 1), q.answer = "none",
           UNCHANGED <<now, replaced, known, made>>
    PROVE  Register!Next
  <1>t. made' = [made EXCEPT ![c] = made[c]] /\ Len(replaced) + 1 = revision
    BY DEF PolicyInv, TypeOK, History
  <1>0. PICK v, w : v = Outcome(req[c], made[c]) /\ w = [v EXCEPT !.expected = q.expected]
    OBVIOUS
  <1>1. AllWrites' = [AllWrites EXCEPT ![c] = Outcome(q, made[c])] /\ AllReads' = AllReads
    BY <1>t, WriterMoves
  <1>2. v \in OutcomeType /\ v.expected = 0 /\ v.answer = "none" /\ v.made = made[c]
    BY <1>0, WriterStands, OutcomeFields
  <1>3. /\ w \in OutcomeType /\ w.expected = q.expected /\ w.answer = "none"
        /\ w.made = made[c]
    <2>1. q.expected \in Nat
      BY DEF RequestType
    <2> QED BY <1>0, <1>2, <2>1, OutcomeExpects
  <1>4. Outcome(q, made[c]) = w
    BY <1>3, WriterStands, OutcomeFields, SameOutcome
  <1>5. AllWrites[c] = v
    BY <1>0, WriterStands
  <1>6. AllWrites' = [AllWrites EXCEPT ![c].expected = q.expected]
    BY <1>0, <1>1, <1>4, <1>5 DEF AllWrites
  <1>7. Register!Expect(c, q.expected)
    BY <1>1, <1>2, <1>5, <1>6 DEF Register!Expect, AllReads, AllWrites
  <1>8. q.expected \in Register!Named(c)
    BY <1>t, <1>2, <1>5, Mapped DEF Register!Named, AllWrites
  <1> QED BY <1>7, <1>8 DEF Register!Next

LEMMA WriterRefused ==
    ASSUME PolicyInv, RegisterInv, NEW c \in Writers, NEW q \in RequestType,
           req[c].stage # "done", made[c] = 0, req' = [req EXCEPT ![c] = q],
           IF req[c].stage = "new" THEN q.expected \in 1..(revision + 1)
                                   ELSE q.expected = req[c].expected,
           q.answer = "conflict", UNCHANGED <<now, replaced, known, made>>
    PROVE  Register!Next
  <1>t. made' = [made EXCEPT ![c] = made[c]] /\ Len(replaced) + 1 = revision
    BY DEF PolicyInv, TypeOK, History
  <1>0. PICK v, w : /\ v = Outcome(req[c], made[c])
                    /\ w = [v EXCEPT !.expected = q.expected, !.answer = "conflict"]
    OBVIOUS
  <1>1. AllWrites' = [AllWrites EXCEPT ![c] = Outcome(q, made[c])] /\ AllReads' = AllReads
    BY <1>t, WriterMoves
  <1>2. /\ v \in OutcomeType /\ v.expected = req[c].expected /\ v.answer = "none"
        /\ v.made = 0
    BY <1>0, WriterStands, OutcomeFields
  <1>3. w \in OutcomeType /\ w.expected = q.expected /\ w.answer = "conflict" /\ w.made = 0
    <2>1. q.expected \in Nat
      BY DEF RequestType
    <2> QED BY <1>0, <1>2, <2>1, OutcomeRefused
  <1>4. Outcome(q, made[c]) = w
    BY <1>3, WriterStands, OutcomeFields, SameOutcome
  <1>5. AllWrites[c] = v
    BY <1>0, WriterStands
  <1>6. AllWrites' =
          [AllWrites EXCEPT ![c].expected = q.expected, ![c].answer = "conflict"]
    BY <1>0, <1>1, <1>4, <1>5 DEF AllWrites
  <1>7. Register!Refuse(c, q.expected)
    BY <1>1, <1>2, <1>5, <1>6 DEF Register!Refuse, AllReads, AllWrites
  <1>8. q.expected \in Register!Named(c)
    BY <1>t, <1>2, <1>5, WriterStands, Mapped DEF Register!Named, AllWrites
  <1> QED BY <1>7, <1>8 DEF Register!Next

LEMMA WriterAnswered ==
    ASSUME PolicyInv, RegisterInv, NEW c \in Writers, NEW q \in RequestType,
           req[c].stage \notin {"new", "done"}, req' = [req EXCEPT ![c] = q],
           q.expected = req[c].expected,
           (q.answer = "ok" /\ made[c] # 0) \/ q.answer = "unavailable",
           known' = Larger(known, made[c]), UNCHANGED <<now, replaced, made>>
    PROVE  Register!Next
  <1>t. made' = [made EXCEPT ![c] = made[c]]
    BY DEF PolicyInv, TypeOK
  <1>0. PICK v, w : v = Outcome(req[c], made[c]) /\ w = [v EXCEPT !.answer = q.answer]
    OBVIOUS
  <1>1. AllWrites' = [AllWrites EXCEPT ![c] = Outcome(q, made[c])] /\ AllReads' = AllReads
    BY <1>t, WriterMoves
  <1>2. /\ v \in OutcomeType /\ v.expected = req[c].expected /\ v.answer = "none"
        /\ v.made = made[c] /\ req[c].expected # 0
    BY <1>0, WriterStands, OutcomeFields
  <1>3. /\ w \in OutcomeType /\ w.expected = q.expected /\ w.answer = q.answer
        /\ w.made = made[c]
    <2>1. PICK answer \in {"ok", "unavailable"} : answer = q.answer
      OBVIOUS
    <2>2. w = [v EXCEPT !.answer = answer]
      BY <1>0, <2>1
    <2> QED BY <1>2, <2>1, <2>2, OutcomeAnswered
  <1>4. Outcome(q, made[c]) = w
    BY <1>3, WriterStands, OutcomeFields, SameOutcome
  <1>5. AllWrites[c] = v
    BY <1>0, WriterStands
  <1>6. AllWrites' = [AllWrites EXCEPT ![c].answer = q.answer]
    BY <1>0, <1>1, <1>4, <1>5 DEF AllWrites
  <1>7. Register!Acknowledge(c) \/ Register!GiveUp(c)
    BY <1>1, <1>2, <1>5, <1>6, Mapped
    DEF Register!Acknowledge, Register!GiveUp, AllReads, AllWrites
  <1> QED BY <1>7 DEF Register!Next

\* The row is replaced by the write, before its answer or after nobody knew.
LEMMA WriterTakesEffect ==
    ASSUME PolicyInv, RegisterInv, NEW c \in Writers, NEW q \in RequestType,
           req' = [req EXCEPT ![c] = q], q.expected = req[c].expected,
           q.answer = req[c].answer, req[c].stage = "writing" \/ c \in late,
           Update(c), UNCHANGED <<now, known>>
    PROVE  Register!Next
  <1>t. revision \in Nat /\ Len(replaced) + 1 = revision
    BY DEF PolicyInv, TypeOK, History
  <1>0. PICK v, w : v = Outcome(req[c], made[c]) /\ w = [v EXCEPT !.made = revision + 1]
    OBVIOUS
  <1>1. /\ AllWrites' = [AllWrites EXCEPT ![c] = Outcome(q, revision + 1)]
        /\ AllReads' = AllReads
    BY WriterMoves DEF Update
  <1>2. /\ v \in OutcomeType /\ v.expected = revision /\ v.answer = req[c].answer
        /\ v.made = 0 /\ req[c].answer \in {"none", "unavailable"}
    <2>1. v \in OutcomeType /\ v.expected = req[c].expected /\ v.answer = req[c].answer
          /\ v.made = made[c]
      BY <1>0, WriterStands, OutcomeFields
    <2>2. made[c] = 0 /\ req[c].answer \in {"none", "unavailable"}
      BY WriterStands
    <2> QED BY <2>1, <2>2 DEF Update
  <1>3. /\ w \in OutcomeType /\ w.expected = q.expected /\ w.answer = q.answer
        /\ w.made = revision + 1
    <2>1. PICK id \in Nat : id = revision + 1
      BY <1>t
    <2>2. w = [v EXCEPT !.made = id]
      BY <1>0, <2>1
    <2>3. w \in OutcomeType /\ w.expected = v.expected /\ w.answer = v.answer /\ w.made = id
      BY <1>2, <2>2, OutcomeMade
    <2> QED BY <1>2, <2>1, <2>3 DEF Update
  <1>4. Outcome(q, revision + 1) = w
    BY <1>t, <1>3, OutcomeFields, SameOutcome
  <1>5. AllWrites[c] = v
    BY <1>0, WriterStands
  <1>6. AllWrites' = [AllWrites EXCEPT ![c].made = revision + 1]
    BY <1>0, <1>1, <1>4, <1>5 DEF AllWrites
  <1>7. Register!Current = revision /\ Register!ReplaceCurrent
    BY <1>t, Mapped DEF Update
  <1>8. Register!TakeEffect(c)
    BY <1>1, <1>2, <1>5, <1>6, <1>7 DEF Register!TakeEffect, AllReads, AllWrites
  <1> QED BY <1>8 DEF Register!Next

LEMMA WriterRests ==
    ASSUME PolicyInv, NEW c \in Writers, NEW q \in RequestType,
           req' = [req EXCEPT ![c] = q], q.expected = req[c].expected,
           q.answer = req[c].answer, UNCHANGED <<now, replaced, known, made>>
    PROVE  UNCHANGED Register!vars
  <1>t. c \in Requests /\ req[c] \in RequestType /\ made[c] \in Nat
    BY Constants DEF PolicyInv, TypeOK
  <1>m. made' = [made EXCEPT ![c] = made[c]]
    BY DEF PolicyInv, TypeOK
  <1>1. AllWrites' = [AllWrites EXCEPT ![c] = Outcome(q, made[c])] /\ AllReads' = AllReads
    BY <1>m, WriterMoves
  <1>2. Outcome(q, made[c]) = Outcome(req[c], made[c])
    BY DEF Outcome
  <1>3. AllWrites[c] = Outcome(req[c], made[c])
    BY DEF AllWrites, WriteOf, Outcome
  <1>4. AllWrites' = AllWrites
    BY <1>1, <1>2, <1>3 DEF AllWrites
  <1> QED BY <1>1, <1>4 DEF Register!vars, AllReads, AllWrites

LEMMA LargerThanNone == PolicyInv => Larger(known, 0) = known
  BY DEF PolicyInv, TypeOK, Larger

\* Every step of the object is one of the register, or is not seen.
LEMMA RegisterNext ==
    ASSUME PolicyInv, PolicyInv', RegisterInv, Next
    PROVE  Register!Next \/ UNCHANGED Register!vars
  <1>t. /\ req \in [Requests -> RequestType] /\ snapshot \in [rev : Nat, loaded : Nat]
        /\ now \in Nat /\ known \in Nat /\ revision \in Nat
        /\ Readers \subseteq Requests /\ Writers \subseteq Requests
        /\ \A c \in Requests : (c \in Writers) = (c \notin Readers)
    BY Constants DEF PolicyInv, TypeOK
  <1>r. ASSUME NEW c \in Readers
        PROVE  req[c].stage \notin {"writing", "written", "refused"}
    BY <1>t DEF PolicyInv, Sound, Reading
  <1>1. ASSUME NEW c \in Readers, Get(c) PROVE Register!Next
    <2>1. PICK q : q = [req[c] EXCEPT !.asked = now, !.floor = known]
      OBVIOUS
    <2>2. /\ q \in RequestType /\ q.asked = now /\ q.floor = known
          /\ q.answer = req[c].answer /\ q.rev = req[c].rev
      BY <1>t, <2>1 DEF RequestType
    <2>3. CASE Proceed(c, q, snapshot)
      <3>1. /\ req' = [req EXCEPT ![c] = Answered(q, "ok", snapshot.rev)]
            /\ known' = Larger(known, snapshot.rev)
        BY <1>t, <2>3 DEF Proceed
      <3>2. req[c].stage = "new" /\ UNCHANGED <<now, replaced, made>>
        BY <1>1 DEF Get, row
      <3>3. PICK rev : rev = snapshot.rev
        OBVIOUS
      <3> QED BY <2>1, <2>2, <3>1, <3>2, <3>3, ReadAnswers
    <2>4. CASE ReadPrimary(c, q)
      <3>1. PICK r : r = [q EXCEPT !.stage = "loading", !.loaded = now]
        OBVIOUS
      <3>2. /\ r \in RequestType /\ Open(r) /\ r.asked = now /\ r.floor = known
            /\ r.answer = req[c].answer /\ r.rev = req[c].rev
        BY <1>t, <2>2, <3>1 DEF RequestType, Open
      <3>3. /\ req' = [req EXCEPT ![c] = r] /\ req[c].stage = "new"
            /\ UNCHANGED <<now, replaced, known, made>>
        BY <1>1, <2>4, <3>1 DEF Get, ReadPrimary, row
      <3> QED BY <3>2, <3>3, ReaderAsks
    <2> QED BY <1>1, <2>1, <2>3, <2>4 DEF Get
  <1>2. ASSUME NEW c \in Writers, NEW expected \in 1..(revision + 1), Put(c, expected)
        PROVE  Register!Next
    <2>1. PICK q : q = [req[c] EXCEPT !.expected = expected]
      OBVIOUS
    <2>2. q \in RequestType /\ q.expected = expected /\ q.answer = "none"
      BY <1>t, <1>2, <2>1, WriterStands, Numbers DEF RequestType, Put
    <2>3. /\ req[c].stage = "new" /\ UNCHANGED <<now, replaced, made>>
          /\ Proceed(c, q, snapshot) \/ ReadPrimary(c, q)
      BY <1>2, <2>1 DEF Put, row
    <2>4. CASE req' = [req EXCEPT ![c] = Answered(q, "conflict", 0)] /\ UNCHANGED known
      <3>1. PICK r : r = Answered(q, "conflict", 0)
        OBVIOUS
      <3>2. r \in RequestType /\ r.expected = expected /\ r.answer = "conflict"
        BY <2>2, <3>1 DEF Answered, RequestType
      <3>3. made[c] = 0
        BY <2>3, WriterStands
      <3> QED BY <2>3, <2>4, <3>1, <3>2, <3>3, WriterRefused
    <2>5. ASSUME NEW stage \in {"writing", "loading"}, UNCHANGED known,
                 req' = [req EXCEPT ![c] = [q EXCEPT !.stage = stage, !.loaded = now]]
          PROVE  Register!Next
      <3>1. PICK r : r = [q EXCEPT !.stage = stage, !.loaded = now]
        OBVIOUS
      <3>2. r \in RequestType /\ r.expected = expected /\ r.answer = "none"
        BY <1>t, <2>2, <3>1 DEF RequestType
      <3> QED BY <2>3, <2>5, <3>1, <3>2, WriterExpects
    <2> QED BY <1>t, <2>3, <2>4, <2>5 DEF Proceed, Replace, ReadPrimary
  <1>3. ASSUME NEW c \in Readers, Loaded(c) PROVE Register!Next
    <2>1. PICK rev : rev = req[c].read
      OBVIOUS
    <2>2. /\ req' = [req EXCEPT ![c] = Answered(req[c], "ok", rev)]
          /\ known' = Larger(known, rev) /\ Open(req[c])
          /\ UNCHANGED <<now, replaced, made>>
      BY <1>t, <1>3, <2>1 DEF Loaded, Proceed, Open, row
    <2> QED BY <1>t, <2>2, ReadAnswers
  <1>4. ASSUME NEW c \in Writers, Loaded(c)
        PROVE  Register!Next \/ UNCHANGED Register!vars
    <2>1. /\ req[c].stage = "loaded" /\ UNCHANGED <<now, replaced, made, known>>
          /\ made[c] = 0 /\ req[c] \in RequestType
          /\ \/ req' = [req EXCEPT ![c] = Answered(req[c], "conflict", 0)]
             \/ req' = [req EXCEPT ![c] = [req[c] EXCEPT !.stage = "writing", !.loaded = now]]
      BY <1>t, <1>4, WriterStands DEF Loaded, Proceed, Replace, row
    <2>2. CASE req' = [req EXCEPT ![c] = Answered(req[c], "conflict", 0)]
      <3>1. PICK r : r = Answered(req[c], "conflict", 0)
        OBVIOUS
      <3>2. r \in RequestType /\ r.expected = req[c].expected /\ r.answer = "conflict"
        BY <2>1, <3>1 DEF Answered, RequestType
      <3> QED BY <2>1, <2>2, <3>1, <3>2, WriterRefused
    <2>3. CASE req' = [req EXCEPT ![c] = [req[c] EXCEPT !.stage = "writing", !.loaded = now]]
      <3>1. PICK r : r = [req[c] EXCEPT !.stage = "writing", !.loaded = now]
        OBVIOUS
      <3>2. r \in RequestType /\ r.expected = req[c].expected /\ r.answer = req[c].answer
        BY <1>t, <2>1, <3>1 DEF RequestType
      <3> QED BY <2>1, <2>3, <3>1, <3>2, WriterRests
    <2> QED BY <2>1, <2>2, <2>3
  <1>5. ASSUME NEW c \in Requests, Load(c) PROVE UNCHANGED Register!vars
    <2>1. PICK r : r = [req[c] EXCEPT !.stage = "loaded", !.read = revision]
      OBVIOUS
    <2>2. /\ r \in RequestType /\ Open(r) /\ r.asked = req[c].asked /\ r.floor = req[c].floor
          /\ r.expected = req[c].expected /\ r.answer = req[c].answer /\ r.rev = req[c].rev
      BY <1>t, <2>1 DEF RequestType, Open
    <2>3. /\ req' = [req EXCEPT ![c] = r] /\ Open(req[c])
          /\ UNCHANGED <<now, replaced, known, made>>
      BY <1>t, <1>5, <2>1 DEF Load, Open, row
    <2> QED BY <1>t, <2>2, <2>3, ReaderRests, WriterRests
  <1>6. ASSUME NEW c \in Requests, Open(req[c]), UNCHANGED <<now, replaced, made>>,
               req' = [req EXCEPT ![c] = Answered(req[c], "unavailable", 0)],
               known' = IF req[c].stage = "written"
                        THEN Larger(known, req[c].expected + 1) ELSE known
        PROVE  Register!Next
    <2>1. CASE c \in Readers
      <3>1. UNCHANGED known
        BY <1>r, <1>6, <2>1
      <3> QED BY <1>6, <2>1, <3>1, ReaderFails
    <2>2. CASE c \in Writers
      <3>1. PICK r : r = Answered(req[c], "unavailable", 0)
        OBVIOUS
      <3>2. r \in RequestType /\ r.expected = req[c].expected /\ r.answer = "unavailable"
        BY <1>t, <3>1 DEF Answered, RequestType
      <3>3. known' = Larger(known, made[c])
        BY <1>6, <2>2, WriterStands, LargerThanNone DEF Open
      <3> QED BY <1>6, <2>2, <3>1, <3>2, <3>3, WriterAnswered DEF Open
    <2> QED BY <1>t, <2>1, <2>2
  <1>7. ASSUME NEW c \in Requests, LoadFails(c) \/ WriteFails(c) PROVE Register!Next
    <2>1. /\ Open(req[c]) /\ UNCHANGED <<now, replaced, made>>
          /\ req' = [req EXCEPT ![c] = Answered(req[c], "unavailable", 0)]
          /\ known' = IF req[c].stage = "written"
                      THEN Larger(known, req[c].expected + 1) ELSE known
      BY <1>t, <1>7, LargerThanNone
      DEF LoadFails, WriteFails, Return, Abandoned, Open, row
    <2> QED BY <1>6, <2>1
  <1>8. ASSUME NEW c \in Requests, Write(c)
        PROVE  Register!Next \/ UNCHANGED Register!vars
    <2>w. c \in Writers
      BY <1>t, <1>r, <1>8 DEF Write
    <2>1. CASE Update(c) /\ req' = [req EXCEPT ![c].stage = "written"]
      <3>1. PICK r : r = [req[c] EXCEPT !.stage = "written"]
        OBVIOUS
      <3>2. r \in RequestType /\ r.expected = req[c].expected /\ r.answer = req[c].answer
        BY <1>t, <3>1 DEF RequestType
      <3>3. /\ req' = [req EXCEPT ![c] = r] /\ req[c].stage = "writing"
            /\ Update(c) /\ UNCHANGED <<now, known>>
        BY <1>t, <1>8, <2>1, <3>1 DEF Write
      <3> QED BY <2>w, <3>2, <3>3, WriterTakesEffect
    <2>2. CASE req' = [req EXCEPT ![c].stage = "refused"] /\ UNCHANGED row
      <3>1. PICK r : r = [req[c] EXCEPT !.stage = "refused"]
        OBVIOUS
      <3>2. r \in RequestType /\ r.expected = req[c].expected /\ r.answer = req[c].answer
        BY <1>t, <3>1 DEF RequestType
      <3>3. req' = [req EXCEPT ![c] = r] /\ UNCHANGED <<now, replaced, known, made>>
        BY <1>t, <1>8, <2>2, <3>1 DEF Write, row
      <3> QED BY <2>w, <3>2, <3>3, WriterRests
    <2> QED BY <1>8, <2>1, <2>2 DEF Write
  <1>9. ASSUME NEW c \in Requests, Written(c) PROVE Register!Next
    <2>w. c \in Writers /\ req[c].stage = "written"
      BY <1>t, <1>r, <1>9 DEF Written
    <2>0. PICK rev \in Nat : rev = req[c].expected + 1
      BY <1>t DEF RequestType
    <2>1. PICK r : r = Answered(req[c], "ok", rev)
      OBVIOUS
    <2>2. r \in RequestType /\ r.expected = req[c].expected /\ r.answer = "ok"
      BY <1>t, <2>1 DEF Answered, RequestType
    <2>3. req' = [req EXCEPT ![c] = r] /\ UNCHANGED <<now, replaced, made>>
      BY <1>9, <2>0, <2>1 DEF Written, Return, row
    <2>4. made[c] # 0 /\ known' = Larger(known, made[c])
      BY <1>9, <2>w, WriterStands DEF Written, Return
    <2> QED BY <2>w, <2>2, <2>3, <2>4, WriterAnswered
  <1>10. ASSUME NEW c \in Requests, Refused(c) PROVE Register!Next
    <2>w. c \in Writers /\ req[c].stage = "refused" /\ made[c] = 0
      BY <1>t, <1>r, <1>10, WriterStands DEF Refused
    <2>1. PICK r : r = Answered(req[c], "conflict", 0)
      OBVIOUS
    <2>2. r \in RequestType /\ r.expected = req[c].expected /\ r.answer = "conflict"
      BY <1>t, <2>1 DEF Answered, RequestType
    <2>3. req' = [req EXCEPT ![c] = r] /\ UNCHANGED <<now, replaced, known, made>>
      BY <1>10, <2>1, LargerThanNone DEF Refused, Return, row
    <2> QED BY <2>w, <2>2, <2>3, WriterRefused
  <1>11. ASSUME NEW c \in Writers, LateWrite(c)
         PROVE  Register!Next \/ UNCHANGED Register!vars
    <2>1. PICK r : r = req[c]
      OBVIOUS
    <2>2. r \in RequestType /\ r.expected = req[c].expected /\ r.answer = req[c].answer
          /\ req' = [req EXCEPT ![c] = r]
      BY <1>t, <1>11, <2>1 DEF LateWrite
    <2> QED BY <1>11, <2>2, WriterTakesEffect, WriterRests DEF LateWrite, row
  <1>12. CASE Bypass
    BY <1>12, Mapped
    DEF Bypass, Register!Next, Register!Intrude, ReadOf, WriteOf
  <1>13. CASE Tick
    BY <1>13 DEF Tick, row, Register!Next, Register!Pass, ReadOf, WriteOf
  <1>14. CASE Reset
    <2>1. CASE gate = Nobody /\ UNCHANGED <<req, known>>
      BY <1>14, <2>1 DEF Reset, row, Register!vars, ReadOf, WriteOf
    <2>2. CASE /\ gate # Nobody /\ Abandoned(gate)
               /\ req' = [req EXCEPT ![gate] = Answered(@, "unavailable", 0)]
      <3>1. PICK c \in Requests : c = gate
        BY <2>2 DEF PolicyInv, TypeOK
      <3>2. Open(req[c])
        BY <2>2, <3>1 DEF RegisterInv, Idle, Open
      <3> QED BY <1>6, <1>14, <2>2, <3>1, <3>2 DEF Abandoned, Reset, row
    <2> QED BY <1>14, <2>1, <2>2 DEF Reset
  <1>15. CASE Finished
    BY <1>15 DEF Finished, vars, Register!vars, ReadOf, WriteOf
  <1> QED BY <1>t, <1>1, <1>2, <1>3, <1>4, <1>5, <1>7, <1>8, <1>9, <1>10, <1>11, <1>12,
             <1>13, <1>14, <1>15 DEF Next, Call

\* The object, whatever its snapshot, its gate, its resets and its failing calls
\* do, is a register: reads are recent and catch up with what was vouched for,
\* writes take effect at most once, as their writers were told, and every answer
\* is final.
THEOREM ObjectImplementsRegister == Spec => ImplementsRegister
  <1>1. Init => RegisterInv
    BY DEF Init, RegisterInv, Pending, NewRequest
  <1>2. Init => Register!Init
    <2> SUFFICES ASSUME Init PROVE Register!Init
      OBVIOUS
    <2>1. \A c \in Readers : ReadOf(c) = Register!NewRead
      BY Constants DEF Init, NewRequest, ReadOf, Register!NewRead
    <2>2. \A c \in Writers : WriteOf(c) = Register!NewWrite
      BY Constants DEF Init, NewRequest, WriteOf, Register!NewWrite
    <2> QED BY <2>1, <2>2 DEF Init, Register!Init
  <1>3. PolicyInv /\ PolicyInv' /\ RegisterInv /\ [Next]_vars
          => [Register!Next]_(Register!vars)
    <2>1. CASE UNCHANGED vars
      BY <2>1 DEF vars, Register!vars, ReadOf, WriteOf
    <2> QED BY <2>1, RegisterNext
  <1> QED BY <1>1, <1>2, <1>3, PolicyInvariant, RegisterInvStep, PTL
          DEF Spec, ImplementsRegister, Register!Spec
================================================================================
