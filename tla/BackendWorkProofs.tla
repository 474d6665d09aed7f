--------------------------- MODULE BackendWorkProofs ---------------------------
(***************************************************************************)
(* Proofs about BackendWork: type correctness, that no more invocations    *)
(* work than the limit, and that background refreshes leave room, for any  *)
(* number of invocations, any limits and lease, and any number of lost and *)
(* late calls.                                                             *)
(***************************************************************************)
EXTENDS BackendWork, FiniteSetTheorems, TLAPS

(***************************************************************************)
(* The inductive invariant.  The object never has more live permits than   *)
(* the limits; an invocation that may work has a live permit, because its  *)
(* own lease, counted from the start of each call, ends no later than its  *)
(* row; and the row of such an invocation is never drained nor released.   *)
(***************************************************************************)

Pending == {"sent", "granted", "refused", "pause"}

\* The invocation w and its row agree.
Sound(w, p, q) ==
    /\ q.acquire = "none" => p = NoPermit /\ w \notin stray
    /\ q.releases > 0 \/ q.stage = "closed" => q.stopped
    /\ q.stage = "running" => q.releases = 0
    /\ q.acquire \in Pending => q.releases <= 1
    /\ q.renewal # "none" => q.acquire = "held"
    /\ q.renewed <= now
    /\ q.until <= now + Lease /\ q.deadline <= now + Deadline
    /\ ~q.stopped /\ p # NoPermit =>
         /\ q.until <= p.expires /\ q.deadline <= p.deadline
         /\ q.renewal = "granted" => Earlier(q.renewed + Lease, q.deadline) <= p.expires
    /\ ~q.stopped /\ q.acquire \in {"granted", "held"} /\ now < q.until => p # NoPermit

\* The object's side.
Admitted ==
    /\ Cardinality(Held) <= Limit
    /\ BackgroundLeavesRoom

WorkInv ==
    /\ TypeOK
    /\ Admitted
    /\ \A w \in Works : Sound(w, permit[w], work[w])

--------------------------------------------------------------------------------
(* Facts every step uses.                                                  *)

\* The constants the proofs do arithmetic with.
LEMMA Constants ==
    /\ Lease \in Nat /\ Lease > 0 /\ Deadline \in Nat /\ Lease <= Deadline
    /\ Limit \in Nat /\ HalfLimit \in Nat /\ HalfLimit <= Limit
    /\ IsFiniteSet(Works) /\ Background \subseteq Works
  BY WorksAssumption, LimitAssumption, TimesAssumption

\* Permits that go away leave the object within its limits.
LEMMA FewerHeld ==
    ASSUME Admitted, Held' \subseteq Held
    PROVE  Admitted'
  <1>1. Held \subseteq Works /\ Held \cap Background \subseteq Works
    BY DEF Held
  <1>2. /\ IsFiniteSet(Held) /\ IsFiniteSet(Held \cap Background)
        /\ IsFiniteSet(Held') /\ IsFiniteSet(Held' \cap Background)
    BY <1>1, Constants, FS_Subset
  <1>3. Cardinality(Held') <= Cardinality(Held)
    BY <1>2, FS_Subset
  <1>4. Held' \cap Background \subseteq Held \cap Background
    OBVIOUS
  <1>5. Cardinality(Held' \cap Background) <= Cardinality(Held \cap Background)
    BY <1>2, <1>4, FS_Subset
  <1>6. /\ Cardinality(Held) \in Nat /\ Cardinality(Held \cap Background) \in Nat
        /\ Cardinality(Held') \in Nat /\ Cardinality(Held' \cap Background) \in Nat
    BY <1>2, FS_CardinalityType
  <1> QED BY <1>3, <1>5, <1>6, Constants DEF Admitted, BackgroundLeavesRoom

\* One more permit, given while fewer are held than the limit that was asked with.
LEMMA OneMoreHeld ==
    ASSUME Admitted, NEW w \in Works, Cardinality(Held) < LimitOf(w),
           Held' \subseteq Held \cup {w}
    PROVE  Admitted'
  <1>1. IsFiniteSet(Held) /\ IsFiniteSet(Held \cap Background)
    <2>1. Held \subseteq Works /\ Held \cap Background \subseteq Works
      BY DEF Held
    <2> QED BY <2>1, Constants, FS_Subset
  <1>2. /\ IsFiniteSet(Held \cup {w})
        /\ Cardinality(Held \cup {w}) <= Cardinality(Held) + 1
    BY <1>1, FS_AddElement, FS_CardinalityType
  <1>3. IsFiniteSet(Held') /\ Cardinality(Held') <= Cardinality(Held \cup {w})
    BY <1>2, FS_Subset
  <1>4. IsFiniteSet(Held' \cap Background)
    <2>1. Held' \cap Background \subseteq Held'
      OBVIOUS
    <2> QED BY <1>3, <2>1, FS_Subset
  <1>5. /\ Cardinality(Held) \in Nat /\ Cardinality(Held') \in Nat
        /\ Cardinality(Held \cup {w}) \in Nat
        /\ Cardinality(Held \cap Background) \in Nat
        /\ Cardinality(Held' \cap Background) \in Nat
    BY <1>1, <1>2, <1>3, <1>4, FS_CardinalityType
  <1>6. Cardinality(Held') <= Limit
    BY <1>2, <1>3, <1>5, Constants DEF LimitOf
  <1>7. CASE w \in Background
    <2>1. Held' \cap Background \subseteq Held'
      OBVIOUS
    <2>2. Cardinality(Held' \cap Background) <= Cardinality(Held')
      BY <1>3, <2>1, FS_Subset
    <2>3. Cardinality(Held) < HalfLimit
      BY <1>7 DEF LimitOf
    <2>4. Cardinality(Held' \cap Background) <= HalfLimit
      BY <1>2, <1>3, <1>5, <2>2, <2>3, Constants
    <2> QED BY <1>6, <2>4 DEF Admitted, BackgroundLeavesRoom
  <1>8. CASE w \notin Background
    <2>1. Held' \cap Background \subseteq Held \cap Background
      BY <1>8
    <2>2. Cardinality(Held' \cap Background) <= Cardinality(Held \cap Background)
      BY <1>1, <2>1, FS_Subset
    <2> QED BY <1>5, <1>6, <2>2, Constants DEF Admitted, BackgroundLeavesRoom
  <1> QED BY <1>7, <1>8

\* A step of one invocation's own record that is sound for it keeps the invariant.
LEMMA WorkStep ==
    ASSUME WorkInv, NEW w \in Works, NEW q \in WorkType,
           work' = [work EXCEPT ![w] = q], UNCHANGED <<now, permit>>,
           faults' \in Nat, stray' \subseteq stray \cup {w},
           q.until <= q.deadline, Sound(w, permit[w], q)'
    PROVE  WorkInv'
  <1>1. \A v \in Works : work'[v] = IF v = w THEN q ELSE work[v]
    BY DEF WorkInv, TypeOK
  <1>2. TypeOK'
    BY <1>1 DEF WorkInv, TypeOK
  <1>3. Held' \subseteq Held
    BY DEF Held
  <1>4. Admitted'
    BY <1>3, FewerHeld DEF WorkInv
  <1>5. ASSUME NEW v \in Works, v # w
        PROVE  Sound(v, permit[v], work[v])'
    <2>1. Sound(v, permit[v], work[v]) /\ work'[v] = work[v]
      BY <1>1, <1>5 DEF WorkInv
    <2> QED BY <1>5, <2>1 DEF Sound
  <1>6. Sound(w, permit[w], work[w])'
    <2>1. work'[w] = q
      BY <1>1
    <2> QED BY <2>1 DEF Sound
  <1> QED BY <1>2, <1>4, <1>5, <1>6 DEF WorkInv
--------------------------------------------------------------------------------
(* The Durable Object.                                                     *)

\* The row an admission gives.
Lent == [expires |-> now + Lease, deadline |-> now + Deadline]

\* An admission deletes rows that have expired and adds at most the one it gives,
\* within the limits; what it grants is live.
LEMMA AdmitFacts ==
    ASSUME WorkInv, NEW w \in Works, NEW granted \in BOOLEAN, Admit(w, granted),
           now' = now
    PROVE  /\ permit' \in [Works -> PermitType]
           /\ \A v \in Works :
                \/ permit'[v] = permit[v]
                \/ permit'[v] = NoPermit /\ permit[v].expires <= now
                \/ v = w /\ permit'[v] = Lent
           /\ granted => permit'[w].expires > now
           /\ Admitted'
  <1>t. now \in Nat /\ permit \in [Works -> PermitType] /\ Admitted
    BY DEF WorkInv, TypeOK
  <1>l. Lent \in PermitType /\ Lent.expires > now
    BY <1>t, Constants DEF Lent, PermitType
  <1>1. PICK D \in Drains :
          \/ /\ Drained(D)[w] # NoPermit
             /\ granted = (Drained(D)[w].expires > now) /\ permit' = Drained(D)
          \/ granted = FALSE /\ permit' = Drained(D)
          \/ /\ ~(Cardinality(Held) >= LimitOf(w))
             /\ permit' = [Drained(D) EXCEPT ![w] = Lent]
    BY DEF Admit, Lent
  <1>2. D \subseteq Expired
    BY DEF Drains
  <1>3. /\ Drained(D) \in [Works -> PermitType]
        /\ \A v \in Works :
             \/ Drained(D)[v] = permit[v]
             \/ Drained(D)[v] = NoPermit /\ permit[v].expires <= now
    <2>1. NoPermit \in PermitType
      BY DEF NoPermit, PermitType
    <2>2. \A v \in Works : Drained(D)[v] = IF v \in D THEN NoPermit ELSE permit[v]
      BY DEF Drained
    <2>3. Drained(D) \in [Works -> PermitType]
      BY <1>t, <2>1 DEF Drained
    <2>4. \A v \in D : permit[v].expires <= now
      BY <1>2 DEF Expired
    <2>5. ASSUME NEW v \in Works
          PROVE  \/ Drained(D)[v] = permit[v]
                 \/ Drained(D)[v] = NoPermit /\ permit[v].expires <= now
      <3>1. CASE v \in D
        BY <2>2, <2>4, <3>1
      <3>2. CASE v \notin D
        BY <2>2, <3>2
      <3> QED BY <3>1, <3>2
    <2> QED BY <2>3, <2>5
  <1>4. \A v \in Works : Drained(D)[v].expires > now => permit[v].expires > now
    BY <1>t, <1>3 DEF NoPermit
  <1>5. CASE permit' = Drained(D)
    <2>1. Held' \subseteq Held
      BY <1>4, <1>5 DEF Held
    <2>2. Admitted'
      BY <1>t, <2>1, FewerHeld
    <2>3. permit' \in [Works -> PermitType]
      BY <1>3, <1>5
    <2>4. \A v \in Works :
            \/ permit'[v] = permit[v]
            \/ permit'[v] = NoPermit /\ permit[v].expires <= now
      BY <1>3, <1>5
    <2>5. CASE granted = FALSE
      BY <2>2, <2>3, <2>4, <2>5
    <2>6. CASE granted = (Drained(D)[w].expires > now)
      BY <1>5, <2>2, <2>3, <2>4, <2>6
    <2>7. CASE permit' = [Drained(D) EXCEPT ![w] = Lent]
      <3>1. permit'[w] = Lent
        BY <1>3, <2>7
      <3> QED BY <1>l, <3>1, <2>2, <2>3, <2>4
    <2> QED BY <1>1, <2>5, <2>6, <2>7
  <1>6. CASE /\ ~(Cardinality(Held) >= LimitOf(w))
             /\ permit' = [Drained(D) EXCEPT ![w] = Lent]
    <2>1. \A v \in Works : permit'[v] = IF v = w THEN Lent ELSE Drained(D)[v]
      BY <1>3, <1>6
    <2>2. Held' \subseteq Held \cup {w}
      BY <1>4, <2>1 DEF Held
    <2>3. Cardinality(Held) < LimitOf(w)
      <3>1. Held \subseteq Works /\ IsFiniteSet(Held)
        <4>1. Held \subseteq Works
          BY DEF Held
        <4> QED BY <4>1, Constants, FS_Subset
      <3>2. Cardinality(Held) \in Nat /\ LimitOf(w) \in Nat
        BY <3>1, Constants, FS_CardinalityType DEF LimitOf
      <3> QED BY <1>6, <3>2
    <2>4. Admitted'
      BY <1>t, <2>2, <2>3, OneMoreHeld
    <2>5. permit' \in [Works -> PermitType]
      BY <1>l, <1>3, <1>6
    <2> QED BY <1>l, <1>3, <2>1, <2>4, <2>5
  <1> QED BY <1>1, <1>5, <1>6

\* What an admission may do to the row of an invocation keeps the two in
\* agreement: an expired row is of no one who works, and a new one is as long as
\* anything its invocation may count on.
LEMMA RowSound ==
    ASSUME NEW w, NEW p \in PermitType, NEW p2 \in PermitType, NEW q \in WorkType,
           now \in Nat, Sound(w, p, q),
           \/ p2 = p
           \/ p2 = NoPermit /\ p.expires <= now
           \/ q.acquire # "none" /\ p2 = Lent
    PROVE  Sound(w, p2, q)
  <1>q. /\ q.until \in Nat /\ q.deadline \in Nat /\ q.renewed \in Nat
        /\ p.expires \in Nat
    BY DEF WorkType, PermitType
  <1>1. CASE p2 = p
    BY <1>1
  <1>2. CASE p2 = NoPermit /\ p.expires <= now
    <2>1. ~(~q.stopped /\ q.acquire \in {"granted", "held"} /\ now < q.until)
      BY <1>q, <1>2 DEF Sound
    <2> QED BY <1>2, <2>1 DEF Sound
  <1>3. CASE q.acquire # "none" /\ p2 = Lent
    <2>1. p2.expires = now + Lease /\ p2.deadline = now + Deadline /\ p2 # NoPermit
      BY <1>3, Constants DEF Lent, NoPermit
    <2>2. Earlier(q.renewed + Lease, q.deadline) <= now + Lease
      BY <1>q, Constants DEF Sound, Earlier
    <2> QED BY <1>3, <2>1, <2>2 DEF Sound
  <1> QED BY <1>1, <1>2, <1>3

\* An admission, with the record of its invocation afterwards.
LEMMA AdmitStep ==
    ASSUME WorkInv, NEW w \in Works, NEW granted \in BOOLEAN, Admit(w, granted),
           UNCHANGED <<now, faults>>, stray' \subseteq stray,
           work[w].acquire # "none", NEW q \in WorkType,
           work' = [work EXCEPT ![w] = q], q.until <= q.deadline,
           Sound(w, permit'[w], work[w]) => Sound(w, permit'[w], q)
    PROVE  WorkInv'
  <1>t. /\ now \in Nat /\ permit \in [Works -> PermitType] /\ work \in [Works -> WorkType]
        /\ \A v \in Works : /\ permit[v].expires <= permit[v].deadline
                             /\ work[v].until <= work[v].deadline
    BY DEF WorkInv, TypeOK
  <1>1. /\ permit' \in [Works -> PermitType] /\ Admitted'
        /\ \A v \in Works :
             \/ permit'[v] = permit[v]
             \/ permit'[v] = NoPermit /\ permit[v].expires <= now
             \/ v = w /\ permit'[v] = Lent
    BY AdmitFacts
  <1>2. \A v \in Works : work'[v] = IF v = w THEN q ELSE work[v]
    BY <1>t
  <1>3. TypeOK'
    <2>1. ASSUME NEW v \in Works PROVE permit'[v].expires <= permit'[v].deadline
      BY <1>t, <1>1, Constants DEF Lent, NoPermit
    <2> QED BY <1>t, <1>1, <1>2, <2>1 DEF WorkInv, TypeOK
  <1>4. ASSUME NEW v \in Works PROVE Sound(v, permit'[v], work[v])
    <2>1. Sound(v, permit[v], work[v])
      BY DEF WorkInv
    <2>2. PICK p \in PermitType, p2 \in PermitType, u \in WorkType :
            p = permit[v] /\ p2 = permit'[v] /\ u = work[v]
      BY <1>t, <1>1
    <2>3. \/ p2 = p
          \/ p2 = NoPermit /\ p.expires <= now
          \/ u.acquire # "none" /\ p2 = Lent
      <3>1. \/ permit'[v] = permit[v]
            \/ permit'[v] = NoPermit /\ permit[v].expires <= now
            \/ v = w /\ permit'[v] = Lent
        BY <1>1
      <3>2. v = w => u.acquire # "none"
        BY <2>2
      <3>3. CASE permit'[v] = permit[v]
        BY <2>2, <3>3
      <3>4. CASE permit'[v] = NoPermit /\ permit[v].expires <= now
        BY <2>2, <3>4
      <3>5. CASE v = w /\ permit'[v] = Lent
        BY <2>2, <3>2, <3>5
      <3> QED BY <3>1, <3>3, <3>4, <3>5
    <2>4. Sound(v, p2, u)
      BY <1>t, <2>1, <2>2, <2>3, RowSound
    <2> QED BY <2>2, <2>4
  <1>5. ASSUME NEW v \in Works PROVE Sound(v, permit[v], work[v])'
    <2>1. PICK p2 \in PermitType, u \in WorkType : p2 = permit'[v] /\ u = work'[v]
      BY <1>t, <1>1, <1>2
    <2>2. Sound(v, p2, u)
      BY <1>2, <1>4, <2>1
    <2>3. Sound(v, p2, u)'
      BY <2>2 DEF Sound
    <2> QED BY <2>1, <2>3 DEF Sound
  <1> QED BY <1>1, <1>3, <1>5 DEF WorkInv

\* A step that changes the row of one invocation and its record, without a
\* permit more.
LEMMA PermitStep ==
    ASSUME WorkInv, NEW w \in Works, NEW p \in PermitType, NEW q \in WorkType,
           permit' = [permit EXCEPT ![w] = p], work' = [work EXCEPT ![w] = q],
           UNCHANGED <<now, stray, faults>>,
           p.expires <= p.deadline, q.until <= q.deadline,
           p.expires > now => permit[w].expires > now,
           Sound(w, p, q)
    PROVE  WorkInv'
  <1>1. \A v \in Works : /\ work'[v] = IF v = w THEN q ELSE work[v]
                         /\ permit'[v] = IF v = w THEN p ELSE permit[v]
    BY DEF WorkInv, TypeOK
  <1>2. TypeOK'
    BY <1>1 DEF WorkInv, TypeOK
  <1>3. Held' \subseteq Held
    BY <1>1 DEF Held
  <1>4. Admitted'
    BY <1>3, FewerHeld DEF WorkInv
  <1>5. ASSUME NEW v \in Works PROVE Sound(v, permit'[v], work'[v])
    BY <1>1 DEF WorkInv
  <1>6. ASSUME NEW v \in Works PROVE Sound(v, permit[v], work[v])'
    BY <1>5 DEF Sound
  <1> QED BY <1>2, <1>4, <1>6 DEF WorkInv

\* One invocation and its row.
LEMMA OneWork ==
    ASSUME WorkInv, NEW w \in Works
    PROVE  /\ work[w] \in WorkType /\ permit[w] \in PermitType
           /\ work[w].until <= work[w].deadline
           /\ permit[w].expires <= permit[w].deadline
           /\ Sound(w, permit[w], work[w])
           /\ now \in Nat /\ faults \in Nat
  BY DEF WorkInv, TypeOK

--------------------------------------------------------------------------------
(* The operations of the object.                                           *)

\* An acquisition is served.
LEMMA ServeAcquireKeeps ==
    ASSUME WorkInv, NEW w \in Works, ServeAcquire(w)
    PROVE  WorkInv'
  <1>1. PICK granted \in BOOLEAN :
          /\ Admit(w, granted)
          /\ work' = [work EXCEPT ![w].acquire = IF granted THEN "granted" ELSE "refused"]
    BY DEF ServeAcquire
  <1>2. work[w].acquire = "sent" /\ UNCHANGED <<now, stray, faults>>
    BY DEF ServeAcquire
  <1>3. PICK q \in WorkType :
          q = [work[w] EXCEPT !.acquire = IF granted THEN "granted" ELSE "refused"]
    BY OneWork DEF WorkType
  <1>4. /\ q.stage = work[w].stage /\ q.stopped = work[w].stopped
        /\ q.renewal = work[w].renewal /\ q.renewed = work[w].renewed
        /\ q.until = work[w].until /\ q.deadline = work[w].deadline
        /\ q.releases = work[w].releases
        /\ q.acquire = IF granted THEN "granted" ELSE "refused"
    BY <1>3, OneWork DEF WorkType
  <1>5. work' = [work EXCEPT ![w] = q]
    BY <1>1, <1>3 DEF WorkInv, TypeOK
  <1>6. granted => permit'[w] # NoPermit
    <2>1. granted => permit'[w].expires > now
      BY <1>1, <1>2, AdmitFacts
    <2> QED BY <2>1, OneWork DEF NoPermit
  <1>7. Sound(w, permit'[w], work[w]) => Sound(w, permit'[w], q)
    BY <1>2, <1>4, <1>6 DEF Sound, Pending
  <1>8. q.until <= q.deadline
    BY <1>4, OneWork
  <1> QED BY <1>1, <1>2, <1>5, <1>7, <1>8, AdmitStep

\* An acquisition given up for lost is served.
LEMMA ServeStrayKeeps ==
    ASSUME WorkInv, NEW w \in Works, ServeStray(w)
    PROVE  WorkInv'
  <1>1. PICK granted \in BOOLEAN : Admit(w, granted)
    BY DEF ServeStray
  <1>2. PICK q \in WorkType : q = work[w]
    BY OneWork
  <1>3. /\ work[w].acquire # "none" /\ stray' \subseteq stray
        /\ UNCHANGED <<now, work, faults>>
    BY OneWork DEF ServeStray, Sound
  <1>4. work' = [work EXCEPT ![w] = q] /\ q.until <= q.deadline
    BY <1>2, <1>3, OneWork DEF WorkInv, TypeOK
  <1>5. Sound(w, permit'[w], work[w]) => Sound(w, permit'[w], q)
    BY <1>2
  <1> QED BY <1>1, <1>3, <1>4, <1>5, AdmitStep

\* A renewal is served: the row lasts at least a lease from the call's start.
LEMMA ServeRenewalKeeps ==
    ASSUME WorkInv, NEW w \in Works, ServeRenewal(w)
    PROVE  WorkInv'
  <1>0. work[w].renewal = "sent" /\ UNCHANGED <<now, stray, faults>>
    BY DEF ServeRenewal
  <1>1. CASE /\ Renewable(w) /\ Renew(w)
             /\ work' = [work EXCEPT ![w].renewal = "granted"]
    <2>1. PICK q \in WorkType : q = [work[w] EXCEPT !.renewal = "granted"]
      BY OneWork DEF WorkType
    <2>t. /\ permit[w].expires \in Nat /\ permit[w].deadline \in Nat
          /\ work[w].renewed \in Nat /\ work[w].until \in Nat
          /\ work[w].deadline \in Nat /\ now \in Nat
          /\ permit[w].expires <= permit[w].deadline
          /\ permit[w].expires > now
      BY <1>1, OneWork DEF PermitType, WorkType, Renewable
    <2>2. PICK e \in Nat :
            /\ e = Earlier(permit[w].deadline, Later(permit[w].expires, now + Lease))
            /\ e <= permit[w].deadline /\ permit[w].expires <= e
            /\ now + Lease <= e \/ e = permit[w].deadline
      BY <2>t, Constants DEF Earlier, Later
    <2>3. PICK p \in PermitType : p = [permit[w] EXCEPT !.expires = e]
      BY OneWork DEF PermitType
    <2>4. p.expires = e /\ p.deadline = permit[w].deadline
      BY <2>3, OneWork DEF PermitType
    <2>5. permit' = [permit EXCEPT ![w] = p] /\ work' = [work EXCEPT ![w] = q]
      BY <1>1, <2>1, <2>2, <2>3 DEF Renew, WorkInv, TypeOK
    <2>6. /\ q.stage = work[w].stage /\ q.stopped = work[w].stopped
          /\ q.acquire = work[w].acquire /\ q.renewed = work[w].renewed
          /\ q.until = work[w].until /\ q.deadline = work[w].deadline
          /\ q.releases = work[w].releases /\ q.renewal = "granted"
      BY <2>1, OneWork DEF WorkType
    <2>7. permit[w] # NoPermit /\ p # NoPermit
      BY <2>t, <2>2, <2>4 DEF NoPermit
    <2>8. ASSUME ~q.stopped
          PROVE  /\ q.until <= p.expires /\ q.deadline <= p.deadline
                 /\ Earlier(q.renewed + Lease, q.deadline) <= p.expires
      <3>1. /\ work[w].until <= permit[w].expires
            /\ work[w].deadline <= permit[w].deadline /\ work[w].renewed <= now
        BY <2>6, <2>7, <2>8, OneWork DEF Sound
      <3> QED BY <2>t, <2>2, <2>4, <2>6, <3>1, Constants DEF Earlier
    <2>9. Sound(w, p, q)
      BY <1>0, <2>6, <2>7, <2>8, OneWork DEF Sound
    <2>10. /\ p.expires <= p.deadline /\ q.until <= q.deadline
           /\ permit[w].expires > now
      BY <2>t, <2>2, <2>4, <2>6, OneWork
    <2> QED BY <1>0, <2>5, <2>9, <2>10, PermitStep
  <1>2. CASE UNCHANGED permit /\ work' = [work EXCEPT ![w].renewal = "refused"]
    <2>1. PICK q \in WorkType : q = [work[w] EXCEPT !.renewal = "refused"]
      BY OneWork DEF WorkType
    <2>2. work' = [work EXCEPT ![w] = q]
      BY <1>2, <2>1 DEF WorkInv, TypeOK
    <2>3. Sound(w, permit[w], q)' /\ q.until <= q.deadline
      BY <1>0, <1>2, <2>1, OneWork DEF Sound, WorkType
    <2>4. UNCHANGED <<now, permit>> /\ faults' \in Nat /\ stray' \subseteq stray \cup {w}
      BY <1>0, <1>2, OneWork
    <2> QED BY <2>2, <2>3, <2>4, WorkStep
  <1> QED BY <1>1, <1>2 DEF ServeRenewal

\* A release is served: its invocation has stopped.
LEMMA ServeReleaseKeeps ==
    ASSUME WorkInv, NEW w \in Works, ServeRelease(w)
    PROVE  WorkInv'
  <1>1. /\ work[w].releases > 0 /\ UNCHANGED <<now, stray, faults>>
        /\ permit' = [permit EXCEPT ![w] = NoPermit]
        /\ work' = [work EXCEPT ![w].releases = @ - 1]
    BY DEF ServeRelease, Remove
  <1>r. PICK n \in 0..2 : n = work[w].releases - 1
    BY <1>1, OneWork DEF WorkType
  <1>2. PICK q \in WorkType : q = [work[w] EXCEPT !.releases = n]
    BY OneWork DEF WorkType
  <1>3. /\ q.stage = work[w].stage /\ q.stopped = work[w].stopped
        /\ q.acquire = work[w].acquire /\ q.renewed = work[w].renewed
        /\ q.until = work[w].until /\ q.deadline = work[w].deadline
        /\ q.releases = n /\ q.renewal = work[w].renewal
    BY <1>2, OneWork DEF WorkType
  <1>4. work' = [work EXCEPT ![w] = q]
    BY <1>1, <1>r, <1>2 DEF WorkInv, TypeOK
  <1>5. q.stopped
    BY <1>1, <1>3, OneWork DEF Sound
  <1>6. PICK p \in PermitType : p = NoPermit
    BY DEF NoPermit, PermitType
  <1>7. work[w].releases \in 0..2
    BY OneWork DEF WorkType
  <1>8. Sound(w, p, q)
    BY <1>1, <1>r, <1>3, <1>5, <1>6, <1>7, OneWork DEF Sound
  <1>9. /\ p.expires <= p.deadline /\ q.until <= q.deadline /\ ~(p.expires > now)
    BY <1>3, <1>6, OneWork DEF NoPermit
  <1> QED BY <1>1, <1>4, <1>6, <1>8, <1>9, PermitStep

--------------------------------------------------------------------------------
(* The steps of an invocation.                                             *)

\* The acquisition settles.
LEMMA SettledKeeps ==
    ASSUME WorkInv, NEW w \in Works, NEW outcome \in {"held", "failed"},
           work[w].acquire \in Pending, outcome = "held" => work[w].acquire = "granted",
           work' = [work EXCEPT ![w] = Settled(work[w], outcome)],
           UNCHANGED <<now, permit>>, faults' \in Nat, stray' \subseteq stray \cup {w}
    PROVE  WorkInv'
  <1>1. work[w].releases \in 0..1 /\ work[w].renewal = "none"
    BY OneWork DEF WorkType, Sound, Pending
  <1>r. PICK n \in 0..2 :
          n = work[w].releases + IF work[w].stage = "closed" THEN 1 ELSE 0
    BY <1>1
  <1>s. PICK b \in BOOLEAN : b = (work[w].stopped \/ outcome = "failed")
    OBVIOUS
  <1>2. PICK q \in WorkType :
          q = [work[w] EXCEPT !.acquire = outcome, !.stopped = b, !.releases = n]
    BY OneWork DEF WorkType
  <1>3. q = Settled(work[w], outcome)
    BY <1>r, <1>s, <1>2, OneWork DEF Settled, WorkType
  <1>4. /\ q.stage = work[w].stage /\ q.stopped = b
        /\ q.acquire = outcome /\ q.renewed = work[w].renewed
        /\ q.until = work[w].until /\ q.deadline = work[w].deadline
        /\ q.releases = n /\ q.renewal = "none"
    BY <1>1, <1>2, OneWork DEF WorkType
  <1>5. ~q.stopped => ~work[w].stopped /\ outcome = "held" /\ work[w].acquire = "granted"
    BY <1>s, <1>4
  <1>6. /\ n > 0 \/ q.stage = "closed" => q.stopped
        /\ q.stage = "running" => n = 0
    BY <1>1, <1>r, <1>s, <1>4, OneWork DEF Sound, WorkType
  <1>7. Sound(w, permit[w], q)'
    BY <1>1, <1>4, <1>5, <1>6, OneWork DEF Sound, Pending
  <1>8. q.until <= q.deadline /\ work' = [work EXCEPT ![w] = q]
    BY <1>3, <1>4, OneWork
  <1> QED BY <1>7, <1>8, WorkStep

\* Work stops, and nothing else changes but a renewal that is over.
LEMMA StopKeeps ==
    ASSUME WorkInv, NEW w \in Works,
           work' = [work EXCEPT ![w] = Stopped(work[w])]
             \/ work' = [work EXCEPT ![w] = Unrenewed(work[w])],
           UNCHANGED <<now, permit, stray>>, faults' \in Nat
    PROVE  WorkInv'
  <1>1. PICK q \in WorkType :
          /\ work' = [work EXCEPT ![w] = q]
          /\ q.stage = work[w].stage /\ q.stopped = TRUE
          /\ q.acquire = work[w].acquire /\ q.releases = work[w].releases
          /\ q.until = work[w].until /\ q.deadline = work[w].deadline
          /\ \/ q.renewal = work[w].renewal /\ q.renewed = work[w].renewed
             \/ q.renewal = "none" /\ q.renewed = 0
    <2>1. CASE work' = [work EXCEPT ![w] = Stopped(work[w])]
      <3>1. PICK q \in WorkType : q = Stopped(work[w])
        BY OneWork DEF Stopped, WorkType
      <3> QED BY <2>1, <3>1, OneWork DEF Stopped, WorkType
    <2>2. CASE work' = [work EXCEPT ![w] = Unrenewed(work[w])]
      <3>1. PICK q \in WorkType : q = Unrenewed(work[w])
        BY OneWork DEF Stopped, Unrenewed, WorkType
      <3> QED BY <2>2, <3>1, OneWork DEF Stopped, Unrenewed, WorkType
    <2> QED BY <2>1, <2>2
  <1>2. Sound(w, permit[w], q)'
    BY <1>1, OneWork DEF Sound
  <1>3. q.until <= q.deadline /\ stray' \subseteq stray \cup {w}
    BY <1>1, OneWork
  <1> QED BY <1>1, <1>2, <1>3, WorkStep

\* The first enter starts both clocks; the invocation has no row yet.
LEMMA EnterKeeps ==
    ASSUME WorkInv, NEW w \in Works, Enter(w)
    PROVE  WorkInv'
  <1>0. /\ work[w].acquire = "none" /\ work[w].stage = "running"
        /\ UNCHANGED <<now, permit, stray, faults>>
    BY DEF Enter
  <1>1. PICK u \in Nat, d \in Nat : u = now + Lease /\ d = now + Deadline
    BY OneWork, Constants
  <1>2. PICK q \in WorkType :
          q = [work[w] EXCEPT !.acquire = "sent", !.until = u, !.deadline = d]
    BY OneWork DEF WorkType
  <1>3. work' = [work EXCEPT ![w] = q]
    BY <1>1, <1>2 DEF Enter, WorkInv, TypeOK
  <1>4. /\ q.stage = work[w].stage /\ q.stopped = work[w].stopped
        /\ q.acquire = "sent" /\ q.renewed = work[w].renewed
        /\ q.until = u /\ q.deadline = d
        /\ q.releases = work[w].releases /\ q.renewal = work[w].renewal
    BY <1>2, OneWork DEF WorkType
  <1>5. permit[w] = NoPermit /\ work[w].releases = 0 /\ work[w].renewal = "none"
    BY <1>0, OneWork DEF Sound
  <1>6. Sound(w, permit[w], q)'
    BY <1>0, <1>1, <1>4, <1>5, OneWork, Constants DEF Sound
  <1>7. q.until <= q.deadline /\ faults' \in Nat /\ stray' \subseteq stray \cup {w}
    BY <1>0, <1>1, <1>4, OneWork, Constants
  <1> QED BY <1>0, <1>3, <1>6, <1>7, WorkStep

\* The answer of an acquisition.
LEMMA AcquireAnsweredKeeps ==
    ASSUME WorkInv, NEW w \in Works, AcquireAnswered(w)
    PROVE  WorkInv'
  <1>1. /\ work[w].acquire \in {"granted", "refused"}
        /\ UNCHANGED <<now, permit, stray, faults>>
    BY DEF AcquireAnswered
  <1>2. PICK outcome \in {"held", "failed"} :
          /\ work' = [work EXCEPT ![w] = Settled(work[w], outcome)]
          /\ outcome = "held" => work[w].acquire = "granted"
    <2>1. CASE work[w].acquire = "granted" /\ Active(work[w])
      BY <2>1 DEF AcquireAnswered, WorkInv, TypeOK
    <2>2. CASE ~(work[w].acquire = "granted" /\ Active(work[w]))
      BY <2>2 DEF AcquireAnswered, WorkInv, TypeOK
    <2> QED BY <2>1, <2>2
  <1>3. work[w].acquire \in Pending /\ faults' \in Nat /\ stray' \subseteq stray \cup {w}
    BY <1>1, OneWork DEF Pending
  <1> QED BY <1>1, <1>2, <1>3, SettledKeeps

\* An acquisition or its answer is lost.
LEMMA AcquireLostKeeps ==
    ASSUME WorkInv, NEW w \in Works, AcquireLost(w)
    PROVE  WorkInv'
  <1>1. /\ work[w].acquire \in {"sent", "granted", "refused"}
        /\ work[w].acquire \in Pending
        /\ UNCHANGED <<now, permit>> /\ faults' \in Nat
        /\ stray' \subseteq stray \cup {w}
    BY OneWork DEF AcquireLost, Fault, Pending
  <1>2. CASE work[w].retried \/ ~Active(work[w])
    <2>1. work' = [work EXCEPT ![w] = Settled(work[w], "failed")]
      BY <1>2 DEF AcquireLost, WorkInv, TypeOK
    <2>2. PICK outcome \in {"held", "failed"} : outcome = "failed"
      OBVIOUS
    <2> QED BY <1>1, <2>1, <2>2, SettledKeeps
  <1>3. CASE ~(work[w].retried \/ ~Active(work[w]))
    <2>1. PICK q \in WorkType : q = [work[w] EXCEPT !.acquire = "pause", !.retried = TRUE]
      BY OneWork DEF WorkType
    <2>2. work' = [work EXCEPT ![w] = q]
      BY <1>3, <2>1 DEF AcquireLost, WorkInv, TypeOK
    <2>3. Sound(w, permit[w], q)' /\ q.until <= q.deadline
      BY <1>1, <2>1, OneWork DEF Sound, WorkType, Pending
    <2> QED BY <1>1, <2>2, <2>3, WorkStep
  <1> QED BY <1>2, <1>3

\* The second try.
LEMMA RetryAcquireKeeps ==
    ASSUME WorkInv, NEW w \in Works, RetryAcquire(w)
    PROVE  WorkInv'
  <1>1. /\ work[w].acquire = "pause" /\ work[w].acquire \in Pending
        /\ UNCHANGED <<now, permit, stray>> /\ faults' \in Nat
        /\ stray' \subseteq stray \cup {w}
    BY OneWork DEF RetryAcquire, Pending
  <1>2. CASE ~Active(work[w])
    <2>1. work' = [work EXCEPT ![w] = Settled(work[w], "failed")]
      BY <1>2 DEF RetryAcquire, WorkInv, TypeOK
    <2>2. PICK outcome \in {"held", "failed"} : outcome = "failed"
      OBVIOUS
    <2> QED BY <1>1, <2>1, <2>2, SettledKeeps
  <1>3. CASE Active(work[w])
    <2>1. PICK q \in WorkType : q = [work[w] EXCEPT !.acquire = "sent"]
      BY OneWork DEF WorkType
    <2>2. work' = [work EXCEPT ![w] = q]
      BY <1>3, <2>1 DEF RetryAcquire, WorkInv, TypeOK
    <2>3. Sound(w, permit[w], q)' /\ q.until <= q.deadline
      BY <1>1, <2>1, OneWork DEF Sound, WorkType, Pending
    <2> QED BY <1>1, <2>2, <2>3, WorkStep
  <1> QED BY <1>2, <1>3

\* A renewal is sent: the moment is remembered.
LEMMA SendRenewalKeeps ==
    ASSUME WorkInv, NEW w \in Works, SendRenewal(w)
    PROVE  WorkInv'
  <1>1. /\ work[w].acquire = "held" /\ UNCHANGED <<now, permit, stray, faults>>
        /\ work' = [work EXCEPT ![w].renewal = "sent", ![w].renewed = now]
    BY DEF SendRenewal
  <1>2. PICK q \in WorkType : q = [work[w] EXCEPT !.renewal = "sent", !.renewed = now]
    BY OneWork DEF WorkType
  <1>3. work' = [work EXCEPT ![w] = q]
    BY <1>1, <1>2 DEF WorkInv, TypeOK
  <1>4. Sound(w, permit[w], q)' /\ q.until <= q.deadline
    BY <1>1, <1>2, OneWork DEF Sound, WorkType, Pending
  <1>5. faults' \in Nat /\ stray' \subseteq stray \cup {w}
    BY <1>1, OneWork
  <1> QED BY <1>1, <1>3, <1>4, <1>5, WorkStep

\* The answer of a renewal: the lease, counted from the call's start, ends no
\* later than the row.
LEMMA RenewalAnsweredKeeps ==
    ASSUME WorkInv, NEW w \in Works, RenewalAnswered(w)
    PROVE  WorkInv'
  <1>1. /\ work[w].renewal \in {"granted", "refused"}
        /\ UNCHANGED <<now, permit, stray, faults>> /\ faults' \in Nat
    BY OneWork DEF RenewalAnswered
  <1>2. CASE ~(work[w].renewal = "granted" /\ Active(work[w]))
    <2>1. work' = [work EXCEPT ![w] = Unrenewed(work[w])]
      BY <1>2 DEF RenewalAnswered, WorkInv, TypeOK
    <2> QED BY <1>1, <2>1, StopKeeps
  <1>3. CASE work[w].renewal = "granted" /\ Active(work[w])
    <2>t. /\ work[w].renewed \in Nat /\ work[w].deadline \in Nat /\ work[w].until \in Nat
          /\ now \in Nat
      BY OneWork DEF WorkType
    <2>1. PICK u \in Nat : u = Earlier(work[w].renewed + Lease, work[w].deadline)
      BY <2>t, Constants DEF Earlier
    <2>2. PICK q \in WorkType :
            q = [work[w] EXCEPT !.renewal = "none", !.renewed = 0, !.until = u]
      BY OneWork DEF WorkType
    <2>3. work' = [work EXCEPT ![w] = q]
      BY <1>3, <2>1, <2>2 DEF RenewalAnswered, Extended, WorkInv, TypeOK
    <2>4. /\ q.stage = work[w].stage /\ q.stopped = work[w].stopped
          /\ q.acquire = work[w].acquire /\ q.renewed = 0
          /\ q.until = u /\ q.deadline = work[w].deadline
          /\ q.releases = work[w].releases /\ q.renewal = "none"
      BY <2>2, OneWork DEF WorkType
    <2>5. /\ ~work[w].stopped /\ work[w].acquire = "held" /\ permit[w] # NoPermit
          /\ u <= permit[w].expires /\ work[w].renewed <= now
      BY <1>3, <2>1, OneWork DEF Active, Sound
    <2>6. u <= q.deadline /\ u <= now + Lease
      BY <2>t, <2>1, <2>4, <2>5, Constants DEF Earlier
    <2>7. Sound(w, permit[w], q)'
      BY <1>1, <2>t, <2>4, <2>5, <2>6, OneWork DEF Sound, Pending
    <2>8. q.until <= q.deadline /\ stray' \subseteq stray \cup {w}
      BY <1>1, <2>4, <2>6
    <2> QED BY <1>1, <2>3, <2>7, <2>8, WorkStep
  <1> QED BY <1>2, <1>3

\* The invocation closes.
LEMMA CloseKeeps ==
    ASSUME WorkInv, NEW w \in Works, Close(w)
    PROVE  WorkInv'
  <1>1. work[w].stage = "running" /\ UNCHANGED <<now, permit, stray, faults>>
    BY DEF Close
  <1>2. work[w].releases = 0
    BY <1>1, OneWork DEF Sound
  <1>r. PICK n \in 0..2 : n = (IF work[w].acquire = "none" THEN 0 ELSE 1) /\ n <= 1
    OBVIOUS
  <1>3. PICK q \in WorkType :
          q = [work[w] EXCEPT !.stage = "closed", !.stopped = TRUE, !.releases = n]
    BY OneWork DEF WorkType
  <1>4. work' = [work EXCEPT ![w] = q]
    <2>1. n = work[w].releases + IF work[w].acquire = "none" THEN 0 ELSE 1
      BY <1>2, <1>r
    <2>2. work' = [work EXCEPT ![w] = [work[w] EXCEPT !.stage = "closed", !.stopped = TRUE,
                     !.releases = work[w].releases + IF work[w].acquire = "none" THEN 0 ELSE 1]]
      BY DEF Close, WorkInv, TypeOK
    <2> QED BY <1>3, <2>1, <2>2
  <1>5. Sound(w, permit[w], q)' /\ q.until <= q.deadline
    BY <1>1, <1>r, <1>3, OneWork DEF Sound, WorkType, Pending
  <1>6. faults' \in Nat /\ stray' \subseteq stray \cup {w}
    BY <1>1, OneWork
  <1> QED BY <1>1, <1>4, <1>5, <1>6, WorkStep

\* A release is lost.
LEMMA ReleaseLostKeeps ==
    ASSUME WorkInv, NEW w \in Works, ReleaseLost(w)
    PROVE  WorkInv'
  <1>1. /\ work[w].releases > 0 /\ UNCHANGED <<now, permit, stray>> /\ faults' \in Nat
        /\ work' = [work EXCEPT ![w].releases = @ - 1]
    BY OneWork DEF ReleaseLost, Fault
  <1>2. work[w].releases \in 0..2 /\ work[w].stopped
    BY <1>1, OneWork DEF WorkType, Sound
  <1>r. PICK n \in 0..2 : n = work[w].releases - 1
    BY <1>1, <1>2
  <1>3. PICK q \in WorkType : q = [work[w] EXCEPT !.releases = n]
    BY OneWork DEF WorkType
  <1>4. work' = [work EXCEPT ![w] = q]
    BY <1>1, <1>r, <1>3 DEF WorkInv, TypeOK
  <1>5. /\ q.stage = work[w].stage /\ q.stopped = work[w].stopped
        /\ q.acquire = work[w].acquire /\ q.renewed = work[w].renewed
        /\ q.until = work[w].until /\ q.deadline = work[w].deadline
        /\ q.releases = n /\ q.renewal = work[w].renewal
    BY <1>3, OneWork DEF WorkType
  <1>6. Sound(w, permit[w], q)' /\ q.until <= q.deadline
    BY <1>1, <1>2, <1>r, <1>5, OneWork DEF Sound, Pending
  <1>7. stray' \subseteq stray \cup {w}
    BY <1>1
  <1> QED BY <1>1, <1>4, <1>6, <1>7, WorkStep

\* The clock: permits expire, and nothing is given.
LEMMA TickKeeps ==
    ASSUME WorkInv, Tick
    PROVE  WorkInv'
  <1>1. now' = now + 1 /\ UNCHANGED <<permit, work, stray, faults>> /\ now \in Nat
    BY DEF Tick, WorkInv, TypeOK
  <1>2. TypeOK'
    BY <1>1 DEF WorkInv, TypeOK
  <1>3. Admitted'
    <2>1. \A w \in Works : permit[w].expires \in Nat
      BY DEF WorkInv, TypeOK, PermitType
    <2>2. Held' \subseteq Held
      BY <1>1, <2>1 DEF Held
    <2> QED BY <2>2, FewerHeld DEF WorkInv
  <1>4. ASSUME NEW w \in Works PROVE Sound(w, permit[w], work[w])'
    <2>1. /\ work[w].until \in Nat /\ work[w].deadline \in Nat /\ work[w].renewed \in Nat
      BY OneWork DEF WorkType
    <2> QED BY <1>1, <2>1, OneWork, Constants DEF Sound
  <1> QED BY <1>2, <1>3, <1>4 DEF WorkInv
--------------------------------------------------------------------------------
(* The invariant.                                                          *)

\* The invariant holds at first.
LEMMA WorkInvInitial == Init => WorkInv
  <1> SUFFICES ASSUME Init PROVE WorkInv
    OBVIOUS
  <1>1. TypeOK
    BY DEF Init, TypeOK, PermitType, WorkType, NewWork, NoPermit
  <1>2. Admitted
    <2>1. Held = {}
      BY DEF Init, Held, NoPermit
    <2>2. Cardinality({}) = 0 /\ Held \cap Background = {}
      BY <2>1, FS_EmptySet
    <2> QED BY <2>1, <2>2, Constants DEF Admitted, BackgroundLeavesRoom
  <1>3. ASSUME NEW w \in Works PROVE Sound(w, permit[w], work[w])
    BY Constants DEF Init, NewWork, Sound, NoPermit, Pending
  <1> QED BY <1>1, <1>2, <1>3 DEF WorkInv

\* Every step keeps it.
LEMMA WorkInvStep == WorkInv /\ [Next]_vars => WorkInv'
  <1> SUFFICES ASSUME WorkInv, [Next]_vars PROVE WorkInv'
    OBVIOUS
  <1>1. ASSUME NEW w \in Works, Expire(w) \/ Cancel(w) PROVE WorkInv'
    <2>1. /\ work' = [work EXCEPT ![w] = Stopped(work[w])]
          /\ UNCHANGED <<now, permit, stray>> /\ faults' \in Nat
      BY <1>1, OneWork DEF Expire, Cancel, WorkInv, TypeOK
    <2> QED BY <2>1, StopKeeps
  <1>2. ASSUME NEW w \in Works, RenewalLost(w) PROVE WorkInv'
    <2>1. /\ work' = [work EXCEPT ![w] = Unrenewed(work[w])]
          /\ UNCHANGED <<now, permit, stray>> /\ faults' \in Nat
      BY <1>2, OneWork DEF RenewalLost, Fault, WorkInv, TypeOK
    <2> QED BY <2>1, StopKeeps
  <1>3. ASSUME NEW w \in Works, Invocation(w) PROVE WorkInv'
    BY <1>1, <1>2, <1>3, EnterKeeps, AcquireAnsweredKeeps, AcquireLostKeeps,
       RetryAcquireKeeps, SendRenewalKeeps, RenewalAnsweredKeeps, CloseKeeps,
       ReleaseLostKeeps DEF Invocation
  <1>4. ASSUME NEW w \in Works, Admission(w) PROVE WorkInv'
    BY <1>4, ServeAcquireKeeps, ServeStrayKeeps, ServeRenewalKeeps,
       ServeReleaseKeeps DEF Admission
  <1>5. CASE Tick
    BY <1>5, TickKeeps
  <1>6. CASE UNCHANGED vars
    BY <1>6 DEF vars, WorkInv, TypeOK, Admitted, BackgroundLeavesRoom, Held, Sound
  <1> QED BY <1>3, <1>4, <1>5, <1>6 DEF Next, Finished

\* It is an invariant of the specification.
LEMMA WorkInvariant == Spec => []WorkInv
  BY WorkInvInitial, WorkInvStep, PTL DEF Spec

--------------------------------------------------------------------------------
(* The theorems.                                                           *)

\* The state keeps its shape: no permit is released more than twice, and neither
\* it nor the authority taken from it outlasts its deadline.
THEOREM WorkTypeCorrect == Spec => []TypeOK
  <1>1. WorkInv => TypeOK
    BY DEF WorkInv
  <1> QED BY <1>1, WorkInvariant, PTL

\* However calls are delayed, lost or repeated, no more invocations work at once
\* than the client's limit: each of them has a live permit.
THEOREM WorkIsLimited == Spec => []WorkWithinLimit
  <1>1. WorkInv => WorkWithinLimit
    <2> SUFFICES ASSUME WorkInv PROVE Cardinality(Working) <= Limit
      BY DEF WorkWithinLimit
    <2>1. ASSUME NEW w \in Works, work[w].acquire = "held", Active(work[w])
          PROVE  permit[w].expires > now
      <3>1. permit[w] # NoPermit /\ work[w].until <= permit[w].expires
        BY <2>1, OneWork DEF Active, Sound
      <3>2. /\ now \in Nat /\ work[w].until \in Nat /\ permit[w].expires \in Nat
            /\ now < work[w].until
        BY <2>1, OneWork DEF Active, WorkType, PermitType
      <3> QED BY <3>1, <3>2
    <2>2. Working \subseteq Held
      BY <2>1 DEF Working, Held
    <2>3. IsFiniteSet(Held)
      <3>1. Held \subseteq Works
        BY DEF Held
      <3> QED BY <3>1, Constants, FS_Subset
    <2>4. Cardinality(Working) <= Cardinality(Held) /\ IsFiniteSet(Working)
      BY <2>2, <2>3, FS_Subset
    <2>5. Cardinality(Held) \in Nat /\ Cardinality(Working) \in Nat
      BY <2>3, <2>4, FS_CardinalityType
    <2> QED BY <2>4, <2>5, Constants DEF WorkInv, Admitted
  <1> QED BY <1>1, WorkInvariant, PTL

\* Background refreshes never take more than their half of the limit.
THEOREM ForegroundKeepsItsReserve == Spec => []BackgroundLeavesRoom
  <1>1. WorkInv => BackgroundLeavesRoom
    BY DEF WorkInv, Admitted
  <1> QED BY <1>1, WorkInvariant, PTL

--------------------------------------------------------------------------------
(* Permits that are given back, as long as no call is lost.                *)

\* An invocation that has no permit on the way holds none, and one that has
\* closed holds none or is still to release it.
Returned(p, q) ==
    /\ q.acquire # "pause"
    /\ q.acquire \in {"none", "sent", "refused"} => p = NoPermit
    /\ q.stage = "closed" /\ q.acquire \in {"held", "failed"} /\ q.releases = 0
         => p = NoPermit

LeakInv ==
    faults = 0 => stray = {} /\ \A w \in Works : Returned(permit[w], work[w])

\* A step of one invocation and its row, by which no other gets a row.
LEMMA LeakStep ==
    ASSUME WorkInv, LeakInv, NEW w \in Works, NEW q,
           work' = [work EXCEPT ![w] = q], UNCHANGED <<stray, faults>>,
           \A v \in Works : v # w => permit'[v] = permit[v] \/ permit'[v] = NoPermit,
           Returned(permit[w], work[w]) => Returned(permit'[w], q)
    PROVE  LeakInv'
  <1> SUFFICES ASSUME faults = 0
               PROVE  stray = {} /\ \A v \in Works : Returned(permit'[v], work'[v])
    BY DEF LeakInv, Returned
  <1>1. stray = {} /\ \A v \in Works : Returned(permit[v], work[v])
    BY DEF LeakInv
  <1>2. \A v \in Works : work'[v] = IF v = w THEN q ELSE work[v]
    BY DEF WorkInv, TypeOK
  <1>3. ASSUME NEW v \in Works PROVE Returned(permit'[v], work'[v])
    <2>1. CASE v = w
      BY <1>1, <1>2, <2>1
    <2>2. CASE v # w
      <3>1. work'[v] = work[v] /\ (permit'[v] = permit[v] \/ permit'[v] = NoPermit)
        BY <1>2, <2>2
      <3> QED BY <1>1, <3>1 DEF Returned
    <2> QED BY <2>1, <2>2
  <1> QED BY <1>1, <1>3

\* A refused acquisition leaves the invocation without a row.
LEMMA RefusedHasNone ==
    ASSUME NEW w \in Works, Admit(w, FALSE), permit[w] = NoPermit, now \in Nat
    PROVE  permit'[w] = NoPermit
  <1>1. PICK D \in Drains :
          \/ Drained(D)[w] # NoPermit /\ permit' = Drained(D)
          \/ permit' = Drained(D)
          \/ FALSE = TRUE
    BY DEF Admit
  <1>2. Drained(D)[w] = NoPermit
    BY DEF Drained
  <1> QED BY <1>1, <1>2

LEMMA ServeAcquireReturns ==
    ASSUME WorkInv, LeakInv, NEW w \in Works, ServeAcquire(w)
    PROVE  LeakInv'
  <1>1. PICK granted \in BOOLEAN :
          /\ Admit(w, granted)
          /\ work' = [work EXCEPT ![w].acquire = IF granted THEN "granted" ELSE "refused"]
    BY DEF ServeAcquire
  <1>2. work[w].acquire = "sent" /\ UNCHANGED <<now, stray, faults>>
    BY DEF ServeAcquire
  <1> DEFINE q == [work[w] EXCEPT !.acquire = IF granted THEN "granted" ELSE "refused"]
  <1>3. work' = [work EXCEPT ![w] = q]
    BY <1>1 DEF WorkInv, TypeOK
  <1>4. q.acquire = IF granted THEN "granted" ELSE "refused"
    BY OneWork DEF WorkType
  <1> HIDE DEF q
  <1>5. \A v \in Works : v # w => permit'[v] = permit[v] \/ permit'[v] = NoPermit
    BY <1>1, <1>2, AdmitFacts
  <1>6. Returned(permit[w], work[w]) => Returned(permit'[w], q)
    <2>1. CASE granted
      BY <1>4, <2>1 DEF Returned
    <2>2. CASE ~granted
      <3>1. Admit(w, FALSE) /\ q.acquire = "refused"
        BY <1>1, <1>4, <2>2
      <3>2. Returned(permit[w], work[w]) => permit'[w] = NoPermit
        BY <1>2, <3>1, RefusedHasNone, OneWork DEF Returned
      <3> QED BY <3>1, <3>2 DEF Returned
    <2> QED BY <2>1, <2>2
  <1> QED BY <1>2, <1>3, <1>5, <1>6, LeakStep

LEMMA ServeRenewalReturns ==
    ASSUME WorkInv, LeakInv, NEW w \in Works, ServeRenewal(w)
    PROVE  LeakInv'
  <1>1. work[w].renewal = "sent" /\ UNCHANGED <<stray, faults>> /\ work[w].acquire = "held"
    BY OneWork DEF ServeRenewal, Sound
  <1>2. PICK a \in {"granted", "refused"} : work' = [work EXCEPT ![w].renewal = a]
    BY DEF ServeRenewal
  <1> DEFINE q == [work[w] EXCEPT !.renewal = a]
  <1>3. work' = [work EXCEPT ![w] = q]
    BY <1>2 DEF WorkInv, TypeOK
  <1>4. /\ q.acquire = work[w].acquire /\ q.stage = work[w].stage
        /\ q.releases = work[w].releases
    BY OneWork DEF WorkType
  <1> HIDE DEF q
  <1>5. \A v \in Works : v # w => permit'[v] = permit[v]
    BY DEF ServeRenewal, Renew, WorkInv, TypeOK
  <1>6. permit'[w] = permit[w] \/ permit[w] # NoPermit
    <2>1. permit' = permit \/ Renewable(w)
      BY DEF ServeRenewal
    <2> QED BY <2>1, OneWork DEF Renewable, NoPermit
  <1>7. Returned(permit[w], work[w]) => Returned(permit'[w], q)
    BY <1>1, <1>4, <1>6 DEF Returned
  <1> QED BY <1>1, <1>3, <1>5, <1>7, LeakStep

LEMMA ServeReleaseReturns ==
    ASSUME WorkInv, LeakInv, NEW w \in Works, ServeRelease(w)
    PROVE  LeakInv'
  <1> DEFINE q == [work[w] EXCEPT !.releases = @ - 1]
  <1>1. work' = [work EXCEPT ![w] = q] /\ UNCHANGED <<stray, faults>>
    BY DEF ServeRelease, WorkInv, TypeOK
  <1>2. permit'[w] = NoPermit /\ \A v \in Works : v # w => permit'[v] = permit[v]
    BY DEF ServeRelease, Remove, WorkInv, TypeOK
  <1>3. q.acquire = work[w].acquire
    BY OneWork DEF WorkType
  <1> HIDE DEF q
  <1>4. Returned(permit[w], work[w]) => Returned(permit'[w], q)
    BY <1>2, <1>3 DEF Returned
  <1> QED BY <1>1, <1>2, <1>4, LeakStep

\* An invocation that closed while its acquisition was on the way releases what
\* it may have got when the answer is there.
LEMMA AcquireAnsweredReturns ==
    ASSUME WorkInv, LeakInv, NEW w \in Works, AcquireAnswered(w)
    PROVE  LeakInv'
  <1>1. UNCHANGED <<permit, stray, faults>>
    BY DEF AcquireAnswered
  <1>2. PICK outcome \in {"held", "failed"} :
          work' = [work EXCEPT ![w] = Settled(work[w], outcome)]
    BY DEF AcquireAnswered, WorkInv, TypeOK
  <1> DEFINE q == Settled(work[w], outcome)
  <1>3. /\ q.acquire = outcome /\ q.stage = work[w].stage
        /\ q.releases = work[w].releases + IF work[w].stage = "closed" THEN 1 ELSE 0
    BY OneWork DEF WorkType, Settled
  <1>q. work' = [work EXCEPT ![w] = q]
    BY <1>2
  <1>4. work[w].releases \in Nat
    BY OneWork DEF WorkType
  <1> HIDE DEF q
  <1>5. q.stage = "closed" => q.releases # 0
    BY <1>3, <1>4
  <1>6. Returned(permit[w], work[w]) => Returned(permit'[w], q)
    BY <1>3, <1>5 DEF Returned
  <1> QED BY <1>1, <1>q, <1>6, LeakStep

\* Steps by which an invocation neither asks for a permit, nor is answered, nor
\* closes, nor releases.
LEMMA AsideReturns ==
    ASSUME WorkInv, LeakInv, NEW w \in Works,
           Expire(w) \/ Cancel(w) \/ SendRenewal(w) \/ RenewalAnswered(w)
    PROVE  LeakInv'
  <1>1. UNCHANGED <<permit, stray, faults>>
    BY DEF Expire, Cancel, SendRenewal, RenewalAnswered
  <1>2. PICK q : /\ work' = [work EXCEPT ![w] = q]
                 /\ q.acquire = work[w].acquire /\ q.stage = work[w].stage
                 /\ q.releases = work[w].releases
    <2>1. CASE Expire(w) \/ Cancel(w)
      <3> DEFINE q == Stopped(work[w])
      <3>1. work' = [work EXCEPT ![w] = q]
        BY <2>1 DEF Expire, Cancel, WorkInv, TypeOK
      <3>2. /\ q.acquire = work[w].acquire /\ q.stage = work[w].stage
            /\ q.releases = work[w].releases
        BY OneWork DEF Stopped, WorkType
      <3> QED BY <3>1, <3>2
    <2>2. CASE SendRenewal(w)
      <3> DEFINE q == [work[w] EXCEPT !.renewal = "sent", !.renewed = now]
      <3>1. work' = [work EXCEPT ![w] = q]
        BY <2>2 DEF SendRenewal, WorkInv, TypeOK
      <3>2. /\ q.acquire = work[w].acquire /\ q.stage = work[w].stage
            /\ q.releases = work[w].releases
        BY OneWork DEF WorkType
      <3> QED BY <3>1, <3>2
    <2>3. CASE RenewalAnswered(w)
      <3> DEFINE q == IF work[w].renewal = "granted" /\ Active(work[w])
                      THEN Extended(work[w], work[w].renewed) ELSE Unrenewed(work[w])
      <3>1. work' = [work EXCEPT ![w] = q]
        BY <2>3 DEF RenewalAnswered, WorkInv, TypeOK
      <3>2. /\ q.acquire = work[w].acquire /\ q.stage = work[w].stage
            /\ q.releases = work[w].releases
        BY OneWork DEF Extended, Unrenewed, Stopped, WorkType
      <3> QED BY <3>1, <3>2
    <2> QED BY <2>1, <2>2, <2>3
  <1>3. Returned(permit[w], work[w]) => Returned(permit'[w], q)
    BY <1>1, <1>2 DEF Returned
  <1> QED BY <1>1, <1>2, <1>3, LeakStep

LEMMA EnterReturns ==
    ASSUME WorkInv, LeakInv, NEW w \in Works, Enter(w)
    PROVE  LeakInv'
  <1> DEFINE q == [work[w] EXCEPT !.acquire = "sent", !.until = now + Lease,
                                  !.deadline = now + Deadline]
  <1>1. work' = [work EXCEPT ![w] = q] /\ UNCHANGED <<permit, stray, faults>>
    BY DEF Enter, WorkInv, TypeOK
  <1>2. q.acquire = "sent" /\ work[w].acquire = "none"
    BY OneWork DEF Enter, WorkType
  <1> HIDE DEF q
  <1>3. Returned(permit[w], work[w]) => Returned(permit'[w], q)
    BY <1>1, <1>2 DEF Returned
  <1> QED BY <1>1, <1>3, LeakStep

\* An invocation that closes releases whatever it ever asked for.
LEMMA CloseReturns ==
    ASSUME WorkInv, LeakInv, NEW w \in Works, Close(w)
    PROVE  LeakInv'
  <1> DEFINE q == [work[w] EXCEPT !.stage = "closed", !.stopped = TRUE,
                     !.releases = @ + IF work[w].acquire = "none" THEN 0 ELSE 1]
  <1>1. work' = [work EXCEPT ![w] = q] /\ UNCHANGED <<permit, stray, faults>>
    BY DEF Close, WorkInv, TypeOK
  <1>2. /\ q.acquire = work[w].acquire
        /\ q.releases = work[w].releases + IF work[w].acquire = "none" THEN 0 ELSE 1
    BY OneWork DEF WorkType
  <1>3. work[w].releases \in Nat
    BY OneWork DEF WorkType
  <1> HIDE DEF q
  <1>4. q.acquire \in {"held", "failed"} => q.releases # 0
    BY <1>2, <1>3
  <1>5. Returned(permit[w], work[w]) => Returned(permit'[w], q)
    BY <1>1, <1>2, <1>4 DEF Returned
  <1> QED BY <1>1, <1>5, LeakStep

LEMMA LeakInvStep == WorkInv /\ LeakInv /\ [Next]_vars => LeakInv'
  <1> SUFFICES ASSUME WorkInv, LeakInv, [Next]_vars PROVE LeakInv'
    OBVIOUS
  <1>1. ASSUME Fault PROVE LeakInv'
    <2>1. faults \in Nat /\ faults' = faults + 1
      BY <1>1 DEF Fault, WorkInv, TypeOK
    <2>2. faults' # 0
      BY <2>1
    <2> QED BY <2>2 DEF LeakInv
  <1>2. ASSUME NEW w \in Works, Invocation(w) PROVE LeakInv'
    <2>1. CASE AcquireLost(w) \/ RenewalLost(w) \/ ReleaseLost(w)
      BY <1>1, <2>1 DEF AcquireLost, RenewalLost, ReleaseLost
    <2>2. CASE RetryAcquire(w)
      <3>1. faults # 0
        BY <2>2 DEF LeakInv, Returned, RetryAcquire
      <3> QED BY <2>2, <3>1 DEF RetryAcquire, LeakInv
    <2> QED BY <1>2, <2>1, <2>2, EnterReturns, AcquireAnsweredReturns, AsideReturns,
               CloseReturns DEF Invocation
  <1>3. ASSUME NEW w \in Works, Admission(w) PROVE LeakInv'
    <2>1. CASE ServeStray(w)
      <3>1. faults # 0
        BY <2>1 DEF LeakInv, ServeStray
      <3> QED BY <2>1, <3>1 DEF ServeStray, LeakInv
    <2> QED BY <1>3, <2>1, ServeAcquireReturns, ServeRenewalReturns, ServeReleaseReturns
        DEF Admission
  <1>4. CASE Tick \/ UNCHANGED vars
    BY <1>4 DEF Tick, vars, LeakInv, Returned
  <1> QED BY <1>2, <1>3, <1>4 DEF Next, Finished

\* As long as no call or answer is lost, an invocation that is over holds no
\* permit, whether it closed before, while or after its acquisition was served.
THEOREM PermitsComeBack == Spec => []NoPermitLeaks
  <1>1. Init => LeakInv
    BY DEF Init, LeakInv, Returned, NewWork
  <1>2. WorkInv /\ LeakInv => NoPermitLeaks
    BY DEF LeakInv, Returned, NoPermitLeaks
  <1> QED BY <1>1, <1>2, LeakInvStep, WorkInvariant, PTL DEF Spec

--------------------------------------------------------------------------------
(* The refinement.                                                         *)

\* Who works is counted.
LEMMA WorkingIsHeld == WorkInv => Working \subseteq Held
  <1> SUFFICES ASSUME WorkInv PROVE Working \subseteq Held
    OBVIOUS
  <1>1. ASSUME NEW w \in Works, work[w].acquire = "held", Active(work[w])
        PROVE  permit[w].expires > now
    <2>1. permit[w] # NoPermit /\ work[w].until <= permit[w].expires
      BY <1>1, OneWork DEF Active, Sound
    <2>2. /\ now \in Nat /\ work[w].until \in Nat /\ permit[w].expires \in Nat
          /\ now < work[w].until
      BY <1>1, OneWork DEF Active, WorkType, PermitType
    <2> QED BY <2>1, <2>2
  <1> QED BY <1>1 DEF Working, Held

\* A step after which nobody is counted who was not, and every invocation is
\* where it was or over.
LEMMA Leaves ==
    ASSUME WorkInv', Held' \subseteq Held,
           \A w \in Works : Phase(w)' = Phase(w) \/ Phase(w)' = "over"
    PROVE  Pool!Next
  <1> DEFINE gone == Held \ Held'
             ended == {w \in Works : Phase(w)' = "over"}
  <1>1. gone \in SUBSET Works /\ ended \in SUBSET Works
    BY DEF Held
  <1>2. Held' = Held \ gone
    OBVIOUS
  <1>3. ASSUME NEW w \in gone, Phase(w) = "working" PROVE w \in ended
    <2>1. (Working \subseteq Held)'
      BY WorkingIsHeld, PTL
    <2>2. w \in Works /\ w \notin Working'
      BY <2>1 DEF Held
    <2>3. Phase(w)' # "working"
      BY <2>2 DEF Phase
    <2> QED BY <1>3, <2>2, <2>3
  <1>4. \A w \in Works : Phase(w)' = IF w \in ended THEN "over" ELSE Phase(w)
    OBVIOUS
  <1>5. Pool!Leave(gone, ended)
    BY <1>1, <1>2, <1>3, <1>4 DEF Pool!Leave
  <1> QED BY <1>1, <1>5 DEF Pool!Next

\* Where an invocation is follows from its record and the time.
PhaseOf(q, t) ==
    IF q.acquire = "held" /\ ~q.stopped /\ t < q.until THEN "working"
    ELSE IF q.acquire \in {"held", "failed"} THEN "over" ELSE "idle"

LEMMA PhaseIsOf ==
    ASSUME NEW w \in Works
    PROVE  /\ Phase(w) = PhaseOf(work[w], now)
           /\ Phase(w)' = PhaseOf(work'[w], now')
  BY DEF Phase, Working, Active, PhaseOf

\* A step of one invocation by which it starts nothing.
LEMMA OneLeaves ==
    ASSUME WorkInv, WorkInv', NEW w \in Works, NEW q,
           work' = [work EXCEPT ![w] = q], now' = now, Held' \subseteq Held,
           PhaseOf(q, now) = PhaseOf(work[w], now) \/ PhaseOf(q, now) = "over"
    PROVE  Pool!Next
  <1>1. \A v \in Works : work'[v] = IF v = w THEN q ELSE work[v]
    BY DEF WorkInv, TypeOK
  <1>2. \A v \in Works : Phase(v)' = Phase(v) \/ Phase(v)' = "over"
    BY <1>1, PhaseIsOf
  <1> QED BY <1>2, Leaves

\* An admission counts at most the one it was asked for, while there is room.
LEMMA AdmitCounts ==
    ASSUME WorkInv, NEW w \in Works, NEW granted \in BOOLEAN, Admit(w, granted),
           now' = now
    PROVE  \/ Held' \subseteq Held
           \/ /\ w \notin Held /\ Cardinality(Held) < LimitOf(w)
              /\ Held' = Held \cup {w}
  <1>t. now \in Nat /\ permit \in [Works -> PermitType]
    BY DEF WorkInv, TypeOK
  <1>l. Lent \in PermitType /\ Lent.expires > now
    BY <1>t, Constants DEF Lent, PermitType
  <1>1. PICK D \in Drains :
          \/ permit' = Drained(D)
          \/ /\ Drained(D)[w] = NoPermit
             /\ ~(Cardinality(Held) >= LimitOf(w))
             /\ permit' = [Drained(D) EXCEPT ![w] = Lent]
    BY DEF Admit, Lent
  <1>2. \A v \in D : permit[v].expires <= now
    BY DEF Drains, Expired
  <1>3. \A v \in Works : Drained(D)[v].expires > now <=> permit[v].expires > now
    BY <1>t, <1>2 DEF Drained, NoPermit, PermitType
  <1>4. CASE permit' = Drained(D)
    BY <1>3, <1>4 DEF Held
  <1>5. CASE /\ Drained(D)[w] = NoPermit
             /\ ~(Cardinality(Held) >= LimitOf(w))
             /\ permit' = [Drained(D) EXCEPT ![w] = Lent]
    <2>1. \A v \in Works : permit'[v] = IF v = w THEN Lent ELSE Drained(D)[v]
      BY <1>5 DEF Drained
    <2>2. Held' = Held \cup {w}
      BY <1>l, <1>3, <2>1 DEF Held
    <2>3. w \notin Held
      <3>1. ~(Drained(D)[w].expires > now)
        BY <1>t, <1>5 DEF NoPermit
      <3> QED BY <1>3, <3>1 DEF Held
    <2>4. Cardinality(Held) < LimitOf(w)
      <3>1. Held \subseteq Works
        BY DEF Held
      <3>2. Cardinality(Held) \in Nat /\ LimitOf(w) \in Nat
        BY <3>1, Constants, FS_Subset, FS_CardinalityType DEF LimitOf
      <3> QED BY <1>5, <3>2
    <2> QED BY <2>2, <2>3, <2>4
  <1> QED BY <1>1, <1>4, <1>5

LEMMA Counts ==
    ASSUME WorkInv', NEW w \in Works, \A v \in Works : Phase(v)' = Phase(v),
           \/ Held' \subseteq Held
           \/ /\ w \notin Held /\ Cardinality(Held) < LimitOf(w)
              /\ Held' = Held \cup {w}
    PROVE  Pool!Next
  <1>1. CASE Held' \subseteq Held
    BY <1>1, Leaves
  <1>2. CASE ~(Held' \subseteq Held)
    <2>1. UNCHANGED [v \in Works |-> Phase(v)]
      OBVIOUS
    <2>2. /\ w \notin Held /\ Cardinality(Held) < LimitOf(w)
          /\ Held' = Held \cup {w}
      BY <1>2
    <2>3. Pool!Cardinality(Held) = Cardinality(Held)
      BY DEF Pool!Cardinality, Cardinality
    <2>4. Pool!Count(w)
      BY <2>1, <2>2, <2>3 DEF Pool!Count, Pool!Room, LimitOf
    <2> QED BY <2>4 DEF Pool!Next
  <1> QED BY <1>1, <1>2

\* An invocation that is given authority starts; it is counted, as its row is live.
LEMMA AnswerStarts ==
    ASSUME WorkInv, WorkInv', NEW w \in Works, AcquireAnswered(w)
    PROVE  Pool!Next
  <1> DEFINE q == IF work[w].acquire = "granted" /\ Active(work[w])
                  THEN Settled(work[w], "held") ELSE Settled(work[w], "failed")
  <1>1. work' = [work EXCEPT ![w] = q] /\ UNCHANGED <<now, permit>>
    BY DEF AcquireAnswered, WorkInv, TypeOK
  <1>2. work[w].acquire \in {"granted", "refused"} /\ q.acquire \in {"held", "failed"}
    BY OneWork DEF AcquireAnswered, Settled, WorkType
  <1>3. PhaseOf(work[w], now) = "idle" /\ PhaseOf(q, now) \in {"working", "over"}
    BY <1>2 DEF PhaseOf
  <1> HIDE DEF q
  <1>4. Held' = Held
    BY <1>1 DEF Held
  <1>5. CASE PhaseOf(q, now) = "over"
    BY <1>1, <1>4, <1>5, OneLeaves
  <1>6. CASE PhaseOf(q, now) = "working"
    <2>1. \A v \in Works : work'[v] = IF v = w THEN q ELSE work[v]
      BY <1>1 DEF WorkInv, TypeOK
    <2>2. /\ Phase(w) = "idle"
          /\ \A v \in Works : Phase(v)' = IF v = w THEN "working" ELSE Phase(v)
      BY <1>1, <1>3, <1>6, <2>1, PhaseIsOf
    <2>3. (Working \subseteq Held)'
      BY WorkingIsHeld, PTL
    <2>4. w \in Held
      BY <1>4, <2>2, <2>3 DEF Phase
    <2>5. Pool!Start(w)
      BY <1>4, <2>2, <2>4 DEF Pool!Start
    <2> QED BY <2>5 DEF Pool!Next
  <1> QED BY <1>3, <1>5, <1>6

\* Steps of an invocation that is given nothing.
LEMMA InvocationLeaves ==
    ASSUME WorkInv, WorkInv', NEW w \in Works, Invocation(w), ~AcquireAnswered(w)
    PROVE  Pool!Next
  <1>1. UNCHANGED <<now, permit>> /\ Held' \subseteq Held
    BY DEF Invocation, Enter, AcquireLost, RetryAcquire, Expire, Cancel, SendRenewal,
           RenewalAnswered, RenewalLost, Close, ReleaseLost, Held
  <1>w. work[w] \in WorkType /\ Sound(w, permit[w], work[w]) /\ work \in [Works -> WorkType]
    BY OneWork DEF WorkInv, TypeOK
  <1>2. PICK q : /\ work' = [work EXCEPT ![w] = q]
                 /\ \/ PhaseOf(q, now) = PhaseOf(work[w], now)
                    \/ PhaseOf(q, now) = "over"
    <2>1. CASE Enter(w) \/ AcquireLost(w) \/ RetryAcquire(w)
      <3> DEFINE q == work'[w]
      <3>1. work' = [work EXCEPT ![w] = q]
        BY <1>w, <2>1 DEF Enter, AcquireLost, RetryAcquire
      <3>2. work[w].acquire \notin {"held", "failed"} /\ q.acquire # "held"
        <4>1. CASE Enter(w)
          BY <1>w, <4>1 DEF Enter, WorkType
        <4>2. CASE AcquireLost(w)
          <5>1. work[w].acquire \in {"sent", "granted", "refused"}
            BY <4>2 DEF AcquireLost
          <5>2. \/ q = Settled(work[w], "failed")
                \/ q = [work[w] EXCEPT !.acquire = "pause", !.retried = TRUE]
            BY <1>w, <4>2 DEF AcquireLost
          <5>3. q.acquire \in {"failed", "pause"}
            BY <1>w, <5>2 DEF Settled, WorkType
          <5> QED BY <5>1, <5>3
        <4>3. CASE RetryAcquire(w)
          <5>1. work[w].acquire = "pause"
            BY <4>3 DEF RetryAcquire
          <5>2. \/ q = Settled(work[w], "failed")
                \/ q = [work[w] EXCEPT !.acquire = "sent"]
            BY <1>w, <4>3 DEF RetryAcquire
          <5>3. q.acquire \in {"failed", "sent"}
            BY <1>w, <5>2 DEF Settled, WorkType
          <5> QED BY <5>1, <5>3
        <4> QED BY <2>1, <4>1, <4>2, <4>3
      <3>3. PhaseOf(q, now) = PhaseOf(work[w], now) \/ PhaseOf(q, now) = "over"
        BY <3>2 DEF PhaseOf
      <3> QED BY <3>1, <3>3
    <2>2. CASE Expire(w) \/ Cancel(w) \/ Close(w)
      <3> DEFINE q == work'[w]
      <3>1. work' = [work EXCEPT ![w] = q]
        BY <1>w, <2>2 DEF Expire, Cancel, Close
      <3>2. q.stopped /\ q.acquire = work[w].acquire
        BY <1>w, <2>2 DEF Expire, Cancel, Close, Stopped, WorkType
      <3>3. PhaseOf(q, now) = PhaseOf(work[w], now) \/ PhaseOf(q, now) = "over"
        BY <3>2 DEF PhaseOf
      <3> QED BY <3>1, <3>3
    <2>3. CASE SendRenewal(w) \/ ReleaseLost(w)
      <3> DEFINE q == work'[w]
      <3>1. work' = [work EXCEPT ![w] = q]
        BY <1>w, <2>3 DEF SendRenewal, ReleaseLost
      <3>2. /\ q.stopped = work[w].stopped /\ q.acquire = work[w].acquire
            /\ q.until = work[w].until
        BY <1>w, <2>3 DEF SendRenewal, ReleaseLost, WorkType
      <3>3. PhaseOf(q, now) = PhaseOf(work[w], now)
        BY <3>2 DEF PhaseOf
      <3> QED BY <3>1, <3>3
    <2>4. CASE RenewalAnswered(w) \/ RenewalLost(w)
      <3> DEFINE q == work'[w]
      <3>1. work' = [work EXCEPT ![w] = q]
        BY <1>w, <2>4 DEF RenewalAnswered, RenewalLost
      <3>2. work[w].acquire = "held"
        BY <1>w, <2>4 DEF RenewalAnswered, RenewalLost, Sound
      <3>3. q.acquire = "held" /\ (q.stopped \/ Active(work[w]))
        BY <1>w, <2>4, <3>2 DEF RenewalAnswered, RenewalLost, Extended, Unrenewed,
           Stopped, WorkType
      <3>4. PhaseOf(q, now) = PhaseOf(work[w], now) \/ PhaseOf(q, now) = "over"
        BY <3>2, <3>3 DEF PhaseOf, Active
      <3> QED BY <3>1, <3>4
    <2> QED BY <2>1, <2>2, <2>3, <2>4 DEF Invocation
  <1> QED BY <1>1, <1>2, OneLeaves

\* Steps of the object.
LEMMA AdmissionCounts ==
    ASSUME WorkInv, WorkInv', NEW w \in Works, Admission(w)
    PROVE  Pool!Next
  <1>t. /\ now \in Nat /\ permit \in [Works -> PermitType]
        /\ work \in [Works -> WorkType] /\ now' = now
    BY DEF WorkInv, TypeOK, Admission, ServeAcquire, ServeStray, ServeRenewal, ServeRelease
  <1>1. ASSUME NEW q, work' = [work EXCEPT ![w] = q],
               PhaseOf(q, now) = PhaseOf(work[w], now)
        PROVE  \A v \in Works : Phase(v)' = Phase(v)
    <2>1. \A v \in Works : work'[v] = IF v = w THEN q ELSE work[v]
      BY <1>t, <1>1
    <2> QED BY <1>t, <1>1, <2>1, PhaseIsOf
  <1>2. CASE ServeAcquire(w)
    <2>1. PICK granted \in BOOLEAN :
            /\ Admit(w, granted)
            /\ work' = [work EXCEPT ![w].acquire = IF granted THEN "granted" ELSE "refused"]
      BY <1>2 DEF ServeAcquire
    <2> DEFINE q == [work[w] EXCEPT !.acquire = IF granted THEN "granted" ELSE "refused"]
    <2>2. work' = [work EXCEPT ![w] = q]
      BY <1>t, <2>1
    <2>3. q.acquire \in {"granted", "refused"} /\ work[w].acquire = "sent"
      BY <1>t, <1>2 DEF ServeAcquire, WorkType
    <2>4. PhaseOf(q, now) = PhaseOf(work[w], now)
      BY <2>3 DEF PhaseOf
    <2> HIDE DEF q
    <2>5. \A v \in Works : Phase(v)' = Phase(v)
      BY <1>1, <2>2, <2>4
    <2> QED BY <1>t, <2>1, <2>5, AdmitCounts, Counts
  <1>3. CASE ServeStray(w)
    <2>1. PICK granted \in BOOLEAN : Admit(w, granted)
      BY <1>3 DEF ServeStray
    <2>2. \A v \in Works : Phase(v)' = Phase(v)
      BY <1>t, <1>3, PhaseIsOf DEF ServeStray
    <2> QED BY <1>t, <2>1, <2>2, AdmitCounts, Counts
  <1>4. CASE ServeRenewal(w)
    <2>1. PICK q : work' = [work EXCEPT ![w] = q] /\ PhaseOf(q, now) = PhaseOf(work[w], now)
      <3> DEFINE q == work'[w]
      <3>1. work' = [work EXCEPT ![w] = q]
        BY <1>t, <1>4 DEF ServeRenewal
      <3>2. /\ q.stopped = work[w].stopped /\ q.acquire = work[w].acquire
            /\ q.until = work[w].until
        BY <1>t, <1>4 DEF ServeRenewal, WorkType
      <3> QED BY <3>1, <3>2 DEF PhaseOf
    <2>2. Held' \subseteq Held
      <3>1. CASE UNCHANGED permit
        BY <1>t, <3>1 DEF Held
      <3>2. CASE Renewable(w) /\ Renew(w)
        <4>1. \A v \in Works : v # w => permit'[v] = permit[v]
          BY <1>t, <3>2 DEF Renew
        <4> QED BY <1>t, <3>2, <4>1 DEF Renewable, Held
      <3> QED BY <1>4, <3>1, <3>2 DEF ServeRenewal
    <2> QED BY <1>1, <2>1, <2>2, Leaves
  <1>5. CASE ServeRelease(w)
    <2>1. PICK q : work' = [work EXCEPT ![w] = q] /\ PhaseOf(q, now) = PhaseOf(work[w], now)
      <3> DEFINE q == work'[w]
      <3>1. work' = [work EXCEPT ![w] = q]
        BY <1>t, <1>5 DEF ServeRelease
      <3>2. /\ q.stopped = work[w].stopped /\ q.acquire = work[w].acquire
            /\ q.until = work[w].until
        BY <1>t, <1>5 DEF ServeRelease, WorkType
      <3> QED BY <3>1, <3>2 DEF PhaseOf
    <2>2. Held' \subseteq Held
      <3>1. \A v \in Works : permit'[v] = permit[v] \/ permit'[v] = NoPermit
        BY <1>t, <1>5 DEF ServeRelease, Remove
      <3> QED BY <1>t, <3>1 DEF Held, NoPermit
    <2> QED BY <1>1, <2>1, <2>2, Leaves
  <1> QED BY <1>2, <1>3, <1>4, <1>5 DEF Admission

\* When time passes, permits and authority only end.
LEMMA TickLeaves ==
    ASSUME WorkInv, WorkInv', Tick
    PROVE  Pool!Next
  <1>1. now \in Nat /\ now' = now + 1 /\ UNCHANGED <<permit, work>>
    BY DEF Tick, WorkInv, TypeOK
  <1>2. Held' \subseteq Held
    BY <1>1 DEF Held, WorkInv, TypeOK, PermitType
  <1>3. ASSUME NEW w \in Works PROVE Phase(w)' = Phase(w) \/ Phase(w)' = "over"
    <2>1. work[w].until \in Nat
      BY OneWork DEF WorkType
    <2>2. now + 1 < work[w].until => now < work[w].until
      BY <1>1, <2>1
    <2>3. PhaseOf(work[w], now + 1) \in {PhaseOf(work[w], now), "over"}
      BY <2>2 DEF PhaseOf
    <2> QED BY <1>1, <2>3, PhaseIsOf
  <1> QED BY <1>2, <1>3, Leaves

\* Admission implements the pool: an invocation begins to work only while it is
\* counted within its limit, is counted for as long as it works, and works once,
\* for any number of invocations and of lost and late calls.
THEOREM AdmissionImplementsPool == Spec => ImplementsPool
  <1>1. Init => Pool!Init
    BY DEF Init, NewWork, NoPermit, Held, Working, Phase, Pool!Init
  <1>2. WorkInv /\ WorkInv' /\ [Next]_vars => [Pool!Next]_(Pool!vars)
    <2> SUFFICES ASSUME WorkInv, WorkInv', [Next]_vars
                 PROVE  Pool!Next \/ UNCHANGED Pool!vars
      OBVIOUS
    <2>1. ASSUME NEW w \in Works, Invocation(w) PROVE Pool!Next
      BY <2>1, AnswerStarts, InvocationLeaves
    <2>2. ASSUME NEW w \in Works, Admission(w) PROVE Pool!Next
      BY <2>2, AdmissionCounts
    <2>3. CASE UNCHANGED vars
      BY <2>3 DEF vars, Pool!vars, Held, Phase, Working, Active
    <2> QED BY <2>1, <2>2, <2>3, TickLeaves DEF Next, Finished
  <1> QED BY <1>1, <1>2, WorkInvariant, PTL DEF Spec, ImplementsPool, Pool!Spec
================================================================================
