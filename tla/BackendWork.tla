------------------------------ MODULE BackendWork ------------------------------
(***************************************************************************)
(* Admission of backend work: how many relay invocations of one client may *)
(* work on the backend at once.                                            *)
(*                                                                         *)
(* The BackendAdmission Durable Object keeps a permit for each invocation  *)
(* in durable SQL.  An invocation (the BackendWork class) asks for one     *)
(* before its first backend operation, renews it on a timer, measures its  *)
(* own authority from the START of each call, and releases it when the     *)
(* handler settles.  A call may be served and its answer lost; an          *)
(* acquisition whose answer was lost may also be served later.             *)
(*                                                                         *)
(* The worker and the object read one clock, "now"; a permit whose expiry  *)
(* has come is no longer live for either.  MaxTime and MaxFaults bound the *)
(* behaviours.                                                             *)
(***************************************************************************)
EXTENDS Naturals, FiniteSets

CONSTANTS
    Works,       \* relay invocations of one client
    Background,  \* those that refresh a stale cache entry
    Limit,       \* permits a client may hold (CLIENT_BACKEND_CONCURRENCY)
    HalfLimit,   \* the limit a background refresh asks with
    Lease,       \* BACKEND_LEASE_MS
    Deadline,    \* BACKEND_DEADLINE_MS
    DrainBatch,  \* expired rows an acquisition deletes at most
    MaxTime,     \* bound: the last moment
    MaxFaults    \* bound: lost calls and answers

ASSUME WorksAssumption == IsFiniteSet(Works) /\ Background \subseteq Works
ASSUME LimitAssumption ==
    Limit \in Nat \ {0} /\ HalfLimit \in Nat /\ HalfLimit <= Limit
ASSUME TimesAssumption ==
    /\ Lease \in Nat \ {0} /\ Deadline \in Nat /\ Lease <= Deadline
    /\ DrainBatch \in Nat
ASSUME BoundsAssumption == MaxTime \in Nat /\ MaxFaults \in Nat

VARIABLES
    now,
    permit,   \* the object's row of each invocation; deadline 0: no row
    work,     \* the invocations
    stray,    \* invocations with an acquisition that may still be served
    faults

vars == <<now, permit, work, stray, faults>>

NoPermit == [expires |-> 0, deadline |-> 0]

\* acquire: "none" before the first enter(), then the course of the one call
\* (and its one retry) to "held" or "failed".  renewal: the call in flight.
NewWork ==
    [stage |-> "running", stopped |-> FALSE,
     acquire |-> "none", retried |-> FALSE,
     renewal |-> "none", renewed |-> 0,
     until |-> 0, deadline |-> 0, releases |-> 0]

Init ==
    /\ now = 0
    /\ permit = [w \in Works |-> NoPermit]
    /\ work = [w \in Works |-> NewWork]
    /\ stray = {} /\ faults = 0

--------------------------------------------------------------------------------
(* The Durable Object: every operation is one transaction of its SQL.      *)

LimitOf(w) == IF w \in Background THEN HalfLimit ELSE Limit

Held == {w \in Works : permit[w].expires > now}
Expired == {w \in Works : permit[w] # NoPermit /\ permit[w].expires <= now}

\* The oldest expired rows, as many as one acquisition deletes.
Drains ==
    {D \in SUBSET Expired :
        /\ Cardinality(D) <= DrainBatch
        /\ D = Expired \/ Cardinality(D) = DrainBatch
        /\ \A d \in D, e \in Expired \ D : permit[d].expires <= permit[e].expires}

Drained(D) == [w \in Works |-> IF w \in D THEN NoPermit ELSE permit[w]]

\* Mutant: the limit is compared with the count that includes the new permit.
AdmitOneMore(w, granted) ==
    \E D \in Drains :
        LET left == Drained(D) IN
        IF left[w] # NoPermit
        THEN granted = (left[w].expires > now) /\ permit' = left
        ELSE IF Cardinality(Held) > LimitOf(w)
        THEN granted = FALSE /\ permit' = left
        ELSE /\ granted = TRUE
             /\ permit' = [left EXCEPT ![w] = [expires |-> now + Lease,
                                               deadline |-> now + Deadline]]

\* BackendAdmission.acquire: a row that is there already answers for itself.
Admit(w, granted) ==
    \E D \in Drains :
        LET left == Drained(D) IN
        IF left[w] # NoPermit
        THEN granted = (left[w].expires > now) /\ permit' = left
        ELSE IF Cardinality(Held) >= LimitOf(w)
        THEN granted = FALSE /\ permit' = left
        ELSE /\ granted = TRUE
             /\ permit' = [left EXCEPT ![w] = [expires |-> now + Lease,
                                               deadline |-> now + Deadline]]

Earlier(a, b) == IF a <= b THEN a ELSE b
Later(a, b) == IF a <= b THEN b ELSE a

Renewable(w) == permit[w].expires > now /\ permit[w].deadline > now

Renew(w) ==
    permit' = [permit EXCEPT ![w].expires =
                 Earlier(permit[w].deadline, Later(@, now + Lease))]

Remove(w) == permit' = [permit EXCEPT ![w] = NoPermit]

--------------------------------------------------------------------------------
(* An invocation.                                                          *)

Fault == faults < MaxFaults /\ faults' = faults + 1

\* stop() aborts the signal and clears both timers.
Stopped(q) == [q EXCEPT !.stopped = TRUE]

\* check() stops work whose time has run out and throws for stopped work.
Active(q) == ~q.stopped /\ now < q.until

\* Mutant: an invocation that closed while it waited keeps its permit.
SettledKeeping(q, outcome) ==
    [q EXCEPT !.acquire = outcome, !.stopped = @ \/ outcome = "failed"]

\* The acquisition settles; when the invocation has closed meanwhile, the
\* permit it may have got is released.
Settled(q, outcome) ==
    [q EXCEPT !.acquire = outcome,
              !.stopped = @ \/ outcome = "failed",
              !.releases = @ + IF q.stage = "closed" THEN 1 ELSE 0]

\* A renewal settles: granted in time it extends the authority, or work stops.
Extended(q, from) ==
    [q EXCEPT !.renewal = "none", !.renewed = 0,
              !.until = Earlier(from + Lease, q.deadline)]

Unrenewed(q) == [Stopped(q) EXCEPT !.renewal = "none", !.renewed = 0]

\* The first enter() starts the acquisition and both clocks.
Enter(w) ==
    /\ work[w].stage = "running" /\ ~work[w].stopped
    /\ work[w].acquire = "none"
    /\ work' = [work EXCEPT ![w].acquire = "sent",
                            ![w].until = now + Lease,
                            ![w].deadline = now + Deadline]
    /\ UNCHANGED <<now, permit, stray, faults>>

ServeAcquire(w) ==
    /\ work[w].acquire = "sent"
    /\ \E granted \in BOOLEAN :
         /\ Admit(w, granted)
         /\ work' = [work EXCEPT ![w].acquire =
                       IF granted THEN "granted" ELSE "refused"]
    /\ UNCHANGED <<now, stray, faults>>

\* An acquisition given up for lost is served after all.
ServeStray(w) ==
    /\ w \in stray
    /\ stray' = stray \ {w}
    /\ \E granted \in BOOLEAN : Admit(w, granted)
    /\ UNCHANGED <<now, work, faults>>

\* The answer arrives: only a grant that is still in time gives authority.
AcquireAnswered(w) ==
    /\ work[w].acquire \in {"granted", "refused"}
    /\ work' = [work EXCEPT ![w] =
                  IF @.acquire = "granted" /\ Active(@)
                  THEN Settled(@, "held") ELSE Settled(@, "failed")]
    /\ UNCHANGED <<now, permit, stray, faults>>

\* The call throws, whether it was served, never is, or is served later.  The
\* first time the invocation pauses before it tries again with the same id.
AcquireLost(w) ==
    /\ work[w].acquire \in {"sent", "granted", "refused"}
    /\ Fault
    /\ stray' \in {stray} \cup IF work[w].acquire = "sent" THEN {stray \cup {w}} ELSE {}
    /\ work' = [work EXCEPT ![w] =
                  IF @.retried \/ ~Active(@) THEN Settled(@, "failed")
                  ELSE [@ EXCEPT !.acquire = "pause", !.retried = TRUE]]
    /\ UNCHANGED <<now, permit>>

RetryAcquire(w) ==
    /\ work[w].acquire = "pause"
    /\ work' = [work EXCEPT ![w] =
                  IF Active(@) THEN [@ EXCEPT !.acquire = "sent"]
                  ELSE Settled(@, "failed")]
    /\ UNCHANGED <<now, permit, stray, faults>>

\* The expiry timer, or a check that finds the time has run out.
Expire(w) ==
    /\ work[w].stage = "running" /\ ~work[w].stopped
    /\ work[w].acquire # "none" /\ now >= work[w].until
    /\ work' = [work EXCEPT ![w] = Stopped(@)]
    /\ UNCHANGED <<now, permit, stray, faults>>

\* The caller's signal aborts, or an operation cancels all of the work.
Cancel(w) ==
    /\ work[w].stage = "running" /\ ~work[w].stopped
    /\ work' = [work EXCEPT ![w] = Stopped(@)]
    /\ UNCHANGED <<now, permit, stray, faults>>

SendRenewal(w) ==
    /\ work[w].acquire = "held" /\ work[w].renewal = "none"
    /\ Active(work[w])
    /\ work' = [work EXCEPT ![w].renewal = "sent", ![w].renewed = now]
    /\ UNCHANGED <<now, permit, stray, faults>>

ServeRenewal(w) ==
    /\ work[w].renewal = "sent"
    /\ \/ /\ Renewable(w)
          /\ Renew(w)
          /\ work' = [work EXCEPT ![w].renewal = "granted"]
       \/ /\ ~Renewable(w)
          /\ work' = [work EXCEPT ![w].renewal = "refused"]
          /\ UNCHANGED permit
    /\ UNCHANGED <<now, stray, faults>>

\* Mutant: the new lease is counted from the answer.
RenewalAnsweredLate(w) ==
    /\ work[w].renewal \in {"granted", "refused"}
    /\ work' = [work EXCEPT ![w] =
                  IF @.renewal = "granted" /\ Active(@)
                  THEN Extended(@, now) ELSE Unrenewed(@)]
    /\ UNCHANGED <<now, permit, stray, faults>>

\* The new lease counts from the start of the call.
RenewalAnswered(w) ==
    /\ work[w].renewal \in {"granted", "refused"}
    /\ work' = [work EXCEPT ![w] =
                  IF @.renewal = "granted" /\ Active(@)
                  THEN Extended(@, @.renewed) ELSE Unrenewed(@)]
    /\ UNCHANGED <<now, permit, stray, faults>>

RenewalLost(w) ==
    /\ work[w].renewal \in {"sent", "granted", "refused"}
    /\ Fault
    /\ work' = [work EXCEPT ![w] = Unrenewed(@)]
    /\ UNCHANGED <<now, permit, stray>>

\* The handler settles, or the signal wins the race against it; whatever the
\* invocation ever asked for is released.
Close(w) ==
    /\ work[w].stage = "running"
    /\ work[w].stopped \/ work[w].acquire \in {"none", "held"}
    /\ work' = [work EXCEPT ![w].stage = "closed", ![w].stopped = TRUE,
                            ![w].releases = @ + IF work[w].acquire = "none"
                                                THEN 0 ELSE 1]
    /\ UNCHANGED <<now, permit, stray, faults>>

ServeRelease(w) ==
    /\ work[w].releases > 0
    /\ Remove(w)
    /\ work' = [work EXCEPT ![w].releases = @ - 1]
    /\ UNCHANGED <<now, stray, faults>>

\* A release is tried once; expiry cleans up after one that is lost.
ReleaseLost(w) ==
    /\ work[w].releases > 0
    /\ Fault
    /\ work' = [work EXCEPT ![w].releases = @ - 1]
    /\ UNCHANGED <<now, permit, stray>>

Tick ==
    /\ now < MaxTime
    /\ now' = now + 1
    /\ UNCHANGED <<permit, work, stray, faults>>

\* Every invocation has settled and released, and time stands at its bound.
Finished ==
    /\ now = MaxTime
    /\ \A w \in Works : work[w].stage = "closed" /\ work[w].releases = 0
    /\ UNCHANGED vars

Invocation(w) ==
    \/ Enter(w) \/ AcquireAnswered(w) \/ AcquireLost(w) \/ RetryAcquire(w)
    \/ Expire(w) \/ Cancel(w)
    \/ SendRenewal(w) \/ RenewalAnswered(w) \/ RenewalLost(w)
    \/ Close(w) \/ ReleaseLost(w)

Admission(w) ==
    \/ ServeAcquire(w) \/ ServeStray(w) \/ ServeRenewal(w) \/ ServeRelease(w)

Next == (\E w \in Works : Invocation(w) \/ Admission(w)) \/ Tick \/ Finished

Spec == Init /\ [][Next]_vars

--------------------------------------------------------------------------------
(* Properties.                                                             *)

PermitType == [expires : Nat, deadline : Nat]

WorkType ==
    [stage : {"running", "closed"}, stopped : BOOLEAN,
     acquire : {"none", "sent", "granted", "refused", "pause", "held", "failed"},
     retried : BOOLEAN,
     renewal : {"none", "sent", "granted", "refused"}, renewed : Nat,
     until : Nat, deadline : Nat, releases : 0..2]

\* The shape of the state; no invocation releases its permit more than twice,
\* and neither a permit nor the authority taken from it outlasts its deadline.
TypeOK ==
    /\ now \in Nat
    /\ permit \in [Works -> PermitType]
    /\ work \in [Works -> WorkType]
    /\ \A w \in Works : /\ permit[w].expires <= permit[w].deadline
                       /\ work[w].until <= work[w].deadline
    /\ stray \subseteq Works
    /\ faults \in Nat

\* The invocations that may start a backend operation now.
Working == {w \in Works : work[w].acquire = "held" /\ Active(work[w])}

\* However calls are delayed, lost or repeated, no more invocations of a client
\* work at once than its limit: an invocation's own idea of its lease never
\* outlasts the row the object counts.
WorkWithinLimit == Cardinality(Working) <= Limit

\* Background refreshes never take the part of the limit that is kept for
\* foreground relays.
BackgroundLeavesRoom == Cardinality(Held \cap Background) <= HalfLimit

\* As long as no call was lost, an invocation that has closed and has nothing
\* under way holds no permit, even when it closed before its acquisition was
\* answered.
NoPermitLeaks ==
    \A w \in Works :
        /\ faults = 0 /\ work[w].stage = "closed" /\ work[w].releases = 0
        /\ work[w].acquire \in {"none", "held", "failed"}
        => permit[w] = NoPermit

--------------------------------------------------------------------------------
(* The admission implements PermitPool: the live rows are those counted, and *)
(* an invocation is over when it got no authority or has none any more.    *)

Phase(w) ==
    IF w \in Working THEN "working"
    ELSE IF work[w].acquire \in {"held", "failed"} THEN "over" ELSE "idle"

Pool ==
    INSTANCE PermitPool
      WITH counted <- Held, phase <- [w \in Works |-> Phase(w)]

\* Every behaviour of the admission is one of the pool: an invocation works only
\* while its row is counted, however calls are delayed, lost or served late, and
\* once its authority has lapsed no late answer brings it back.
ImplementsPool == Pool!Spec
================================================================================
