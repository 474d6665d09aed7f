--------------------------- MODULE IdentitySelection ---------------------------
(***************************************************************************)
(* The pool of identities: the coordinator's leases, rate states and       *)
(* cooldowns, and the relays that ask it for an identity, call GitHub with *)
(* it and report what GitHub said.                                         *)
(*                                                                         *)
(* A relay waits for the report of a failure before it asks again, and     *)
(* sends the report of a success in the background, so reports arrive late,*)
(* out of order or not at all.  The coordinator serves one call at a time. *)
(*                                                                         *)
(* A row that is absent is one that expired at 0: every read of a row      *)
(* compares its expiry with the clock.  Names, limits and reasons of the   *)
(* rows are left out.  Times are in ticks; MaxTime and MaxFaults bound the *)
(* behaviours.                                                             *)
(***************************************************************************)
EXTENDS Integers, FiniteSets

CONSTANTS
    Requests, Identities, Routes, Resources,
    ResourceOf,    \* the quota a route spends
    GraphQL,       \* the resource "graphql"
    Weight,        \* of an identity
    Nobody,
    FullQuota,     \* what an identity is assumed to have when nothing is known
    LeaseTtl,      \* 10 s
    CooldownTtl,   \* 120 s
    SecondaryTtl,  \* 60 s
    Pools,         \* what loadIdentities may answer for a route
    Refusals,      \* how GitHub may refuse a call that is within its quota
    RetryAfters,   \* what a Retry-After header may amount to, 0 for none
    PruneLimit,    \* rows deleted by one selection
    Window,        \* length of a rate window of GitHub
    MaxTime,
    MaxFaults

Scopes == {"*"} \cup Resources \cup Routes

ASSUME NamesAssumption ==
    /\ ResourceOf \in [Routes -> Resources]
    /\ IsFiniteSet(Identities) /\ Weight \in [Identities -> Nat]
    /\ Nobody \notin Identities
    /\ Pools \subseteq SUBSET Identities
    /\ Refusals \subseteq {"unauthorized", "forbidden", "limited", "secondary"}
ASSUME TimesAssumption ==
    /\ {LeaseTtl, CooldownTtl, SecondaryTtl, Window} \subseteq Nat \ {0}
    /\ RetryAfters \subseteq Nat /\ 0 \in RetryAfters
    /\ FullQuota \in Nat /\ PruneLimit \in Nat
ASSUME BoundsAssumption == MaxTime \in Nat /\ MaxFaults \in Nat

VARIABLES
    now,
    lease,    \* per route: an identity and when the lease ends
    rate,     \* per identity and resource: remaining calls until a reset
    cool,     \* per identity and scope: when the cooldown ends
    quota,    \* what GitHub counts
    req,
    faults,
    \* history: the rates and the cooldowns of every report that was recorded
    heardRates,
    heardCools

vars == <<now, lease, rate, cool, quota, req, faults, heardRates, heardCools>>

observed == <<rate, cool, heardRates, heardCools>>

NoLease == [id |-> Nobody, until |-> 0]
NoRate == [remaining |-> FullQuota, reset |-> 0]

\* What GitHub said: a class of statuses, the quota headers (reset is 0 when
\* they are missing) and Retry-After.
NoAnswer == [kind |-> "none", remaining |-> 0, reset |-> 0, retry |-> 0]

\* pool: identities configured for the route; failed: failedIdentityIds; used is
\* history: the identities whose credential the request has tried.
NewRequest ==
    [stage |-> "new", route |-> Nobody, pool |-> {}, failed |-> {},
     id |-> Nobody, seen |-> NoAnswer, used |-> {}]

Init ==
    /\ now = 1
    /\ lease = [t \in Routes |-> NoLease]
    /\ rate = [i \in Identities |-> [s \in Resources |-> NoRate]]
    /\ cool = [i \in Identities |-> [k \in Scopes |-> 0]]
    /\ quota = [i \in Identities |-> [s \in Resources |->
                  [remaining |-> FullQuota, reset |-> Window]]]
    /\ req = [c \in Requests |-> NewRequest]
    /\ faults = 0
    /\ heardRates = {} /\ heardCools = {}

--------------------------------------------------------------------------------
(* Selecting.                                                              *)

Larger(a, b) == IF a >= b THEN a ELSE b

Smaller(a, b) == IF a <= b THEN a ELSE b

\* Mutant: a cooldown of the whole identity is not looked up.
IsCoolingDownNarrowly(i, t) ==
    \E k \in {ResourceOf[t], t} : cool[i][k] > now

IsCoolingDown(i, t) ==
    \E k \in {"*", ResourceOf[t], t} : cool[i][k] > now

IsQuotaExhausted(i, s) == rate[i][s].reset > now /\ rate[i][s].remaining <= 0

Usable(i, t) == ~IsCoolingDown(i, t) /\ ~IsQuotaExhausted(i, ResourceOf[t])

Score(i, s) ==
    Weight[i] + IF rate[i][s].reset <= now THEN FullQuota ELSE rate[i][s].remaining

Leased(t, candidates) ==
    lease[t].until > now /\ lease[t].id \in candidates /\ Usable(lease[t].id, t)

\* DeleteExpiredLeases and DeleteExpiredCooldowns: the oldest expired rows.
Oldest(rows, until) ==
    LET expired == {x \in rows : until[x] \in 1..now}
    IN  {doomed \in SUBSET expired :
            /\ Cardinality(doomed) = Smaller(PruneLimit, Cardinality(expired))
            /\ \A x \in doomed, y \in expired \ doomed : until[x] <= until[y]}

Prune ==
    LET ends == [x \in Identities \X Scopes |-> cool[x[1]][x[2]]]
    IN  \E doomed \in Oldest(Identities \X Scopes, ends) :
            cool' = [i \in Identities |-> [k \in Scopes |->
                       IF <<i, k>> \in doomed THEN 0 ELSE cool[i][k]]]

PrunedLeases ==
    {[t \in Routes |-> IF t \in doomed THEN NoLease ELSE lease[t]] :
        doomed \in Oldest(Routes, [t \in Routes |-> lease[t].until])}

\* The identities that selectIdentity may answer: the leased one, or a usable one
\* of the highest score.
Choices(t, candidates) ==
    LET usable == {i \in candidates : Usable(i, t)}
        s == ResourceOf[t]
    IN  IF Leased(t, candidates) THEN {lease[t].id}
        ELSE {i \in usable : \A j \in usable : Score(j, s) <= Score(i, s)}

\* SelectIdentity, when it answers i: a new choice is leased.
Chosen(t, candidates, i) ==
    /\ i \in Choices(t, candidates)
    /\ \E leases \in PrunedLeases :
          lease' = IF Leased(t, candidates) THEN leases
                   ELSE [leases EXCEPT ![t] = [id |-> i, until |-> now + LeaseTtl]]
    /\ Prune

Unavailable(t, candidates) ==
    /\ Choices(t, candidates) = {}
    /\ lease' \in PrunedLeases
    /\ Prune

--------------------------------------------------------------------------------
(* Recording.                                                              *)

\* Mutant: the last report of a window wins.
MergedLatest(old, new) == IF new.reset >= old.reset THEN new ELSE old

\* UpsertRateState: a later window replaces, the same one keeps the minimum.
Merged(old, new) ==
    IF new.reset > old.reset THEN new
    ELSE IF new.reset = old.reset
    THEN [old EXCEPT !.remaining = Smaller(@, new.remaining)]
    ELSE old

\* ClassifyCooldown: the scope and the end of what a failed call costs.
Cooldown(t, o) ==
    LET wait == IF o.remaining = 0 /\ o.reset > 0 THEN o.reset - now ELSE 0
        after(ttl) == now + IF o.retry > 0 THEN o.retry ELSE ttl
    IN  IF o.kind = "unauthorized" THEN [scope |-> "*", until |-> after(CooldownTtl)]
        ELSE IF o.kind = "secondary"
        THEN [scope |-> "*",
              until |-> now + Larger(SecondaryTtl, IF o.retry > 0 THEN o.retry ELSE wait)]
        ELSE IF o.retry > 0 THEN [scope |-> "*", until |-> now + o.retry]
        ELSE IF o.kind = "limited"
        THEN [scope |-> ResourceOf[t], until |-> now + CooldownTtl]
        ELSE [scope |-> t, until |-> now + CooldownTtl]

Cools(t, o) ==
    \/ o.kind \in {"unauthorized", "forbidden", "limited", "secondary"}
    \/ ResourceOf[t] = GraphQL /\ o.retry > 0

\* Mutant: a report replaces the cooldown that is there.
CoolDownAnew(i, scope, until) == cool' = [cool EXCEPT ![i][scope] = until]

\* UpsertCooldown: only a later end replaces the one that is there.
CoolDown(i, scope, until) ==
    cool' = [cool EXCEPT ![i][scope] = Larger(@, until)]

CoolDownHeard(i, scope, until) ==
    /\ CoolDown(i, scope, until)
    /\ heardCools' = heardCools \cup {[id |-> i, scope |-> scope, until |-> until]}

Word(o) == [remaining |-> o.remaining, reset |-> o.reset]

HearRate(i, s, o) ==
    /\ rate' = [rate EXCEPT ![i][s] = Merged(@, Word(o))]
    /\ heardRates' = heardRates \cup
          {[id |-> i, resource |-> s, remaining |-> o.remaining, reset |-> o.reset]}

RecordRate(i, s, o) ==
    IF o.reset > 0 THEN HearRate(i, s, o) ELSE UNCHANGED <<rate, heardRates>>

\* RecordResult: the rate and the cooldown of a report, in one transaction.
RecordResult(i, t, o) ==
    LET penalty == Cooldown(t, o)
    IN  /\ RecordRate(i, ResourceOf[t], o)
        /\ IF Cools(t, o)
           THEN CoolDownHeard(i, penalty.scope, penalty.until)
           ELSE UNCHANGED <<cool, heardCools>>

\* Mutant: the rate of a report stays when its cooldown fails.
RolledBackHalfway(i, t, o) ==
    /\ rate' = IF o.reset = 0 THEN rate
               ELSE [rate EXCEPT ![i][ResourceOf[t]] = Merged(@, Word(o))]
    /\ UNCHANGED <<cool, heardRates, heardCools>>

\* The transaction fails: no half of the report is kept.
RolledBack(i, t, o) == UNCHANGED observed

--------------------------------------------------------------------------------
(* The relay.                                                              *)

Fault == faults < MaxFaults /\ faults' = faults + 1

End(c) == req' = [req EXCEPT ![c].stage = "done"]

\* Mutant: identities that failed this request are asked for again.
CandidatesForgetful(q) == q.pool

Candidates(q) == q.pool \ q.failed

\* CallIdentityPool with the identities loaded for the route.
Begin(c, t, pool) ==
    /\ req[c].stage = "new"
    /\ req' = [req EXCEPT ![c] =
                 [@ EXCEPT !.stage = "asking", !.route = t, !.pool = pool]]
    /\ UNCHANGED <<now, lease, quota, faults, observed>>

\* Mutant: a relay that is told that no identity is available asks again.
ToldUnavailablePolling(q) == q

ToldUnavailable(q) == [q EXCEPT !.stage = "unavailable"]

\* The coordinator answers; its answer may be lost.
Select(c) ==
    LET q == req[c]
    IN  /\ q.stage = "asking"
        /\ Candidates(q) # {}
        /\ \/ \E i \in Candidates(q) :
                 /\ Chosen(q.route, Candidates(q), i)
                 /\ \/ /\ req' = [req EXCEPT ![c] = [@ EXCEPT !.stage = "selected", !.id = i]]
                       /\ UNCHANGED faults
                    \/ End(c) /\ Fault
           \/ /\ Unavailable(q.route, Candidates(q))
              /\ req' = [req EXCEPT ![c] = ToldUnavailable(@)]
              /\ UNCHANGED faults
        /\ UNCHANGED <<now, rate, quota, heardRates, heardCools>>

\* Every identity has failed: the caller is sent to its own credentials.
Exhaust(c) ==
    /\ req[c].stage = "asking" /\ Candidates(req[c]) = {}
    /\ End(c)
    /\ UNCHANGED <<now, lease, quota, faults, observed>>

\* The token cannot be made.  The failure is recorded before the next choice;
\* when that call fails the request ends, whether it was recorded or not.
TokenFails(c) ==
    LET q == req[c]
        failed == [q EXCEPT !.stage = "asking", !.failed = @ \cup {q.id},
                            !.used = @ \cup {q.id}]
    IN  /\ q.stage = "selected"
        /\ \/ /\ CoolDownHeard(q.id, "*", now + CooldownTtl)
              /\ \/ req' = [req EXCEPT ![c] = failed] /\ UNCHANGED faults
                 \/ End(c) /\ Fault
           \/ End(c) /\ Fault /\ UNCHANGED <<cool, heardCools>>
        /\ UNCHANGED <<now, lease, quota, rate, heardRates>>

\* The request needs no call after all (a cache had the answer), or is cancelled,
\* or GitHub could not be reached: nothing is reported.
Abandon(c) ==
    /\ req[c].stage \in {"selected", "answered"}
    /\ End(c)
    /\ UNCHANGED <<now, lease, quota, faults, observed>>

\* What GitHub may say of a call when w is left of the quota.  An exhausted quota is
\* refused; a call that is let through may be refused for other reasons; headers may
\* be missing.
Answers(w) ==
    LET headers(left) == {[remaining |-> left, reset |-> w.reset],
                          [remaining |-> 0, reset |-> 0]}
        said(kinds, left) ==
            {[kind |-> k, remaining |-> h.remaining, reset |-> h.reset, retry |-> a] :
                k \in kinds, h \in headers(left), a \in RetryAfters}
    IN  IF w.remaining = 0 THEN said({"forbidden", "limited"}, 0)
        ELSE said({"ok"} \cup Refusals, w.remaining - 1)

Spent(w) == [w EXCEPT !.remaining = Larger(@ - 1, 0)]

\* GitHub answers, and a call that is let through spends one.
Call(c) ==
    LET q == req[c]
        s == ResourceOf[q.route]
    IN  /\ q.stage = "selected"
        /\ \E o \in Answers(quota[q.id][s]) :
              req' = [req EXCEPT ![c] =
                        [q EXCEPT !.stage = "answered", !.seen = o,
                                  !.used = @ \cup {q.id}]]
        /\ quota' = [quota EXCEPT ![q.id][s] = Spent(@)]
        /\ UNCHANGED <<now, lease, faults, observed>>

\* GithubResponseLocalFallbackReason: this answer does not serve the request.
\* An answer of kind "ok" has status 200, with which a GraphQL read is served
\* whatever its Retry-After.
FallsBack(t, o) ==
    \/ o.kind # "ok"
    \/ o.retry > 0 /\ ResourceOf[t] # GraphQL

\* Report a failure and wait until it is recorded, then try the next identity.
ReportFailure(c) ==
    LET q == req[c]
        failed == [q EXCEPT !.stage = "asking", !.failed = @ \cup {q.id},
                            !.seen = NoAnswer]
    IN  /\ q.stage = "answered" /\ FallsBack(q.route, q.seen)
        /\ \/ /\ RecordResult(q.id, q.route, q.seen)
              /\ \/ req' = [req EXCEPT ![c] = failed] /\ UNCHANGED faults
                 \/ End(c) /\ Fault
           \/ RolledBack(q.id, q.route, q.seen) /\ End(c) /\ Fault
        /\ UNCHANGED <<now, lease, quota>>

\* Serve the caller and report in the background.
Succeed(c) ==
    /\ req[c].stage = "answered" /\ ~FallsBack(req[c].route, req[c].seen)
    /\ req' = [req EXCEPT ![c].stage = "reporting"]
    /\ UNCHANGED <<now, lease, quota, faults, observed>>

\* The repository turns out not to be public: only the quota is reported.
Refuse(c) ==
    /\ req[c].stage = "answered"
    /\ req' = [req EXCEPT ![c] = [@ EXCEPT !.stage = "reporting",
                                           !.seen.kind = "ok", !.seen.retry = 0]]
    /\ UNCHANGED <<now, lease, quota, faults, observed>>

\* The background report arrives, or does not.
Deliver(c) ==
    LET q == req[c]
    IN  /\ q.stage = "reporting"
        /\ End(c)
        /\ \/ RecordResult(q.id, q.route, q.seen) /\ UNCHANGED faults
           \/ RolledBack(q.id, q.route, q.seen) /\ Fault
        /\ UNCHANGED <<now, lease, quota>>

--------------------------------------------------------------------------------
(* Outside.                                                                *)

\* Time passes, and GitHub begins a new window when the old one ends.
Tick ==
    /\ now < MaxTime
    /\ now' = now + 1
    /\ quota' = [i \in Identities |-> [s \in Resources |->
                   IF quota[i][s].reset > now + 1 THEN quota[i][s]
                   ELSE [remaining |-> FullQuota, reset |-> now + 1 + Window]]]
    /\ UNCHANGED <<lease, req, faults, observed>>

Ended(c) == req[c].stage \in {"done", "unavailable"}

Finished == (\A c \in Requests : Ended(c)) /\ UNCHANGED vars

Serve(c) ==
    \/ Select(c) \/ Exhaust(c)
    \/ TokenFails(c) \/ Abandon(c) \/ Call(c)
    \/ ReportFailure(c) \/ Succeed(c) \/ Refuse(c) \/ Deliver(c)

Next ==
    \/ \E c \in Requests, t \in Routes, pool \in Pools :
          Begin(c, t, pool)
    \/ \E c \in Requests : Serve(c)
    \/ Tick \/ Finished

Spec == Init /\ [][Next]_vars

\* A call to the coordinator or to GitHub ends, by an answer or a failure.
FairSpec == Spec /\ \A c \in Requests : WF_vars(Serve(c))

--------------------------------------------------------------------------------
(* Properties.                                                             *)

RateType == [remaining : Nat, reset : Nat]
AnswerType ==
    [kind : {"none", "ok", "unauthorized", "forbidden", "limited", "secondary"},
     remaining : Nat, reset : Nat, retry : Nat]
RequestType ==
    [stage : {"new", "asking", "selected", "answered", "reporting", "unavailable", "done"},
     route : Routes \cup {Nobody}, pool : SUBSET Identities,
     failed : SUBSET Identities, id : Identities \cup {Nobody},
     seen : AnswerType, used : SUBSET Identities]

\* The shape of the state; a request that works has a route and, once it was
\* answered, an identity; answers without whole quota headers leave no rate state.
TypeOK ==
    /\ now \in Nat \ {0} /\ faults \in Nat
    /\ lease \in [Routes -> [id : Identities \cup {Nobody}, until : Nat]]
    /\ rate \in [Identities -> [Resources -> RateType]]
    /\ \A i \in Identities, s \in Resources : rate[i][s].reset = 0 => rate[i][s] = NoRate
    /\ cool \in [Identities -> [Scopes -> Nat]]
    /\ quota \in [Identities -> [Resources -> RateType]]
    /\ req \in [Requests -> RequestType]
    /\ heardRates \subseteq
          [id : Identities, resource : Resources, remaining : Nat, reset : Nat]
    /\ heardCools \subseteq [id : Identities, scope : Scopes, until : Nat]
    /\ \A c \in Requests :
          /\ req[c].stage \in {"asking", "selected", "answered", "reporting"}
             => req[c].route \in Routes
          /\ req[c].stage \in {"selected", "answered", "reporting"}
             => req[c].id \in Identities

\* In whatever order reports arrive, and whichever of them fail half-way, a rate
\* state is the strictest word of the newest window any recorded report spoke of.
RatesAreTheStrictestHeard ==
    \A i \in Identities, s \in Resources :
        LET heard == {h \in heardRates : h.id = i /\ h.resource = s}
        IN  IF heard = {} THEN rate[i][s] = NoRate
            ELSE /\ \E h \in heard :
                       h.reset = rate[i][s].reset /\ h.remaining = rate[i][s].remaining
                 /\ \A h \in heard :
                       \/ h.reset < rate[i][s].reset
                       \/ /\ h.reset = rate[i][s].reset
                          /\ h.remaining >= rate[i][s].remaining

\* An identity cools down exactly until the latest end that any recorded report
\* set, however reports are ordered and rows pruned.
CooldownsLastAsHeard ==
    \A i \in Identities, k \in Scopes :
        /\ cool[i][k] > now =>
              [id |-> i, scope |-> k, until |-> cool[i][k]] \in heardCools
        /\ \A h \in heardCools :
              h.id = i /\ h.scope = k /\ h.until > now => cool[i][k] >= h.until

\* What is known of an identity does not depend on the order in which concurrent
\* calls report, nor on which reports fail half-way or which rows are pruned.
ReportsConverge ==
    /\ RatesAreTheStrictestHeard
    /\ CooldownsLastAsHeard

\* By every report recorded so far: no cooldown that applies to the route is
\* running, and no report of the newest window says that nothing is left.
KnownGood(i, t) ==
    /\ \A h \in heardCools :
          h.id = i /\ h.scope \in {"*", ResourceOf[t], t} => h.until <= now
    /\ \A h \in heardRates :
          h.id = i /\ h.resource = ResourceOf[t] /\ h.remaining = 0 /\ h.reset > now
          => \E g \in heardRates :
                g.id = i /\ g.resource = h.resource /\ g.reset > h.reset

\* What the coordinator answers agrees with all it was told: it hands out an
\* identity only if that is good as far as is known, and says that all are
\* cooling down only if each candidate is known not to be.
SelectionsFollowReports ==
    [][\A c \in Requests :
        LET q == req[c]
            candidates == q.pool \ q.failed
        IN  /\ q.stage = "asking" /\ req'[c].stage = "selected"
               => req'[c].id \in candidates /\ KnownGood(req'[c].id, q.route)
            /\ q.stage = "asking" /\ req'[c].stage = "unavailable"
               => \A i \in candidates : ~KnownGood(i, q.route)]_vars

\* A request never calls GitHub twice with one credential, nor tries again one
\* that it could not get: so it makes at most one call per identity.
EachIdentityTriedOnce ==
    [][\A c \in Requests :
        req'[c].stage = "answered" /\ req[c].stage = "selected"
        => req'[c].id \notin req[c].used]_vars

\* A request that has begun ends: it is served, or told that no identity is
\* available, or sent to the caller's own credentials.
EveryRequestEnds == \A c \in Requests : req[c].stage # "new" ~> Ended(c)
================================================================================
