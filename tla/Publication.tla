------------------------------ MODULE Publication ------------------------------
(***************************************************************************)
(* Publication authority over one shared cache resource of octopool.       *)
(*                                                                         *)
(* D1 holds at most one owner row for the resource.  An acquisition gives  *)
(* the row an id from an AUTOINCREMENT allocator and an eight-second       *)
(* lease; the id (with its random token, which is as unique as the id and  *)
(* is folded into it here) is the capability every later statement must    *)
(* match.  The pool coordinator, a Durable Object, runs acquisition,       *)
(* renewal, completion and waiter expiry for the resource one at a time    *)
(* and keeps one in-memory group of waiting followers.  A worker request   *)
(* that owns the fill reads upstream, renews, writes the body with a       *)
(* statement fenced by the owner row, copies it to the edge cache, and     *)
(* reports an outcome that the coordinator passes on to the followers.     *)
(*                                                                         *)
(* Time is a countdown: "left" is the number of ticks until a deadline,    *)
(* and 0 is a deadline that has passed.  Only MaxVersion and MaxFaults     *)
(* bound the behaviours: the first the number of states of the upstream    *)
(* resource, the second the number of crashes, lost calls and lost         *)
(* acknowledgements.                                                       *)
(***************************************************************************)
EXTENDS Naturals, FiniteSets

CONSTANTS
    Clients,     \* worker requests for the resource
    Nobody,      \* holder of the coordinator's operation queue when it is idle
    Lease,       \* ticks of a lease and of a waiter timer (PUBLICATION_LEASE_MS)
    IdGaps,      \* ids other resources may take between two grants of this one
    Modes,       \* kinds of request: "read", "live" (max-age 0), "background"
    MaxVersion,  \* bound: states the upstream resource goes through
    MaxFaults    \* bound: failures in one behaviour

ASSUME ClientsAssumption == IsFiniteSet(Clients) /\ Nobody \notin Clients
ASSUME LeaseAssumption == Lease \in Nat \ {0}
ASSUME IdGapsAssumption == IdGaps \subseteq Nat
ASSUME ModesAssumption == Modes \subseteq {"read", "live", "background"}
ASSUME BoundsAssumption == MaxVersion \in Nat \ {0} /\ MaxFaults \in Nat

VARIABLES
    \* D1, the durable store
    next,     \* the last id the allocator handed out
    row,      \* the owner row of the resource; id 0 when there is none
    body,     \* the shared cache entry; id 0 when there is none
    late,     \* fenced writes whose statement may still reach D1
    \* the data-center-local edge cache
    edge,     \* version of the copy it holds, 0 when there is none
    \* the coordinator's memory
    group,    \* the waiter group: the owner it waits for and its timer; id 0: none
    due,      \* expiry callbacks queued: of the "current" timer or of a "stale" one
    gate,     \* the request whose operation holds the resource, or Nobody
    \* the worker requests
    req,
    \* upstream and the failure budget
    version,
    faults,
    \* history: bodies ever stored, ids whose completion removed the row, and
    \* the upstream version at the last grant
    stored,
    ended,
    since

d1Vars == <<next, row, body, late>>
poolVars == <<group, due, gate>>
history == <<stored, ended, since>>
vars == <<d1Vars, edge, poolVars, req, version, faults, history>>

NoRow == [id |-> 0, left |-> 0]
NoBody == [id |-> 0, seen |-> 0]
NoGroup == [id |-> 0, left |-> 0]

Outcomes == {"shared", "edge_only", "none", "failed", "rejected", "unknown"}
Revoking == {"none", "failed", "rejected", "unknown"}

\* What a follower is told: a completion outcome, or to try again.
Retry == [kind |-> "retry", id |-> 0]

\* Where a request is between its cache miss and its answer.
Stages ==
    {"idle", "acquiring", "reading", "waiting", "woken", "recheck", "fetch",
     "fetched", "authorize", "write", "receipt", "edge", "edge_only",
     "completing", "closing", "done"}

\* The stages in which a request holds a fill it has not completed.
Filling ==
    {"recheck", "fetch", "fetched", "authorize", "write", "receipt", "edge",
     "edge_only", "completing"}

NewRequest ==
    [stage |-> "idle", mode |-> "read", asked |-> 0, retried |-> FALSE,
     cap |-> 0, active |-> FALSE, pending |-> FALSE, seen |-> 0,
     plan |-> "none", claim |-> 0, told |-> Retry, ack |-> "none", got |-> 0]

Init ==
    /\ next = 0 /\ row = NoRow /\ body = NoBody /\ late = {}
    /\ edge = 0
    /\ group = NoGroup /\ due = {} /\ gate = Nobody
    /\ req = [c \in Clients |-> NewRequest]
    /\ version = 1 /\ faults = 0
    /\ stored = {} /\ ended = {} /\ since = 1

--------------------------------------------------------------------------------
(* Helpers: the lease, the waiter group and the ends of a request.         *)

Live == row.id # 0 /\ row.left > 0
Owns(id) == row.id = id /\ row.left > 0

\* clearTimeout does not recall a callback that is already queued.
Cleared == IF "current" \in due THEN {"stale"} ELSE due

\* wakePublication resolves the promise every follower of the group awaits.
Woken(r, answer) ==
    [c \in Clients |->
        IF r[c].stage = "waiting"
        THEN [r[c] EXCEPT !.stage = "woken", !.told = answer]
        ELSE r[c]]

Wake(r, answer) ==
    /\ req' = Woken(r, answer)
    /\ group' = NoGroup
    /\ due' = Cleared

\* A rejected acquisition is tried once more, except by a background refresh.
Thrown(q) ==
    IF q.retried \/ q.mode = "background"
    THEN [q EXCEPT !.stage = "done", !.retried = FALSE]
    ELSE [q EXCEPT !.stage = "acquiring", !.retried = TRUE]

Again(q) ==
    [q EXCEPT !.stage = "acquiring", !.retried = FALSE, !.told = Retry]

\* An owned fill starts active; a live read skips the recheck of the cache.
Owner(q, id) ==
    [q EXCEPT !.stage = IF q.mode = "live" THEN "fetch" ELSE "recheck",
              !.cap = id, !.active = TRUE, !.retried = FALSE]

Fault == faults < MaxFaults /\ faults' = faults + 1

--------------------------------------------------------------------------------
(* Acquisition.                                                            *)

\* A request missed the cache and turns to the coordinator.
Start(c, m) ==
    /\ req[c].stage = "idle"
    /\ req' = [req EXCEPT ![c].stage = "acquiring", ![c].mode = m,
                          ![c].asked = IF m = "live" THEN version ELSE 0]
    /\ UNCHANGED <<d1Vars, edge, poolVars, version, faults, history>>

\* Mutant: a rowid without AUTOINCREMENT, which a deleted row gives back.
TakeRowReusingIds ==
    /\ ~Live
    /\ next' = row.id + 1
    /\ row' = [id |-> next', left |-> Lease]
    /\ since' = version

\* The acquisition statement inserts the row or takes over an expired one.
TakeRow ==
    /\ ~Live
    /\ \E gap \in IdGaps : next' = next + 1 + gap
    /\ row' = [id |-> next', left |-> Lease]
    /\ since' = version

\* acquirePublication and tryAcquirePublication, granted.
Grant(c) ==
    /\ gate = Nobody
    /\ req[c].stage = "acquiring"
    /\ TakeRow
    /\ Wake([req EXCEPT ![c] = Owner(@, next')], Retry)
    /\ UNCHANGED <<body, late, edge, gate, version, faults, stored, ended>>

\* The row is live.  A background refresh gives up; the operation of any other
\* request keeps the resource and goes on to read who the owner is.
Busy(c) ==
    /\ gate = Nobody
    /\ req[c].stage = "acquiring"
    /\ Live
    /\ IF req[c].mode = "background"
       THEN /\ req' = [req EXCEPT ![c].stage = "done"]
            /\ UNCHANGED gate
       ELSE /\ req' = [req EXCEPT ![c].stage = "reading"]
            /\ gate' = c
    /\ UNCHANGED <<d1Vars, edge, group, due, version, faults, history>>

Holds(c) == gate = c /\ req[c].stage = "reading"

\* The owner row has gone since: the request tries again.
OwnerGone(c) ==
    /\ Holds(c)
    /\ row.id = 0
    /\ gate' = Nobody
    /\ req' = [req EXCEPT ![c] = Again(@)]
    /\ UNCHANGED <<d1Vars, edge, group, due, version, faults, history>>

\* The request joins the waiters of the owner it read, a group it first creates
\* (waking the group of another owner) when there is none for that owner.
Join(c) ==
    /\ Holds(c)
    /\ row.id # 0
    /\ gate' = Nobody
    /\ IF group.id = row.id
       THEN /\ req' = [req EXCEPT ![c].stage = "waiting"]
            /\ UNCHANGED <<group, due>>
       ELSE /\ req' = [Woken(req, Retry) EXCEPT ![c].stage = "waiting"]
            /\ group' = [id |-> row.id, left |-> Lease]
            /\ due' = Cleared
    /\ UNCHANGED <<d1Vars, edge, version, faults, history>>

\* The acquisition call throws.  A statement that committed all the same leaves
\* a row nobody has the capability of, and wakes nobody.
AcquireFails(c) ==
    /\ gate = Nobody
    /\ req[c].stage = "acquiring"
    /\ Fault
    /\ \/ TakeRow
       \/ UNCHANGED <<next, row, since>>
    /\ req' = [req EXCEPT ![c] = Thrown(@)]
    /\ UNCHANGED <<body, late, edge, poolVars, version, stored, ended>>

\* Reading the owner row throws.
ReadOwnerFails(c) ==
    /\ Holds(c)
    /\ Fault
    /\ gate' = Nobody
    /\ req' = [req EXCEPT ![c] = Thrown(@)]
    /\ UNCHANGED <<d1Vars, edge, group, due, version, history>>

\* Mutant: a live read reuses what its owner published.
FollowReusing(c) ==
    /\ req[c].stage = "woken"
    /\ \/ req' = [req EXCEPT ![c] = Again(@)]
       \/ /\ req[c].told.kind = "shared" /\ body.id # 0
          /\ req' = [req EXCEPT ![c].stage = "done", ![c].got = body.seen]
    /\ UNCHANGED <<d1Vars, edge, poolVars, version, faults, history>>

\* The follower acts on what it was told: it reuses the shared body or the edge
\* copy a completion announced, if it is there, fresh and acceptable (any read
\* may find it expired, too old or ineligible); otherwise
\* it returns to the coordinator.  A live read never reuses a body.  A hit in the
\* shared cache also warms the edge.
Follow(c) ==
    /\ req[c].stage = "woken"
    /\ \/ req' = [req EXCEPT ![c] = Again(@)] /\ UNCHANGED edge
       \/ /\ req[c].mode # "live"
          /\ req[c].told.kind = "shared" /\ body.id # 0
          /\ req' = [req EXCEPT ![c].stage = "done", ![c].got = body.seen]
          /\ edge' \in {edge, body.seen}
       \/ /\ req[c].mode # "live"
          /\ req[c].told.kind = "edge_only" /\ edge # 0
          /\ req' = [req EXCEPT ![c].stage = "done", ![c].got = edge]
          /\ UNCHANGED edge
    /\ UNCHANGED <<d1Vars, poolVars, version, faults, history>>

--------------------------------------------------------------------------------
(* The owner: recheck, upstream read, renewal.                             *)

\* The new owner finds an acceptable cached body after all and completes with
\* the source it came from, claiming no publication; or it finds none.
Recheck(c) ==
    /\ req[c].stage = "recheck"
    /\ \/ /\ edge # 0
          /\ req' = [req EXCEPT ![c].stage = "completing", ![c].got = edge,
                                ![c].plan = "edge_only"]
          /\ UNCHANGED edge
       \/ /\ body.id # 0
          /\ req' = [req EXCEPT ![c].stage = "completing", ![c].got = body.seen,
                                ![c].plan = "shared"]
          /\ edge' \in {edge, body.seen}
       \/ req' = [req EXCEPT ![c].stage = "fetch"] /\ UNCHANGED edge
    /\ UNCHANGED <<d1Vars, poolVars, version, faults, history>>

\* Upstream answers with the state it has at some moment of the call.
Fetch(c) ==
    /\ req[c].stage = "fetch"
    /\ req' = [req EXCEPT ![c].stage = "fetched", ![c].seen = version,
                          ![c].got = version]
    /\ UNCHANGED <<d1Vars, edge, poolVars, version, faults, history>>

\* The recheck or the upstream work throws or is cancelled: fail() completes
\* the fill as failed.
GiveUp(c) ==
    /\ req[c].stage \in {"recheck", "fetch", "fetched", "write"}
    /\ req' = [req EXCEPT ![c].stage = "completing", ![c].plan = "failed",
                          ![c].got = 0]
    /\ UNCHANGED <<d1Vars, edge, poolVars, version, faults, history>>

\* The renewal timer fires while the fill is active and no renewal is pending;
\* complete() has cleared it.
SendRenewal(c) ==
    /\ req[c].stage \in Filling \ {"authorize", "completing"}
    /\ req[c].active /\ ~req[c].pending
    /\ req' = [req EXCEPT ![c].pending = TRUE]
    /\ UNCHANGED <<d1Vars, edge, poolVars, version, faults, history>>

\* What the owner makes of the result.  A refusal deactivates the fill for
\* good; the renewal that publish() awaits decides whether it writes at all.
Renewed(q) ==
    [q EXCEPT !.pending = FALSE,
              !.stage = IF @ = "authorize" THEN "write" ELSE @]

Refused(q) ==
    [q EXCEPT !.pending = FALSE, !.active = FALSE,
              !.stage = IF @ = "authorize" THEN "done" ELSE @,
              !.plan = IF q.stage = "authorize" THEN "rejected" ELSE @,
              !.ack = IF q.stage = "authorize" THEN "lost" ELSE @]

\* renewPublication: the exact live row gets a full lease, and followers of
\* this very owner a full timer.
ServeRenewal(c) ==
    /\ gate = Nobody
    /\ req[c].pending
    /\ Owns(req[c].cap)
    /\ row' = [row EXCEPT !.left = Lease]
    /\ IF group.id = req[c].cap
       THEN group' = [group EXCEPT !.left = Lease] /\ due' = Cleared
       ELSE UNCHANGED <<group, due>>
    /\ req' = [req EXCEPT ![c] = Renewed(@)]
    /\ UNCHANGED <<next, body, late, edge, gate, version, faults, history>>

RefuseRenewal(c) ==
    /\ gate = Nobody
    /\ req[c].pending
    /\ ~Owns(req[c].cap)
    /\ req' = [req EXCEPT ![c] = Refused(@)]
    /\ UNCHANGED <<d1Vars, edge, poolVars, version, faults, history>>

\* The renewal call throws, with or without the statement having committed.
RenewalFails(c) ==
    /\ gate = Nobody
    /\ req[c].pending
    /\ Fault
    /\ \/ UNCHANGED row
       \/ Owns(req[c].cap) /\ row' = [row EXCEPT !.left = Lease]
    /\ req' = [req EXCEPT ![c] = Refused(@)]
    /\ UNCHANGED <<next, body, late, edge, poolVars, version, history>>

--------------------------------------------------------------------------------
(* The owner: publication.                                                 *)

\* publish() renews first, joining a renewal that is already pending.
Publish(c) ==
    /\ req[c].stage = "fetched"
    /\ IF req[c].active
       THEN req' = [req EXCEPT ![c].stage = "authorize", ![c].pending = TRUE]
       ELSE req' = [req EXCEPT ![c].stage = "done", ![c].plan = "rejected",
                               ![c].ack = "lost"]
    /\ UNCHANGED <<d1Vars, edge, poolVars, version, faults, history>>

\* Mutant: the upsert compares ids and does not look at the owner row.
AdmitsUnfenced(id) == body.id = 0 \/ body.id < id

\* The guarded upsert: it stores only for the exact live owner, and replaces
\* only the body of an earlier one.
Admits(id) == Owns(id) /\ (body.id = 0 \/ body.id < id)

Store(id, seen) ==
    /\ body' = [id |-> id, seen |-> seen]
    /\ stored' = stored \cup {[id |-> id, seen |-> seen]}

\* The evidence may have expired before the statement runs, so the statement
\* may also match no row for an owner that is live.
Write(c) ==
    /\ req[c].stage = "write"
    /\ \/ /\ Admits(req[c].cap)
          /\ Store(req[c].cap, req[c].seen)
          /\ req' = [req EXCEPT ![c].stage = "edge"]
       \/ /\ req' = [req EXCEPT ![c].stage = "receipt", ![c].plan = "rejected"]
          /\ UNCHANGED <<body, stored>>
    /\ UNCHANGED <<next, row, late, edge, poolVars, version, faults, ended, since>>

\* Mutant: a write that threw is reported like one that stored nothing.
WriteFailsRejected(c) ==
    /\ req[c].stage = "write"
    /\ Fault
    /\ late' = late \cup {[id |-> req[c].cap, seen |-> req[c].seen]}
    /\ req' = [req EXCEPT ![c].stage = "receipt", ![c].plan = "rejected"]
    /\ UNCHANGED <<next, row, body, edge, poolVars, version, history>>

\* The write throws: the statement has run, never runs, or runs later.
WriteFails(c) ==
    /\ req[c].stage = "write"
    /\ Fault
    /\ \/ /\ Admits(req[c].cap)
          /\ Store(req[c].cap, req[c].seen)
          /\ UNCHANGED late
       \/ UNCHANGED <<body, stored, late>>
       \/ /\ late' = late \cup {[id |-> req[c].cap, seen |-> req[c].seen]}
          /\ UNCHANGED <<body, stored>>
    /\ req' = [req EXCEPT ![c].stage = "receipt", ![c].plan = "unknown"]
    /\ UNCHANGED <<next, row, edge, poolVars, version, ended, since>>

\* A delayed statement reaches D1 and runs there under the same guard.
LateWrite(w) ==
    /\ w \in late
    /\ late' = late \ {w}
    /\ \/ Admits(w.id) /\ Store(w.id, w.seen)
       \/ UNCHANGED <<body, stored>>
    /\ UNCHANGED <<next, row, edge, poolVars, req, version, faults, ended, since>>

\* A write that returned no row, or threw, looks for its own exact receipt,
\* which it finds unless it is not there or has expired.
ReadReceipt(c) ==
    /\ req[c].stage = "receipt"
    /\ \/ /\ body = [id |-> req[c].cap, seen |-> req[c].seen]
          /\ req' = [req EXCEPT ![c].stage = "edge"]
       \/ req' = [req EXCEPT ![c].stage = "completing"]
    /\ UNCHANGED <<d1Vars, edge, poolVars, version, faults, history>>

ReadReceiptFails(c) ==
    /\ req[c].stage = "receipt"
    /\ Fault
    /\ req' = [req EXCEPT ![c].stage = "completing", ![c].plan = "unknown"]
    /\ UNCHANGED <<d1Vars, edge, poolVars, version, history>>

\* A body too large for D1 needs D1's authorization all the same.
AuthorizeEdge(c) ==
    /\ req[c].stage = "write"
    /\ \/ Owns(req[c].cap) /\ req' = [req EXCEPT ![c].stage = "edge_only"]
       \/ req' = [req EXCEPT ![c].stage = "completing", ![c].plan = "rejected"]
    /\ UNCHANGED <<d1Vars, edge, poolVars, version, faults, history>>

AuthorizeEdgeFails(c) ==
    /\ req[c].stage = "write"
    /\ Fault
    /\ req' = [req EXCEPT ![c].stage = "completing", ![c].plan = "unknown"]
    /\ UNCHANGED <<d1Vars, edge, poolVars, version, history>>

\* The response is not a success, or is one that is never cached.
SkipWrite(c) ==
    /\ req[c].stage = "write"
    /\ \E outcome \in {"failed", "none"} :
         req' = [req EXCEPT ![c].stage = "completing", ![c].plan = outcome]
    /\ UNCHANGED <<d1Vars, edge, poolVars, version, faults, history>>

\* The edge put follows D1's acceptance, is not fenced, and may fail.
WriteEdge(c) ==
    /\ req[c].stage \in {"edge", "edge_only"}
    /\ \/ edge' = req[c].seen
       \/ UNCHANGED edge
    /\ req' = [req EXCEPT
                 ![c].stage = "completing",
                 ![c].plan = IF req[c].stage = "edge" THEN "shared"
                             ELSE IF edge' = req[c].seen THEN "edge_only"
                             ELSE "failed",
                 ![c].claim = IF req[c].stage = "edge" THEN req[c].cap ELSE @]
    /\ UNCHANGED <<d1Vars, poolVars, version, faults, history>>

--------------------------------------------------------------------------------
(* Completion.                                                             *)

\* complete() does nothing for an inactive fill and waits for a pending
\* renewal; then it deactivates the fill and calls the coordinator.
Complete(c) ==
    /\ req[c].stage = "completing"
    /\ \/ /\ ~req[c].active
          /\ req' = [req EXCEPT ![c].stage = "done", ![c].ack = "lost"]
       \/ /\ req[c].active /\ ~req[c].pending
          /\ req' = [req EXCEPT ![c].stage = "closing", ![c].active = FALSE]
    /\ UNCHANGED <<d1Vars, edge, poolVars, version, faults, history>>

\* The statement of an outcome removes the exact row: a revocation even when
\* the lease has run out, a successful completion only while it is live.
Removes(c) ==
    /\ row.id = req[c].cap
    /\ row.left > 0 \/ req[c].plan \in Revoking

RemoveRow(c) ==
    /\ row' = NoRow
    /\ ended' = ended \cup {req[c].cap}

\* completePublication, the row being the caller's: followers of this very
\* owner are told the outcome, or to try again when the lease had run out.
ServeCompletion(c) ==
    /\ gate = Nobody
    /\ req[c].stage = "closing"
    /\ Removes(c)
    /\ RemoveRow(c)
    /\ LET accepted == row.left > 0
           answered == [req EXCEPT ![c].stage = "done",
                                   ![c].ack = IF accepted THEN "accepted"
                                              ELSE "lost"] IN
       IF group.id = req[c].cap
       THEN Wake(answered,
                 IF accepted
                 THEN [kind |-> req[c].plan, id |-> req[c].claim]
                 ELSE Retry)
       ELSE req' = answered /\ UNCHANGED <<group, due>>
    /\ UNCHANGED <<next, body, late, edge, gate, version, faults, stored, since>>

\* completePublication of an owner whose row is gone, taken over or expired.
RefuseCompletion(c) ==
    /\ gate = Nobody
    /\ req[c].stage = "closing"
    /\ ~Removes(c)
    /\ req' = [req EXCEPT ![c].stage = "done", ![c].ack = "lost"]
    /\ UNCHANGED <<d1Vars, edge, poolVars, version, faults, history>>

\* The completion call throws, and nobody is woken.
CompletionFails(c) ==
    /\ gate = Nobody
    /\ req[c].stage = "closing"
    /\ Fault
    /\ \/ Removes(c) /\ RemoveRow(c)
       \/ UNCHANGED <<row, ended>>
    /\ req' = [req EXCEPT ![c].stage = "done", ![c].ack = "unknown"]
    /\ UNCHANGED <<next, body, late, edge, poolVars, version, stored, since>>

--------------------------------------------------------------------------------
(* Timers, restarts, retention and time.                                   *)

TimerFires ==
    /\ group.id # 0 /\ group.left = 0 /\ "current" \notin due
    /\ due' = due \cup {"current"}
    /\ UNCHANGED <<d1Vars, edge, group, gate, req, version, faults, history>>

\* Mutant: any queued callback wakes the group.
RunExpiryUnchecked(timer) ==
    /\ gate = Nobody
    /\ timer \in due
    /\ req' = Woken(req, Retry)
    /\ group' = NoGroup
    /\ due' = Cleared \ {timer}
    /\ UNCHANGED <<d1Vars, edge, gate, version, faults, history>>

\* Mutant: the callback does nothing for the group it was set for.
RunExpiryIdle(timer) ==
    /\ gate = Nobody
    /\ timer \in due
    /\ due' = due \ {timer}
    /\ UNCHANGED <<d1Vars, edge, group, gate, req, version, faults, history>>

\* A queued expiry callback takes its turn on the resource: it wakes the group
\* only if its timer is still the one the group has.
RunExpiry(timer) ==
    /\ gate = Nobody
    /\ timer \in due
    /\ IF timer = "current"
       THEN /\ req' = Woken(req, Retry)
            /\ group' = NoGroup
       ELSE UNCHANGED <<req, group>>
    /\ due' = due \ {timer}
    /\ UNCHANGED <<d1Vars, edge, gate, version, faults, history>>

\* The coordinator restarts: its memory is gone and the calls it was serving or
\* holding are rejected.
Restart ==
    /\ Fault
    /\ group' = NoGroup /\ due' = {} /\ gate' = Nobody
    /\ req' = [c \in Clients |->
                 IF req[c].stage \in {"reading", "waiting"}
                 THEN Thrown(req[c]) ELSE req[c]]
    /\ UNCHANGED <<d1Vars, edge, version, history>>

\* The worker running a request disappears, perhaps with its write under way.
Die(c) ==
    /\ req[c].stage \notin {"idle", "done"} /\ gate # c
    /\ Fault
    /\ req' = [req EXCEPT ![c].stage = "done", ![c].active = FALSE,
                          ![c].pending = FALSE, ![c].got = 0]
    /\ \/ UNCHANGED late
       \/ /\ req[c].stage = "write"
          /\ late' = late \cup {[id |-> req[c].cap, seen |-> req[c].seen]}
    /\ UNCHANGED <<next, row, body, edge, poolVars, version, history>>

\* Maintenance deletes an expired owner row.
PruneOwner ==
    /\ row.id # 0 /\ row.left = 0
    /\ row' = NoRow
    /\ UNCHANGED <<next, body, late, edge, poolVars, req, version, faults, history>>

\* Maintenance deletes a body past its retention.
PruneBody ==
    /\ body.id # 0
    /\ body' = NoBody
    /\ UNCHANGED <<next, row, late, edge, poolVars, req, version, faults, history>>

UpstreamChanges ==
    /\ version < MaxVersion
    /\ version' = version + 1
    /\ UNCHANGED <<d1Vars, edge, poolVars, req, faults, history>>

CountDown(n) == IF n > 0 THEN n - 1 ELSE 0

Tick ==
    /\ row.left > 0 \/ group.left > 0
    /\ row' = [row EXCEPT !.left = CountDown(@)]
    /\ group' = [group EXCEPT !.left = CountDown(@)]
    /\ UNCHANGED <<next, body, late, edge, due, gate, req, version, faults, history>>

\* Every request has been answered; whatever else still moves is time.
Drained ==
    /\ \A c \in Clients : req[c].stage = "done"
    /\ UNCHANGED vars

--------------------------------------------------------------------------------

Acquire(c) ==
    \/ Grant(c) \/ Busy(c) \/ OwnerGone(c) \/ Join(c)
    \/ AcquireFails(c) \/ ReadOwnerFails(c)

Own(c) ==
    \/ Recheck(c) \/ Fetch(c) \/ GiveUp(c)
    \/ SendRenewal(c) \/ ServeRenewal(c) \/ RefuseRenewal(c) \/ RenewalFails(c)

PublishBody(c) ==
    \/ Publish(c) \/ Write(c) \/ WriteFails(c)
    \/ ReadReceipt(c) \/ ReadReceiptFails(c)
    \/ AuthorizeEdge(c) \/ AuthorizeEdgeFails(c) \/ SkipWrite(c) \/ WriteEdge(c)

Finish(c) ==
    \/ Complete(c) \/ ServeCompletion(c) \/ RefuseCompletion(c)
    \/ CompletionFails(c)

Request(c) ==
    \/ \E m \in Modes : Start(c, m)
    \/ Acquire(c) \/ Follow(c) \/ Own(c) \/ PublishBody(c) \/ Finish(c)
    \/ Die(c)

Environment ==
    \/ TimerFires \/ (\E t \in {"current", "stale"} : RunExpiry(t)) \/ Restart
    \/ (\E w \in late : LateWrite(w))
    \/ PruneOwner \/ PruneBody \/ UpstreamChanges \/ Tick

Next == (\E c \in Clients : Request(c)) \/ Environment \/ Drained

Spec == Init /\ [][Next]_vars

(* Fairness.  A worker and the coordinator keep running until a failure     *)
(* stops them, timers fire, and the operation queue of the resource is a   *)
(* promise chain served in order, so an operation that waits for its turn  *)
(* over and over gets it.  Nothing that is a failure or a change of the    *)
(* world outside is fair.                                                  *)

\* What a worker does by itself: at each stage of a request exactly one of
\* these is what it does next.
Step(c) ==
    \/ \E m \in Modes : Start(c, m)
    \/ OwnerGone(c) \/ Join(c) \/ Follow(c) \/ Recheck(c) \/ Fetch(c)
    \/ Publish(c) \/ Write(c) \/ ReadReceipt(c) \/ WriteEdge(c) \/ Complete(c)

\* What waits for the coordinator to take the resource up for it.
Served(c) ==
    \/ Grant(c) \/ Busy(c)
    \/ ServeRenewal(c) \/ RefuseRenewal(c)
    \/ ServeCompletion(c) \/ RefuseCompletion(c)

FairSpec ==
    /\ Spec
    /\ WF_vars(Tick)
    /\ WF_vars(TimerFires)
    /\ SF_vars(RunExpiry("current") \/ RunExpiry("stale"))
    /\ \A c \in Clients : WF_vars(Step(c)) /\ SF_vars(Served(c))

--------------------------------------------------------------------------------
(* Properties.                                                             *)

Bodies == [id : Nat, seen : Nat]

RequestType ==
    [stage : Stages, mode : {"read", "live", "background"}, asked : Nat,
     retried : BOOLEAN, cap : Nat, active : BOOLEAN,
     pending : BOOLEAN, seen : Nat,
     plan : Outcomes, claim : Nat,
     told : [kind : Outcomes \cup {"retry"}, id : Nat],
     ack : {"none", "accepted", "lost", "unknown"}, got : Nat]

\* The shape of the state.
TypeOK ==
    /\ next \in Nat
    /\ row \in [id : Nat, left : Nat]
    /\ body \in Bodies
    /\ late \subseteq Bodies
    /\ edge \in Nat
    /\ group \in [id : Nat, left : Nat]
    /\ due \subseteq {"current", "stale"}
    /\ gate \in Clients \cup {Nobody}
    /\ req \in [Clients -> RequestType]
    /\ version \in Nat \ {0}
    /\ faults \in Nat
    /\ stored \subseteq Bodies
    /\ ended \subseteq Nat
    /\ since \in Nat \ {0}

\* No two requests ever hold the same capability, although completed rows are
\* deleted, rows expire and are taken over, and acknowledgements are lost: the
\* allocator of cache_publication_owners never hands an id out twice.
CapabilitiesDistinct ==
    \A c, d \in Clients :
        c # d /\ req[c].cap # 0 => req[c].cap # req[d].cap

\* What is stored never goes back to an older state of upstream, whatever was
\* stored before and whether or not it is still there: an owner that lost its
\* lease while it was reading cannot store after its successor.
StoresGoForward ==
    [][\A s \in stored' \ stored, t \in stored : t.seen <= s.seen]_vars

\* A live owner that has stored nothing yet is never shut out by the body that
\* is there: every stored body is of an earlier grant, so the guard of the
\* upsert refuses replays and predecessors and nobody else.
LiveOwnerCanPublish ==
    Live /\ (\A s \in stored : s.id # row.id) => body.id < row.id

\* Once a completion or revocation removed the row of a grant, no statement of
\* that grant stores a body any more, not even one whose call threw earlier and
\* which is still on its way to D1.
EndedNeverStores ==
    [][\A s \in stored' \ stored : s.id \notin ended]_vars

\* What a request and the followers are told is true: an accepted publication
\* was stored, a rejected one never was, and a publication id announced to
\* followers is the id of a stored body.
OutcomesHonest ==
    /\ \A c \in Clients :
        /\ (req[c].claim # 0) =>
             [id |-> req[c].cap, seen |-> req[c].seen] \in stored
        /\ (req[c].plan = "rejected" /\ req[c].stage \in {"closing", "done"}
              /\ req[c].cap # 0)
             => \A s \in stored \cup late : s.id # req[c].cap
        /\ (req[c].told.id # 0) => \E s \in stored : s.id = req[c].told.id

\* A request for a live read is answered with a state upstream had after the
\* request was made, whoever owned the fill while it waited.
LiveReadsAreLive ==
    \A c \in Clients :
        req[c].mode = "live" /\ req[c].stage = "done" /\ req[c].got # 0
            => req[c].got >= req[c].asked

\* While an owner keeps its row, and short of a restart, its followers are left
\* alone until their own timer has run out: a callback that was queued before a
\* renewal rescheduled the timer does not wake them.
NoSpuriousWake ==
    [][group.id # 0 /\ group.left > 0 /\ group.id = row'.id /\ faults' = faults
         => group'.id = group.id]_vars

\* Every request is answered in the end, whatever owner it waited for crashed,
\* expired, or lost an acknowledgement.
EveryRequestEnds == \A c \in Clients : <>(req[c].stage = "done")

--------------------------------------------------------------------------------
(* The protocol implements PublicationFence: the row is the current grant,  *)
(* whether its lease is live or not, and the shared entry is what shows.   *)

Fence ==
    INSTANCE PublicationFence
      WITH issued <- next, holder <- row.id, shown <- body

\* Every behaviour of the protocol is one of the fence.
ImplementsFence == Fence!Spec

================================================================================
