------------------------------- MODULE RelayFlow -------------------------------
(***************************************************************************)
(* One cacheable read on its way through relay.ts, next to other reads of  *)
(* the same repository: cached answers, the fill of the shared body, the   *)
(* revalidation of an old one, token-free backends, the pool of identities *)
(* under a proof that the repository is public, and what happens to the    *)
(* fill when any of these gives up, is cancelled or dies.                  *)
(*                                                                         *)
(* A cached body belongs to a key: a shape, since a list is read "wide"    *)
(* for everyone and "exact" when the wide one is too short, and the        *)
(* identity whose credential read it, or Nobody.  Who may fill a key is    *)
(* decided by the coordinator (Publication); here it is a table of owners. *)
(*                                                                         *)
(* What a backend answers, which cached entry is found and whether a wide  *)
(* list turns out too short are choices.  Reads with max-age, conditional  *)
(* reads and logs, which have no fill, are left out.                       *)
(***************************************************************************)
EXTENDS Naturals, FiniteSets

CONSTANTS
    Requests, Identities, Nobody,
    IsolateOf,     \* where a request runs
    Kinds,         \* of routes: see KindType
    Visibilities,  \* "public", "private"
    MaxRefreshes,  \* MAX_REFRESHES of one isolate
    MaxFaults      \* bound: calls lost, leases lost, requests cancelled or dead

Shapes == {"wide", "exact"}
Keys == Shapes \X (Identities \cup {Nobody})
NoKey == <<"none", Nobody>>

\* superset: a wide list may serve it; anonymous: an old body can be revalidated
\* without a credential; fallback: what follows the token-free backends.
KindType ==
    [superset : BOOLEAN, anonymous : BOOLEAN,
     fallback : {"pool", "github_public", "local", "token_free_only"}]

ASSUME RelayAssumption ==
    /\ Nobody \notin Requests \cup Identities
    /\ Kinds \subseteq KindType /\ Kinds # {}
    /\ Visibilities \subseteq {"public", "private"}
    /\ MaxRefreshes \in Nat \ {0} /\ MaxFaults \in Nat

VARIABLES
    visibility,  \* of the repository
    body,        \* per key: "none", "fresh" or "stale"
    owner,       \* per key: the request that may fill it
    refresher,   \* per key: the request that refreshes it (the swr: resource)
    lost,        \* keys whose grant nobody is going to complete
    pending,     \* per isolate: keys being refreshed
    req,
    faults

vars == <<visibility, body, owner, refresher, lost, pending, req, faults>>

tables == <<body, owner, lost>>
outside == <<visibility, refresher, pending>>

\* key, who and fill are cacheKey, identity and cacheFill of ActiveRelay; then
\* is where a relay goes on when it owns the key.  reval: inside the try of
\* revalidateStaleRelayCache; nested: executeRelay has been called again from
\* there.  guard: publicGuard.  refresh: the key of deferredCacheRefresh.
NewRequest ==
    [stage |-> "new", kind |-> CHOOSE k \in Kinds : TRUE, exact |-> FALSE,
     key |-> NoKey, who |-> Nobody, fill |-> NoKey, failed |-> {}, then |-> "none",
     reval |-> FALSE, nested |-> FALSE, guard |-> "none", background |-> FALSE,
     refresh |-> NoKey, answer |-> "none"]

Init ==
    /\ visibility \in Visibilities
    /\ body = [k \in Keys |-> "none"]
    /\ owner = [k \in Keys |-> Nobody]
    /\ refresher = [k \in Keys |-> Nobody]
    /\ lost = {}
    /\ pending = [w \in {IsolateOf[c] : c \in Requests} |-> {}]
    /\ req = [c \in Requests |-> NewRequest]
    /\ faults = 0

--------------------------------------------------------------------------------
(* Steps that several actions share.  q is the relay's state as it is to   *)
(* be, whose key and fill are still those of req[c].                       *)

Fault == faults < MaxFaults /\ faults' = faults + 1

Public == visibility = "public"

Shape(q) == IF q.exact THEN "exact" ELSE "wide"

SharedKey(q) == <<Shape(q), Nobody>>

IdentityKeys(q) == {Shape(q)} \X Identities

Go(c, q) == req' = [req EXCEPT ![c] = q] /\ UNCHANGED <<tables, faults>>

\* OwnedCacheFill.fail: the coordinator drops the grant, or never hears of it.
Fail(c, k) ==
    IF k = NoKey THEN UNCHANGED <<owner, lost, faults>>
    ELSE \/ /\ owner' = [owner EXCEPT ![k] = IF @ = c THEN Nobody ELSE @]
            /\ UNCHANGED <<lost, faults>>
         \/ /\ owner[k] = c /\ lost' = lost \cup {k}
            /\ Fault /\ UNCHANGED owner

\* Mutant: the fill of the old key is forgotten.
SwitchKeyForgetting(c, q, k) ==
    /\ req' = [req EXCEPT ![c] =
                 [q EXCEPT !.key = k, !.fill = IF k = q.key THEN @ ELSE NoKey]]
    /\ UNCHANGED <<body, owner, lost, faults>>

\* SwitchRelayCacheKey: the fill of the old key fails.
SwitchKey(c, q, k) ==
    /\ req' = [req EXCEPT ![c] =
                 [q EXCEPT !.key = k, !.fill = IF k = q.key THEN @ ELSE NoKey]]
    /\ IF k = q.key THEN UNCHANGED <<owner, lost, faults>> ELSE Fail(c, q.fill)
    /\ UNCHANGED body

\* Mutant: that the exact list is being read is not noted.
StartExactAgain(c, q) ==
    SwitchKey(c, [q EXCEPT !.who = Nobody, !.stage = "lookup",
                           !.nested = q.nested \/ q.reval, !.reval = FALSE,
                           !.guard = "none"],
              <<"exact", Nobody>>)

\* SwitchToExactRunList, and executeRelay from the start.
StartExact(c, q) ==
    SwitchKey(c, [q EXCEPT !.exact = TRUE, !.who = Nobody, !.stage = "lookup",
                           !.nested = q.nested \/ q.reval, !.reval = FALSE,
                           !.guard = "none"],
              <<"exact", Nobody>>)

Answer(q, answer) ==
    [q EXCEPT !.stage = "closing", !.answer = IF q.background THEN @ ELSE answer]

\* An exception; the finally of the pool first waits for the guard.
Throw(q) == [q EXCEPT !.stage = "throwing"]

\* ServeFreshCachedRelayResponse, of the body at k: a wide list that is too short
\* starts the exact one.
ServeFresh(c, q, k) ==
    \/ SwitchKey(c, Answer(q, "cached"), k)
    \/ ~q.exact /\ StartExact(c, q)

\* The entries under the exact key, looked at while the wide one is being read.
ExactKeys(q) == IF q.exact THEN {} ELSE {"exact"} \X (Identities \cup {Nobody})

\* ServeStaleRelayCache: a body that has expired, instead of an error.
ServeStale(c, q) ==
    /\ ~q.background /\ Public
    /\ \/ \E k \in {q.key, SharedKey(q)} \cup IdentityKeys(q) :
             body[k] # "none" /\ Go(c, Answer(q, "stale"))
       \/ \E k \in ExactKeys(q) :
             /\ body[k] # "none"
             /\ SwitchKey(c, [Answer(q, "stale") EXCEPT !.exact = TRUE, !.who = k[2]], k)

--------------------------------------------------------------------------------
(* Lookup.                                                                 *)

\* RelayGitHubRequest, prepareRelay.  What github_public reads, a user's profile,
\* is of no repository.
Begin(c, kind) ==
    /\ req[c].stage = "new"
    /\ Public \/ kind.fallback # "github_public"
    /\ Go(c, [req[c] EXCEPT !.stage = "lookup", !.kind = kind,
                            !.exact = ~kind.superset,
                            !.key = <<IF kind.superset THEN "wide" ELSE "exact", Nobody>>])
    /\ UNCHANGED outside

\* A fresh body; one under an exact key is taken as it is.
Hit(c) ==
    LET q == req[c]
    IN  /\ q.stage = "lookup" /\ Public
        /\ \/ \E k \in {q.key} \cup IdentityKeys(q) :
                 body[k] = "fresh" /\ ServeFresh(c, [q EXCEPT !.who = k[2]], k)
           \/ \E k \in ExactKeys(q) :
                 /\ body[k] = "fresh"
                 /\ SwitchKey(c, [Answer(q, "cached") EXCEPT !.exact = TRUE, !.who = k[2]], k)
        /\ UNCHANGED outside

\* ServeSWRRelayCache: a body that has expired is served, and its refresh put off
\* until the response is there.
HitStale(c) ==
    LET q == req[c]
        served(exact) == [Answer(q, "stale") EXCEPT !.exact = exact,
                             !.refresh = <<IF exact THEN "exact" ELSE "wide", Nobody>>]
    IN  /\ q.stage = "lookup" /\ ~q.background /\ Public
        /\ \/ \E k \in {q.key} \cup IdentityKeys(q) :
                 body[k] = "stale" /\ Go(c, served(q.exact))
           \/ \E k \in ExactKeys(q) :
                 body[k] = "stale" /\ SwitchKey(c, served(TRUE), <<"exact", Nobody>>)
        /\ UNCHANGED outside

\* Nothing is found, and the work is admitted, or the relay is overloaded.
Miss(c) ==
    LET q == req[c]
    IN  /\ q.stage = "lookup"
        /\ \/ Go(c, [q EXCEPT !.stage = "coalesce", !.then = "revalidate"])
           \/ Go(c, Answer(q, "handed"))
        /\ UNCHANGED outside

--------------------------------------------------------------------------------
(* The fill.                                                               *)

\* CoalesceRelayCacheMiss: own the key and go on, take the body that another
\* owner left, or wait while somebody owns it; a refresh does not wait.  The call
\* may fail, with or without a grant that nobody then knows of.
Coalesce(c) ==
    LET q == req[c]
        own(p) == /\ owner' = [owner EXCEPT ![q.key] = c]
                  /\ req' = [req EXCEPT ![c] = [p EXCEPT !.fill = q.key]]
                  /\ UNCHANGED <<body, lost, faults>>
    IN  /\ q.stage = "coalesce"
        /\ \/ owner[q.key] = Nobody /\ own([q EXCEPT !.stage = q.then])
           \/ /\ body[q.key] = "fresh" /\ Public /\ q.guard # "running"
              /\ IF q.background
                 THEN owner[q.key] = Nobody /\ own(Answer(q, "cached"))
                 ELSE ServeFresh(c, q, q.key)
           \/ /\ owner[q.key] = Nobody /\ owner' = [owner EXCEPT ![q.key] = c]
              /\ lost' = lost \cup {q.key} /\ Fault /\ UNCHANGED <<body, req>>
           \/ Go(c, Throw(q))
        /\ UNCHANGED outside

--------------------------------------------------------------------------------
(* Revalidation.                                                           *)

Candidates(q) == Identities \ q.failed

\* AttemptStaleRelayCacheRevalidation, up to its first call to GitHub.
Revalidate(c) ==
    LET q == req[c]
        old == \E k \in {q.key} \cup IdentityKeys(q) : body[k] # "none"
    IN  /\ q.stage = "revalidate"
        /\ \/ Go(c, [q EXCEPT !.stage = "tokenfree"])
           \/ /\ old
              /\ q.kind.anonymous \/ q.kind.fallback = "github_public"
              /\ Go(c, [q EXCEPT !.stage = "revalcall", !.reval = TRUE])
           \/ /\ old /\ ~q.kind.anonymous /\ q.kind.fallback = "pool" /\ Public
              /\ \E i \in Candidates(q) :
                    SwitchKey(c, [q EXCEPT !.stage = "coalesce", !.then = "revaltoken",
                                           !.reval = TRUE, !.who = i],
                              <<Shape(q), i>>)
           \/ old /\ Go(c, Throw([q EXCEPT !.reval = TRUE]))
        /\ UNCHANGED outside

\* Credential errors other than a broken one leave the revalidation, too.
Fatal(q) == Throw([q EXCEPT !.reval = FALSE, !.nested = FALSE])

RevalToken(c) ==
    LET q == req[c]
    IN  /\ q.stage = "revaltoken"
        /\ \/ Go(c, [q EXCEPT !.stage = "revalcall"])
           \/ Go(c, [q EXCEPT !.stage = "restore", !.failed = @ \cup {q.who}])
           \/ Go(c, Fatal(q))
        /\ UNCHANGED outside

\* CallRevalidationAPI and finishRevalidation: without a credential GitHub shows
\* nothing of a private repository; with one, the repository is proved again.
RevalCall(c) ==
    LET q == req[c]
    IN  /\ q.stage = "revalcall"
        /\ \/ Public /\ Go(c, [q EXCEPT !.stage = "finalize"])
           \/ Go(c, [q EXCEPT !.stage = "restore"])
           \/ q.who # Nobody /\ Go(c, [q EXCEPT !.stage = "restore", !.failed = @ \cup {q.who}])
           \/ Go(c, Throw(q))
        /\ UNCHANGED outside

\* Mutant: the shared key is acquired although its fill is at hand.
RestoreRegardless(c, q) ==
    SwitchKey(c, [q EXCEPT !.who = Nobody, !.stage = "coalesce", !.then = "tokenfree"],
              SharedKey(q))

\* RestoreSharedCacheFill: back to the shared key, and own it unless this relay does.
RestoreShared(c, q) ==
    LET kept == q.key = SharedKey(q) /\ q.fill # NoKey
    IN  SwitchKey(c, [q EXCEPT !.who = Nobody, !.then = "tokenfree",
                               !.stage = IF kept THEN "tokenfree" ELSE "coalesce"],
                  SharedKey(q))

Restore(c) ==
    /\ req[c].stage = "restore"
    /\ RestoreShared(c, req[c])
    /\ UNCHANGED outside

--------------------------------------------------------------------------------
(* Backends without a credential.                                          *)

\* CallTokenFreeBackend, then what executeRelay does without its answer: the
\* guard of the pool is started before the pool, every other fallback waits for
\* the proof.
TokenFree(c) ==
    LET q == [req[c] EXCEPT !.reval = FALSE]
        next == [q EXCEPT !.guard = IF q.kind.fallback = "pool" THEN "running" ELSE "proved",
                          !.stage = IF q.kind.fallback = "pool" THEN "pool" ELSE "public"]
    IN  /\ q.stage = "tokenfree"
        /\ \/ Public /\ Go(c, [q EXCEPT !.stage = "finalize"])
           \/ q.kind.fallback = "pool" /\ Go(c, next)
           \/ q.kind.fallback = "github_public" /\ Public /\ Go(c, next)
           \/ Go(c, Throw(q))
        /\ UNCHANGED outside

\* CallPublicBackend: when anonymous calls are limited, the pool is tried.
PublicBackend(c) ==
    LET q == req[c]
    IN  /\ q.stage = "public"
        /\ \/ Public /\ Go(c, [q EXCEPT !.stage = "finalize"])
           \/ Go(c, [q EXCEPT !.stage = "pool"])
           \/ Go(c, Throw(q))
        /\ UNCHANGED outside

--------------------------------------------------------------------------------
(* The pool.                                                               *)

\* ServeFreshIdentityCache and readAvailableCache, behind the guard.
PoolHit(c) ==
    LET q == req[c]
    IN  /\ q.stage = "pool" /\ Public /\ q.guard = "proved"
        /\ \E k \in IdentityKeys(q) :
              body[k] = "fresh" /\ ServeFresh(c, [q EXCEPT !.who = k[2]], k)
        /\ UNCHANGED outside

\* An identity is chosen and its key is to be owned; or there is none.
PoolSelect(c) ==
    LET q == req[c]
    IN  /\ q.stage = "pool"
        /\ \/ \E i \in Candidates(q) :
                 SwitchKey(c, [q EXCEPT !.stage = "coalesce", !.then = "pooltoken",
                                        !.who = i],
                           <<Shape(q), i>>)
           \/ Go(c, Throw(q))
        /\ UNCHANGED outside

PoolToken(c) ==
    LET q == req[c]
    IN  /\ q.stage = "pooltoken"
        /\ \/ Go(c, [q EXCEPT !.stage = "poolcall"])
           \/ Go(c, [q EXCEPT !.stage = "pool", !.failed = @ \cup {q.who}])
           \/ Go(c, IF q.kind.fallback = "github_public" THEN Throw(q) ELSE Fatal(q))
        /\ UNCHANGED outside

\* CallGitHub with the credential, which may begin before the proof is there.
PoolCall(c) ==
    LET q == req[c]
    IN  /\ q.stage = "poolcall"
        /\ \/ Go(c, [q EXCEPT !.stage = "fetched"])
           \/ Go(c, Throw(q))
        /\ UNCHANGED outside

\* Mutant: what was fetched is used while the proof is under way.
ProvedOrPending(q) == q.guard # "refused"

Proved(q) == q.guard = "proved"

\* Nothing that was fetched is looked at before the proof.
Fetched(c) ==
    LET q == req[c]
    IN  /\ q.stage = "fetched" /\ Proved(q)
        /\ \/ Go(c, [q EXCEPT !.stage = "finalize"])
           \/ Go(c, [q EXCEPT !.stage = "pool", !.failed = @ \cup {q.who}])
           \/ Go(c, Throw(q))
        /\ UNCHANGED outside

\* RecoverGitHubTransportFailure, recoverGitHubServerResponse, and the other
\* places where an old body takes the place of an answer that did not come.
Recover(c) ==
    LET q == req[c]
    IN  /\ \/ q.stage \in {"public", "pool", "fetched"} /\ Proved(q)
           \/ q.stage = "tokenfree" /\ q.kind.fallback \in {"pool", "token_free_only"}
        /\ ServeStale(c, q)
        /\ UNCHANGED outside

--------------------------------------------------------------------------------
(* The end.                                                                *)

\* FinalizeRelaySuccess: what was read is published under the grant, if that
\* still stands, and served; a wide list that is too short starts the exact one.
Finalize(c) ==
    LET q == req[c]
        k == q.key
        settled == [q EXCEPT !.fill = NoKey]
        next == IF owner[k] = c /\ q.fill = k THEN {body[k], "fresh"} ELSE {body[k]}
    IN  /\ q.stage = "finalize"
        /\ \/ /\ \E b \in next : body' = [body EXCEPT ![k] = b]
              /\ Fail(c, q.fill)
              /\ req' = [req EXCEPT ![c] =
                    IF q.exact THEN Answer(settled, "data") ELSE
                    [settled EXCEPT !.stage = "served"]]
           \/ Go(c, Throw(q))
        /\ UNCHANGED outside

\* The wide list that was published serves the request, or is too short.
Served(c) ==
    LET q == req[c]
    IN  /\ q.stage = "served"
        /\ \/ Go(c, Answer(q, "data"))
           \/ StartExact(c, q)
        /\ UNCHANGED outside

\* Where an exception goes: to the catch of the revalidation it was thrown in, or
\* of the one that executeRelay was called from, or to handleRelayError.
Unwind(c) ==
    LET q == req[c]
        caught == [q EXCEPT !.stage = "restore", !.guard = "none", !.reval = FALSE]
    IN  /\ q.stage = "throwing" /\ q.guard # "running"
        /\ Go(c, IF q.reval THEN caught
                 ELSE IF q.nested THEN [caught EXCEPT !.nested = FALSE]
                 ELSE [q EXCEPT !.stage = "failing"])
        /\ UNCHANGED outside

\* HandleRelayError: an old body for a caller, or the error.
HandleError(c) ==
    LET q == req[c]
    IN  /\ q.stage = "failing"
        /\ \/ Go(c, Answer(q, "handed"))
           \/ ServeStale(c, q)
        /\ UNCHANGED outside

\* Mutant: a refresh that was not let in is never taken off the list.
ClosedKeeping(c, q) == UNCHANGED pending

Closed(c, q) ==
    pending' = IF q.background
               THEN [pending EXCEPT ![IsolateOf[c]] = @ \ {q.refresh}]
               ELSE pending

\* The finally of the handler: the fill fails unless it was settled, and a
\* refresh gives back its place.
Close(c) ==
    LET q == req[c]
        over == [q EXCEPT !.stage = "done", !.fill = NoKey]
    IN  /\ \/ q.stage = "closing"
           \/ q.stage = "aborting" /\ q.then # "late"
        /\ Fail(c, q.fill)
        /\ req' = [req EXCEPT ![c] =
                     IF q.background THEN [over EXCEPT !.refresh = NoKey] ELSE over]
        /\ refresher' = [k \in Keys |-> IF refresher[k] = c THEN Nobody ELSE refresher[k]]
        /\ Closed(c, q)
        /\ UNCHANGED <<visibility, body>>

--------------------------------------------------------------------------------
(* Refreshes.                                                              *)

\* Mutant: the isolate does not count its refreshes.
SchedulableAlways(w, k) == k \notin pending[w]

Schedulable(w, k) == Cardinality(pending[w]) < MaxRefreshes /\ k \notin pending[w]

\* ScheduleCacheRefresh, after the response.
Schedule(c) ==
    LET q == req[c]
        w == IsolateOf[c]
    IN  /\ q.stage = "done" /\ q.refresh # NoKey
        /\ IF Schedulable(w, q.refresh)
           THEN /\ pending' = [pending EXCEPT ![w] = @ \cup {q.refresh}]
                /\ Go(c, [q EXCEPT !.stage = "admitting", !.background = TRUE])
           ELSE Go(c, [q EXCEPT !.refresh = NoKey]) /\ UNCHANGED pending
        /\ UNCHANGED <<visibility, refresher>>

\* A refresh is admitted and is the only one of its key, or ends.
AdmitRefresh(c) ==
    LET q == req[c]
    IN  /\ q.stage = "admitting"
        /\ \/ /\ refresher[q.refresh] = Nobody
              /\ refresher' = [refresher EXCEPT ![q.refresh] = c]
              /\ Go(c, [q EXCEPT !.stage = "lookup", !.key = q.refresh, !.who = Nobody,
                                 !.failed = {}, !.guard = "none",
                                 !.reval = FALSE, !.nested = FALSE])
           \/ Go(c, [q EXCEPT !.stage = "closing"]) /\ UNCHANGED refresher
        /\ UNCHANGED <<visibility, pending>>

--------------------------------------------------------------------------------
(* Outside.                                                                *)

Working(q) == q.stage \notin {"new", "closing", "aborting", "done", "dead"}

\* The work is cancelled; an acquisition under way may still be granted.
Aborted(q) ==
    [Answer(q, "handed") EXCEPT !.stage = "aborting",
        !.then = IF q.stage = "coalesce" THEN "late" ELSE "none"]

\* The proof ends, beside the pool: it cancels the work when it fails.
Prove(c) ==
    LET q == req[c]
    IN  /\ Working(q) /\ q.guard = "running"
        /\ Go(c, IF Public THEN [q EXCEPT !.guard = "proved"]
                 ELSE Aborted([q EXCEPT !.guard = "refused"]))
        /\ UNCHANGED outside

\* The caller goes away, or the admission's lease or deadline passes.
Abort(c) ==
    /\ Working(req[c])
    /\ Fault
    /\ req' = [req EXCEPT ![c] = Aborted(@)]
    /\ UNCHANGED <<tables, outside>>

\* AcquireOwnedCacheFill, when the grant arrives after the work was cancelled:
\* the handler ends with it.
LateAnswer(c) ==
    LET q == req[c]
    IN  /\ q.stage = "aborting" /\ q.then = "late"
        /\ \/ /\ owner[q.key] = Nobody
              /\ owner' = [owner EXCEPT ![q.key] = c]
              /\ req' = [req EXCEPT ![c] = [q EXCEPT !.then = "none", !.fill = q.key]]
              /\ UNCHANGED <<body, lost, faults>>
           \/ Go(c, [q EXCEPT !.then = "none"])
        /\ UNCHANGED outside

\* The platform ends the invocation of a caller's request.
Die(c) ==
    LET q == req[c]
    IN  /\ q.stage \notin {"new", "done", "dead"} /\ ~q.background
        /\ Fault
        /\ req' = [req EXCEPT ![c] = [q EXCEPT !.stage = "dead", !.fill = NoKey, !.refresh = NoKey]]
        /\ lost' = lost \cup {k \in Keys : owner[k] = c}
        /\ UNCHANGED <<body, owner, outside>>

\* The lease of a grant that nobody completes runs out.
Lapse(k) ==
    /\ k \in lost
    /\ owner' = [owner EXCEPT ![k] = Nobody]
    /\ lost' = lost \ {k}
    /\ UNCHANGED <<body, outside, req, faults>>

\* So does one that its holder fails to renew.
LoseLease(k) ==
    /\ owner[k] # Nobody /\ k \notin lost
    /\ Fault
    /\ owner' = [owner EXCEPT ![k] = Nobody]
    /\ UNCHANGED <<body, lost, outside, req>>

LoseRefresh(k) ==
    /\ refresher[k] # Nobody
    /\ Fault
    /\ refresher' = [refresher EXCEPT ![k] = Nobody]
    /\ UNCHANGED <<tables, visibility, pending, req>>

\* A body expires, and is removed.
Age(k) ==
    /\ body[k] # "none"
    /\ body' = [body EXCEPT ![k] = IF @ = "fresh" THEN "stale" ELSE "none"]
    /\ UNCHANGED <<owner, lost, outside, req, faults>>

Ended(c) == req[c].stage \in {"done", "dead"} /\ req[c].refresh = NoKey

Finished == (\A c \in Requests : Ended(c)) /\ UNCHANGED vars

Relay(c) ==
    \/ Hit(c) \/ HitStale(c) \/ Miss(c) \/ Coalesce(c)
    \/ Revalidate(c) \/ RevalToken(c) \/ RevalCall(c) \/ Restore(c)
    \/ TokenFree(c) \/ PublicBackend(c)
    \/ PoolHit(c) \/ PoolSelect(c) \/ PoolToken(c) \/ PoolCall(c) \/ Fetched(c) \/ Recover(c)
    \/ Finalize(c) \/ Served(c) \/ Unwind(c) \/ HandleError(c) \/ Close(c)
    \/ Schedule(c) \/ AdmitRefresh(c)
    \/ LateAnswer(c)

Next ==
    \/ \E c \in Requests, kind \in Kinds : Begin(c, kind)
    \/ \E c \in Requests : Relay(c) \/ Prove(c) \/ Abort(c) \/ Die(c)
    \/ \E k \in Keys : Lapse(k) \/ LoseLease(k) \/ LoseRefresh(k) \/ Age(k)
    \/ Finished

Spec == Init /\ [][Next]_vars

\* Calls end, the proof ends, and the leases of lost grants run out.
FairSpec ==
    /\ Spec
    /\ \A c \in Requests : WF_vars(Relay(c) \/ Prove(c))
    /\ WF_vars(\E k \in Keys : Lapse(k))

--------------------------------------------------------------------------------
(* Properties.                                                             *)

Stages ==
    {"new", "lookup", "coalesce", "revalidate", "revaltoken", "revalcall", "restore",
     "tokenfree", "public", "pool", "pooltoken", "poolcall", "fetched", "finalize",
     "served", "throwing", "failing", "closing", "aborting", "admitting", "done", "dead"}

RequestType ==
    [stage : Stages, kind : Kinds, exact : BOOLEAN,
     key : Keys \cup {NoKey}, who : Identities \cup {Nobody},
     fill : Keys \cup {NoKey}, failed : SUBSET Identities,
     then : {"none", "late", "revalidate", "revaltoken", "tokenfree", "pooltoken"},
     reval : BOOLEAN, nested : BOOLEAN,
     guard : {"none", "running", "proved", "refused"}, background : BOOLEAN,
     refresh : Keys \cup {NoKey},
     answer : {"none", "cached", "stale", "data", "handed"}]

\* The shape of the state; a fill is always that of the current key.
TypeOK ==
    /\ visibility \in {"public", "private"}
    /\ body \in [Keys -> {"none", "fresh", "stale"}]
    /\ owner \in [Keys -> Requests \cup {Nobody}]
    /\ refresher \in [Keys -> Requests \cup {Nobody}]
    /\ lost \subseteq Keys
    /\ pending \in [{IsolateOf[c] : c \in Requests} -> SUBSET Keys]
    /\ req \in [Requests -> RequestType]
    /\ faults \in Nat
    /\ \A c \in Requests : req[c].fill \in {NoKey, req[c].key}

\* Every grant of the coordinator is one that its relay still knows of and will
\* settle, or is known to be lost: no change of key, error, cancellation or
\* recursion leaves a fill behind that shuts everyone else out.
NoFillIsLeftBehind ==
    \A k \in Keys :
        owner[k] # Nobody /\ k \notin lost => req[owner[k]].fill = k

\* A relay that waits for one key owns no other: so relays cannot wait for each
\* other, nor for themselves.
NobodyWaitsHolding ==
    \A c \in Requests : req[c].stage = "coalesce" => req[c].fill = NoKey

\* Whenever work is done upstream the relay has a fill for the key under which it
\* will publish; the code ends with an internal error otherwise.
UpstreamHasAFill ==
    \A c \in Requests :
        req[c].stage \in {"revalidate", "revaltoken", "revalcall", "tokenfree",
                          "public", "pooltoken", "poolcall", "fetched", "finalize"}
        => req[c].fill = req[c].key

\* Of a repository that is not public nothing is ever cached or served, although
\* credentialed reads may begin before the proof.
PrivateStaysPrivate ==
    visibility = "private" =>
        /\ \A k \in Keys : body[k] = "none"
        /\ \A c \in Requests : req[c].answer \in {"none", "handed"}

\* An isolate lists exactly the refreshes it has under way, at most MaxRefreshes
\* and one for each key.
RefreshesAreCounted ==
    \A w \in DOMAIN pending :
        LET running == {c \in Requests : IsolateOf[c] = w /\ req[c].background
                                         /\ req[c].refresh # NoKey}
        IN  /\ pending[w] = {req[c].refresh : c \in running}
            /\ Cardinality(running) <= MaxRefreshes
            /\ \A c, d \in running : req[c].refresh = req[d].refresh => c = d

\* Every read that has begun is answered or dies, and so does its refresh.
EveryRequestEnds == \A c \in Requests : req[c].stage # "new" ~> Ended(c)
================================================================================
