------------------------------- MODULE CacheReads -------------------------------
(***************************************************************************)
(* How old an answer of octopool may be.  A body is stored twice, in the   *)
(* row of D1 and as a copy in the edge cache, and each is read at its own  *)
(* time: on the way to an answer, by a reader of several candidates that   *)
(* remembers what it has probed, and when GitHub does not answer.  Copies  *)
(* are written by whoever fetched the body and by whoever read the row, in *)
(* any order and as late as they like.                                     *)
(*                                                                         *)
(* One resource is followed, of a route that a behaviour starts with, in   *)
(* versions that replace each other on GitHub: odd ones are of a run, an   *)
(* issue or a pull request that has ended.  Its bodies have a key for each *)
(* identity of the pool and one for everyone, and, for a route that is     *)
(* aware of the state of a pull request, for each version that a caller    *)
(* claims and octopool has verified.  A tick is a minute.  Ownership of a  *)
(* fill is Publication's; here a newer fill of a key fences older ones.    *)
(***************************************************************************)
EXTENDS Naturals, Sequences, FiniteSets

CONSTANTS
    Readers,     \* requests
    Pool,        \* identities whose bodies may be shared, in their order
    Routes,      \* routes a behaviour may follow, see Route
    MaxAges,     \* of the callers of a route, in minutes: 0, or NoAge for none
    Claimed,     \* versions that they name: one of them, or NoClaim for none
    ClaimTtl,    \* minutes a verified claim is good for
    CallLimit,   \* minutes a verification may take
    Jumps,       \* bound: minutes that pass at once
    Horizon,     \* bound: minutes of a behaviour
    MaxVersion,  \* bound: versions of the resource
    MaxSlips     \* bound: calls that fail

ASSUME ReadsAssumption ==
    /\ Pool \in Seq({Pool[i] : i \in DOMAIN Pool})
    /\ Jumps \subseteq Nat \ {0}
    /\ MaxAges \in [Routes -> SUBSET Nat]
    /\ Claimed \in [Routes -> SUBSET (0..(MaxVersion + 1))]
    /\ ClaimTtl \in Nat \ {0} /\ CallLimit \in Nat /\ Horizon \in Nat
    /\ MaxVersion \in Nat /\ MaxSlips \in Nat

VARIABLES
    minute,
    route,
    version,    \* of the resource on GitHub, and when it came
    since,
    claims,     \* when the proof of a claim expires (github_pr_state_proofs)
    row, edge,  \* of a key
    fills,      \* fills that have begun
    reader,
    slips,
    goneAt      \* history: when a version was replaced

readVars ==
    <<minute, route, version, since, claims, row, edge, fills, reader, slips, goneAt>>

NoAge == Horizon + 1
NoClaim == MaxVersion + 1
Claims == {NoClaim} \cup UNION {Claimed[r] : r \in Routes}
Holders == {"anyone"} \cup {Pool[i] : i \in DOMAIN Pool}
Keys == [by : Holders, claim : Claims]

\* updated is GitHub's date of the version, seen is when it was fetched, at is the
\* created_at it is stored with.
NoBody ==
    [fill |-> 0, version |-> 0, updated |-> 0, seen |-> 0, at |-> 0, until |-> 0, stale |-> 0]

--------------------------------------------------------------------------------
(* Policies of the routes.                                                 *)

Policy(fresh, minutes, stale) == [fresh |-> fresh, minutes |-> minutes, stale |-> stale]

\* routeCachePolicy, a kind for each of its cases.
RoutePolicy ==
    [contents        |-> Policy("static", 60, 120),
     repo_view       |-> Policy("static", 10, 120),
     org_repo_list   |-> Policy("static", 10, 10),
     deployment_list |-> Policy("static", 60, 60),
     workflow_list   |-> Policy("static", 60, 30),
     commit_list     |-> Policy("static", 5, 120),
     issue_comments  |-> Policy("static", 5, 60),
     git_blob        |-> Policy("static", 1440, 1440),
     pr_view         |-> Policy("pr", 0, 60),
     issue_list      |-> Policy("static", 1, 10),
     issue_view      |-> Policy("issue", 0, 60),
     branch_view     |-> Policy("static", 2, 120),
     commit_view_ref |-> Policy("static", 2, 5),
     run_view        |-> Policy("run", 0, 5),
     run_list        |-> Policy("run_list", 0, 5),
     run_jobs        |-> Policy("jobs", 0, 5),
     commit_status     |-> Policy("mutable_ci", 0, 5),
     commit_status_ref |-> Policy("mutable_ci", 0, 5),
     job_view        |-> Policy("job", 0, 5),
     pr_files        |-> Policy("pr_state", 0, 60),
     search_issues   |-> Policy("static", 2, 30),
     run_artifacts   |-> Policy("static", 1, 30),
     graphql_read    |-> Policy("static", 1, 0),
     branch_rules    |-> Policy("static", 0, 0)]

RefNamed == {"commit_view_ref", "commit_status_ref"}
Terminal == {"run_view", "run_jobs", "job_view"}
StateAware(r) == RoutePolicy[r.kind].fresh = "pr_state"
StaleWhileRevalidate ==
    Terminal \cup {"run_list", "commit_status", "commit_status_ref", "pr_files",
                   "issue_comments", "pr_view", "contents"}
SwrWindow == 1

\* final: what has ended stays so (a run attempt, a merged pull request);
\* pinned: the path names a version (immutableCacheRoute).
Route == [kind : DOMAIN RoutePolicy, final : BOOLEAN, pinned : BOOLEAN, pool : BOOLEAN]

ASSUME RoutesAssumption == Routes \subseteq Route

Ended(v) == v % 2 = 1
AtLeast(a, b) == IF a < b THEN b ELSE a
AtMost(a, b) == IF a > b THEN b ELSE a

\* cacheTTLSeconds of a body that was updated some minutes ago.
FreshMinutes(v, age, live) ==
    LET policy == RoutePolicy[route.kind]
        scaled(least, most) == AtLeast(least, AtMost(most, age \div 10))
        minutes ==
            CASE policy.fresh = "static" -> policy.minutes
              [] policy.fresh = "pr" -> IF Ended(v) /\ route.final THEN 60
                                        ELSE scaled(2, IF Ended(v) THEN 60 ELSE 5)
              [] policy.fresh = "issue" -> IF Ended(v) THEN 60 ELSE 5
              [] policy.fresh = "run" -> IF ~Ended(v) THEN 1
                                         ELSE IF route.final THEN 360 ELSE scaled(1, 10)
              [] policy.fresh = "run_list" -> IF Ended(v) THEN 2 ELSE 1
              [] policy.fresh = "jobs" -> IF Ended(v) /\ route.final THEN 360 ELSE 1
              [] policy.fresh = "mutable_ci" -> IF Ended(v) THEN scaled(1, 5) ELSE 1
              [] policy.fresh = "job" -> IF Ended(v) THEN 360 ELSE 1
              [] policy.fresh = "pr_state" -> IF live THEN 5 ELSE 1
    IN IF route.kind \in RefNamed THEN AtMost(2, minutes) ELSE minutes

\* staleCacheSeconds: what is known to have ended is kept for a day.
StaleMinutes(fresh) ==
    IF route.kind \in Terminal /\ fresh >= 30 THEN 1440 ELSE RoutePolicy[route.kind].stale

--------------------------------------------------------------------------------
(* A request.                                                              *)

\* proved says how its claim was verified, i is the candidate it is at, probed
\* and rows are what the candidate reader remembers, found is the body it may
\* serve, chosen at a minute; copying is the row's body on its way to the edge.
NewReader ==
    [stage |-> "idle", age |-> NoAge, claim |-> NoClaim, proved |-> "no", began |-> 0,
     due |-> 0, i |-> 0, probed |-> {}, edges |-> [i \in DOMAIN Pool |-> NoBody],
     batched |-> FALSE, rows |-> [i \in DOMAIN Pool |-> NoBody], how |-> "hit",
     found |-> NoBody, chosen |-> 0, copying |-> <<>>]

ReadsInit ==
    /\ minute = 0 /\ route \in Routes /\ version = 0 /\ since = 0
    /\ claims = [v \in Claims |-> 0]
    /\ row = [k \in Keys |-> NoBody] /\ edge = [k \in Keys |-> NoBody]
    /\ fills = 0
    /\ reader = [r \in Readers |-> NewReader]
    /\ slips \in 0..MaxSlips
    /\ goneAt = [v \in 0..MaxVersion |-> NoAge]

Slip == slips < MaxSlips /\ slips' = slips + 1

Key(q, by) == [by |-> by, claim |-> IF q.proved = "no" THEN NoClaim ELSE q.claim]
Candidate(q) == Key(q, IF q.i \in DOMAIN Pool THEN Pool[q.i] ELSE "anyone")

\* relayCacheMaxAge: what cannot change is current, however old.
MaxAge(q) == IF q.age = 0 /\ route.pinned THEN NoAge ELSE q.age

WithinAge(q, b) == MaxAge(q) = NoAge \/ (MaxAge(q) # 0 /\ minute <= b.at + MaxAge(q))
Usable(q, b) == b.until > minute /\ WithinAge(q, b)
Usables(q, b) == IF Usable(q, b) THEN b ELSE NoBody

Ends(q, stage) ==
    [NewReader EXCEPT !.stage = stage, !.age = q.age, !.claim = q.claim,
                      !.proved = q.proved, !.began = q.began, !.how = q.how,
                      !.found = q.found, !.chosen = q.chosen, !.copying = q.copying]

Found(q, b, how) ==
    [q EXCEPT !.stage = "check", !.found = b, !.how = how, !.chosen = minute]

\* A body of D1 goes to the edge, too, some time.
FoundInRow(q, b) == [Found(q, b, "hit") EXCEPT !.copying = <<Candidate(q), b>>]

\* Old bodies are looked for under the identities first, and then for everyone.
LastStale == Len(Pool) + 1
FirstStale == IF route.pool THEN 1 ELSE LastStale

\* readFreshRelayCache reads again once the claim is verified live; then come the
\* bodies of identities, those just expired, and GitHub.
Missed(q) ==
    IF q.proved = "cached" THEN [q EXCEPT !.stage = "ask", !.due = minute + CallLimit]
    ELSE IF route.pool /\ MaxAge(q) # 0 THEN [q EXCEPT !.stage = "visit", !.i = 1]
    ELSE [q EXCEPT !.stage = "swr", !.i = FirstStale]

Becomes(r, q) == reader' = [reader EXCEPT ![r] = q]
Only(r, q) ==
    /\ Becomes(r, q)
    /\ UNCHANGED <<minute, route, version, since, claims, row, edge, fills, slips, goneAt>>

BeginRead(r, age, claim) ==
    /\ reader[r].stage = "idle"
    /\ StateAware(route) \/ claim = NoClaim
    /\ Only(r, [NewReader EXCEPT !.age = age, !.claim = claim, !.began = minute,
                  !.stage = IF claim = NoClaim THEN "shared" ELSE "claim"])

--------------------------------------------------------------------------------
(* Claims about a pull request.                                            *)

\* Mutant: a proof is taken however old it is.
VerifyClaimAnyTime(r) ==
    LET q == reader[r] IN
    /\ q.stage = "claim" /\ claims[q.claim] > 0
    /\ Only(r, [q EXCEPT !.stage = "shared", !.proved = "cached"])

\* verifyPRStateHint takes a proof of the last minutes, or asks GitHub.
VerifyClaim(r) ==
    LET q == reader[r] IN
    /\ q.stage = "claim" /\ claims[q.claim] > minute
    /\ Only(r, [q EXCEPT !.stage = "shared", !.proved = "cached"])

ClaimUnknown(r) ==
    LET q == reader[r] IN
    /\ q.stage = "claim" /\ claims[q.claim] <= minute
    /\ Only(r, [q EXCEPT !.stage = "ask", !.due = minute + CallLimit])

\* GitHub confirms the claim, or the request goes on without one.
AskForClaim(r) ==
    LET q == reader[r] IN
    /\ q.stage = "ask"
    /\ Only(r, IF version = q.claim THEN [q EXCEPT !.stage = "record"]
               ELSE [q EXCEPT !.stage = "shared", !.proved = "no"])

RecordClaim(r) ==
    LET q == reader[r] IN
    /\ q.stage = "record"
    /\ Becomes(r, [q EXCEPT !.stage = "shared", !.proved = "live"])
    /\ claims' = [claims EXCEPT ![q.claim] = minute + ClaimTtl]
    /\ UNCHANGED <<minute, route, version, since, row, edge, fills, slips, goneAt>>

ClaimFails(r) ==
    LET q == reader[r] IN
    /\ q.stage \in {"ask", "record"}
    /\ Slip
    /\ Becomes(r, [q EXCEPT !.stage = "shared", !.proved = "no"])
    /\ claims' \in {claims} \cup
         IF q.stage = "record" THEN {[claims EXCEPT ![q.claim] = minute + ClaimTtl]} ELSE {}
    /\ UNCHANGED <<minute, route, version, since, row, edge, fills, goneAt>>

--------------------------------------------------------------------------------
(* Fresh bodies.                                                           *)

\* The body for everyone: from the edge, and then from D1.
ReadSharedEdge(r) ==
    LET q == [reader[r] EXCEPT !.i = 0]
        b == Usables(q, edge[Candidate(q)]) IN
    /\ q.stage = "shared"
    /\ Only(r, IF b # NoBody THEN Found(q, b, "hit")
               ELSE IF MaxAge(q) = 0 THEN Missed(q) ELSE [q EXCEPT !.stage = "sharedrow"])

ReadSharedRow(r) ==
    LET q == reader[r]
        b == Usables(q, row[Candidate(q)]) IN
    /\ q.stage = "sharedrow"
    /\ Only(r, IF b # NoBody THEN FoundInRow(q, b) ELSE Missed(q))

\* createGitHubCacheCandidateReader visits a candidate.  It probes its edge copy
\* if that was not done before;
Probe(r) ==
    LET q == reader[r] IN
    /\ q.stage = "visit" /\ q.i \in DOMAIN Pool \ q.probed
    /\ Only(r, [q EXCEPT !.probed = @ \cup {q.i},
                         !.edges[q.i] = Usables(q, edge[Candidate(q)])])

\* Mutant: a copy that was usable when it was probed is used later.
VisitProbed(r) ==
    LET q == reader[r] IN
    /\ q.stage = "visit" /\ q.i \in q.probed /\ q.edges[q.i] # NoBody
    /\ Only(r, Found(q, q.edges[q.i], "hit"))

\* uses the copy if it is still fresh, and reads everything anew if not;
VisitEdge(r) ==
    LET q == reader[r]
        key == Candidate(q) IN
    /\ q.stage = "visit" /\ q.i \in q.probed /\ q.edges[q.i] # NoBody
    /\ Only(r, IF Usable(q, q.edges[q.i]) THEN Found(q, q.edges[q.i], "hit")
               ELSE IF Usable(q, edge[key]) THEN Found(q, edge[key], "hit")
               ELSE IF Usable(q, row[key]) THEN FoundInRow(q, row[key])
               ELSE [q EXCEPT !.i = @ + 1])

\* probes all the others before it reads D1 once, for all of them;
ProbeRest(r) ==
    LET q == reader[r] IN
    /\ q.stage = "visit" /\ q.i \in q.probed /\ q.edges[q.i] = NoBody /\ ~q.batched
    /\ Only(r, [q EXCEPT !.stage = "batch", !.probed = DOMAIN Pool,
                  !.edges = [i \in DOMAIN Pool |->
                               IF i \in q.probed THEN q.edges[i]
                               ELSE Usables(q, edge[Key(q, Pool[i])])]])

Batch(r) ==
    LET q == reader[r] IN
    /\ q.stage = "batch"
    /\ Only(r, [q EXCEPT !.stage = "visit", !.batched = TRUE,
                  !.rows = [i \in DOMAIN Pool |-> row[Key(q, Pool[i])]]])

VisitRow(r) ==
    LET q == reader[r] IN
    /\ q.stage = "visit" /\ q.i \in q.probed /\ q.edges[q.i] = NoBody /\ q.batched
    /\ Only(r, IF Usable(q, q.rows[q.i]) THEN FoundInRow(q, q.rows[q.i])
               ELSE [q EXCEPT !.i = @ + 1])

NoneLeft(r) ==
    LET q == reader[r] IN
    /\ q.stage = "visit" /\ q.i \notin DOMAIN Pool
    /\ Only(r, [q EXCEPT !.stage = "swr", !.i = FirstStale])

--------------------------------------------------------------------------------
(* Old bodies.                                                             *)

\* readStaleGitHubCache
StaleAllowed(b) == b.fill # 0 /\ b.stale > minute /\ route.kind # "graphql_read"

WithinSwrWindow(b) == minute >= b.until /\ minute < b.until + SwrWindow

\* A body that has just expired may be served, and is refreshed after.
ReadJustExpired(r) ==
    LET q == reader[r]
        b == row[Candidate(q)] IN
    /\ q.stage = "swr"
    /\ Only(r, IF \/ q.age # NoAge \/ route.kind \notin StaleWhileRevalidate
                  \/ q.i > LastStale
               THEN [q EXCEPT !.stage = "fetch", !.i = 0]
               ELSE IF StaleAllowed(b) /\ WithinSwrWindow(b) THEN Found(q, b, "swr")
               ELSE [q EXCEPT !.i = @ + 1])

\* GitHub could not be asked: a body of the stale window will do.
ReadOutdated(r) ==
    LET q == reader[r]
        b == row[Candidate(q)] IN
    /\ q.stage = "stale"
    /\ Only(r, IF q.i > LastStale \/ q.age = 0 THEN Ends(q, "failed")
               ELSE IF StaleAllowed(b) /\ (q.age = NoAge \/ minute <= b.at + q.age)
               THEN Found(q, b, "stale")
               ELSE [q EXCEPT !.i = @ + 1])

\* cachedResponseAvailable: the repository is public and the identity still there.
\* That takes time, which the window of a body just expired does not wait for.
CheckAvailable(r) ==
    LET q == reader[r] IN
    /\ q.stage = "check"
    /\ q.how = "swr" => WithinSwrWindow(q.found)
    /\ Only(r, Ends([q EXCEPT !.chosen = IF q.how = "swr" THEN minute ELSE @], "served"))

Unavailable(r) ==
    LET q == [reader[r] EXCEPT !.found = NoBody] IN
    /\ reader[r].stage = "check"
    /\ Only(r, IF q.how = "swr" THEN [q EXCEPT !.stage = "swr", !.i = @ + 1]
               ELSE IF q.how = "stale" THEN [q EXCEPT !.stage = "stale", !.i = @ + 1]
               ELSE IF q.i = 0 THEN Missed(q)
               ELSE [q EXCEPT !.stage = "visit", !.i = @ + 1])

--------------------------------------------------------------------------------
(* A fill.                                                                 *)

\* GitHub answers, and the answer is dated before anything else is waited for.
Fetch(r, i) ==
    LET q == reader[r] IN
    /\ q.stage = "fetch"
    /\ i = 0 \/ (route.pool /\ i \in DOMAIN Pool)
    /\ fills' = fills + 1
    /\ Becomes(r, [q EXCEPT !.stage = "publish", !.i = i,
                     !.found = [NoBody EXCEPT !.fill = fills + 1, !.version = version,
                                              !.updated = since, !.seen = minute]])
    /\ UNCHANGED <<minute, route, version, since, claims, row, edge, slips, goneAt>>

FetchFails(r) ==
    LET q == reader[r] IN
    /\ q.stage = "fetch"
    /\ Slip
    /\ Becomes(r, [q EXCEPT !.stage = "stale", !.i = FirstStale])
    /\ UNCHANGED <<minute, route, version, since, claims, row, edge, fills, goneAt>>

\* Mutant: a body is dated when it is written.
DatedAtWrite(q) == minute

Dated(q) == q.found.seen

\* The body with every timestamp it will have.
Stamped(q) ==
    LET fresh == FreshMinutes(q.found.version, minute - q.found.updated, q.proved = "live") IN
    [q.found EXCEPT !.at = Dated(q), !.until = Dated(q) + fresh,
                    !.stale = Dated(q) + fresh + StaleMinutes(fresh)]

RowAccepts(q, b) == b.until > minute /\ row[Candidate(q)].fill < b.fill

\* writeGitHubCache: D1 first, unless the body is too large for it, then the edge.
WriteRow(r) ==
    LET q == reader[r]
        b == Stamped(q) IN
    /\ q.stage = "publish"
    /\ \/ /\ RowAccepts(q, b)
          /\ row' = [row EXCEPT ![Candidate(q)] = b]
          /\ Becomes(r, [q EXCEPT !.stage = "edge", !.found = b])
       \/ /\ b.until > minute
          /\ Becomes(r, [q EXCEPT !.stage = "edge", !.found = b])
          /\ UNCHANGED row
       \/ /\ ~RowAccepts(q, b)
          /\ Becomes(r, Ends(q, "fetched"))
          /\ UNCHANGED row
    /\ UNCHANGED <<minute, route, version, since, claims, edge, fills, slips, goneAt>>

\* The statement is refused, or fails and may have been executed.
RowUnknown(r) ==
    LET q == reader[r] IN
    /\ q.stage = "publish" /\ Slip
    /\ Becomes(r, Ends(q, "fetched"))
    /\ row' \in {row} \cup
         IF RowAccepts(q, Stamped(q)) THEN {[row EXCEPT ![Candidate(q)] = Stamped(q)]} ELSE {}
    /\ UNCHANGED <<minute, route, version, since, claims, edge, fills, goneAt>>

\* writeEdgeJSON puts what has not expired, over whatever is there, if it can.
Puts(key, b) == edge' \in {edge} \cup IF b.until > minute THEN {[edge EXCEPT ![key] = b]} ELSE {}

WriteEdge(r) ==
    LET q == reader[r] IN
    /\ q.stage = "edge"
    /\ Puts(Candidate(q), q.found)
    /\ Becomes(r, Ends(q, "fetched"))
    /\ UNCHANGED <<minute, route, version, since, claims, row, fills, slips, goneAt>>

\* The copy of a row that was read, which nobody waits for.
CopyToEdge(r) ==
    LET q == reader[r] IN
    /\ q.copying # <<>>
    /\ Puts(q.copying[1], q.copying[2])
    /\ Becomes(r, [q EXCEPT !.copying = <<>>])
    /\ UNCHANGED <<minute, route, version, since, claims, row, fills, slips, goneAt>>

--------------------------------------------------------------------------------

\* pruneExpiredGitHubCache
PruneRow(key) ==
    /\ row[key].fill # 0 /\ row[key].stale <= minute
    /\ row' = [row EXCEPT ![key] = NoBody]
    /\ UNCHANGED <<minute, route, version, since, claims, edge, fills, reader, slips, goneAt>>

\* The resource changes; what is pinned does not, nor what has ended for good.
Change ==
    /\ version < MaxVersion /\ ~route.pinned
    /\ Ended(version) => ~route.final
    /\ version' = version + 1 /\ since' = minute
    /\ goneAt' = [goneAt EXCEPT ![version] = minute]
    /\ UNCHANGED <<minute, route, claims, row, edge, fills, reader, slips>>

Pass(d) ==
    /\ minute + d <= Horizon
    /\ \A r \in Readers : reader[r].stage \in {"ask", "record"} => minute + d <= reader[r].due
    /\ minute' = minute + d
    /\ UNCHANGED <<route, version, since, claims, row, edge, fills, reader, slips, goneAt>>

Read(r) ==
    \/ \E age \in MaxAges[route], claim \in Claimed[route] : BeginRead(r, age, claim)
    \/ VerifyClaim(r) \/ ClaimUnknown(r) \/ AskForClaim(r) \/ RecordClaim(r) \/ ClaimFails(r)
    \/ ReadSharedEdge(r) \/ ReadSharedRow(r)
    \/ Probe(r) \/ VisitEdge(r) \/ ProbeRest(r) \/ Batch(r) \/ VisitRow(r) \/ NoneLeft(r)
    \/ ReadJustExpired(r) \/ ReadOutdated(r) \/ CheckAvailable(r) \/ Unavailable(r)
    \/ \E i \in 0..Len(Pool) : Fetch(r, i)
    \/ FetchFails(r) \/ WriteRow(r) \/ RowUnknown(r) \/ WriteEdge(r) \/ CopyToEdge(r)

ReadsNext ==
    \/ \E r \in Readers : Read(r)
    \/ \E key \in Keys : PruneRow(key)
    \/ Change
    \/ \E d \in Jumps : Pass(d)

ReadsSpec == ReadsInit /\ [][ReadsNext]_readVars

--------------------------------------------------------------------------------
(* Properties.                                                             *)

ReaderStages ==
    {"idle", "claim", "ask", "record", "shared", "sharedrow", "visit", "batch", "check",
     "swr", "fetch", "publish", "edge", "stale", "served", "fetched", "failed"}

ReadsTypeOK ==
    /\ minute \in 0..Horizon /\ route \in Route /\ version \in 0..MaxVersion
    /\ \A r \in Readers :
          /\ reader[r].stage \in ReaderStages /\ reader[r].proved \in {"no", "cached", "live"}
          /\ reader[r].found.fill <= fills
    /\ \A k \in Keys : row[k].fill <= fills /\ edge[k].fill <= fills

Answered(r) == reader[r].stage = "served"

\* The longest the route lets such a body be fresh.
Promised(b) == FreshMinutes(b.version, Horizon, TRUE)

\* Whatever copies were made of a body, by whom and when, and however long the
\* request took, an answer from the cache had been fetched no longer ago than its
\* route allows and its caller asked when it was chosen; one that had just expired
\* is still within the window when it is sent.
AnswersAreYoung ==
    \A r \in Readers : Answered(r) =>
        LET q == reader[r]
            longest == Promised(q.found)
            age == q.chosen - q.found.seen IN
        /\ q.how = "hit" => age < longest
        /\ q.how = "swr" => age < longest + SwrWindow
        /\ q.how = "stale" => age < longest + StaleMinutes(longest)
        /\ MaxAge(q) = NoAge \/ age <= MaxAge(q)

\* A caller that names a state of a pull request which is over is not answered
\* from that state's bodies for longer than a proof of it lasts (pr-state.ts).
ClaimsExpire ==
    \A r \in Readers : Answered(r) =>
        LET q == reader[r] IN
        q.proved # "no" => /\ q.claim <= version
                           /\ q.began < goneAt[q.claim] + CallLimit + ClaimTtl
================================================================================
