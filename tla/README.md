# octopool: specifications and proofs

octopool is a GET-only GitHub relay: a Cloudflare Worker (`src/src`) that
answers a team's GitHub reads from shared caches or from a pool of identities,
and a command-line client (`src/cmd/octopool`) that stands in for `gh`.  This
directory holds TLA+ specifications of its concurrent parts, TLC
configurations that check them on small instances, and TLAPS proofs of what
matters most for instances of every size.

Run, in this directory:

    tlc -workers 2 -config PublicationFaults.cfg MCPublication.tla
    tlapm PublicationProofs.tla

`PROJECT.json` lists every run, every definition with the source lines it
models, a mutation of the code that each property rejects, the hazards, and
the theorems.

## 1. The system

| Component | State it keeps | Operations | Talks to |
|---|---|---|---|
| Cache publication (`pool-coordinator.ts`, `cache-fill.ts`, `cache-coalesce.ts`, `cache.ts`) | owner row and body in D1; waiter groups in the coordinator; edge copies | acquire, renew, complete, follow, write, receipt | every relay request |
| Backend admission (`backend-admission.ts`, `backend-work.ts`) | permit rows in a Durable Object; until/deadline in each invocation | acquire, renew, release, check | relay flow, SWR |
| Policy snapshot (`policy-coordinator.ts`) | one D1 row; a snapshot in a Durable Object | GET, PUT | relay flow, administrators |
| Identity selection (`pool-coordinator.ts` 281-429, `coordinator.sql`) | leases, cooldowns, rate states | selectIdentity, recordResult, recordCredentialFailure | relay flow |
| Configuration cache (`config-cache.ts`) | settled and pending loads per isolate | load, invalidate, clear | authentication, relay flow |
| Stale-while-revalidate (`cache-swr.ts`) | pending keys per isolate | scheduleCacheRefresh | publication, admission |
| Relay flow (`relay.ts`) | one request | authenticate, look up, fetch, fall back, publish | all of the above |
| Public repository proofs (`public-repos.ts`), pull-request state (`pr-state.ts`) | proof rows, the first with an evidence floor; edge copies | observe, probe, store, read | relay flow |
| Cache readers (`cache.ts`, `cache-policy.ts`, `edge-cache.ts`) | the rows and copies that publication writes | probe, read candidates, read stale | relay flow |
| Terminal logs (`terminal-log-cache.ts`, `relay.ts` 2091-2300) | one R2 object per job; deferred proofs of an isolate | read, store, renew, delete | relay flow |
| Derived lists (`run-jobs-superset.ts`, `run-list-superset.ts`) | none; they read other requests' cache rows | merge, cut, derive | cache, relay flow |
| Token caches (`github-auth.ts`) | installation and repository tokens | mint, reuse | transport |
| Authentication, sessions, provisioning (`auth.ts`, `web-session.ts`, `provisioning.ts`) | rows in D1 | enroll, log in, administer | router |
| Maintenance (`maintenance.ts`) | none | bounded sweeps | all tables |
| Route policy, parsers, rewrites | none | pure functions | relay flow, CLI |
| CLI relay slots (`relay_slots.go`) | one lock file per slot, in one of two directories | acquire, release | the CLI's relay calls |
| CLI native journal (`native_journal.go`, `command_native_delegations.go`) | the journal, its previous generation, a lock file | append, rotate, summarize | commands handed to `gh` |
| CLI relay client (`gh_relay.go`, `gh_fallback.go`, `gh.go`) | one command with up to two reads at once | read, retry, cancel, hand off | the Worker, `gh` |
| CLI login, pagination, watches, rewrite guard | configuration files | as named | the Worker, `gh` |

Components meet in four ways: calls to Durable Objects, which may fail before
or after they took effect; statements on D1, each atomic, whose
acknowledgement may be lost; memory of one isolate or one Durable Object,
which is lost on a restart; and files that the processes of one machine share.  What is hard is listed under `hazards`.

What makes each component correct:

- *Publication*: a body a slow owner read never replaces a later owner's; a
  completed grant stores nothing any more; what requests and followers are told
  is true; nobody waits for ever.
- *Admission*: no more work than permits however calls are delayed or repeated;
  permits are given back; background work leaves room.
- *Policy*: bounded staleness, reads catch up with acknowledged and with
  uncertain updates, no update is lost unseen, the gate is always given back.
- *Selection*: out-of-order results converge; cooldowns are honoured; leases
  expire; no identity is tried twice.
- *Authentication*: a revoked token and a lost membership stop counting within
  the lives of the caches between them and the caller; no load that began before
  an invalidation survives it.
- *Proofs and logs*: a repository made private, a claim that is over and a log
  that GitHub deleted stop being served in time; what a request has seen itself is
  not overruled by an older row; nothing is stored unproved.
- *Cache readers*: no answer is older than its route and its caller allow, however
  copies were made.  *Derived lists*: a list cut from another request's is the one
  GitHub would have sent.
- *Tokens*: an expired token is never used. *Relay flow*: policy before lookup, one
  admission per request, no publication without authority.
- *Relay client*: what the relay or the policy refused is not run by `gh` instead; a failure
  that one read brought upon the other is not taken for its own; a read that meets an
  overloaded relay ends in time; each attempt goes by a policy of its own.
- *Slots and journal*: at most the configured number of calls; rotation keeps a
  generation, a summary counts nothing twice.

## 2. Modules

| Module | What it is |
|---|---|
| `Publication` | the publication protocol for one cache resource |
| `PublicationFence` | its abstract specification: what readers of the resource rely on |
| `PublicationProofs` | type correctness, safety and refinement theorems, what requests are told |
| `MCPublication` | TLC instance: symmetry of the requests |
| `BackendWork`, `MCBackendWork` | permits of one client and the invocations that hold them |
| `PermitPool` | its abstract specification: a pool, and work that is counted while it runs |
| `BackendWorkProofs` | its type correctness, both of its limits, that permits come back, the refinement |
| `PolicySnapshot` | the policy row, the coordinating object, its readers and writers |
| `RevisionRegister` | its abstract specification: a register with revisions, read with a bounded age |
| `PolicySnapshotProofs` | its type correctness, all its safety properties, the refinement |
| `IdentitySelection`, `MCIdentitySelection` | leases, cooldowns and rate states, and the relays that select and report |
| `IdentitySelectionProofs` | its type correctness, the convergence of rates and cooldowns, the choice |
| `RelayFlow`, `MCRelayFlow` | reads on their way through the relay, their cache keys, fills and refreshes |
| `RelayFlowProofs` | its type correctness, the safety of its fills, of private repositories and refreshes |
| `CallerAccess` | enrollment, caller tokens, web sessions, membership, and the isolate's cache of them |
| `PublicProof` | the proofs that a repository is public, and the requests that need one |
| `CacheReads` | the age of bodies, of their copies, and of claims about a pull request |
| `TerminalLogs` | the logs of finished jobs in R2 |
| `JobLists`, `RunLists` | lists of jobs and of runs that are cut from other requests' lists |
| `RelaySlots` | the processes of one machine and the slots they share |
| `NativeJournal` | the journal of native commands, its rotation and its summary |
| `RelayClient` | a command that reads from the relay, retries, and hands itself to `gh` |
| `AccessProofs` | types and safety of `CallerAccess` and `PublicProof` |
| `ReadsProofs` | types and safety of `CacheReads`, `TerminalLogs`, `JobLists` and `RunLists` |
| `MachineProofs` | types and safety of `RelaySlots`, `NativeJournal` and `RelayClient` |
| `MCAnswers` | TLC instance of the nine modules from `CallerAccess` to `RelayClient`, side by side |

### Publication

`row` is the owner row of `cache_publication_owners`, `next` its AUTOINCREMENT
allocator, `body` the `github_cache` row, `late` statements whose caller has
given up, `edge` the local copy, `group` the `PublicationWaiterGroup`, `due` the
expiry callbacks that are queued, `gate` the operation queue that
`withPublicationResource` keeps per resource, and `req` each request from its
cache miss to its answer.

| Code | Actions |
|---|---|
| `tryAcquirePublication`, `acquirePublication` | `Grant`, `Busy`, `OwnerGone`, `Join`, `AcquireFails`, `ReadOwnerFails` |
| `coalesceCacheMiss` | `Start`, `Follow`, `Recheck`, `GiveUp` |
| `renew` / `renewPublication` | `SendRenewal`, `ServeRenewal`, `RefuseRenewal`, `RenewalFails` |
| `publish`, `writeGitHubCache` | `Publish`, `Write`, `WriteFails`, `LateWrite`, `ReadReceipt`, `ReadReceiptFails`, `AuthorizeEdge`, `AuthorizeEdgeFails`, `SkipWrite`, `WriteEdge` |
| `complete` / `completePublication` | `Complete`, `ServeCompletion`, `RefuseCompletion`, `CompletionFails` |
| `schedulePublicationExpiry` | `TimerFires`, `RunExpiry` |
| platform, maintenance, GitHub | `Restart`, `Die`, `PruneOwner`, `PruneBody`, `UpstreamChanges`, `Tick` |

Abstractions.  The random token of a capability is folded into the id, which is
as unique.  A body is the upstream version it shows.  Expiry of a body, of an
edge copy or of evidence is a read, or an upsert, that may miss at any time.
The reply of a renewal is delivered with the renewal itself: what a delayed
reply could disturb is covered by `RenewalFails`.  Leases and timers are
countdowns.  `Fetch` answers with the version at one moment of the upstream
call.  Operations that begin and end within one turn of the coordinator's queue
are one step; the one with two database calls (`acquirePublication` when the row
is live) is two, and a statement on D1 may run between them.

Edge copies are written after D1 accepted a body and are not fenced;
`docs/cache.md` says so, and no property claims an order for them.

### BackendWork

`permit` is the table of the Durable Object, `work` the `BackendWork` objects.
A call has three steps: sent, served, answered; it may be lost at either side,
and an acquisition given up for lost may be served later (`stray`).  `until` and
`deadline` are the invocation's own, measured from the start of its calls.
Several operations of one invocation share its one acquisition, so `enter` is
`Enter` and the wait for its outcome.  `Close` is the end of `run`, which may
overtake everything but a handler that is itself waiting to enter.

`PermitPool` is what the relay flow may rely on: a set of invocations that are counted,
never more than there is room for (less for background refreshes), and of each
whether it has yet to work, works, or is over.  It is implemented with `counted` as
the rows and `phase` as what the invocation's own clock says: an invocation works while it
is active, and is idle again only if it never worked.  Leases, renewals, retries with the same
id, lost answers and strays have no counterpart: they are steps of the pool or stutters.

### PolicySnapshot

`revision` is the row, `snapshot` and `gate` the object, `late` the updates whose
writers were told the policy is unavailable.  `Get` and `Put` are one delivery
each, up to the first call to the database; `Proceed` is what follows once a
snapshot is there.  `Bypass` is a write that does not go through the object
(`docs/admin.md` promises it becomes visible within 60 seconds).  The check that
the snapshot's age is not negative is left out, the clock does not run back.

`RevisionRegister` is the same seen from outside, without object, snapshot, gate and
database: a read may be answered with a replaced revision, but not one replaced `MaxAge` or more
before it was asked nor one behind what was vouched for by then; a write takes effect
at most once, on the revision it expects, and never after it was refused.  A request maps to what
it was asked and answered, so the register's steps are also the promise that an answer,
once given, stays.

### IdentitySelection

`lease`, `rate` and `cool` are the three tables of the coordinator, which
serves one call at a time; `quota` is what GitHub really holds for an identity.
`Select` is `selectIdentity` with the deletions it makes, `ReportFailure` the
report that `callIdentityPool` waits for, `Succeed` and `Deliver` the one made in
the background, `Refuse` the one after a failed proof, `TokenFails`
`recordCredentialFailure`.  `heardRates` and `heardCools` are what was ever
recorded, which the properties compare the tables with.  A row that expired and one that was deleted
are the same state, except that deleting is limited per selection and oldest
first, so `Prune` chooses.

### RelayFlow

`req[c]` is the `ActiveRelay` of a request and the place where it is: each stage is
one call to another service, and what the call answers is a choice.  `body` is the
cache and `owner` the grants of its keys: what `Publication` says of one key in
detail is here a table, so that the movement of a relay *between* keys can be
followed.  `pending` is the set of `cache-swr.ts`.

| Code | Actions |
|---|---|
| `relayGitHubRequest`, `prepareRelay`, `executeRelay` | `Begin`, `Hit`, `Miss`, `Served`, `Unwind`, `Close` |
| `coalesceRelayCacheMiss`, `acquireOwnedCacheFill` | `Coalesce`, `LateAnswer` |
| `revalidateStaleRelayCache` and what it calls | `Revalidate`, `RevalToken`, `RevalCall`, `Restore` |
| `callTokenFreeBackend`, `callPublicBackend` | `TokenFree`, `PublicBackend` |
| `callIdentityPool` | `PoolHit`, `PoolSelect`, `PoolToken`, `PoolCall`, `Fetched` |
| the proof begun beside the pool | `Prove` |
| `finalizeRelaySuccess`, `handleRelayError`, `serveStaleRelayCache` | `Finalize`, `HandleError`, `Recover` |
| `serveSWRRelayCache`, `scheduleCacheRefresh` | `HitStale`, `Schedule`, `AdmitRefresh` |
| platform, callers, leases, expiry | `Die`, `Abort`, `Lapse`, `LoseLease`, `LoseRefresh`, `Age` |

Exceptions need care: `executeRelay` calls itself when a list of runs is too short,
also from inside the `try` of the revalidation, whose `catch` then goes on with the
backends.  `reval` and `nested` say which `catch` an exception meets.  A repository
does not change its visibility during a behaviour; whether a proof is still good when
a cached body is served is the subject of `PublicProof`.  A
publication is one step, its parts being in `Publication`; the death of a whole
isolate, with its set of refreshes, is left out.  The grant of a repository's proof
is no body's and is never held by a relay that waits for a body.

### CallerAccess

One GitHub account is followed.  `member` is whether it belongs to the organization,
`caller`, `tokens` and `sessions` its rows in D1, `store` and `generation` the
`settled` and `pending` entries of each isolate's configuration cache, `req` and
`login` its requests and its logins.  `gone`, `leftAt` and `retired` are history.

| Code | Actions |
|---|---|
| `authenticateCaller`, `cachedConfigLookup` | `LookUpCaller`, `ReadCaller`, `SettleCaller` |
| `ensureFreshOrgMembership` and what it loads | `LookUpMembership`, `VerifyMembership`, `StampMembership`, `RecordMembership` |
| `loginGitHubCLI`, `callers.ts` | `Enroll`, `AnswerLogin` |
| `web-session.ts` | `EnrollWeb`, `OpenSession`, `LogOut`, `PruneSessions` |
| administrators, GitHub | `Disable`, `Leave`, `AccessTick` |

A load that overlaps an invalidation is what is hard: the loader knows the generation
at which it began, and a login clears the cache of the isolate that served it only.
The token of a login is a name; hashing, cookies, redirects and the signature of the
OAuth state are left out.

### PublicProof

`proof` is the row, `copy` the edge copy, `turn` who holds the publication of the
proof (the lease, the waiters and a lost completion are `Publication`'s), `guard` the
requests in `ensurePublicGitHubRepo` or `observeAnonymousPublicRepo`.  A tick is the
five seconds of slack that the code grants, so that comparing with them is exact.  The
order in which the edge copy, the row and its history are consulted is the code's, for
each of the modes of a request; so is what survives the loss of a turn, and the evidence
floor below which no row is accepted any more.  The probe with a credential, the one
without and the reading of the page differ in what they may answer, not in how.

### CacheReads

`row` and `edge` hold a body for each key of one resource, `claims` the rows of
`pr-state.ts`, `reader` the requests.  A body has the version it shows and the time it
was fetched; a key names an identity or everyone, and a claimed version.

| Code | Actions |
|---|---|
| `readGitHubCache`, `createGitHubCacheCandidateReader` | `BeginRead`, `Probe`, `Visit`, `Batch` |
| `pr-state.ts` | `VerifyClaim`, `AskForClaim`, `RecordClaim` |
| `cache-swr.ts`, stale reads | `ReadJustExpired`, `ReadOutdated` |
| `writeGitHubCache`, `edge-cache.ts` | `Fetch`, `WriteRow`, `WriteEdge`, `CopyToEdge` |

A tick is a minute, the unit in which lifetimes differ.  The lifetime of a kind of route,
and of its final versions, is `cache-policy.ts`'s; every kind is in the module, and the
run follows those for which readers take different ways.

### TerminalLogs

`object` is the R2 object of one job, `asker` the requests for its log, `jobRow` whether
a view of the job is cached, `proofs` the deferred proofs of the isolate.  `Ask`,
`ReadLog`, `CheckAge`, `Probe404`, `ProbeExists`, `ProbeUnknown`, `Renew` and
`RemoveDeleted` are `readTerminalLogCache`, `terminalLogNeedsRevalidation` and what follows them; `Download` and `Deliver`
the answer; `ProveByRow`, `ProveByPage`, `ProveByAPI`, `Unproven` the deferred proof;
`PutSettles` the write, which an abort does not call back.  `JobCompletes`,
`LogIsDeleted`, `JobIsViewed` are the world's.

### JobLists and RunLists

`JobLists` follows the jobs of one run through attempts that begin while pages of an
earlier one are still read.  `ServeMerged`, `ServeSmaller` and `ServeEquivalent` are the
three derivations, `FetchExact`, `FetchFirst`, `FetchNext` and `Merge` the calls that
fill what they derive from.  What a request is answered is kept beside the list GitHub
had at the time of its last part, which the property compares it with.

`RunLists` has no concurrency.  A list of runs is the set of its positions in the list of
all of them, since whatever is cut or filtered keeps their order.  `FromShared`, `FromLarger` and `Exact` are the operators
of `run-list-superset.ts` on every list of runs up to a bound; `Wanted` is the reference
definition, written from what GitHub's filters mean.  A summary that cannot be proved
complete is asked for exactly, so the answer is compared, not the way.

### RelaySlots

`slotFile` is the file under each slot's name in either directory, `locked` who holds
which file's `flock`, `process` the processes in `withRelaySlot`.  Every call to the
system is a step: `AcquireSlot`, `EnterDirectory`, `Open`, `Lock`, `Taken`, `Wake`,
`GoWithout`, `SlotFails`, `Release`, `Cancel`, and `Die`, after which the system gives
locks back.  A process may be kept out of a directory by its sandbox, for good.

### NativeJournal

Files are numbered as they are created and `size` counts the lines of each; `journal` and
`previous` say which of them has a name.  `OpenJournal`, `Stat`, `TryLock`, `CheckAgain`,
`RemovePrevious`, `Rename` and `WriteLine` are the calls of `appendNativeJournal` and
`rotateNativeJournal`, `Stop` a failure or a death between any two, `Summarize` each of
the two readings of a summary.  The release of the lock is part of the last step under
it.  Two losses are the code's and no property denies them: a line written to a file that
two rotations have taken away is gone, and a summary misses a whole generation if a
rotation falls between its two readings.

### RelayClient

`fetch` are the two reads of one command, `taken` those whose result it has received,
`terminal` the one whose failure it retained, `command` what becomes of it.
`allowed` is whom the relay's policy lets pass at present.

| Code | Actions |
|---|---|
| `doOnce` | `SeePolicy`, `PolicyFails`, `Block`, `Post` |
| `do` | `Reply` (`Retry` or `Give`), `WakeUp` |
| `relayPaginatedGHAPI` | `Turn` |
| `relayReadPair` and the dispatch in `runGH` | `Collect` |
| `prepareProtectedGH`, `execRealGHWithStdinAndEnv` | `Prepare`, `PreparationFails`, `RunNative` |
| caller, administrators, clock | `Interrupt`, `ChangePolicy`, `ClientTick` |

What the relay answers is a choice among the classes that the client tells apart
(`Transient`, `Terminal`, `Fallback`); so is the jitter of a backoff.  The two reads
run as goroutines and are collected in any order.  The policy is fetched in two steps,
as the server sees it and as its answer is used, so it may change between them.  The wait for a relay
slot (`RelaySlots`) and the retries of a policy fetch are part of the time a fetch takes.
`permitted` is history: whether some policy since the beginning of the attempt
allowed the read.  A page after the first is a new read by the same goroutine; what pages
say, pairs within a read of a pair, cache notices, and the handoff of a watch that has
printed are left out.  `PreparationFails` stands for whatever else keeps `gh` from
being run.

## 3. What the runs show

| Run | Instance | Shows |
|---|---|---|
| `publication_faults` | 2 live reads, ids with gaps, 2 upstream versions, 1 fault | `StoresGoForward`, `OutcomesHonest`, `EndedNeverStores`, `LiveOwnerCanPublish`, refinement of `PublicationFence` (`ImplementsFence`) |
| `publication_modes` | 2 requests, plain, live or background, after an owner that died | `LiveReadsAreLive`, `NoSpuriousWake` |
| `publication_liveness` | 2 plain requests, 1 fault, fairness | `EveryRequestEnds` |
| `work_limits` | 2 relays, 1 permit, 1 fault, 4 ticks | `WorkWithinLimit`, `NoPermitLeaks` |
| `work_reserve` | 1 relay and 2 refreshes, 2 permits, 2 ticks | refinement of `PermitPool` (`ImplementsPool`) |
| `policy_snapshot` | 1 reader, 2 writers, 2 faults, 4 ticks, fairness | `OutcomesTrue`, `EveryReadAnswered`, refinement of `RevisionRegister` (`ImplementsRegister`) |
| `identity_reports` | 2 relays, 1 identity, 2 quotas, every refusal and Retry-After, 1 fault | `ReportsConverge` |
| `identity_selections` | 2 relays, 1 route, 2 identities, fairness | `SelectionsFollowReports`, `EachIdentityTriedOnce`, `EveryRequestEnds` |
| `relay_fills` | 2 reads of any kind, 1 identity, 1 refresh at a time, 1 fault, public or private | `NoFillIsLeftBehind`, `NobodyWaitsHolding`, `RefreshesAreCounted`, `PrivateStaysPrivate` |
| `relay_liveness` | 2 lists of runs or pool reads with refreshes, fairness | `EveryRequestEnds` |
| `answers` | the nine parts of `MCAnswers`, two actors each | see below |
| `terminal_logs_claim` | its logs alone | that `OnlyCompletedLogsEnter` is violated |

Type correctness of every module is proved (section 4), and so are `CapabilitiesDistinct`,
`UpstreamHasAFill`, `BackgroundLeavesRoom`, `BoundedStaleness` and `ReadsCatchUp`; no run spends time on them.
The last three say in one invariant each what the refinements say of every step:
that a refresh enters only while its half has room, and which revision a read may be answered with.

`answers` puts nine modules side by side.  They share no variable, so a behaviour
chooses one of them and follows it, and the variables of the others keep one value: the
reachable states of a part are exactly those it has alone.  The actors of every part but
`PublicProof`, whose two have different modes, and `RelayClient`, whose reads are collected by
name, may be exchanged, which is the symmetry.

| Part | Instance | Shows |
|---|---|---|
| `CallerAccess` | 2 requests, a login from a machine or a browser after an earlier one, 1 isolate, 2 entries in its cache, lifetimes of 1 tick, 2 ticks, 1 fault | `RevokedTokensStop`, `MembershipIsRecent` |
| `PublicProof` | one request that needs a fresh proof or one for a cached answer, one anonymous; positive proofs last 1 tick, negative ones 2, a probe takes up to 1; 2 ticks, 1 mishap | `PrivateReposStopBeingServed`, `OwnEvidenceStands` |
| `CacheReads` | 2 readers; 2 identities on a pool route, 3 other routes with claims or maximum ages; 2 minutes, 1 change, 1 failed call | `AnswersAreYoung`, `ClaimsExpire` |
| `TerminalLogs` | 2 requests that accept any age, 0, or 1; objects last 2 ticks and are probed after 1; 1 deferred proof; 2 ticks, 1 loss | `DeletedLogsStopBeingServed`, `OnlyProvenLogsEnter` |
| `JobLists` | 2 requests out of 7, pages of 2, up to 3 jobs, 2 attempts, 1 tick | `JobListsAreExact` |
| `RunLists` | every list of up to 4 runs of 3 kinds, pages of 1, 2 and 3, every size | `RunListsAreExact` |
| `RelaySlots` | 2 processes, 1 slot, every pair of sandboxes, deadline after 1 beat, 2 files, 1 error or death | `SharedBudget` |
| `NativeJournal` | 2 writers and a summary, rotation above 1 line, 6 lines, 2 failures | `JournalKeepsItsTail`, `SummariesCountOnce` |
| `RelayClient` | 2 reads of up to 2 pages, 1 change of the policy, 2 settings, calls of 4 moments, backoffs of 3 in all, a clock of 2 and what sleeps need | `NativeOnlyAfterRefusal`, `OwnCancellationIsNotReported`, `OverloadedReadsEndInTime`, `CallsArePermitted` |

`terminal_logs_claim` shows a disagreement.  `relay.ts:375` says that "only proven
completed logs enter this exact pool/path cache".  `finalizeRelaySuccess` keeps the bytes it
has downloaded (`relay.ts:1264`) and the proof of completion is made after that
(`relay.ts:2119`), so a log downloaded while the job ran is stored if the job ends in
between.  What does hold is `OnlyProvenLogsEnter`: nothing is stored before the job is
over.

Bounds.  Two requests are enough for an owner and the successor that overtakes
it, which is what the fence is about; in `publication_modes` the owner before them has died,
so that both can be followers, in any of the modes, of one that will not answer.  A lease of one
tick passes through live, just expired and long expired.  One fault suffices for each single failure to
meet every interleaving; the proofs cover any number.  In `work_limits` a lease of
two ticks and a deadline of three let a renewal be answered in the middle of a
lease, after it, and at the deadline; four ticks let a second invocation take the
place of the first.  In `policy_snapshot` a maximum age of two and four ticks let a
snapshot expire while a load is under way and again afterwards.  In `work_reserve` a lease of
one tick and a deadline of two let a refresh be renewed or replaced while the others compete for its room.  Rate windows of
two ticks within three let a report of the last window arrive in the next one, and
the Retry-After of three outlasts every default.  That the order of reports does not
matter is a matter of any two of them; two identities are enough for a sticky lease
to name the wrong one.  In `relay_fills` two relays of a list of
runs meet on four keys, as much as a hold-and-wait needs; one identity suffices
since keys of two identities are never compared.  In `RelayClient` the calls of an
overloaded read have four moments and its backoffs three, so that a second backoff may just
fit into either or just not; the first read and the handoff are blocked by one of the two policies
and not by the other, and a read that sleeps may wake up after the clock's bound.  In the parts of `answers` lifetimes are as
short as they can be told apart, and one step of time more than the longest chain of copies that a
property bounds, so that what is too old has time to be served; pages hold two entries where
three lists of different sizes have to be compared; two rotations, which take six lines, are what it
takes to lose a generation.  No call fails where a body of several identities is followed, the
mode `tokenfree` of `PublicProof` is not in the run, its verdicts being among those of `fresh`,
and no old token is kept beside a new one (`KeptTokens` 0), so that a second login revokes the
first.  Upstream versions, time, faults and what is created are the only bounds on
counters (`MaxVersion`, `MaxTime`, `MaxFaults` and their namesakes in the parts).

Fairness.  `FairSpec` of `Publication` assumes that time passes, that a timer that
is due fires and its callback gets its turn (the queue is a promise chain, served
in order), that a worker that has not died takes its next step, and strongly that
a call that waits for the coordinator's turn gets it.  No failure and no change
outside is fair, and a live owner is not assumed to finish.  `FairSpec` of
`PolicySnapshot` assumes that a call to the database ends, by an answer or a
failure (weakly), and that a waiting read is delivered when the gate stays free.
`FairSpec` of `IdentitySelection` assumes that calls end.  That of `RelayFlow` assumes
so of each relay's calls and of the proof beside them, and that the lease of a grant
that nobody renews runs out; a call that has its answer to give may always fail
instead, so nothing is assumed to succeed.

Deadlock is checked in every run but those of `MCAnswers`: the models stop only in
`Drained` or `Finished`, when every request has ended.  In `MCAnswers` requests end and
time is bounded, so its parts do stop; that everybody is answered is a matter of the
modules above, nobody waits for another there except in `RelaySlots`, until a deadline.

## 4. What is proved

Every safety invariant and action property of the runs is proved, for all values of the
constants that the assumptions of its module admit, and so are the refinements of all three
abstract specifications; only liveness is left to TLC.  The assumptions say that lifetimes and limits are numbers (positive
where the code's are), that names which stand for nobody are nobody's, and, in
`IdentitySelection`, that the identities are finite in number.  TLC evaluates them on
every run.

| Module | Theorems |
|---|---|
| `PublicationProofs` | `TypeCorrect`, `CapabilitiesAreDistinct`, `PublicationsAreOrdered`, `LiveOwnersCanPublish`, `EndedGrantsNeverStore`, `ProtocolImplementsFence`, `OutcomesAreHonest`, `LiveReadsAreNeverOld`, `FollowersAreLeftAlone` |
| `BackendWorkProofs` | `WorkTypeCorrect`, `WorkIsLimited`, `ForegroundKeepsItsReserve`, `PermitsComeBack`, `AdmissionImplementsPool` |
| `PolicySnapshotProofs` | `PolicyTypeCorrect`, `StalenessIsBounded`, `AnswersCatchUp`, `WritersAreToldTheTruth`, `ObjectImplementsRegister` |
| `IdentitySelectionProofs` | `SelectionTypeCorrect`, `RatesConverge`, `CooldownsAreKept`, `KnowledgeConverges`, `NoIdentityIsTriedTwice`, `SelectionsAreAsReported` |
| `RelayFlowProofs` | `RelayTypeCorrect`, `FillsAreSettled`, `WaitersHoldNothing`, `UpstreamIsFilled`, `PrivateReposAreNotServed`, `RefreshesStayCounted` |
| `AccessProofs` | `AccessTypeCorrect`, `RevokedTokensAreRefused`, `MembershipStaysRecent`; `ProofTypeCorrect`, `PrivateReposStop`, `OwnEvidenceIsKept` |
| `ReadsProofs` | `ReadsTypeCorrect`, `AnswersStayYoung`, `ClaimsDoExpire`; `LogsTypeCorrect`, `DeletedLogsStop`, `LogsAreProven`; `JobsTypeCorrect`, `JobListsStayExact`; `RunListsTypeCorrect`, `RunListsStayExact` |
| `MachineProofs` | `SlotsTypeCorrect`, `BudgetIsShared`; `JournalTypeCorrect`, `JournalTailIsKept`, `NothingIsCountedTwice`; `ClientTypeCorrect`, `RefusalsAreNotRunNatively`, `RealFailuresAreReported`, `OverloadedReadsEnd`, `AttemptsArePermitted` |

### Publication

`StoresGoForward` rests on an invariant, `StoredInGrantOrder` (what is stored under a
later id shows no older state), which is not inductive: it must be known that a statement
still under way, and a request that has read upstream, carries what upstream showed after
its own grant, and that grants are separated in time.  `OrderInv` adds:

- `StagesOrdered`: a request's stage says whether it has a capability and what it
  has read;
- `Issued`: every id in use was handed out by the allocator;
- `CapabilitiesDistinct`;
- `Authored`: whatever is stored, late or still to be written was read by the
  owner of its id, at a version not beyond the present;
- `StoredInGrantOrder` itself, and `Separated`: a stored or pending body of an earlier id is no newer than what
  upstream showed at the current grant.

The 40-odd actions fall into eight *kinds* by what they do to the allocator, the
row, the stored bodies and the pending ones (granting, reading, storing,
delaying, ending, withdrawing, changing, waiting).  One group of lemmas shows each
action is of a kind; another that each kind keeps each conjunct.  So a new action
of the protocol costs one line of the first group.

What requests are told (`OutcomesHonest`) does not follow from what is stored.
`AllHonest` says it of a request at every stage: nothing is written under its id before
its statement runs, nor ever if it reports a rejection, though the statement may run after
its caller has given up; what it takes to the edge or claims has been stored; and
who is told an outcome is told one that was announced.  The same invariant dates what a live
read holds, for `LiveReadsAreLive`.

`NoSpuriousWake` is about steps.  `TimerInv` says that a queued callback of the present
timer means that this timer has run out, and that no group waits for an id not yet handed
out: so the callback of an earlier timer is recognised, and a new grant is no group's owner.

### Backend work

A bound on the invocations that work does not follow from the bound on the rows
unless every working invocation still has its row.  `WorkInv` says why it has:
`Admitted`, the live rows never exceed the permits, nor those of the background
their share; `Sound`, for each invocation, that its own lease, which it counts from
the *start* of the call that obtained it, ends no later than the row that call
wrote or prolonged, and that no release of its row is under way while it works.
That permits come back (`NoPermitLeaks`) needs `LeakInv`: short of a failure no
acquisition is astray, and an invocation that has closed with a permit has its release
under way, wherever closing overtook it.

`AdmissionImplementsPool` goes action by action.  An admission removes only expired rows,
which `Held` does not contain, and adds one where there is room, so it is `Count` or nothing
that the pool shows.  An answer is `Start` if it brings authority, and then `Sound` says that
the row is live; only an acquisition brings it, and each invocation settles one.  Everything else
takes rows or authority away, or neither (`Leaves`): who would work without a row stops in the
same step, since authority ends no later than the row.
The passing of time is the step where many end at once.

### Policy snapshot

`PolicyInv` dates every revision anyone holds: `History` says since when each
revision has been the current one, `SnapshotSound` that the snapshot was current
when the load it came from began and is absent while another call to the database
is under way, `Sound` the same of every request's own copy, and that none is
behind a write its own call had to catch up with.

For `ObjectImplementsRegister`, `PolicyInv` gives that what a read is answered is acceptable to
the register when it is answered.  `RegisterInv` adds what the mapping needs: a request
that has not been delivered is as it was at first, one without an answer has no revision yet,
a writer that has come expects a revision, and who holds the gate has a call under way, so that a
reset and a failure change nothing that the register shows but their own request.  One delivery to the
object may be several steps of it: a write that comes, is checked against
the snapshot and refused is one `Refuse`, which is why the register lets a refusal name the revision.

### Identity selection

`IdentityInv` has a part for each table.  `ReportsConverge` is the two of them together.  Those about rates and cooldowns are inductive with
the types: what matters is that whatever a report does to a row is the maximum, in the
order of strictness, of what was heard, that merging in any order gives the same, and that
a deletion takes expired rows only.  A relay has tried only those that failed it and the
one it has now.  `SelectionsFollowReports` needs two lemmas besides: an identity that the
tables call usable is one that all reports call good, and the reverse (`UsableIsKnownGood`);
and of finitely many usable ones some has the highest score (`SomeoneIsBest`, from the
strict subset order being well-founded), or else the coordinator could have nothing to
choose though an identity is good.

### Relay flow

`RelayInv` adds to the first two properties what is known
of a relay at each stage: `FillFits`, where it has a fill; `KeyFits`, that it waits for
and works under the shared key or that of the identity it chose, and that in the pool it
is at no key it could choose again (else it would wait for its own fill); `RefreshFits`,
that a refresh is of the shared key and begins without a fill.  One lemma shows that each
action keeps `RelayInv`; those about `Go`, `SwitchKey` and a grant do the common part.

Most actions are *calm*: one relay goes on, tables stay as they are, and what it holds
afterwards follows from what it held.  `PrivateStaysPrivate` rests on `PrivateInv`: of a private
repository no body exists under any key, and every relay is `Quiet`, that is, it has no proof and no
answer to serve or to publish; calm actions keep that, and the few others are looked at.
`RefreshesAreCounted` rests on `CountInv`: what an isolate has listed is exactly what the
refreshes that run there refresh, each key once.

### Callers and public repositories

A token that stopped being valid may still be accepted from a cache, so the time since is
what has to be bounded: `AccessInv` says of every cached row, and of every one on its way to
a cache, that it expires within `ConfigTtl` of when its token left D1, and that it is not of
a token that was gone when its isolate cleared its cache, since a load from before has an older
generation.  Whatever says that the account is a member is dated no later than its
leaving; a cached membership expires within `ConfigTtl` of when the proof it rests on
does.  Both parts are needed of requests too, at each stage, as they act on what they have read.

`ProofInv` says of every proof, in the row, in the copy or in a request's hands, that GitHub spoke for
it no later than it is dated, that it was published in a turn that has begun, and, if it calls the
repository public, that GitHub did so before the repository was hidden, that it is dated within
`ProbeLimit` of that and that it lasts `PublicTtl` from its date.  A request is served only on a proof
that covers what it needs (the time it began, or that at which a cached answer was made, with the
slack the code allows) and that is not
behind the evidence it has found itself.

### Bodies, logs and lists

`ReadsInv` says of every body, in a row, a copy, a reader's memory or on its way between
them, that it is dated when it was fetched and lasts from then no longer than its route lets the
freshest such body last, whoever writes it and when.  What a reader has found was young
enough by those dates at the time it chose it.  A proof of a claim lasts from when GitHub was asked, which
was before the named version was replaced, or within a call of it.

`LogsInv` says that an object, in R2 or in the hands of a request, is dated within the
limits of a call and of a proof from when GitHub had the log, and that a request gets as far
as a put only if it has found the job over.

`JobsInv` says of a page that it is a slice of what the attempt had at one moment (`PageOf`);
of a list that is being merged, that it is a prefix of the attempt's jobs which ends where a page
does (`ReadSoFar`); of one that is merged, that it will be refused as incomplete or is all there was
when its last page was read (`WholeOf`).  This holds although pages are read at different times,
because an attempt only adds jobs at the end, and a full page or a last one leaves no gap.
`SizesInv` bounds the lists by the same argument.

The lists of runs are sets of positions, and `RunListsAreExact` comes down to three lemmas about
the first entries of such a set: those of a beginning that is long enough are those of the
whole (`NewestGoesOn`), those of the first entries are the first (`NewestOfNewest`), and a list that
is short enough is kept (`NewestIsAll`); the rest is arithmetic of page sizes and limits.

### One machine

`SlotsInv` says that a process which works within a budget has the lock of the file under the
name of its slot, in the directory that its excuse stands for.  No name is ever given to
another file, so two of them in one directory have two slots, and the bound is that of an
injection into the slots.

`JournalInv` says that the two generations are different files; that who removes or renames has
the lock of the rotation, and found a full journal, which only grows; and that what a
summary has counted is not in the journal any more, or never was written twice.

`ClientInv` has three parts.  `FetchOK` says of a read that it was permitted if the present policy
allows it or if it was told so, that its timers end by its deadline once it has met an overloaded
relay (each sleep and each call is cut to what is left, and time does not pass a timer that is due),
and that a result is suspect only once the command is cancelled.  `ReceivedOK` is the heart of the
other two properties: the failure that is retained is terminal and is no artefact of the command's own
cancellation, since nothing was cancelled when it came to be, unless the caller interrupted; and a read whose
terminal failure has been received leaves one retained, whichever read was first.  `CommandOK` carries both
through the handoff.

### Only model-checked

Liveness (`EveryRequestEnds` of three modules, `EveryReadAnswered`): it needs fairness and
ENABLED, which the provers do not handle.

`OnlyCompletedLogsEnter` is false (section 3).

## 5. Not modelled

The parsers of GitHub pages, route patterns, JSON and text processing, dashboards
and command formatting are functions of their inputs, with unit tests and fixtures
in the repository, and nothing concurrent.  Network transport is nondeterminism in
the models.  The platform is assumed to keep one instance of a Durable Object, to
run its SQL and D1 statements atomically, and not to deliver events while
`blockConcurrencyWhile` holds; the system to give a lock back when its holder dies.

The fills that a coordinator keeps in memory for workers of an earlier version
(`acquireCacheFill` and its companions) have no caller left but the refresh path of such
workers.  Caches of installation tokens (`github-auth.ts`) hold values that are equally
good whoever stored them last.  Views of a run that are derived from lists
(`run-view-superset.ts`) and the rest of
the CLI (pagination, watches, rewrite guard, login) are not modelled yet.

The maintenance sweep has no module of its own.  It takes the tables one by one in bounded
batches, and a table that fails stops it before the later ones, as `docs/operations.md` says.
What it deletes is deleted in the models by actions that may be taken at any time or never
(`PruneOwner`, `PruneBody`, `PruneSessions` and their like), so no property relies on its coming.

## 6. Plan

Done: `Publication` with its abstract specification, `BackendWork`, `PolicySnapshot`,
`IdentitySelection`, `RelayFlow`, `CallerAccess`, `PublicProof`, `CacheReads`, `TerminalLogs`,
`JobLists`, `RunLists`, `RelaySlots`, `NativeJournal` and `RelayClient`, model-checked, and their
safety proved; `PermitPool` and `RevisionRegister`, with proofs that they are implemented.

Left to model, in order:

1. `Watch`, `RewriteGuard`: the handoff of a watch to `gh`; what was checked against
   what is run;
2. `Tokens`: minting, reuse and expiry;
3. `Pagination` and views of a run, as pure operators against reference definitions;
4. in `RelayFlow`, reads with a maximum age and conditional reads.

Left to prove: that `RelayFlow`'s fills of one key implement the grants of `PublicationFence`,
so that the two models of publication are one.  Liveness stays with TLC.
