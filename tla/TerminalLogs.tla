------------------------------ MODULE TerminalLogs ------------------------------
(***************************************************************************)
(* The logs of finished Actions jobs, kept for a week in an R2 bucket.  An *)
(* object is served for an hour, and then as long as a probe finds that    *)
(* GitHub still has the log.  A request that finds no object downloads the *)
(* log and answers; whether the job is over is found out after that, in    *)
(* the background, and the very bytes that were served are stored.         *)
(*                                                                         *)
(* One job is followed, in one isolate.  Puts are not cancelled and land   *)
(* when they like.                                                         *)
(***************************************************************************)
EXTENDS Naturals, FiniteSets

CONSTANTS
    Askers,        \* requests for the log
    Ages,          \* maximum ages their callers give; NoLimit for none
    LogTtl,        \* ticks an object is kept (LOG_TTL_SECONDS)
    LogRevalidate, \* ticks it is served without a probe (LOG_REVALIDATE_SECONDS)
    AskLimit,      \* ticks GitHub may take to answer (requestTimeoutMs)
    ProofLimit,    \* ticks of a proof in the background (20 seconds)
    MaxProofs,     \* MAX_DEFERRED_TERMINAL_LOG_PROOFS
    LastHour,      \* bound: ticks of one behaviour
    MaxLosses      \* bound: failed calls

ASSUME LogsAssumption ==
    /\ LogTtl \in Nat /\ LogRevalidate \in Nat /\ AskLimit \in Nat /\ ProofLimit \in Nat
    /\ MaxProofs \in Nat /\ LastHour \in Nat /\ MaxLosses \in Nat
    /\ Ages \subseteq 0..(LastHour + 1)

VARIABLES
    hour,
    completed,   \* whether the job is
    deleted,     \* when GitHub dropped its log
    jobRow,      \* D1 has a job_view row of this job that says completed
    object,      \* in R2
    proofs,      \* deferredTerminalLogProofs
    asker,
    losses

logVars == <<hour, completed, deleted, jobRow, object, proofs, asker, losses>>

NoLimit == LastHour + 1
NotDeleted == LastHour + 1

\* whole: of a job that was over; lossless: stored with the current codec; seen is
\* when GitHub had the log, at is created-at.
Object(whole, lossless, seen, at) ==
    [there |-> TRUE, whole |-> whole, lossless |-> lossless, seen |-> seen, at |-> at]

NoObject == [Object(FALSE, FALSE, 0, 0) EXCEPT !.there = FALSE]

\* body is what the request holds; deferred is terminalLogProofDeferred; due is
\* when what it does is cut off; at is when it answered without asking GitHub.
NewAsker ==
    [stage |-> "idle", age |-> NoLimit, body |-> NoObject, deferred |-> FALSE,
     due |-> 0, at |-> 0]

LogsInit ==
    /\ hour = 0 /\ completed \in BOOLEAN /\ deleted = NotDeleted /\ jobRow = FALSE
    /\ object \in {NoObject} \cup
         IF completed THEN {Object(TRUE, lossless, 0, 0) : lossless \in BOOLEAN} ELSE {}
    /\ proofs = 0
    /\ asker = [q \in Askers |-> NewAsker]
    /\ losses = 0

Loss == losses < MaxLosses /\ losses' = losses + 1
HasLog == deleted = NotDeleted

Turns(q, a) == asker' = [asker EXCEPT ![q] = a]
Alone(q, a) ==
    Turns(q, a) /\ UNCHANGED <<hour, completed, deleted, jobRow, object, proofs, losses>>

Done(a, stage) == [NewAsker EXCEPT !.stage = stage, !.age = a.age]

--------------------------------------------------------------------------------
(* Reading an object.                                                      *)

Ask(q, age) ==
    /\ asker[q].stage = "idle"
    /\ Alone(q, [NewAsker EXCEPT !.stage = "look", !.age = age])

\* readTerminalLogCache: an old object is deleted, one of the old codec left where
\* it is, and without a usable object the proof is deferred.
ReadLog(q) ==
    LET missed == [asker[q] EXCEPT !.stage = "download", !.deferred = TRUE] IN
    /\ asker[q].stage = "look"
    /\ Alone(q, IF ~object.there THEN missed
                ELSE IF hour >= object.at + LogTtl THEN [missed EXCEPT !.stage = "expired"]
                ELSE IF ~object.lossless THEN missed
                ELSE [asker[q] EXCEPT !.stage = "check", !.body = object])

\* R2 fails, and so does ensurePublicGitHubRepo, which ends the request.
ReadFails(q) ==
    /\ asker[q].stage \in {"look", "check"}
    /\ Loss
    /\ Turns(q, IF asker[q].stage = "check" THEN Done(asker[q], "failed")
                ELSE [asker[q] EXCEPT !.stage = "download", !.deferred = TRUE])
    /\ UNCHANGED <<hour, completed, deleted, jobRow, object, proofs>>

\* Whatever is there by now is deleted, if R2 can.
DeleteExpired(q) ==
    /\ asker[q].stage = "expired"
    /\ object' \in {object, NoObject}
    /\ Turns(q, [asker[q] EXCEPT !.stage = "download"])
    /\ UNCHANGED <<hour, completed, deleted, jobRow, proofs, losses>>

\* Mutant: the caller's limit alone decides.
NeedsRevalidationByCaller(a) == a.age # NoLimit /\ hour > a.body.at + a.age

\* terminalLogNeedsRevalidation
NeedsRevalidation(a) ==
    \/ hour >= a.body.at + LogRevalidate
    \/ a.age = 0
    \/ a.age # NoLimit /\ hour > a.body.at + a.age

\* The repository has been found public, which may have taken a while.
CheckAge(q) ==
    LET a == asker[q] IN
    /\ a.stage = "check"
    /\ Alone(q, IF NeedsRevalidation(a) THEN [a EXCEPT !.stage = "probe"]
                ELSE [Done(a, "hit") EXCEPT !.at = hour])

--------------------------------------------------------------------------------
(* Revalidation with a credential.                                         *)

\* GitHub would redirect to the log, or has none.
Probe404(q) ==
    /\ asker[q].stage = "probe" /\ ~HasLog
    /\ Alone(q, [asker[q] EXCEPT !.stage = "remove", !.due = hour + AskLimit])

ProbeExists(q) ==
    /\ asker[q].stage = "probe" /\ HasLog
    /\ Alone(q, [asker[q] EXCEPT !.stage = "renew", !.due = hour + AskLimit,
                                 !.body.seen = hour])

\* Any other answer tells nothing; the log is downloaded, and what is stored keeps
\* the proof that it is of a finished job.
ProbeUnknown(q) ==
    /\ asker[q].stage = "probe"
    /\ Loss
    /\ Turns(q, [asker[q] EXCEPT !.stage = "download"])
    /\ UNCHANGED <<hour, completed, deleted, jobRow, object, proofs>>

\* Mutant: an object is dated when it lands.
SettlesNow(a) == [a.body EXCEPT !.at = hour]

Settles(a) == a.body

\* writeTerminalLogCache dates the object before the put, which may land later.
StartsPut(a) ==
    [a EXCEPT !.stage = "putting", !.due = 0, !.body.at = hour]

\* The very same bytes are stored again.
Renew(q) == asker[q].stage = "renew" /\ Alone(q, StartsPut(asker[q]))

RemoveDeleted(q) ==
    /\ asker[q].stage = "remove"
    /\ object' \in {object, NoObject}
    /\ Turns(q, Done(asker[q], "answered"))
    /\ UNCHANGED <<hour, completed, deleted, jobRow, proofs, losses>>

--------------------------------------------------------------------------------
(* The log itself.                                                         *)

\* GitHub sends what there is of the log by now.
Download(q) ==
    LET a == asker[q] IN
    /\ a.stage = "download" /\ HasLog
    /\ Alone(q, [a EXCEPT !.stage = "downloaded", !.due = hour + AskLimit,
                          !.body = Object(completed, TRUE, hour, 0)])

\* It has none, or cannot be asked: nothing is stored, and nothing deleted.
DownloadFails(q) ==
    /\ asker[q].stage = "download"
    /\ (HasLog /\ Loss) \/ (~HasLog /\ UNCHANGED losses)
    /\ Turns(q, Done(asker[q], "failed"))
    /\ UNCHANGED <<hour, completed, deleted, jobRow, object, proofs>>

\* finalizeRelaySuccess stores the log now if it was stored before.  If not, the
\* request is answered, and a proof begins if not too many are under way.
Deliver(q) ==
    LET a == asker[q] IN
    /\ a.stage = "downloaded"
    /\ \/ /\ ~a.deferred
          /\ Turns(q, StartsPut(a))
          /\ UNCHANGED proofs
       \/ /\ a.deferred /\ proofs < MaxProofs
          /\ Turns(q, [a EXCEPT !.stage = "row", !.due = hour + ProofLimit])
          /\ proofs' = proofs + 1
       \/ /\ a.deferred /\ proofs >= MaxProofs
          /\ Turns(q, Done(a, "answered"))
          /\ UNCHANGED proofs
    /\ UNCHANGED <<hour, completed, deleted, jobRow, object, losses>>

--------------------------------------------------------------------------------
(* The proof that the job is over.                                         *)

\* terminalLogCacheProof: a row of D1 says so,
ProveByRow(q) ==
    LET a == asker[q] IN
    /\ a.stage = "row" /\ hour <= a.due
    /\ Alone(q, IF jobRow THEN StartsPut(a) ELSE [a EXCEPT !.stage = "page"])

\* Mutant: a page without a verdict proves the job over.
ProveByAnyPage(q) ==
    /\ asker[q].stage = "page" /\ hour <= asker[q].due
    /\ Alone(q, StartsPut(asker[q]))

\* or the job's page, if it can be read,
ProveByPage(q) ==
    LET a == asker[q] IN
    /\ a.stage = "page" /\ hour <= a.due
    /\ Alone(q, [a EXCEPT !.stage = "api"]) \/ (completed /\ Alone(q, StartsPut(a)))

\* or GitHub's API does.
ProveByAPI(q) ==
    LET a == asker[q] IN
    /\ a.stage = "api" /\ hour <= a.due
    /\ completed
    /\ Alone(q, StartsPut(a))

\* The job is not over, the calls fail, or the time is up.
Unproven(q) ==
    LET a == asker[q] IN
    /\ \/ a.stage \in {"row", "page", "api"} /\ hour > a.due
       \/ a.stage = "api"
    /\ Turns(q, Done(a, "answered"))
    /\ proofs' = proofs - 1
    /\ UNCHANGED <<hour, completed, deleted, jobRow, object, losses>>

\* A put settles: only then its place among the proofs is free.
PutSettles(q) ==
    LET a == asker[q] IN
    /\ a.stage = "putting"
    /\ object' \in {object, Settles(a)}
    /\ proofs' = proofs - IF a.deferred THEN 1 ELSE 0
    /\ Turns(q, Done(a, "answered"))
    /\ UNCHANGED <<hour, completed, deleted, jobRow, losses>>

--------------------------------------------------------------------------------
(* GitHub, D1 and time.                                                    *)

JobCompletes ==
    /\ ~completed
    /\ completed' = TRUE
    /\ UNCHANGED <<hour, deleted, jobRow, object, proofs, asker, losses>>

LogIsDeleted ==
    /\ completed /\ HasLog
    /\ deleted' = hour
    /\ UNCHANGED <<hour, completed, jobRow, object, proofs, asker, losses>>

\* Somebody views the job, once it is over.
JobIsViewed ==
    /\ completed /\ ~jobRow
    /\ jobRow' = TRUE
    /\ UNCHANGED <<hour, completed, deleted, object, proofs, asker, losses>>

HourPasses ==
    /\ hour < LastHour
    /\ \A q \in Askers :
          asker[q].stage \in {"remove", "renew", "downloaded"} => hour < asker[q].due
    /\ hour' = hour + 1
    /\ UNCHANGED <<completed, deleted, jobRow, object, proofs, asker, losses>>

LogsNext ==
    \/ \E q \in Askers :
          \/ \E age \in Ages : Ask(q, age)
          \/ ReadLog(q) \/ ReadFails(q) \/ DeleteExpired(q) \/ CheckAge(q)
          \/ Probe404(q) \/ ProbeExists(q) \/ ProbeUnknown(q) \/ Renew(q) \/ RemoveDeleted(q)
          \/ Download(q) \/ DownloadFails(q) \/ Deliver(q)
          \/ ProveByRow(q) \/ ProveByPage(q) \/ ProveByAPI(q) \/ Unproven(q)
          \/ PutSettles(q)
    \/ JobCompletes \/ LogIsDeleted \/ JobIsViewed \/ HourPasses

LogsSpec == LogsInit /\ [][LogsNext]_logVars

--------------------------------------------------------------------------------
(* Properties.                                                             *)

LogStages ==
    {"idle", "look", "expired", "check", "probe", "remove", "renew", "download",
     "downloaded", "row", "page", "api", "putting", "hit", "answered", "failed"}

\* The proofs that have not settled are counted, puts that outlived them included.
LogsTypeOK ==
    /\ hour \in 0..LastHour /\ completed \in BOOLEAN /\ jobRow \in BOOLEAN
    /\ proofs <= MaxProofs
    /\ proofs = Cardinality({q \in Askers :
                    asker[q].stage \in {"row", "page", "api"} \/
                    (asker[q].stage = "putting" /\ asker[q].deferred)})
    /\ \A q \in Askers : asker[q].stage \in LogStages

\* A log that GitHub has dropped is served from R2, without asking, for an hour
\* at most, or for as long as the caller said, from when an object of it was
\* dated: deletions that race with puts, puts that land late and objects of
\* requests that overlap do not make it longer (terminal-log-cache.ts).
DeletedLogsStopBeingServed ==
    \A q \in Askers : asker[q].stage = "hit" /\ ~HasLog =>
        /\ asker[q].at < deleted + AskLimit + ProofLimit + LogRevalidate
        /\ asker[q].age = NoLimit
           \/ (asker[q].age > 0 /\ asker[q].at <= deleted + AskLimit + ProofLimit + asker[q].age)

\* Nothing is stored before the job is over, whichever proof was found.
OnlyProvenLogsEnter == object.there => completed

\* The claim of relay.ts that only logs of completed jobs enter the cache.
OnlyCompletedLogsEnter == object.there => object.whole
================================================================================
