------------------------------- MODULE MCAnswers -------------------------------
(***************************************************************************)
(* Instances of the modules that decide who is answered, and with what     *)
(* (CallerAccess, PublicProof, CacheReads, TerminalLogs, JobLists and      *)
(* RunLists), of what the processes of one machine share (RelaySlots and   *)
(* NativeJournal), and of one such process (RelayClient).  They share no   *)
(* variable, so what one of them does is the same whatever the others do.  *)
(* A behaviour follows one part, and the variables of the others keep one  *)
(* value.                                                                  *)
(***************************************************************************)
EXTENDS CallerAccess, PublicProof, CacheReads, TerminalLogs, JobLists, RunLists,
        RelaySlots, NativeJournal, RelayClient, TLC

CONSTANTS
    Parts,               \* the parts that are followed
    p1, p2,              \* actors of the parts but PublicProof and RelayClient
    g1, g2,              \* actors of PublicProof
    w1,                  \* an isolate
    l1, l2, l3, l4       \* logins

VARIABLE part

answerVars ==
    <<part, accessVars, proofVars, readVars, logVars, jobVars, runVars, slotVars,
      journalVars, clientVars>>

--------------------------------------------------------------------------------
(* CallerAccess.  The account has been enrolled as long ago as its         *)
(* membership is fresh, on a machine or with a web session, and logs in    *)
(* once more, from a machine or a browser.                                 *)

OneIsolate == [x \in Requests \cup Logins |-> w1]

\* stage is that of the other logins.
EnrolledBefore(logsIn, stage) ==
    /\ now = OrgTtl /\ member = TRUE
    /\ caller = [id |-> 1, active |-> TRUE, verified |-> 0]
    /\ store = [w \in Isolates |-> {}] /\ generation = [w \in Isolates |-> 0]
    /\ login = [l \in Logins |-> IF l = logsIn THEN NewLogin ELSE Over(stage)]
    /\ req = [c \in Requests |-> NewRequest]
    /\ gone = [l \in Logins |-> Never] /\ leftAt = Never
    /\ retired = [w \in Isolates |-> {}]
    /\ accessFaults = 0

AccessByToken ==
    /\ EnrolledBefore(l2, "done")
    /\ tokens = <<[client |-> "mac", token |-> l1]>>
    /\ sessions = {}

AccessBySession ==
    /\ EnrolledBefore(l4, "refused")
    /\ tokens = <<>>
    /\ sessions = {[session |-> l3, caller |-> 1, expires |-> now + SessionTtl]}

--------------------------------------------------------------------------------
(* PublicProof: a request that needs a fresh proof or one for a cached     *)
(* answer, and an anonymous one, which leaves a proof behind.              *)

GuardModes ==
    [g \in Guards |-> IF g = g1 THEN {"fresh", "cached"} ELSE {"anonymous"}]

--------------------------------------------------------------------------------
(* CacheReads: bodies of two identities that may not be stale; claims and  *)
(* refreshes after the answer; and callers that limit the age of a body.   *)

TwoIdentities == <<"i1", "i2">>

SomeRoute(kind, pinned, pool) ==
    [kind |-> kind, final |-> FALSE, pinned |-> pinned, pool |-> pool]

SomeRoutes ==
    {SomeRoute("graphql_read", FALSE, TRUE), SomeRoute("pr_files", FALSE, FALSE),
     SomeRoute("contents", FALSE, FALSE), SomeRoute("contents", TRUE, FALSE)}

SomeAges ==
    [r \in Routes |-> IF r.kind # "contents" THEN {NoAge}
                      ELSE IF r.pinned THEN {0} ELSE {1}]

SomeClaims == [r \in Routes |-> IF r.kind = "pr_files" THEN {0} ELSE {NoClaim}]

\* No call fails where bodies are those of several identities.
ReadsStart == ReadsInit /\ (slips = IF route.pool THEN MaxSlips ELSE 0)

--------------------------------------------------------------------------------
(* JobLists: an attempt begins with one job, or with two of four counted.  *)

SomeListings == {[jobs |-> 1, total |-> 1], [jobs |-> 2, total |-> 4]}

For(path, page, limit, shaped) ==
    [path |-> path, page |-> page, limit |-> limit, shaped |-> shaped]

SomeJobRequests ==
    {For(1, 1, 1, TRUE), For(1, 2, 1, TRUE), For(Latest, 1, 2, TRUE),
     For(Latest, 1, 1, FALSE), For(Latest, 1, 2, FALSE), For(Latest, 2, 1, FALSE),
     For(1, 2, 1, FALSE)}

(* RunLists: runs that a filter by branch or by status leaves out.         *)

Run(branch, status, conclusion) ==
    [branch |-> branch, status |-> status, conclusion |-> conclusion]

SomeRuns ==
    {Run("main", "completed", "success"), Run("main", "queued", "none"),
     Run("fix", "completed", "success")}

(* RelaySlots: any process may be kept out of either directory, or of both. *)

SomeSandboxes == SUBSET {"temp", "cache"}

(* RelayClient: the settings as they come, and with one retry and no       *)
(* handoff; policies that let everything pass, or not the first read and   *)
(* the handoff.                                                            *)

SomeSettings ==
    {[override |-> FALSE, retries |-> 0, fallback |-> TRUE],
     [override |-> TRUE, retries |-> 1, fallback |-> FALSE]}

SomePolicies == {Subjects, {"second"}}

--------------------------------------------------------------------------------
(* The parts that are not followed: their variables hold next to nothing,  *)
(* so that states are small.                                               *)

Resting == [stage |-> "idle"]

AccessRests ==
    /\ req = [c \in Requests |-> Resting]
    /\ now = 0 /\ member = 0 /\ caller = 0 /\ tokens = 0 /\ sessions = 0 /\ store = 0
    /\ generation = 0 /\ login = 0 /\ accessFaults = 0 /\ gone = 0 /\ leftAt = 0
    /\ retired = 0

ProofRests ==
    /\ guard = [g \in Guards |-> Resting]
    /\ clock = 0 /\ hidden = 0 /\ proof = 0 /\ copy = 0 /\ turn = 0 /\ mishaps = 0

ReadsRest ==
    /\ reader = [r \in Readers |-> Resting]
    /\ minute = 0 /\ route = 0 /\ version = 0 /\ since = 0 /\ claims = 0 /\ row = 0
    /\ edge = 0 /\ fills = 0 /\ slips = 0 /\ goneAt = 0

LogsRest ==
    /\ asker = [q \in Askers |-> Resting] /\ object = [there |-> FALSE]
    /\ hour = 0 /\ completed = 0 /\ deleted = 0 /\ jobRow = 0 /\ proofs = 0 /\ losses = 0

JobsRest ==
    /\ collector = [c \in Collectors |-> Resting]
    /\ second = 0 /\ attempt = 0 /\ listing = 0 /\ merged = 0 /\ pages = 0 /\ viewed = 0

SlotsRest ==
    /\ process = [p \in Processes |-> Resting]
    /\ beat = 0 /\ slotFile = 0 /\ created = 0 /\ locked = 0 /\ snags = 0

JournalRests ==
    /\ writer = [w \in Writers |-> Resting] /\ summary = NoSummary
    /\ size = 0 /\ journal = 0 /\ previous = 0 /\ rotating = 0 /\ stops = 0 /\ landed = 0

ClientRests ==
    /\ command = Resting
    /\ fetch = [r \in Reads |-> [stage |-> "idle", overloaded |-> FALSE]]
    /\ moment = 0 /\ settings = 0 /\ allowed = {} /\ changes = 0 /\ taken = {}
    /\ terminal = NoRead /\ stopped = FALSE

RunListsRest == reply = Resting /\ runs = 0 /\ ask = 0

Init ==
    /\ part \in Parts
    /\ IF part = "access" THEN AccessByToken \/ AccessBySession ELSE AccessRests
    /\ IF part = "proof" THEN ProofInit ELSE ProofRests
    /\ IF part = "reads" THEN ReadsStart ELSE ReadsRest
    /\ IF part = "logs" THEN LogsInit ELSE LogsRest
    /\ IF part = "jobs" THEN JobsInit ELSE JobsRest
    /\ IF part = "runs" THEN RunListsInit ELSE RunListsRest
    /\ IF part = "slots" THEN SlotsInit ELSE SlotsRest
    /\ IF part = "journal" THEN JournalInit ELSE JournalRests
    /\ IF part = "client" THEN ClientInit ELSE ClientRests

Next ==
    /\ UNCHANGED part
    /\ \/ /\ part = "access" /\ AccessNext
          /\ UNCHANGED <<proofVars, readVars, logVars, jobVars,
                         runVars, slotVars, journalVars, clientVars>>
       \/ /\ part = "proof" /\ ProofNext
          /\ UNCHANGED <<accessVars, readVars, logVars, jobVars,
                         runVars, slotVars, journalVars, clientVars>>
       \/ /\ part = "reads" /\ ReadsNext
          /\ UNCHANGED <<accessVars, proofVars, logVars, jobVars,
                         runVars, slotVars, journalVars, clientVars>>
       \/ /\ part = "logs" /\ LogsNext
          /\ UNCHANGED <<accessVars, proofVars, readVars, jobVars,
                         runVars, slotVars, journalVars, clientVars>>
       \/ /\ part = "jobs" /\ JobsNext
          /\ UNCHANGED <<accessVars, proofVars, readVars, logVars,
                         runVars, slotVars, journalVars, clientVars>>
       \/ /\ part = "runs" /\ RunListsNext
          /\ UNCHANGED <<accessVars, proofVars, readVars, logVars,
                         jobVars, slotVars, journalVars, clientVars>>
       \/ /\ part = "slots" /\ SlotsNext
          /\ UNCHANGED <<accessVars, proofVars, readVars, logVars,
                         jobVars, runVars, journalVars, clientVars>>
       \/ /\ part = "journal" /\ JournalNext
          /\ UNCHANGED <<accessVars, proofVars, readVars, logVars,
                         jobVars, runVars, slotVars, clientVars>>
       \/ /\ part = "client" /\ ClientNext
          /\ UNCHANGED <<accessVars, proofVars, readVars, logVars,
                         jobVars, runVars, slotVars, journalVars>>

AnswersSpec == Init /\ [][Next]_answerVars

Symmetry == Permutations({p1, p2})
================================================================================
