------------------------------ MODULE RelayClient ------------------------------
(***************************************************************************)
(* A command that reads two things from the relay at once, retries what is *)
(* worth a retry, and hands itself to gh when the relay asks for that.     *)
(* Every attempt fetches the string-rewrite policy again.  A read that has *)
(* met an overloaded relay goes on under the deadline of its first call.   *)
(* A failure that gh must not repeat cancels the other read; both end      *)
(* before the command does.                                                *)
(*                                                                         *)
(* What the relay answers is a choice.  The relay slot of an attempt       *)
(* (RelaySlots) and the retries of a policy fetch are part of the time     *)
(* that the fetch takes.                                                   *)
(***************************************************************************)
EXTENDS Naturals

CONSTANTS
    ReadLimit,     \* relayReadTimeout
    RetryDelay,    \* relayRetryDelays
    Base,          \* of relayOverloadDelay
    OverloadWait,  \* relayOverloadWait
    Settings,      \* OCTOPOOL_RELAY_RETRIES and OCTOPOOL_NO_FALLBACK: see SettingType
    Policies,      \* what successive policies allow: see Subjects
    LastMoment,    \* bound: the clock, but for who is asleep
    MaxChanges,    \* bound: changes of the policy
    MaxPages       \* bound: pages of one read

Reads == {"first", "second"}
NoRead == "none"
Subjects == Reads \cup {"native"}

SettingType == [override : BOOLEAN, retries : Nat, fallback : BOOLEAN]

ASSUME ClientAssumption ==
    /\ ReadLimit \in Nat \ {0} /\ RetryDelay \in Nat \ {0} /\ Base \in Nat \ {0}
    /\ OverloadWait \in Nat /\ LastMoment \in Nat /\ MaxChanges \in Nat /\ MaxPages \in Nat
    /\ Settings \subseteq SettingType /\ Policies \subseteq SUBSET Subjects

VARIABLES
    moment,
    settings,
    allowed,   \* whom the present policy lets pass
    changes,
    fetch,     \* the reads
    taken,     \* those whose results the command has received
    terminal,  \* the one whose failure it retained
    stopped,   \* the caller has interrupted it
    command

clientVars ==
    <<moment, settings, allowed, changes, fetch, taken, terminal, stopped, command>>

\* verdict: of the policy that was fetched.  permitted: whether, since this attempt
\* began, some policy allowed the read.  artefact: the result may be due to a
\* cancellation only.
NewFetch ==
    [stage |-> "asking", page |-> 1, attempt |-> 0, overloaded |-> FALSE, waited |-> 0,
     deadline |-> 0, timer |-> 0, verdict |-> FALSE, permitted |-> FALSE,
     result |-> "none", artefact |-> FALSE]

\* culprit: the read whose error is returned, or "native" for the handoff's own.
NewCommand ==
    [stage |-> "reading", culprit |-> NoRead, verdict |-> FALSE, permitted |-> FALSE]

ClientInit ==
    /\ moment = 0 /\ settings \in Settings /\ allowed \in Policies /\ changes = 0
    /\ fetch = [r \in Reads |-> [NewFetch EXCEPT !.permitted = r \in allowed]]
    /\ taken = {} /\ terminal = NoRead /\ stopped = FALSE
    /\ command = NewCommand

--------------------------------------------------------------------------------
(* Results of a read.                                                      *)

\* TransientRelayFailure; terminalRelayFailure; isLocalFallback.
Transient == {"overloaded", "depleted", "unavailable", "broken"}
TerminalFailures == {"rejected", "unavailable", "blocked", "policy"}
Fallback == {"overloaded", "depleted", "denied", "timeout", "incomplete"}

\* What comes whole, and what is left of it when the context has been cancelled.
Whole == {"ok", "incomplete", "overloaded", "depleted", "denied", "unavailable",
          "rejected", "garbled"}
Cancelled == stopped \/ terminal # NoRead
RelayReplies == Whole \cup (IF Cancelled THEN {"cancelled"} ELSE {"broken", "timeout"})

unfetched == <<moment, settings, allowed, changes, taken, terminal, stopped, command>>

ReadBecomes(r, f) == fetch' = [fetch EXCEPT ![r] = f] /\ UNCHANGED unfetched

ReadEnds(r, result) ==
    ReadBecomes(r, [NewFetch EXCEPT !.stage = "over", !.result = result,
                                    !.artefact = Cancelled /\ result \in {"cancelled", "policy"}])

--------------------------------------------------------------------------------
(* One attempt: doOnce.                                                    *)

\* The server reads the policy, and its answer is on its way.
SeePolicy(r) ==
    /\ fetch[r].stage = "asking"
    /\ ReadBecomes(r, [fetch[r] EXCEPT !.stage = "told", !.verdict = r \in allowed])

\* The policy cannot be had, before a deadline or a cancellation or for another reason.
PolicyFails(r) ==
    /\ fetch[r].stage \in {"asking", "told"}
    /\ ReadEnds(r, "policy")

Block(r) ==
    /\ fetch[r].stage = "told" /\ ~fetch[r].verdict
    /\ ReadEnds(r, "blocked")

Sooner(a, b) == IF a < b THEN a ELSE b

\* The first call sets the deadline, which later ones share once overloaded.
Post(r) ==
    LET f == fetch[r]
        limit == moment + ReadLimit
        deadline == IF f.deadline = 0 THEN limit ELSE f.deadline
    IN  /\ f.stage = "told" /\ f.verdict
        /\ IF f.overloaded /\ deadline <= moment
           THEN ReadEnds(r, IF Cancelled THEN "cancelled" ELSE "timeout")
           ELSE ReadBecomes(r, [f EXCEPT !.stage = "posted", !.deadline = deadline,
                                         !.timer = IF f.overloaded THEN Sooner(limit, deadline)
                                                   ELSE limit])

--------------------------------------------------------------------------------
(* The loop of do.                                                         *)

Retries(answer) ==
    IF settings.override THEN settings.retries
    ELSE IF answer = "overloaded" THEN 3 ELSE 1

\* RelayOverloadDelay, whose jitter is a choice.
OverloadDelays(attempt) ==
    LET base == IF attempt = 0 THEN Base ELSE IF attempt = 1 THEN 2 * Base ELSE 4 * Base
    IN  base..(2 * base - 1)

Delays(answer, attempt) ==
    IF answer = "overloaded" THEN OverloadDelays(attempt) ELSE {RetryDelay}

\* Mutant: a backoff may consume the deadline.
InWait(f, delay) == f.waited + delay <= OverloadWait

InBudget(f, delay) ==
    /\ f.waited + delay <= OverloadWait
    /\ moment + delay < f.deadline

\* An answer that is worth a retry, for which there is time.
Retry(r, answer, delay) ==
    LET f == [fetch[r] EXCEPT !.overloaded = @ \/ answer = "overloaded"]
    IN  /\ f.attempt < Retries(answer) /\ answer \in Transient
        /\ f.overloaded => InBudget(f, delay)
        /\ IF Cancelled THEN ReadEnds(r, "cancelled")
           ELSE ReadBecomes(r, [f EXCEPT !.stage = "sleeping", !.timer = moment + delay,
                                         !.waited = @ + delay, !.attempt = @ + 1])

\* Any other is the result, for this delay that the retry would have.
Give(r, answer, delay) ==
    LET f == fetch[r]
    IN  /\ \/ f.attempt >= Retries(answer) \/ answer \notin Transient
           \/ (f.overloaded \/ answer = "overloaded") /\ ~InBudget(f, delay)
        /\ ReadEnds(r, answer)

Reply(r, answer) ==
    /\ fetch[r].stage = "posted"
    /\ \E delay \in Delays(answer, fetch[r].attempt) :
          Retry(r, answer, delay) \/ Give(r, answer, delay)

\* Mutant: a retry goes by the policy it was told before.
AttemptAgain(r) == [fetch[r] EXCEPT !.stage = "told", !.permitted = r \in allowed]

Attempt(r) ==
    [fetch[r] EXCEPT !.stage = "asking", !.verdict = FALSE, !.permitted = r \in allowed]

WakeUp(r) ==
    /\ fetch[r].stage = "sleeping"
    /\ \/ moment >= fetch[r].timer /\ ReadBecomes(r, Attempt(r))
       \/ Cancelled /\ ReadEnds(r, "cancelled")

\* The answer has a page after it, which is read in the same way.
Turn(r) ==
    /\ fetch[r].stage = "posted" /\ fetch[r].page < MaxPages
    /\ ReadBecomes(r, [NewFetch EXCEPT !.page = fetch[r].page + 1,
                                       !.permitted = r \in allowed])

--------------------------------------------------------------------------------
(* The command: relayReadPair, and what is done with its error.            *)

\* Mutant: the failure retained is the last one.
RetainLast(r) == IF fetch[r].result \in TerminalFailures THEN r ELSE terminal

Retain(r) ==
    IF terminal = NoRead /\ fetch[r].result \in TerminalFailures THEN r ELSE terminal

FirstFailure ==
    IF fetch["first"].result # "ok" THEN "first"
    ELSE IF fetch["second"].result # "ok" THEN "second" ELSE NoRead

\* Mutant: the failure retained is forgotten.
CulpritForgetting(retained) == FirstFailure

Culprit(retained) == IF retained # NoRead THEN retained ELSE FirstFailure

\* The result of a read is received; after that of the last the command goes on.
Collect(r) ==
    LET retained == Retain(r)
        culprit == Culprit(retained)
        handed == culprit # NoRead /\ fetch[culprit].result \in Fallback /\ settings.fallback
    IN  /\ fetch[r].stage = "over" /\ r \notin taken
        /\ taken' = taken \cup {r}
        /\ terminal' = retained
        /\ IF taken' = Reads
           THEN command' = [stage |-> IF culprit = NoRead THEN "answered"
                                      ELSE IF handed THEN "preparing" ELSE "reported",
                            culprit |-> culprit, verdict |-> FALSE,
                            permitted |-> handed /\ "native" \in allowed]
           ELSE UNCHANGED command
        /\ UNCHANGED <<moment, settings, allowed, changes, fetch, stopped>>

Proceeds(c) ==
    command' = c
    /\ UNCHANGED <<moment, settings, allowed, changes, fetch, taken, terminal, stopped>>

\* PrepareProtectedGH, which fetches the policy once more.
Prepare ==
    /\ command.stage = "preparing"
    /\ Proceeds([command EXCEPT !.stage = "prepared", !.verdict = "native" \in allowed])

NotRun == [command EXCEPT !.stage = "reported", !.culprit = "native"]

PreparationFails == command.stage \in {"preparing", "prepared"} /\ Proceeds(NotRun)

RunNative ==
    /\ command.stage = "prepared"
    /\ Proceeds(IF command.verdict /\ ~stopped
                THEN [command EXCEPT !.stage = "native"] ELSE NotRun)

--------------------------------------------------------------------------------
(* Outside.                                                                *)

Decided == command.stage \in {"answered", "reported", "native"}

Interrupt ==
    /\ ~Decided /\ ~stopped /\ stopped' = TRUE
    /\ UNCHANGED <<moment, settings, allowed, changes, fetch, taken, terminal, command>>

ChangePolicy ==
    /\ ~Decided /\ changes < MaxChanges /\ changes' = changes + 1
    /\ allowed' \in Policies \ {allowed}
    /\ fetch' = [r \in Reads |-> [fetch[r] EXCEPT !.permitted =
                    fetch[r].stage # "over" /\ (@ \/ r \in allowed')]]
    /\ command' = [command EXCEPT !.permitted =
                    command.stage # "reading" /\ (@ \/ "native" \in allowed')]
    /\ UNCHANGED <<moment, settings, taken, terminal, stopped>>

\* Timers are served in time: those of sleep, of a call, and of the deadline that
\* the fetch of a policy has once the relay was overloaded.
Due(f) ==
    \/ f.stage \in {"sleeping", "posted"} /\ f.timer <= moment
    \/ f.stage \in {"asking", "told"} /\ f.overloaded /\ f.deadline <= moment

ClientTick ==
    /\ ~Decided
    /\ \A r \in Reads : ~Due(fetch[r])
    /\ moment < LastMoment \/ \E r \in Reads : fetch[r].stage = "sleeping"
    /\ moment' = moment + 1
    /\ UNCHANGED <<settings, allowed, changes, fetch, taken, terminal, stopped, command>>

CommandOver == Decided /\ UNCHANGED clientVars

ClientNext ==
    \/ \E r \in Reads :
         \/ SeePolicy(r) \/ PolicyFails(r) \/ Block(r) \/ Post(r)
         \/ \E answer \in RelayReplies : Reply(r, answer)
         \/ WakeUp(r) \/ Turn(r) \/ Collect(r)
    \/ Prepare \/ PreparationFails \/ RunNative
    \/ Interrupt \/ ChangePolicy \/ ClientTick \/ CommandOver

ClientSpec == ClientInit /\ [][ClientNext]_clientVars

--------------------------------------------------------------------------------
(* Properties.                                                             *)

FetchType ==
    [stage : {"asking", "told", "posted", "sleeping", "over"}, page : Nat, attempt : Nat,
     overloaded : BOOLEAN, waited : Nat, deadline : Nat, timer : Nat,
     verdict : BOOLEAN, permitted : BOOLEAN,
     result : Whole \cup {"none", "policy", "blocked", "cancelled", "broken", "timeout"},
     artefact : BOOLEAN]

CommandType ==
    [stage : {"reading", "preparing", "prepared", "answered", "reported", "native"},
     culprit : Subjects \cup {NoRead}, verdict : BOOLEAN, permitted : BOOLEAN]

ClientTypeOK ==
    /\ moment \in Nat /\ settings \in SettingType /\ allowed \subseteq Subjects
    /\ changes \in Nat /\ fetch \in [Reads -> FetchType] /\ taken \subseteq Reads
    /\ terminal \in Reads \cup {NoRead} /\ stopped \in BOOLEAN
    /\ command \in CommandType

\* gh is given only what the relay asked to be given or was too slow for: never what
\* it or the policy refused, though it be one of two reads and the other may fail
\* first or later; nor while a read is still under way.
NativeOnlyAfterRefusal ==
    command.stage = "native" =>
        /\ settings.fallback
        /\ \A r \in Reads : fetch[r].stage = "over" /\ fetch[r].result \notin TerminalFailures
        /\ \E r \in Reads : fetch[r].result \in Fallback

\* Unless the caller has interrupted it, a command reports an error that a read had by
\* itself, and not one that its own cancellation brought about.
OwnCancellationIsNotReported ==
    command.stage = "reported" /\ ~stopped =>
        \A r \in Reads : command.culprit = r => ~fetch[r].artefact

\* A read that has met an overloaded relay ends by the deadline of its first call, with
\* its backoffs, its fetches of the policy and its calls.
OverloadedReadsEndInTime ==
    \A r \in Reads :
        fetch[r].overloaded /\ fetch[r].stage # "over" => moment <= fetch[r].deadline

\* Each call of the relay, and gh, is allowed by a policy that was in force after the
\* attempt, or the handoff, had begun: no verdict is carried over from a former one.
CallsArePermitted ==
    /\ \A r \in Reads : fetch[r].stage = "posted" => fetch[r].permitted
    /\ command.stage = "native" => command.permitted
================================================================================
