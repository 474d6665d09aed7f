------------------------------ MODULE PublicProof ------------------------------
(***************************************************************************)
(* Octopool relays public repositories only.  Before a credentialed or a   *)
(* cached answer is used, ensurePublicGitHubRepo finds a proof that the    *)
(* repository is public: a copy in the edge cache, the row in D1, or one   *)
(* that this request makes by asking GitHub while it owns the proof's      *)
(* publication.  Anonymous reads that succeed leave a proof behind, too.   *)
(*                                                                         *)
(* One repository is followed, which is public until it is made private.   *)
(* A tick is the five seconds by which a proof may be older than what it   *)
(* covers.  Leases, waiters and lost completions are those of Publication; *)
(* here they are the turn of one request, which it can lose.               *)
(***************************************************************************)
EXTENDS Naturals, FiniteSets

CONSTANTS
    Guards,       \* requests that ask for a proof, or leave one behind
    NoGuard,      \* nobody has the turn
    ModesOf,      \* of a request: of "fresh", "cached", "tokenfree", "anonymous"
    PublicTtl,    \* ticks of a positive proof (PUBLIC_REPO_TTL_SECONDS)
    PrivateTtl,   \* ticks of a negative one (PUBLIC_REPO_NEGATIVE_TTL_SECONDS)
    ProbeLimit,   \* ticks GitHub may take to answer (requestTimeoutMs)
    LastTick,     \* bound: ticks of one behaviour
    MaxMishaps    \* bound: lost turns, writes and completions

ASSUME ProofAssumption ==
    /\ NoGuard \notin Guards
    /\ ModesOf \in [Guards -> SUBSET {"fresh", "cached", "tokenfree", "anonymous"}]
    /\ PublicTtl \in Nat \ {0} /\ PrivateTtl \in Nat \ {0}
    /\ ProbeLimit \in Nat /\ LastTick \in Nat /\ MaxMishaps \in Nat

VARIABLES
    clock,
    hidden,     \* when the repository was made private
    proof,      \* the row of github_public_repo_proofs
    copy,       \* the proof in the edge cache
    turn,       \* who may publish a proof, and the last capability given out
    guard,
    mishaps

proofVars == <<clock, hidden, proof, copy, turn, guard, mishaps>>

Slack == 1
NotYet == LastTick + 1
Visible == hidden = NotYet

\* id is the publication, seen is when GitHub looked, at is checked_at.
Proof(id, positive, seen, at) ==
    [id |-> id, public |-> positive, seen |-> seen, at |-> at,
     until |-> at + IF positive THEN PublicTtl ELSE PrivateTtl]

NoProof == [id |-> 0, public |-> FALSE, seen |-> 0, at |-> 0, until |-> 0]

\* created is when the cached answer was made; due is when the probe times out;
\* own is the proof it made, or the row it copies to the edge; evidence is the
\* publication it was served on, at decided.
NewGuard ==
    [stage |-> "idle", mode |-> "fresh", began |-> 0, created |-> 0, floor |-> 0,
     id |-> 0, due |-> 0, own |-> NoProof, told |-> 0, evidence |-> 0, decided |-> 0]

ProofInit ==
    /\ clock = 0 /\ hidden = NotYet
    /\ proof = NoProof /\ copy = NoProof
    /\ turn = [holder |-> NoGuard, last |-> 0]
    /\ guard = [g \in Guards |-> NewGuard]
    /\ mishaps = 0

Mishap == mishaps < MaxMishaps /\ mishaps' = mishaps + 1

--------------------------------------------------------------------------------
(* What a proof is good for, and how a request ends.                       *)

Fresh(p) == p.until > clock

\* publicProofCovers: not older than what it covers, give or take five seconds.
Covers(p, at) == Fresh(p) /\ p.at + Slack >= at

\* The evidence floor is kept from one attempt to the next.
GoodEnough(g, p, at) == p.public /\ p.id >= guard[g].floor /\ Covers(p, at)

End(g, stage) == [NewGuard EXCEPT !.stage = stage]

Serve(g, p) ==
    [guard[g] EXCEPT !.stage = "served", !.id = 0, !.own = NoProof, !.told = 0,
                     !.evidence = p.id, !.decided = clock, !.due = 0]

Go(g, q) == guard' = [guard EXCEPT ![g] = q]

\* A fill that ends in any other way than by publishing is failed.  Whoever waits
\* for the turn is told its outcome, and asks again if that is not "shared".
Told(all, id) ==
    [h \in Guards |->
        IF all[h].stage # "waiting" THEN all[h]
        ELSE [all[h] EXCEPT !.stage = IF id = 0 THEN "acquire" ELSE "joined", !.told = id]]

GiveUp(g, q, id) ==
    IF turn.holder = g
    THEN /\ guard' = Told([guard EXCEPT ![g] = q], id)
         /\ turn' = [turn EXCEPT !.holder = NoGuard]
    ELSE Go(g, q) /\ UNCHANGED turn

--------------------------------------------------------------------------------
(* Known proofs.                                                           *)

Begin(g, mode, created) ==
    /\ guard[g].stage = "idle"
    /\ created <= clock /\ (mode # "cached" => created = 0)
    /\ Go(g, [NewGuard EXCEPT !.stage = IF mode = "anonymous" THEN "try" ELSE "edge",
                              !.mode = mode, !.began = clock, !.created = created])
    /\ UNCHANGED <<clock, hidden, proof, copy, turn, mishaps>>

\* What comes after the known proofs.
Onward(g, stage) ==
    [guard[g] EXCEPT !.stage = IF guard[g].mode = "cached" THEN stage ELSE "acquire"]

\* rejectFreshNegativePublicRepoProof: a fresh copy decides whether it is negative,
\* and may cover a cached answer.
ReadEdge(g) ==
    LET q == guard[g] IN
    /\ q.stage = "edge"
    /\ Go(g, IF ~Fresh(copy) THEN [q EXCEPT !.stage = "negative"]
             ELSE IF ~copy.public THEN End(g, "refused")
             ELSE IF q.mode = "cached" /\ GoodEnough(g, copy, q.created) THEN Serve(g, copy)
             ELSE Onward(g, "row"))
    /\ UNCHANGED <<clock, hidden, proof, copy, turn, mishaps>>

\* Without one, a negative row of D1 does, and is copied to the edge.
ReadNegative(g) ==
    /\ guard[g].stage = "negative"
    /\ Go(g, IF Fresh(proof) /\ ~proof.public
             THEN [guard[g] EXCEPT !.stage = "copying", !.own = proof]
             ELSE Onward(g, "edgeagain"))
    /\ UNCHANGED <<clock, hidden, proof, copy, turn, mishaps>>

\* coveringPublicRepoProofSource reads the edge and then D1.  It is asked for a
\* cached answer, and again when GitHub could not be: what it does not find then
\* is an error.
ReadEdgeAgain(g) ==
    LET q == guard[g] IN
    /\ q.stage \in {"edgeagain", "edgehistory"}
    /\ IF GoodEnough(g, copy, q.created)
       THEN GiveUp(g, Serve(g, copy), 0)
       ELSE /\ Go(g, [q EXCEPT !.stage = IF q.stage = "edgeagain" THEN "row" ELSE "history"])
            /\ UNCHANGED turn
    /\ UNCHANGED <<clock, hidden, proof, copy, mishaps>>

ReadRow(g) ==
    LET q == guard[g] IN
    /\ q.stage \in {"row", "history"}
    /\ IF GoodEnough(g, proof, q.created)
       THEN Go(g, [q EXCEPT !.stage = "copying", !.own = proof, !.decided = clock])
            /\ UNCHANGED turn
       ELSE IF q.stage = "row"
       THEN Go(g, [q EXCEPT !.stage = "acquire"]) /\ UNCHANGED turn
       ELSE GiveUp(g, End(g, "failed"), 0)
    /\ UNCHANGED <<clock, hidden, proof, copy, mishaps>>

\* Mutant: a copy lives as long as a proof made now.
PutStretched(p) ==
    copy' \in {copy, [p EXCEPT !.until = clock + IF p.public THEN PublicTtl ELSE PrivateTtl]}

\* writeEdgeJSON puts what is not expired, or fails, whatever the edge holds.
Put(p) == IF Fresh(p) THEN copy' \in {copy, p} ELSE UNCHANGED copy

CopyRow(g) ==
    LET q == guard[g] IN
    /\ q.stage = "copying"
    /\ Put(q.own)
    /\ GiveUp(g, IF q.own.public
                 THEN [Serve(g, q.own) EXCEPT !.decided = q.decided] ELSE End(g, "refused"), 0)
    /\ UNCHANGED <<clock, hidden, proof, mishaps>>

--------------------------------------------------------------------------------
(* The turn.                                                               *)

\* A probe begins, which GitHub has to answer in time.
Asking(q) == [q EXCEPT !.stage = "asking", !.due = clock + ProbeLimit]

Acquire(g) ==
    LET q == [guard[g] EXCEPT !.id = turn.last + 1] IN
    /\ guard[g].stage \in {"acquire", "try"}
    /\ turn.holder = NoGuard
    /\ turn' = [holder |-> g, last |-> turn.last + 1]
    /\ guard' = [Told(guard, 0) EXCEPT ![g] =
                    IF q.mode = "cached" THEN [q EXCEPT !.stage = "reuse"] ELSE Asking(q)]
    /\ UNCHANGED <<clock, hidden, proof, copy, mishaps>>

\* Someone else has it: wait, or read anonymously without leaving a proof.
Busy(g) ==
    /\ guard[g].stage \in {"acquire", "try"}
    /\ turn.holder # NoGuard
    /\ Go(g, IF guard[g].stage = "try" THEN Asking(guard[g])
             ELSE [guard[g] EXCEPT !.stage = "waiting"])
    /\ UNCHANGED <<clock, hidden, proof, copy, turn, mishaps>>

\* Mutant: what a request has seen itself does not count.
AuthorityForgetful(g, at, least) ==
    IF ~Fresh(proof) \/ proof.id < least THEN "none"
    ELSE IF ~proof.public THEN "refuse"
    ELSE IF Covers(proof, at) THEN "serve" ELSE "none"

\* readAuthoritativeProof, from the primary: what it says of a request that takes
\* no proof older than a time and than a publication.
Authority(g, at, least) ==
    IF ~Fresh(proof) \/ proof.id < guard[g].floor \/ proof.id < least THEN "none"
    ELSE IF ~proof.public THEN "refuse"
    ELSE IF GoodEnough(g, proof, at) THEN "serve" ELSE "none"

\* The proof another request has published since it began.
Joined(g) ==
    LET q == guard[g]
        says == Authority(g, q.began, q.told) IN
    /\ q.stage = "joined"
    /\ Go(g, IF says = "serve" THEN Serve(g, proof)
             ELSE IF says = "refuse" THEN End(g, "refused")
             ELSE [q EXCEPT !.stage = "acquire", !.told = 0])
    /\ UNCHANGED <<clock, hidden, proof, copy, turn, mishaps>>

\* With the turn, the row may cover the cached answer by now.
Reuse(g) ==
    LET q == guard[g]
        says == Authority(g, q.created, 0) IN
    /\ q.stage = "reuse"
    /\ IF says = "none" THEN Go(g, Asking(q)) /\ UNCHANGED turn
       ELSE IF says = "serve" THEN GiveUp(g, Serve(g, proof), proof.id)
       ELSE GiveUp(g, End(g, "refused"), 0)
    /\ UNCHANGED <<clock, hidden, proof, copy, mishaps>>

--------------------------------------------------------------------------------
(* The probe.                                                              *)

\* What GitHub may answer to the API with a credential and without one, and what
\* the repository's page says.
WithCredential(public) ==
    {"unauthorized", "limited", "refused"} \cup IF public THEN {"public"} ELSE {"private", "missing"}
WithoutCredential(public) ==
    {"unauthorized", "limited", "refused"} \cup IF public THEN {"public"} ELSE {"missing"}
Page(public) == {"unknown"} \cup IF public THEN {"public"} ELSE {"private"}

\* refreshPublicGitHubRepoProof: a bad or exhausted credential is left out the
\* second time, an exhausted address reads the page, and an old proof may do
\* when a limit was met.
Verdict(first, second, page) ==
    LET retried == first \in {"unauthorized", "limited"}
        last == IF retried THEN second ELSE first IN
    IF last = "limited" /\ page # "unknown" THEN page
    ELSE IF last \in {"missing", "private"} THEN "private"
    ELSE IF last = "public" THEN "public"
    ELSE IF "limited" \in {first, last} THEN "history" ELSE "failed"

Verdicts(mode, public) ==
    IF mode = "tokenfree"
    THEN {IF p = "unknown" THEN "failed" ELSE p : p \in Page(public)}
    ELSE IF mode = "anonymous"
    THEN {IF a = "public" THEN a ELSE "failed" : a \in WithoutCredential(public)}
    ELSE {Verdict(a, b, p) : a \in WithCredential(public), b \in WithoutCredential(public),
                             p \in Page(public)}

\* GitHub looks at the repository.
Look(g) ==
    LET q == guard[g] IN
    /\ q.stage = "asking"
    /\ \E v \in Verdicts(q.mode, Visible) :
         IF v \in {"public", "private"}
         THEN /\ Go(g, [q EXCEPT !.stage = "answered",
                                 !.own = Proof(q.id, v = "public", clock, clock)])
              /\ UNCHANGED turn
         ELSE IF v = "history" /\ q.mode = "cached"
         THEN Go(g, [q EXCEPT !.stage = "edgehistory"]) /\ UNCHANGED turn
         ELSE GiveUp(g, End(g, "failed"), 0)
    /\ UNCHANGED <<clock, hidden, proof, copy, mishaps>>

\* Its answer arrives, and dates the proof; an anonymous read without the turn
\* is over.  From here on the request has seen for itself.
Arrive(g) ==
    LET q == guard[g] IN
    /\ q.stage = "answered"
    /\ Go(g, IF q.id = 0 THEN End(g, "read")
             ELSE [q EXCEPT !.stage = IF turn.holder = g THEN "store" ELSE "lost",
                            !.own = Proof(q.id, @.public, @.seen, clock),
                            !.floor = q.id])
    /\ UNCHANGED <<clock, hidden, proof, copy, turn, mishaps>>

--------------------------------------------------------------------------------
(* Publication of the proof.                                               *)

Accepts(g) ==
    LET own == guard[g].own IN turn.holder = g /\ Fresh(own) /\ proof.id < own.id

\* The upsert returns its receipt, or was refused: that nothing of this proof is
\* in D1 is known either way.
Store(g) ==
    /\ guard[g].stage = "store"
    /\ IF Accepts(g)
       THEN proof' = guard[g].own /\ Go(g, [guard[g] EXCEPT !.stage = "put"])
       ELSE UNCHANGED proof /\ Go(g, [guard[g] EXCEPT !.stage = "rejected"])
    /\ UNCHANGED <<clock, hidden, copy, turn, mishaps>>

\* The statement and the look for its receipt both fail.
StoreUnknown(g) ==
    /\ guard[g].stage = "store"
    /\ Mishap
    /\ \/ Accepts(g) /\ proof' = guard[g].own
       \/ UNCHANGED proof
    /\ Go(g, [guard[g] EXCEPT !.stage = "unknown"])
    /\ UNCHANGED <<clock, hidden, copy, turn>>

PutProof(g) ==
    /\ guard[g].stage = "put"
    /\ Put(guard[g].own)
    /\ Go(g, [guard[g] EXCEPT !.stage = "shared"])
    /\ UNCHANGED <<clock, hidden, proof, turn, mishaps>>

\* The request's own observation decides if its publication was completed, even
\* without being stored, and has not expired.
Complete(g) ==
    LET q == guard[g] IN
    /\ q.stage \in {"shared", "unknown", "rejected"}
    /\ GiveUp(g, IF q.mode = "anonymous" THEN End(g, "read")
                 ELSE IF q.stage = "rejected" \/ turn.holder # g \/ ~Fresh(q.own)
                 THEN [q EXCEPT !.stage = "lost"]
                 ELSE IF q.own.public THEN Serve(g, q.own) ELSE End(g, "refused"),
              IF q.stage = "shared" THEN q.id ELSE 0)
    /\ UNCHANGED <<clock, hidden, proof, copy, mishaps>>

\* The completion is lost: the turn passes when its lease has run out.
CompletionLost(g) ==
    LET q == guard[g] IN
    /\ q.stage \in {"shared", "unknown"} /\ q.mode # "anonymous"
    /\ Mishap
    /\ Go(g, [q EXCEPT !.stage = "lost"])
    /\ UNCHANGED <<clock, hidden, proof, copy, turn>>

\* Its evidence is lost; another's, no older than the request nor than its own
\* publication, may do.
Recover(g) ==
    LET q == guard[g]
        says == IF q.mode = "anonymous" THEN "over" ELSE Authority(g, q.began, 0) IN
    /\ q.stage = "lost"
    /\ Go(g, IF says = "over" THEN End(g, "read")
             ELSE IF says = "serve" THEN Serve(g, proof)
             ELSE IF says = "refuse" THEN End(g, "refused")
             ELSE [q EXCEPT !.stage = "acquire", !.own = NoProof, !.id = 0])
    /\ UNCHANGED <<clock, hidden, proof, copy, turn, mishaps>>

\* A lease runs out under its holder, if that still works at all.
LoseTurn(g) ==
    /\ turn.holder = g
    /\ \/ guard[g].stage \in {"lost", "acquire", "waiting", "joined", "served", "refused"}
          /\ UNCHANGED mishaps
       \/ Mishap
    /\ turn' = [turn EXCEPT !.holder = NoGuard]
    /\ guard' = Told(guard, 0)
    /\ UNCHANGED <<clock, hidden, proof, copy>>

--------------------------------------------------------------------------------

\* Calls to GitHub end in time.
ProofTick ==
    /\ clock < LastTick
    /\ \A g \in Guards : guard[g].stage \in {"asking", "answered"} => clock < guard[g].due
    /\ clock' = clock + 1
    /\ UNCHANGED <<hidden, proof, copy, turn, guard, mishaps>>

Hide ==
    /\ Visible
    /\ hidden' = clock
    /\ UNCHANGED <<clock, proof, copy, turn, guard, mishaps>>

Guard(g) ==
    \/ \E mode \in ModesOf[g], created \in 0..LastTick : Begin(g, mode, created)
    \/ ReadEdge(g) \/ ReadNegative(g) \/ ReadEdgeAgain(g) \/ ReadRow(g) \/ CopyRow(g)
    \/ Acquire(g) \/ Busy(g) \/ Joined(g) \/ Reuse(g)
    \/ Look(g) \/ Arrive(g)
    \/ Store(g) \/ StoreUnknown(g) \/ PutProof(g)
    \/ Complete(g) \/ CompletionLost(g) \/ Recover(g) \/ LoseTurn(g)

ProofNext ==
    \/ \E g \in Guards : Guard(g)
    \/ ProofTick \/ Hide

ProofSpec == ProofInit /\ [][ProofNext]_proofVars

--------------------------------------------------------------------------------
(* Properties.                                                             *)

GuardStages ==
    {"idle", "edge", "negative", "edgeagain", "edgehistory", "row", "history", "copying",
     "try", "acquire", "waiting", "joined", "reuse", "asking", "answered", "store",
     "put", "shared", "unknown", "rejected", "lost", "served", "refused", "failed", "read"}

ProofTypeOK ==
    /\ clock \in 0..LastTick /\ hidden \in 0..NotYet
    /\ turn.holder \in Guards \cup {NoGuard}
    /\ \A g \in Guards : guard[g].stage \in GuardStages /\ guard[g].floor <= turn.last
    /\ \A p \in {proof, copy} : p.id <= turn.last /\ p.seen <= p.at /\ p.at <= clock

Served(mode) == {g \in Guards : guard[g].stage = "served" /\ guard[g].mode = mode}

\* Once a repository has been made private, its answers are served for the life
\* of one proof and the time GitHub may take, and no longer: whatever copies are
\* made of proofs, and in whichever order.  A request that asks for a fresh proof,
\* and a cached answer, need one from no earlier than themselves.
PrivateReposStopBeingServed ==
    /\ \A g \in UNION {Served(m) : m \in {"fresh", "cached", "tokenfree"}} :
          Visible \/ guard[g].decided < hidden + PublicTtl + ProbeLimit
    /\ \A g \in Served("fresh") \cup Served("tokenfree") :
          Visible \/ guard[g].began <= hidden + Slack + ProbeLimit
    /\ \A g \in Served("cached") :
          Visible \/ guard[g].created <= hidden + Slack + ProbeLimit

\* A request that has looked for itself is never served on an older publication,
\* however often it has to start over and whoever it waits for.
OwnEvidenceStands ==
    \A g \in Guards : guard[g].stage = "served" => guard[g].evidence >= guard[g].floor
================================================================================
