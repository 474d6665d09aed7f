------------------------------ MODULE ReadsProofs ------------------------------
(***************************************************************************)
(* Proofs about what is answered: CacheReads, for any number of requests   *)
(* and identities, any lifetime of a claim and any number of failures;     *)
(* TerminalLogs, for any number of requests, any limits and any number of  *)
(* mishaps; JobLists, for any page size, number of jobs and attempts; and  *)
(* RunLists, for any sizes, filters and lists of runs.                     *)
(***************************************************************************)
EXTENDS CacheReads, TerminalLogs, JobLists, RunLists, TLAPS, FiniteSetTheorems, SequenceTheorems

(***************************************************************************)
(* Bodies.  Every body there is, in a row, a copy, what a reader remembers *)
(* or a copy on its way, is dated when it was fetched and lasts from then  *)
(* no longer than its route lets the freshest such body last: whoever      *)
(* writes it, and when, changes neither.  What a reader has found is young *)
(* enough by those dates.  A proof of a claim lasts from when GitHub was   *)
(* asked, which is not after the named version was replaced.               *)
(***************************************************************************)

\* What the policies of the routes are made of.
LEMMA PolicyIs ==
    ASSUME NEW k \in DOMAIN RoutePolicy
    PROVE  /\ RoutePolicy[k].fresh \in {"static", "pr", "issue", "run", "run_list", "jobs",
                                        "mutable_ci", "job", "pr_state"}
           /\ RoutePolicy[k].minutes \in Nat /\ RoutePolicy[k].stale \in Nat
           /\ k \in Terminal => RoutePolicy[k].stale <= 1440
  BY DEF RoutePolicy, Policy, Terminal

\* What a route lets a body be is the same as long as the route is.
LEMMA SameRoute ==
    ASSUME UNCHANGED route
    PROVE  /\ \A b : Promised(b)' = Promised(b)
           /\ \A n : StaleMinutes(n)' = StaleMinutes(n)
           /\ \A q : MaxAge(q)' = MaxAge(q)
  BY DEF Promised, FreshMinutes, StaleMinutes, MaxAge, Ended

LEMMA FreshIsPromised ==
    ASSUME route \in Route, NEW v \in Nat, NEW age \in 0..Horizon, NEW live \in BOOLEAN
    PROVE  /\ FreshMinutes(v, age, live) \in Nat
           /\ FreshMinutes(v, Horizon, TRUE) \in Nat
           /\ FreshMinutes(v, age, live) <= FreshMinutes(v, Horizon, TRUE)
<1> DEFINE p == RoutePolicy[route.kind]
<1>1. /\ p.fresh \in {"static", "pr", "issue", "run", "run_list", "jobs", "mutable_ci",
                      "job", "pr_state"}
      /\ p.minutes \in Nat
  BY PolicyIs DEF Route
<1>2. Horizon \in Nat /\ Ended(v) \in BOOLEAN
  BY ReadsAssumption DEF Ended
<1>3. /\ age \div 10 \in Nat /\ Horizon \div 10 \in Nat
      /\ age \div 10 <= Horizon \div 10
  BY <1>2
<1> HIDE DEF p
<1>4. CASE p.fresh = "static"
  BY <1>1, <1>4 DEF FreshMinutes, AtMost, p
<1>5. CASE p.fresh = "pr"
  <2>1. CASE Ended(v) /\ route.final
    BY <1>1, <1>2, <1>3, <1>5, <2>1 DEF FreshMinutes, AtMost, p
  <2>2. CASE Ended(v) /\ ~route.final
    BY <1>1, <1>2, <1>3, <1>5, <2>2 DEF FreshMinutes, AtMost, AtLeast, p
  <2>3. CASE ~Ended(v)
    BY <1>1, <1>2, <1>3, <1>5, <2>3 DEF FreshMinutes, AtMost, AtLeast, p
  <2> QED
    BY <2>1, <2>2, <2>3
<1>8. CASE p.fresh = "issue"
  BY <1>1, <1>2, <1>3, <1>8 DEF FreshMinutes, AtMost, p
<1>9. CASE p.fresh = "run_list"
  BY <1>1, <1>2, <1>3, <1>9 DEF FreshMinutes, AtMost, p
<1>10. CASE p.fresh = "jobs"
  BY <1>1, <1>2, <1>3, <1>10 DEF FreshMinutes, AtMost, p
<1>11. CASE p.fresh = "job"
  BY <1>1, <1>2, <1>3, <1>11 DEF FreshMinutes, AtMost, p
<1>12. CASE p.fresh = "pr_state"
  <2>1. CASE live = TRUE
    BY <1>1, <1>2, <1>3, <1>12, <2>1 DEF FreshMinutes, AtMost, p
  <2>2. CASE live = FALSE
    BY <1>1, <1>2, <1>3, <1>12, <2>2 DEF FreshMinutes, AtMost, p
  <2> QED
    BY <2>1, <2>2
<1>7. CASE p.fresh = "run"
  <2>1. CASE Ended(v) /\ ~route.final
    BY <1>1, <1>2, <1>3, <1>7, <2>1 DEF FreshMinutes, AtMost, AtLeast, p
  <2>2. CASE ~(Ended(v) /\ ~route.final)
    BY <1>1, <1>2, <1>3, <1>7, <2>2 DEF FreshMinutes, AtMost, p
  <2> QED
    BY <2>1, <2>2
<1>6. CASE p.fresh = "mutable_ci"
  <2>1. CASE Ended(v)
    BY <1>1, <1>2, <1>3, <1>6, <2>1 DEF FreshMinutes, AtMost, AtLeast, p
  <2>2. CASE ~Ended(v)
    BY <1>1, <1>2, <1>3, <1>6, <2>2 DEF FreshMinutes, AtMost, p
  <2> QED
    BY <2>1, <2>2
<1> QED
  BY <1>1, <1>4, <1>5, <1>6, <1>7, <1>8, <1>9, <1>10, <1>11, <1>12

LEMMA StaleGrows ==
    ASSUME route \in Route, NEW m \in Nat, NEW n \in Nat, m <= n
    PROVE  /\ StaleMinutes(m) \in Nat /\ StaleMinutes(n) \in Nat
           /\ StaleMinutes(m) <= StaleMinutes(n)
  BY PolicyIs DEF StaleMinutes, Route

--------------------------------------------------------------------------------

BodyType ==
    [fill : Nat, version : Nat, updated : Nat, seen : Nat, at : Nat, until : Nat, stale : Nat]

ReaderType ==
    [stage : ReaderStages, age : Nat, claim : Claims, proved : {"no", "cached", "live"},
     began : Nat, due : Nat, i : Nat, probed : SUBSET DOMAIN Pool,
     edges : [DOMAIN Pool -> BodyType], batched : BOOLEAN,
     rows : [DOMAIN Pool -> BodyType], how : {"hit", "swr", "stale"},
     found : BodyType, chosen : Nat, copying : {<<>>} \cup (Keys \X BodyType)]

\* A body is dated when it was fetched, and lasts no longer than its route lets it.
Kept(b) ==
    /\ b \in BodyType /\ b.fill <= fills
    /\ b.until > 0 \/ b.stale > 0 => b.at = b.seen
    /\ b.until <= b.seen + Promised(b)
    /\ b.stale <= b.seen + Promised(b) + StaleMinutes(Promised(b))

BodiesKept(q) ==
    /\ Kept(q.found)
    /\ \A i \in DOMAIN Pool : Kept(q.edges[i]) /\ Kept(q.rows[i])
    /\ q.copying # <<>> => Kept(q.copying[2])

\* What it has found was young enough when it was chosen.
Young(q) ==
    q.stage \in {"check", "served"} =>
        /\ q.how = "hit" =>
              /\ q.chosen < q.found.until
              /\ MaxAge(q) = NoAge \/ q.chosen <= q.found.at + MaxAge(q)
        /\ q.how = "swr" =>
              /\ q.age = NoAge /\ q.found.stale > 0
              /\ q.chosen < q.found.until + SwrWindow
        /\ q.how = "stale" =>
              /\ q.chosen < q.found.stale
              /\ q.age = NoAge \/ (q.age # 0 /\ q.chosen <= q.found.at + q.age)

\* A claim that is taken for proved was still true after the request began, but
\* for the time that asking and a proof may take.
ClaimStands(q) ==
    /\ q.began <= minute
    /\ q.stage \in {"ask", "record"} => minute <= q.due /\ q.due <= minute + CallLimit
    /\ q.stage = "record" =>
          /\ q.claim <= version /\ q.began <= goneAt[q.claim]
          /\ q.due <= goneAt[q.claim] + CallLimit
    /\ q.proved # "no" =>
          q.claim <= version /\ q.began < goneAt[q.claim] + CallLimit + ClaimTtl

ReaderOK(q) ==
    /\ q \in ReaderType
    /\ BodiesKept(q) /\ Young(q) /\ ClaimStands(q)
    /\ q.stage = "publish" => q.found.updated <= minute

WorldOK ==
    /\ minute \in 0..Horizon /\ route \in Routes /\ version \in 0..MaxVersion
    /\ since \in Nat /\ since <= minute /\ fills \in Nat
    /\ goneAt \in [0..MaxVersion -> Nat]
    /\ \A v \in 0..MaxVersion : v >= version => goneAt[v] = NoAge

ClaimsOK ==
    /\ claims \in [Claims -> Nat]
    /\ \A v \in Claims : claims[v] > 0 =>
          /\ v <= version /\ claims[v] <= minute + ClaimTtl
          /\ claims[v] <= goneAt[v] + CallLimit + ClaimTtl

BodiesOK ==
    /\ row \in [Keys -> BodyType] /\ edge \in [Keys -> BodyType]
    /\ \A k \in Keys : Kept(row[k]) /\ Kept(edge[k])

ReadsInv ==
    /\ WorldOK /\ ClaimsOK /\ BodiesOK
    /\ reader \in [Readers -> ReaderType]
    /\ \A r \in Readers : ReaderOK(reader[r])

--------------------------------------------------------------------------------

\* The constants the proofs do arithmetic with.
LEMMA ReadsConstants ==
    /\ Horizon \in Nat /\ MaxVersion \in Nat /\ CallLimit \in Nat
    /\ ClaimTtl \in Nat /\ ClaimTtl > 0 /\ NoAge \in Nat /\ NoAge > 0 /\ NoAge > Horizon
    /\ Claims \subseteq Nat /\ NoClaim \in Claims
    /\ \A x \in Routes : Claimed[x] \subseteq Claims /\ MaxAges[x] \subseteq Nat /\ x \in Route
    /\ Len(Pool) \in Nat /\ DOMAIN Pool = 1..Len(Pool)
<1>1. \A x \in Routes : Claimed[x] \subseteq 0..(MaxVersion + 1) /\ MaxAges[x] \subseteq Nat
  BY ReadsAssumption
<1>2. /\ Horizon \in Nat /\ MaxVersion \in Nat /\ CallLimit \in Nat
      /\ ClaimTtl \in Nat /\ ClaimTtl > 0
  BY ReadsAssumption
<1>3. Claims \subseteq Nat /\ NoClaim \in Claims
  <2>1. NoClaim \in Nat /\ 0..(MaxVersion + 1) \subseteq Nat
    BY <1>2 DEF NoClaim
  <2>2. \A x \in Routes : Claimed[x] \subseteq Nat
    BY <1>1, <2>1
  <2>3. ASSUME NEW v \in Claims PROVE v \in Nat
    <3>1. v = NoClaim \/ \E x \in Routes : v \in Claimed[x]
      BY Zenon DEF Claims
    <3> QED
      BY <2>1, <2>2, <3>1
  <2>4. NoClaim \in Claims
    BY Zenon DEF Claims
  <2> QED
    BY <2>3, <2>4
<1>4. \A x \in Routes : Claimed[x] \subseteq Claims
  BY DEF Claims
<1>5. Len(Pool) \in Nat /\ DOMAIN Pool = 1..Len(Pool)
  BY ReadsAssumption
<1> QED
  BY <1>1, <1>2, <1>3, <1>4, <1>5, RoutesAssumption DEF NoAge

LEMMA PromisedIs ==
    ASSUME route \in Routes, NEW b \in BodyType
    PROVE  Promised(b) \in Nat /\ StaleMinutes(Promised(b)) \in Nat
<1>1. b.version \in Nat /\ Horizon \in 0..Horizon /\ TRUE \in BOOLEAN /\ route \in Route
  BY ReadsConstants DEF BodyType
<1>2. Promised(b) \in Nat
  BY <1>1, FreshIsPromised DEF Promised
<1> QED
  BY <1>1, <1>2, StaleGrows

\* No body is kept, too.
LEMMA NoBodyKept ==
    ASSUME WorldOK
    PROVE  NoBody \in BodyType /\ Kept(NoBody)
<1>1. NoBody \in BodyType
  BY DEF NoBody, BodyType
<1>2. Promised(NoBody) \in Nat /\ StaleMinutes(Promised(NoBody)) \in Nat
  BY <1>1, PromisedIs DEF WorldOK
<1>3. /\ NoBody.fill = 0 /\ NoBody.seen = 0 /\ NoBody.until = 0 /\ NoBody.stale = 0
  BY DEF NoBody
<1> HIDE DEF NoBody
<1> QED
  BY <1>1, <1>2, <1>3 DEF Kept, WorldOK

LEMMA KeyIs ==
    ASSUME NEW q \in ReaderType, NEW by \in Holders
    PROVE  Key(q, by) \in Keys
  BY ReadsConstants DEF Key, Keys, ReaderType

LEMMA CandidateIs ==
    ASSUME NEW q \in ReaderType
    PROVE  Candidate(q) \in Keys
  BY KeyIs DEF Candidate, Holders

\* What is kept stays so, as fills are counted.
LEMMA KeptStays ==
    ASSUME WorldOK, UNCHANGED route, fills' \in Nat, fills' >= fills, NEW b, Kept(b)
    PROVE  Kept(b)'
<1>1. /\ Promised(b)' = Promised(b)
      /\ StaleMinutes(Promised(b)') = StaleMinutes(Promised(b))
  BY SameRoute
<1>2. StaleMinutes(Promised(b))' = StaleMinutes(Promised(b))
  BY <1>1, SameRoute
<1>3. b.fill \in Nat /\ fills \in Nat
  BY DEF Kept, BodyType, WorldOK
<1> QED
  BY <1>1, <1>2, <1>3 DEF Kept

\* A reader is as it was while the world is.
LEMMA SameWorld ==
    ASSUME WorldOK, UNCHANGED <<minute, route, version, goneAt>>,
           fills' \in Nat, fills' >= fills, NEW q, ReaderOK(q)
    PROVE  ReaderOK(q)'
<1>1. MaxAge(q)' = MaxAge(q)
  BY SameRoute
<1>2. \A b : Kept(b) => Kept(b)'
  BY KeptStays DEF WorldOK
<1>3. BodiesKept(q)'
  BY <1>2 DEF ReaderOK, BodiesKept
<1>4. Young(q)'
  BY <1>1 DEF ReaderOK, Young
<1>5. ClaimStands(q)'
  BY DEF ReaderOK, ClaimStands
<1> QED
  BY <1>3, <1>4, <1>5 DEF ReaderOK

\* A step of a reader, in which the world stands still.
LEMMA ReaderStep ==
    ASSUME ReadsInv, NEW r \in Readers, NEW q, ReaderOK(q),
           reader' = [reader EXCEPT ![r] = q],
           UNCHANGED <<minute, route, version, since, fills, goneAt>>,
           ClaimsOK, claims' = claims \/ ClaimsOK',
           UNCHANGED <<row, edge>> \/ BodiesOK'
    PROVE  ReadsInv'
<1>1. WorldOK /\ WorldOK'
  BY DEF ReadsInv, WorldOK
<1>2. ClaimsOK'
  BY DEF ClaimsOK
<1>3. \A b : Kept(b) => Kept(b)'
  BY <1>1, KeptStays DEF WorldOK
<1>4. BodiesOK'
  BY <1>3 DEF ReadsInv, BodiesOK
<1>5. q \in ReaderType
  BY DEF ReaderOK
<1>6. \A x \in Readers : reader'[x] = IF x = r THEN q ELSE reader[x]
  BY DEF ReadsInv
<1>7. ASSUME NEW x \in Readers PROVE ReaderOK(reader[x])'
  <2>1. PICK p : p = reader'[x] /\ ReaderOK(p)
    BY <1>6 DEF ReadsInv
  <2>2. ReaderOK(p)'
    BY <1>1, <2>1, SameWorld DEF WorldOK
  <2> QED
    BY <2>1, <2>2
<1> QED
  BY <1>1, <1>2, <1>4, <1>5, <1>6, <1>7 DEF ReadsInv

LEMMA OnlyStep ==
    ASSUME ReadsInv, NEW r \in Readers, NEW q, ReaderOK(q), Only(r, q)
    PROVE  ReadsInv'
  BY ReaderStep DEF Only, Becomes, ReadsInv

LEMMA OneReader ==
    ASSUME ReadsInv, NEW r \in Readers
    PROVE  /\ ReaderOK(reader[r]) /\ reader[r] \in ReaderType /\ WorldOK /\ BodiesOK
           /\ Candidate(reader[r]) \in Keys
  BY CandidateIs DEF ReadsInv, ReaderOK

--------------------------------------------------------------------------------
(* What a reader becomes.                                                  *)

Special == {"check", "served", "ask", "record", "publish"}

\* It goes on, with bodies that are kept.
LEMMA GoesOn ==
    ASSUME NEW q, ReaderOK(q), NEW p \in ReaderType, p.stage \notin Special, BodiesKept(p),
           p.proved = q.proved \/ p.proved = "no", p.claim = q.claim, p.began = q.began
    PROVE  ReaderOK(p)
<1>1. Young(p)
  BY DEF Young, Special
<1>2. ClaimStands(p)
  BY DEF ReaderOK, ClaimStands, Special
<1> QED
  BY <1>1, <1>2 DEF ReaderOK, Special

LEMMA MovesOn ==
    ASSUME NEW q, ReaderOK(q), NEW s \in ReaderStages \ Special, NEW n \in Nat
    PROVE  ReaderOK([q EXCEPT !.stage = s, !.i = n])
<1> DEFINE p == [q EXCEPT !.stage = s, !.i = n]
<1>1. /\ p \in ReaderType /\ p.stage = s /\ p.proved = q.proved /\ p.claim = q.claim
      /\ p.began = q.began /\ p.found = q.found /\ p.edges = q.edges /\ p.rows = q.rows
      /\ p.copying = q.copying
  BY DEF ReaderOK, ReaderType
<1>2. BodiesKept(p)
  BY <1>1 DEF ReaderOK, BodiesKept
<1> QED
  BY <1>1, <1>2, GoesOn

\* A body that was found.
FoundYoung(q, b, how) ==
    /\ how = "hit" => Usable(q, b)
    /\ how = "swr" => q.age = NoAge /\ b.stale > 0 /\ minute < b.until + SwrWindow
    /\ how = "stale" => /\ minute < b.stale
                        /\ q.age = NoAge \/ (q.age # 0 /\ minute <= b.at + q.age)

LEMMA FoundOK ==
    ASSUME WorldOK, NEW q, ReaderOK(q), NEW b, Kept(b), NEW how \in {"hit", "swr", "stale"},
           FoundYoung(q, b, how)
    PROVE  ReaderOK(Found(q, b, how))
<1> DEFINE p == Found(q, b, how)
<1>1. minute \in Nat /\ b \in BodyType /\ q \in ReaderType
  BY ReadsConstants DEF WorldOK, Kept, ReaderOK
<1>2. /\ p \in ReaderType /\ p.stage = "check" /\ p.proved = q.proved /\ p.claim = q.claim
      /\ p.began = q.began /\ p.found = b /\ p.edges = q.edges /\ p.rows = q.rows
      /\ p.copying = q.copying /\ p.how = how /\ p.chosen = minute /\ p.age = q.age
  BY <1>1 DEF Found, ReaderType, ReaderStages
<1> HIDE DEF p
<1>3. BodiesKept(p)
  BY <1>2 DEF ReaderOK, BodiesKept
<1>4. MaxAge(p) = MaxAge(q)
  BY <1>2 DEF MaxAge
<1>5. Young(p)
  BY <1>1, <1>2, <1>4 DEF Young, FoundYoung, Usable, WithinAge
<1>6. ClaimStands(p)
  BY <1>2 DEF ReaderOK, ClaimStands
<1> QED
  BY <1>2, <1>3, <1>5, <1>6 DEF ReaderOK, p

LEMMA FoundInRowOK ==
    ASSUME WorldOK, NEW q, ReaderOK(q), NEW b, Kept(b), Usable(q, b)
    PROVE  ReaderOK(FoundInRow(q, b))
<1> DEFINE p == Found(q, b, "hit")
           o == FoundInRow(q, b)
<1>1. ReaderOK(p)
  BY FoundOK DEF FoundYoung
<1>2. Candidate(q) \in Keys /\ b \in BodyType /\ q \in ReaderType /\ p \in ReaderType
  BY <1>1, CandidateIs DEF Kept, ReaderOK
<1>3. o = [p EXCEPT !.copying = <<Candidate(q), b>>]
  BY DEF FoundInRow
<1> HIDE DEF p, o
<1>4. /\ o \in ReaderType /\ o.stage = p.stage /\ o.proved = p.proved /\ o.claim = p.claim
      /\ o.began = p.began /\ o.found = p.found /\ o.edges = p.edges /\ o.rows = p.rows
      /\ o.copying = <<Candidate(q), b>> /\ o.how = p.how /\ o.chosen = p.chosen
      /\ o.age = p.age /\ o.due = p.due
  BY <1>2, <1>3 DEF ReaderType
<1>5. BodiesKept(o)
  BY <1>1, <1>4 DEF ReaderOK, BodiesKept
<1>6. MaxAge(o) = MaxAge(p)
  BY <1>4 DEF MaxAge
<1>7. Young(o)
  BY <1>1, <1>4, <1>6 DEF ReaderOK, Young
<1>8. ClaimStands(o)
  BY <1>1, <1>4 DEF ReaderOK, ClaimStands
<1>9. o.stage = "publish" => o.found.updated <= minute
  BY <1>1, <1>4 DEF ReaderOK
<1> QED
  BY <1>4, <1>5, <1>7, <1>8, <1>9 DEF ReaderOK, o

\* A reader that asks GitHub about its claim.
LEMMA AsksOK ==
    ASSUME WorldOK, NEW q, ReaderOK(q)
    PROVE  ReaderOK([q EXCEPT !.stage = "ask", !.due = minute + CallLimit])
<1> DEFINE p == [q EXCEPT !.stage = "ask", !.due = minute + CallLimit]
<1>1. minute \in Nat /\ CallLimit \in Nat /\ minute + CallLimit \in Nat /\ q \in ReaderType
  BY ReadsConstants DEF WorldOK, ReaderOK
<1>2. /\ p \in ReaderType /\ p.stage = "ask" /\ p.proved = q.proved /\ p.claim = q.claim
      /\ p.began = q.began /\ p.found = q.found /\ p.edges = q.edges /\ p.rows = q.rows
      /\ p.copying = q.copying /\ p.due = minute + CallLimit
  BY <1>1 DEF ReaderType, ReaderStages
<1> HIDE DEF p
<1>3. BodiesKept(p) /\ Young(p)
  BY <1>2 DEF ReaderOK, BodiesKept, Young
<1>4. ClaimStands(p)
  BY <1>1, <1>2 DEF ReaderOK, ClaimStands
<1> QED
  BY <1>2, <1>3, <1>4 DEF ReaderOK, p

LEMMA MissedOK ==
    ASSUME WorldOK, NEW q, ReaderOK(q)
    PROVE  ReaderOK(Missed(q))
<1>1. FirstStale \in Nat /\ 1 \in Nat
  BY ReadsConstants DEF FirstStale, LastStale
<1>2. "visit" \in ReaderStages \ Special /\ "swr" \in ReaderStages \ Special
  BY DEF ReaderStages, Special
<1>3. ReaderOK([q EXCEPT !.stage = "ask", !.due = minute + CallLimit])
  BY AsksOK
<1>4. ReaderOK([q EXCEPT !.stage = "visit", !.i = 1])
  BY <1>1, <1>2, MovesOn
<1>5. ReaderOK([q EXCEPT !.stage = "swr", !.i = FirstStale])
  BY <1>1, <1>2, MovesOn
<1> QED
  BY <1>3, <1>4, <1>5 DEF Missed

LEMMA StageOn ==
    ASSUME NEW q, ReaderOK(q), NEW s \in ReaderStages \ Special
    PROVE  ReaderOK([q EXCEPT !.stage = s])
<1>1. [q EXCEPT !.stage = s] = [q EXCEPT !.stage = s, !.i = q.i] /\ q.i \in Nat
  BY DEF ReaderOK, ReaderType
<1> QED
  BY <1>1, MovesOn

LEMMA IndexOn ==
    ASSUME NEW q, ReaderOK(q), q.stage \notin Special, NEW n \in Nat
    PROVE  ReaderOK([q EXCEPT !.i = n])
<1>1. [q EXCEPT !.i = n] = [q EXCEPT !.stage = q.stage, !.i = n] /\ q.stage \in ReaderStages
  BY DEF ReaderOK, ReaderType
<1> QED
  BY <1>1, MovesOn

\* What is left of a reader that has come to its end.
LEMMA EndsOK ==
    ASSUME WorldOK, NEW q, ReaderOK(q), NEW s \in {"fetched", "failed"}
    PROVE  ReaderOK(Ends(q, s))
<1> DEFINE p == Ends(q, s)
<1>1. NoBody \in BodyType /\ Kept(NoBody) /\ NoClaim \in Claims /\ NoAge \in Nat
  BY NoBodyKept, ReadsConstants
<1>2. NewReader \in ReaderType
  BY <1>1 DEF NewReader, ReaderType, ReaderStages
<1>3. /\ p \in ReaderType /\ p.stage = s /\ p.proved = q.proved /\ p.claim = q.claim
      /\ p.began = q.began /\ p.found = q.found /\ p.edges = NewReader.edges
      /\ p.rows = NewReader.rows /\ p.copying = q.copying
  BY <1>2 DEF Ends, ReaderOK, ReaderType, ReaderStages
<1>4. \A i \in DOMAIN Pool : NewReader.edges[i] = NoBody /\ NewReader.rows[i] = NoBody
  BY DEF NewReader
<1> HIDE DEF p
<1>5. BodiesKept(p)
  BY <1>1, <1>3, <1>4 DEF ReaderOK, BodiesKept
<1>6. p.stage \notin Special
  BY <1>3 DEF Special
<1> QED
  BY <1>3, <1>5, <1>6, GoesOn DEF p

--------------------------------------------------------------------------------
(* Claims.                                                                 *)

LEMMA BeginReadKeeps ==
    ASSUME ReadsInv, NEW r \in Readers, NEW age \in MaxAges[route],
           NEW claim \in Claimed[route], BeginRead(r, age, claim)
    PROVE  ReadsInv'
<1> DEFINE q == [NewReader EXCEPT !.age = age, !.claim = claim, !.began = minute,
                   !.stage = IF claim = NoClaim THEN "shared" ELSE "claim"]
<1>1. NoBody \in BodyType /\ Kept(NoBody) /\ NoClaim \in Claims /\ NoAge \in Nat
  BY NoBodyKept, ReadsConstants DEF ReadsInv
<1>2. age \in Nat /\ claim \in Claims /\ minute \in Nat
  BY ReadsConstants DEF ReadsInv, WorldOK
<1>3. NewReader \in ReaderType
  BY <1>1 DEF NewReader, ReaderType, ReaderStages
<1>4. /\ q \in ReaderType /\ q.stage \in {"shared", "claim"} /\ q.began = minute
      /\ q.found = NoBody /\ q.edges = NewReader.edges /\ q.rows = NewReader.rows
      /\ q.copying = <<>> /\ q.proved = "no"
  BY <1>2, <1>3 DEF ReaderType, ReaderStages, NewReader
<1>5. \A i \in DOMAIN Pool : NewReader.edges[i] = NoBody /\ NewReader.rows[i] = NoBody
  BY DEF NewReader
<1>6. Only(r, q)
  BY DEF BeginRead
<1> HIDE DEF q
<1>7. BodiesKept(q) /\ Young(q)
  BY <1>1, <1>4, <1>5 DEF BodiesKept, Young
<1>8. ClaimStands(q)
  BY <1>2, <1>4 DEF ClaimStands
<1>9. ReaderOK(q)
  BY <1>4, <1>7, <1>8 DEF ReaderOK
<1> QED
  BY <1>6, <1>9, OnlyStep

LEMMA ClaimIndex ==
    ASSUME ReadsInv, NEW q \in ReaderType, q.claim <= version
    PROVE  q.claim \in 0..MaxVersion /\ goneAt[q.claim] \in Nat
<1>1. q.claim \in Nat /\ version \in 0..MaxVersion
  BY ReadsConstants DEF ReaderType, ReadsInv, WorldOK
<1>2. q.claim \in 0..MaxVersion
  BY <1>1, ReadsConstants
<1> QED
  BY <1>2 DEF ReadsInv, WorldOK

\* A proof that has not expired is of a claim that stood when it was asked for.
LEMMA VerifyClaimKeeps ==
    ASSUME ReadsInv, NEW r \in Readers, VerifyClaim(r)
    PROVE  ReadsInv'
<1> DEFINE q == reader[r]
           p == [q EXCEPT !.stage = "shared", !.proved = "cached"]
<1>1. q \in ReaderType /\ ReaderOK(q)
  BY OneReader
<1>2. /\ p \in ReaderType /\ p.stage = "shared" /\ p.proved = "cached"
      /\ p.began = q.began /\ p.claim = q.claim
      /\ p.found = q.found /\ p.edges = q.edges /\ p.rows = q.rows
      /\ p.copying = q.copying
  BY <1>1 DEF ReaderType, ReaderStages
<1>3. Only(r, p) /\ claims[q.claim] > minute
  BY DEF VerifyClaim
<1> HIDE DEF p, q
<1>4. BodiesKept(p) /\ Young(p)
  BY <1>1, <1>2 DEF ReaderOK, BodiesKept, Young
<1>5. minute \in Nat /\ q.began \in Nat /\ q.claim \in Claims /\ q.began <= minute
  BY <1>1, ReadsConstants DEF ReadsInv, WorldOK, ReaderType, ReaderOK, ClaimStands
<1>6. /\ claims[q.claim] \in Nat /\ q.claim <= version
      /\ claims[q.claim] <= goneAt[q.claim] + CallLimit + ClaimTtl
  BY <1>3, <1>5 DEF ReadsInv, ClaimsOK
<1>7. goneAt[q.claim] \in Nat /\ CallLimit \in Nat /\ ClaimTtl \in Nat
  BY <1>1, <1>6, ClaimIndex, ReadsConstants
<1>8. ClaimStands(p)
  BY <1>2, <1>3, <1>5, <1>6, <1>7 DEF ClaimStands
<1>9. ReaderOK(p)
  BY <1>2, <1>4, <1>8 DEF ReaderOK
<1> QED
  BY <1>3, <1>9, OnlyStep

LEMMA ClaimUnknownKeeps ==
    ASSUME ReadsInv, NEW r \in Readers, ClaimUnknown(r)
    PROVE  ReadsInv'
<1>1. ReaderOK([reader[r] EXCEPT !.stage = "ask", !.due = minute + CallLimit])
  BY AsksOK, OneReader
<1> QED
  BY <1>1, OnlyStep DEF ClaimUnknown

\* A request without a claim that it could prove.
LEMMA UnclaimedOK ==
    ASSUME NEW q, ReaderOK(q)
    PROVE  ReaderOK([q EXCEPT !.stage = "shared", !.proved = "no"])
<1> DEFINE p == [q EXCEPT !.stage = "shared", !.proved = "no"]
<1>1. /\ p \in ReaderType /\ p.stage = "shared" /\ p.proved = "no"
      /\ p.began = q.began /\ p.claim = q.claim
      /\ p.found = q.found /\ p.edges = q.edges /\ p.rows = q.rows
      /\ p.copying = q.copying
  BY DEF ReaderType, ReaderStages, ReaderOK
<1> HIDE DEF p
<1>2. BodiesKept(p) /\ p.stage \notin Special
  BY <1>1 DEF ReaderOK, BodiesKept, Special
<1> QED
  BY <1>1, <1>2, GoesOn DEF p

LEMMA AskForClaimKeeps ==
    ASSUME ReadsInv, NEW r \in Readers, AskForClaim(r)
    PROVE  ReadsInv'
<1> DEFINE q == reader[r]
           p == [q EXCEPT !.stage = "record"]
<1>1. q \in ReaderType /\ ReaderOK(q) /\ q.stage = "ask"
  BY OneReader DEF AskForClaim
<1>2. CASE version # q.claim
  BY <1>1, <1>2, UnclaimedOK, OnlyStep DEF AskForClaim
<1>3. CASE version = q.claim
  <2>1. /\ p \in ReaderType /\ p.stage = "record" /\ p.proved = q.proved
        /\ p.began = q.began /\ p.claim = q.claim /\ p.due = q.due
        /\ p.found = q.found /\ p.edges = q.edges /\ p.rows = q.rows
        /\ p.copying = q.copying
    BY <1>1 DEF ReaderType, ReaderStages
  <2>2. Only(r, p)
    BY <1>3 DEF AskForClaim
  <2>3. /\ minute \in Nat /\ minute <= Horizon /\ version \in 0..MaxVersion
        /\ goneAt[version] = NoAge
    BY ReadsConstants DEF ReadsInv, WorldOK
  <2>4. q.began \in Nat /\ q.due \in Nat
    BY <1>1 DEF ReaderType
  <2> HIDE DEF p, q
  <2>5. BodiesKept(p) /\ Young(p)
    BY <1>1, <2>1 DEF ReaderOK, BodiesKept, Young
  <2>6. q.began <= minute /\ minute <= q.due /\ q.due <= minute + CallLimit
    BY <1>1 DEF ReaderOK, ClaimStands
  <2>7. q.claim <= version /\ q.began <= goneAt[q.claim] /\ q.due <= goneAt[q.claim] + CallLimit
    BY <1>3, <2>3, <2>4, <2>6, ReadsConstants
  <2>8. ClaimStands(p)
    BY <1>1, <2>1, <2>6, <2>7 DEF ReaderOK, ClaimStands
  <2>9. ReaderOK(p)
    BY <2>1, <2>5, <2>8 DEF ReaderOK
  <2> QED
    BY <2>2, <2>9, OnlyStep
<1> QED
  BY <1>2, <1>3

\* The proof that is recorded outlasts its claim by no more than the call and the
\* proof may take.
LEMMA RecordedOK ==
    ASSUME ReadsInv, NEW q, ReaderOK(q), q.stage = "record",
           claims' = [claims EXCEPT ![q.claim] = minute + ClaimTtl],
           UNCHANGED <<minute, version, goneAt>>
    PROVE  ClaimsOK'
<1>1. /\ q.claim \in Claims /\ q.claim <= version /\ minute <= q.due
      /\ q.due <= goneAt[q.claim] + CallLimit /\ q.due \in Nat /\ q.claim \in Nat
  BY ReadsConstants DEF ReaderOK, ReaderType, ClaimStands
<1>2. /\ minute \in Nat /\ ClaimTtl \in Nat /\ CallLimit \in Nat /\ minute + ClaimTtl \in Nat
      /\ goneAt[q.claim] \in Nat
  <2>1. q \in ReaderType
    BY DEF ReaderOK
  <2> QED
    BY <1>1, <2>1, ClaimIndex, ReadsConstants DEF ReadsInv, WorldOK
<1>3. /\ claims \in [Claims -> Nat] /\ claims' \in [Claims -> Nat]
      /\ \A v \in Claims : claims'[v] = IF v = q.claim THEN minute + ClaimTtl ELSE claims[v]
  BY <1>1, <1>2 DEF ReadsInv, ClaimsOK
<1>4. minute + ClaimTtl <= goneAt[q.claim] + CallLimit + ClaimTtl
  BY <1>1, <1>2
<1>5. ASSUME NEW v \in Claims, claims'[v] > 0
      PROVE  /\ v <= version /\ claims'[v] <= minute + ClaimTtl
             /\ claims'[v] <= goneAt[v] + CallLimit + ClaimTtl
  <2>1. CASE v = q.claim
    BY <1>1, <1>2, <1>3, <1>4, <2>1
  <2>2. CASE v # q.claim
    BY <1>3, <1>5, <2>2 DEF ReadsInv, ClaimsOK
  <2> QED
    BY <2>1, <2>2
<1> QED
  BY <1>3, <1>5 DEF ClaimsOK

LEMMA RecordClaimKeeps ==
    ASSUME ReadsInv, NEW r \in Readers, RecordClaim(r)
    PROVE  ReadsInv'
<1> DEFINE q == reader[r]
           p == [q EXCEPT !.stage = "shared", !.proved = "live"]
<1>1. q \in ReaderType /\ ReaderOK(q) /\ q.stage = "record"
  BY OneReader DEF RecordClaim
<1>2. /\ p \in ReaderType /\ p.stage = "shared" /\ p.proved = "live"
      /\ p.began = q.began /\ p.claim = q.claim
      /\ p.found = q.found /\ p.edges = q.edges /\ p.rows = q.rows
      /\ p.copying = q.copying
  BY <1>1 DEF ReaderType, ReaderStages
<1>3. /\ reader' = [reader EXCEPT ![r] = p] /\ ClaimsOK'
      /\ UNCHANGED <<minute, route, version, since, row, edge, fills, goneAt>>
  BY <1>1, RecordedOK DEF RecordClaim, Becomes
<1> HIDE DEF p, q
<1>4. BodiesKept(p) /\ Young(p)
  BY <1>1, <1>2 DEF ReaderOK, BodiesKept, Young
<1>5. /\ q.claim <= version /\ q.began <= goneAt[q.claim] /\ q.began <= minute
      /\ q.began \in Nat
  BY <1>1 DEF ReaderOK, ClaimStands, ReaderType
<1>6. goneAt[q.claim] \in Nat
  BY <1>1, <1>5, ClaimIndex
<1>7. q.began < goneAt[q.claim] + CallLimit + ClaimTtl
  BY <1>5, <1>6, ReadsConstants
<1>8. ClaimStands(p)
  BY <1>2, <1>5, <1>7 DEF ClaimStands
<1>9. ReaderOK(p)
  BY <1>2, <1>4, <1>8 DEF ReaderOK
<1> QED
  BY <1>3, <1>9, ReaderStep DEF ReadsInv

LEMMA ClaimFailsKeeps ==
    ASSUME ReadsInv, NEW r \in Readers, ClaimFails(r)
    PROVE  ReadsInv'
<1> DEFINE q == reader[r]
           p == [q EXCEPT !.stage = "shared", !.proved = "no"]
<1>1. q \in ReaderType /\ ReaderOK(q)
  BY OneReader
<1>2. ReaderOK(p)
  BY <1>1, UnclaimedOK
<1>3. /\ reader' = [reader EXCEPT ![r] = p]
      /\ UNCHANGED <<minute, route, version, since, row, edge, fills, goneAt>>
  BY DEF ClaimFails, Becomes
<1>4. claims' = claims \/ ClaimsOK'
  <2>1. \/ claims' = claims
        \/ q.stage = "record" /\ claims' = [claims EXCEPT ![q.claim] = minute + ClaimTtl]
    BY DEF ClaimFails
  <2> QED
    BY <1>1, <1>3, <2>1, RecordedOK
<1> QED
  BY <1>2, <1>3, <1>4, ReaderStep DEF ReadsInv

--------------------------------------------------------------------------------
(* Fresh bodies.                                                           *)

\* The stages at which a reader may go on are none of the special ones.
LEMMA PlainStages ==
    /\ "sharedrow" \in ReaderStages \ Special /\ "visit" \in ReaderStages \ Special
    /\ "batch" \in ReaderStages \ Special /\ "swr" \in ReaderStages \ Special
    /\ "fetch" \in ReaderStages \ Special /\ "stale" \in ReaderStages \ Special
    /\ "shared" \notin Special /\ "visit" \notin Special /\ "sharedrow" \notin Special
    /\ "swr" \notin Special /\ "stale" \notin Special /\ "batch" \notin Special
  BY DEF ReaderStages, Special

LEMMA UsableFound ==
    ASSUME WorldOK, NEW q, ReaderOK(q), NEW b, Kept(b), Usable(q, b)
    PROVE  ReaderOK(Found(q, b, "hit"))
  BY FoundOK DEF FoundYoung

LEMMA SharedKeeps ==
    ASSUME ReadsInv, NEW r \in Readers, ReadSharedEdge(r) \/ ReadSharedRow(r)
    PROVE  ReadsInv'
<1>1. CASE ReadSharedEdge(r)
  <2> DEFINE q == [reader[r] EXCEPT !.i = 0]
             b == Usables(q, edge[Candidate(q)])
  <2>1. reader[r].stage = "shared" /\ 0 \in Nat
    BY <1>1, OneReader DEF ReadSharedEdge, ReaderType
  <2>2. ReaderOK(q) /\ q \in ReaderType
    BY <2>1, PlainStages, OneReader, IndexOn DEF ReaderOK
  <2>3. Only(r, IF b # NoBody THEN Found(q, b, "hit")
                ELSE IF MaxAge(q) = 0 THEN Missed(q) ELSE [q EXCEPT !.stage = "sharedrow"])
    BY <1>1 DEF ReadSharedEdge
  <2>4. Candidate(q) \in Keys
    BY <2>2, CandidateIs
  <2> HIDE DEF q
  <2>5. CASE b # NoBody
    <3>1. b = edge[Candidate(q)] /\ Usable(q, b) /\ Kept(b)
      BY <2>4, <2>5, OneReader DEF Usables, BodiesOK
    <3> HIDE DEF b
    <3>2. ReaderOK(Found(q, b, "hit"))
      BY <2>2, <3>1, OneReader, UsableFound
    <3> QED
      BY <2>3, <2>5, <3>2, OnlyStep
  <2>6. CASE b = NoBody
    <3>1. ReaderOK(Missed(q)) /\ ReaderOK([q EXCEPT !.stage = "sharedrow"])
      BY <2>2, OneReader, MissedOK, StageOn, PlainStages
    <3> HIDE DEF b
    <3> QED
      BY <2>3, <2>6, <3>1, OnlyStep
  <2> QED
    BY <2>5, <2>6
<1>2. CASE ReadSharedRow(r)
  <2> DEFINE q == reader[r]
             b == Usables(q, row[Candidate(q)])
  <2>1. ReaderOK(q) /\ Candidate(q) \in Keys
    BY OneReader
  <2>2. Only(r, IF b # NoBody THEN FoundInRow(q, b) ELSE Missed(q))
    BY <1>2 DEF ReadSharedRow
  <2> HIDE DEF q
  <2>3. CASE b # NoBody
    <3>1. b = row[Candidate(q)] /\ Usable(q, b) /\ Kept(b)
      BY <2>1, <2>3, OneReader DEF Usables, BodiesOK
    <3> HIDE DEF b
    <3>2. ReaderOK(FoundInRow(q, b))
      BY <2>1, <3>1, OneReader, FoundInRowOK
    <3> QED
      BY <2>2, <2>3, <3>2, OnlyStep
  <2>4. CASE b = NoBody
    <3>1. ReaderOK(Missed(q))
      BY <2>1, OneReader, MissedOK
    <3> HIDE DEF b
    <3> QED
      BY <2>2, <2>4, <3>1, OnlyStep
  <2> QED
    BY <2>3, <2>4
<1> QED
  BY <1>1, <1>2

\* What a reader remembers of a candidate is kept.
LEMMA UsablesKept ==
    ASSUME WorldOK, NEW q, NEW b, Kept(b), b \in BodyType
    PROVE  Kept(Usables(q, b)) /\ Usables(q, b) \in BodyType
  BY NoBodyKept DEF Usables

LEMMA ProbesKeep ==
    ASSUME ReadsInv, NEW r \in Readers, Probe(r) \/ ProbeRest(r) \/ Batch(r)
    PROVE  ReadsInv'
<1> DEFINE q == reader[r]
<1>1. q \in ReaderType /\ ReaderOK(q) /\ WorldOK /\ BodiesOK
  BY OneReader
<1>2. \A i \in DOMAIN Pool : Key(q, Pool[i]) \in Keys
  BY <1>1, KeyIs DEF Holders
<1>3. \A k \in Keys : /\ Kept(Usables(q, edge[k])) /\ Usables(q, edge[k]) \in BodyType
                      /\ Kept(row[k]) /\ row[k] \in BodyType
  BY <1>1, UsablesKept DEF BodiesOK
<1> HIDE DEF q
<1>4. ASSUME NEW p, Only(r, p), p \in ReaderType, p.stage \notin Special,
             p.proved = q.proved, p.claim = q.claim, p.began = q.began, p.found = q.found,
             p.copying = q.copying, \A i \in DOMAIN Pool : Kept(p.edges[i]) /\ Kept(p.rows[i])
      PROVE  ReadsInv'
  <2>1. BodiesKept(p)
    BY <1>1, <1>4 DEF ReaderOK, BodiesKept
  <2> QED
    BY <1>1, <1>4, <2>1, GoesOn, OnlyStep
<1>5. CASE Probe(r)
  <2> DEFINE b == Usables(q, edge[Candidate(q)])
             p == [q EXCEPT !.probed = @ \cup {q.i}, !.edges[q.i] = b]
  <2>1. Only(r, p) /\ q.i \in DOMAIN Pool /\ q.stage = "visit"
    BY <1>5 DEF Probe, q
  <2>2. Kept(b) /\ b \in BodyType
    BY <1>1, <1>3, CandidateIs
  <2> HIDE DEF b
  <2>3. /\ p \in ReaderType /\ p.stage = "visit" /\ p.proved = q.proved /\ p.claim = q.claim
        /\ p.began = q.began /\ p.found = q.found /\ p.rows = q.rows
        /\ p.copying = q.copying /\ p.edges = [q.edges EXCEPT ![q.i] = b]
    BY <1>1, <2>1, <2>2 DEF ReaderType
  <2> HIDE DEF p
  <2>4. \A i \in DOMAIN Pool : p.edges[i] = IF i = q.i THEN b ELSE q.edges[i]
    BY <1>1, <2>3 DEF ReaderType
  <2>5. \A i \in DOMAIN Pool : Kept(p.edges[i]) /\ Kept(p.rows[i])
    BY <1>1, <2>2, <2>3, <2>4 DEF ReaderOK, BodiesKept
  <2>6. p.stage \notin Special
    BY <2>3, PlainStages
  <2> QED
    BY <1>4, <2>1, <2>3, <2>5, <2>6
<1>6. CASE ProbeRest(r)
  <2> DEFINE E == [i \in DOMAIN Pool |-> IF i \in q.probed THEN q.edges[i]
                                         ELSE Usables(q, edge[Key(q, Pool[i])])]
             p == [q EXCEPT !.stage = "batch", !.probed = DOMAIN Pool, !.edges = E]
  <2>1. Only(r, p)
    BY <1>6 DEF ProbeRest, q
  <2>2. E \in [DOMAIN Pool -> BodyType]
    BY <1>1, <1>2, <1>3 DEF ReaderType
  <2>3. \A i \in DOMAIN Pool : Kept(E[i])
    BY <1>1, <1>2, <1>3 DEF ReaderOK, BodiesKept
  <2> HIDE DEF E
  <2>4. /\ p \in ReaderType /\ p.stage = "batch" /\ p.proved = q.proved /\ p.claim = q.claim
        /\ p.began = q.began /\ p.found = q.found /\ p.rows = q.rows
        /\ p.copying = q.copying /\ p.edges = E
    BY <1>1, <2>2 DEF ReaderType, ReaderStages
  <2> HIDE DEF p
  <2>5. \A i \in DOMAIN Pool : Kept(p.edges[i]) /\ Kept(p.rows[i])
    BY <1>1, <2>3, <2>4 DEF ReaderOK, BodiesKept
  <2>6. p.stage \notin Special
    BY <2>4, PlainStages
  <2> QED
    BY <1>4, <2>1, <2>4, <2>5, <2>6
<1>7. CASE Batch(r)
  <2> DEFINE R == [i \in DOMAIN Pool |-> row[Key(q, Pool[i])]]
             p == [q EXCEPT !.stage = "visit", !.batched = TRUE, !.rows = R]
  <2>1. Only(r, p)
    BY <1>7 DEF Batch, q
  <2>2. R \in [DOMAIN Pool -> BodyType] /\ \A i \in DOMAIN Pool : Kept(R[i])
    BY <1>2, <1>3
  <2> HIDE DEF R
  <2>4. /\ p \in ReaderType /\ p.stage = "visit" /\ p.proved = q.proved /\ p.claim = q.claim
        /\ p.began = q.began /\ p.found = q.found /\ p.rows = R
        /\ p.copying = q.copying /\ p.edges = q.edges
    BY <1>1, <2>2 DEF ReaderType, ReaderStages
  <2> HIDE DEF p
  <2>5. \A i \in DOMAIN Pool : Kept(p.edges[i]) /\ Kept(p.rows[i])
    BY <1>1, <2>2, <2>4 DEF ReaderOK, BodiesKept
  <2>6. p.stage \notin Special
    BY <2>4, PlainStages
  <2> QED
    BY <1>4, <2>1, <2>4, <2>5, <2>6
<1> QED
  BY <1>5, <1>6, <1>7

\* A copy that was probed is looked at again before it is used.
LEMMA VisitsKeep ==
    ASSUME ReadsInv, NEW r \in Readers, VisitEdge(r) \/ VisitRow(r) \/ NoneLeft(r)
    PROVE  ReadsInv'
<1> DEFINE q == reader[r]
           key == Candidate(q)
<1>1. q \in ReaderType /\ ReaderOK(q) /\ WorldOK /\ BodiesOK /\ key \in Keys
  BY OneReader
<1>2. Kept(edge[key]) /\ Kept(row[key])
  BY <1>1 DEF BodiesOK
<1>3. q.i \in Nat /\ q.i + 1 \in Nat /\ q.stage = "visit" /\ FirstStale \in Nat
  BY <1>1, ReadsConstants
     DEF ReaderType, VisitEdge, VisitRow, NoneLeft, FirstStale, LastStale
<1> HIDE DEF key, q
<1>4. ReaderOK([q EXCEPT !.i = q.i + 1])
  BY <1>1, <1>3, IndexOn, PlainStages
<1>5. ASSUME NEW b, Kept(b), Usable(q, b)
      PROVE  ReaderOK(Found(q, b, "hit")) /\ ReaderOK(FoundInRow(q, b))
  BY <1>1, <1>5, UsableFound, FoundInRowOK
<1>6. CASE VisitEdge(r)
  <2>1. q.i \in DOMAIN Pool
    BY <1>1, <1>6 DEF VisitEdge, ReaderType, q
  <2>2. Kept(q.edges[q.i])
    BY <1>1, <2>1 DEF ReaderOK, BodiesKept
  <2>3. Only(r, IF Usable(q, q.edges[q.i]) THEN Found(q, q.edges[q.i], "hit")
                ELSE IF Usable(q, edge[key]) THEN Found(q, edge[key], "hit")
                ELSE IF Usable(q, row[key]) THEN FoundInRow(q, row[key])
                ELSE [q EXCEPT !.i = q.i + 1])
    BY <1>6 DEF VisitEdge, q, key
  <2>4. CASE Usable(q, q.edges[q.i])
    BY <1>5, <2>2, <2>3, <2>4, OnlyStep
  <2>5. CASE ~Usable(q, q.edges[q.i]) /\ Usable(q, edge[key])
    BY <1>2, <1>5, <2>3, <2>5, OnlyStep
  <2>6. CASE ~Usable(q, q.edges[q.i]) /\ ~Usable(q, edge[key]) /\ Usable(q, row[key])
    BY <1>2, <1>5, <2>3, <2>6, OnlyStep
  <2>7. CASE ~Usable(q, q.edges[q.i]) /\ ~Usable(q, edge[key]) /\ ~Usable(q, row[key])
    BY <1>4, <2>3, <2>7, OnlyStep
  <2> QED
    BY <2>4, <2>5, <2>6, <2>7
<1>7. CASE VisitRow(r)
  <2>1. q.i \in DOMAIN Pool
    BY <1>1, <1>7 DEF VisitRow, ReaderType, q
  <2>2. Kept(q.rows[q.i])
    BY <1>1, <2>1 DEF ReaderOK, BodiesKept
  <2>3. Only(r, IF Usable(q, q.rows[q.i]) THEN FoundInRow(q, q.rows[q.i])
                ELSE [q EXCEPT !.i = q.i + 1])
    BY <1>7 DEF VisitRow, q
  <2>4. CASE Usable(q, q.rows[q.i])
    BY <1>5, <2>2, <2>3, <2>4, OnlyStep
  <2>5. CASE ~Usable(q, q.rows[q.i])
    BY <1>4, <2>3, <2>5, OnlyStep
  <2> QED
    BY <2>4, <2>5
<1>8. CASE NoneLeft(r)
  <2>1. ReaderOK([q EXCEPT !.stage = "swr", !.i = FirstStale])
    BY <1>1, <1>3, MovesOn, PlainStages
  <2> QED
    BY <1>8, <2>1, OnlyStep DEF NoneLeft, q
<1> QED
  BY <1>6, <1>7, <1>8

--------------------------------------------------------------------------------
(* Old bodies.                                                             *)

LEMMA StaleFound ==
    ASSUME WorldOK, NEW q, ReaderOK(q), NEW b, Kept(b), StaleAllowed(b)
    PROVE  /\ q.age = NoAge /\ WithinSwrWindow(b) => ReaderOK(Found(q, b, "swr"))
           /\ q.age = NoAge \/ (q.age # 0 /\ minute <= b.at + q.age)
                => ReaderOK(Found(q, b, "stale"))
<1>1. minute \in Nat /\ b.stale \in Nat /\ minute < b.stale
  BY ReadsConstants DEF WorldOK, Kept, BodyType, StaleAllowed
<1>2. ASSUME q.age = NoAge, WithinSwrWindow(b) PROVE ReaderOK(Found(q, b, "swr"))
  <2>1. FoundYoung(q, b, "swr")
    BY <1>1, <1>2 DEF FoundYoung, WithinSwrWindow
  <2> QED
    BY <2>1, FoundOK
<1>3. ASSUME q.age = NoAge \/ (q.age # 0 /\ minute <= b.at + q.age)
      PROVE  ReaderOK(Found(q, b, "stale"))
  <2>1. FoundYoung(q, b, "stale")
    BY <1>1, <1>3 DEF FoundYoung
  <2> QED
    BY <2>1, FoundOK
<1> QED
  BY <1>2, <1>3

LEMMA OldKeep ==
    ASSUME ReadsInv, NEW r \in Readers, ReadJustExpired(r) \/ ReadOutdated(r)
    PROVE  ReadsInv'
<1> DEFINE q == reader[r]
           b == row[Candidate(q)]
<1>1. q \in ReaderType /\ ReaderOK(q) /\ WorldOK /\ Kept(b)
  BY OneReader DEF BodiesOK
<1>2. q.i \in Nat /\ q.i + 1 \in Nat /\ q.stage \notin Special
  BY <1>1, PlainStages DEF ReaderType, ReadJustExpired, ReadOutdated
<1> HIDE DEF b, q
<1>3. ReaderOK([q EXCEPT !.i = q.i + 1])
  BY <1>1, <1>2, IndexOn
<1>4. CASE ReadJustExpired(r)
  <2>1. Only(r, IF \/ q.age # NoAge \/ route.kind \notin StaleWhileRevalidate
                   \/ q.i > LastStale
                THEN [q EXCEPT !.stage = "fetch", !.i = 0]
                ELSE IF StaleAllowed(b) /\ WithinSwrWindow(b) THEN Found(q, b, "swr")
                ELSE [q EXCEPT !.i = q.i + 1])
    BY <1>4 DEF ReadJustExpired, b, q
  <2>2. ReaderOK([q EXCEPT !.stage = "fetch", !.i = 0])
    BY <1>1, MovesOn, PlainStages
  <2>3. CASE \/ q.age # NoAge \/ route.kind \notin StaleWhileRevalidate \/ q.i > LastStale
    BY <2>1, <2>2, <2>3, OnlyStep
  <2>4. CASE ~(\/ q.age # NoAge \/ route.kind \notin StaleWhileRevalidate \/ q.i > LastStale)
    <3>1. CASE StaleAllowed(b) /\ WithinSwrWindow(b)
      <4>1. ReaderOK(Found(q, b, "swr"))
        BY <1>1, <2>4, <3>1, StaleFound
      <4> QED
        BY <2>1, <2>4, <3>1, <4>1, OnlyStep
    <3>2. CASE ~(StaleAllowed(b) /\ WithinSwrWindow(b))
      BY <1>3, <2>1, <2>4, <3>2, OnlyStep
    <3> QED
      BY <3>1, <3>2
  <2> QED
    BY <2>3, <2>4
<1>5. CASE ReadOutdated(r)
  <2> DEFINE allowed == StaleAllowed(b) /\ (q.age = NoAge \/ minute <= b.at + q.age)
  <2>1. Only(r, IF q.i > LastStale \/ q.age = 0 THEN Ends(q, "failed")
                ELSE IF allowed THEN Found(q, b, "stale")
                ELSE [q EXCEPT !.i = q.i + 1])
    BY <1>5 DEF ReadOutdated, b, q
  <2>2. ReaderOK(Ends(q, "failed"))
    BY <1>1, EndsOK
  <2>3. CASE q.i > LastStale \/ q.age = 0
    BY <2>1, <2>2, <2>3, OnlyStep
  <2>4. CASE ~(q.i > LastStale \/ q.age = 0)
    <3>1. CASE allowed
      <4>1. ReaderOK(Found(q, b, "stale"))
        BY <1>1, <2>4, <3>1, StaleFound
      <4> QED
        BY <2>1, <2>4, <3>1, <4>1, OnlyStep
    <3>2. CASE ~allowed
      <4> HIDE DEF allowed
      <4> QED
        BY <1>3, <2>1, <2>4, <3>2, OnlyStep
    <3> QED
      BY <3>1, <3>2
  <2> QED
    BY <2>3, <2>4
<1> QED
  BY <1>4, <1>5

\* What is served had been chosen, and a body just expired is still within the
\* window.
LEMMA CheckAvailableKeeps ==
    ASSUME ReadsInv, NEW r \in Readers, CheckAvailable(r)
    PROVE  ReadsInv'
<1> DEFINE q == reader[r]
           o == [q EXCEPT !.chosen = IF q.how = "swr" THEN minute ELSE q.chosen]
           p == Ends(o, "served")
<1>1. q \in ReaderType /\ ReaderOK(q) /\ WorldOK /\ q.stage = "check" /\ minute \in Nat
  BY OneReader, ReadsConstants DEF CheckAvailable, WorldOK
<1>2. NoBody \in BodyType /\ Kept(NoBody) /\ NoClaim \in Claims /\ NoAge \in Nat
  BY <1>1, NoBodyKept, ReadsConstants
<1>3. NewReader \in ReaderType
  BY <1>2 DEF NewReader, ReaderType, ReaderStages
<1>4. Only(r, p) /\ (q.how = "swr" => WithinSwrWindow(q.found))
  BY DEF CheckAvailable
<1>5. /\ o \in ReaderType /\ o.proved = q.proved /\ o.claim = q.claim /\ o.began = q.began
      /\ o.found = q.found /\ o.copying = q.copying /\ o.how = q.how /\ o.age = q.age
      /\ o.chosen = IF q.how = "swr" THEN minute ELSE q.chosen
  BY <1>1 DEF ReaderType
<1> HIDE DEF o
<1>6. /\ p \in ReaderType /\ p.stage = "served" /\ p.proved = o.proved /\ p.claim = o.claim
      /\ p.began = o.began /\ p.found = o.found /\ p.edges = NewReader.edges
      /\ p.rows = NewReader.rows /\ p.copying = o.copying /\ p.how = o.how
      /\ p.age = o.age /\ p.chosen = o.chosen
  BY <1>3, <1>5 DEF Ends, ReaderType, ReaderStages
<1>7. \A i \in DOMAIN Pool : NewReader.edges[i] = NoBody /\ NewReader.rows[i] = NoBody
  BY DEF NewReader
<1> HIDE DEF p, q
<1>8. BodiesKept(p)
  BY <1>1, <1>2, <1>5, <1>6, <1>7 DEF ReaderOK, BodiesKept
<1>9. MaxAge(p) = MaxAge(q)
  BY <1>5, <1>6 DEF MaxAge
<1>10. Young(p)
  BY <1>1, <1>4, <1>5, <1>6, <1>9 DEF ReaderOK, Young, WithinSwrWindow
<1>11. ClaimStands(p)
  BY <1>1, <1>5, <1>6 DEF ReaderOK, ClaimStands
<1>12. ReaderOK(p)
  BY <1>6, <1>8, <1>10, <1>11 DEF ReaderOK
<1> QED
  BY <1>4, <1>12, OnlyStep

LEMMA UnavailableKeeps ==
    ASSUME ReadsInv, NEW r \in Readers, Unavailable(r)
    PROVE  ReadsInv'
<1> DEFINE q == [reader[r] EXCEPT !.found = NoBody]
           o == [q EXCEPT !.stage = "visit"]
<1>1. /\ reader[r] \in ReaderType /\ ReaderOK(reader[r]) /\ WorldOK
      /\ NoBody \in BodyType /\ Kept(NoBody)
  BY OneReader, NoBodyKept
<1>2. q \in ReaderType /\ q.i \in Nat /\ q.i + 1 \in Nat
  BY <1>1 DEF ReaderType
<1>3. /\ o \in ReaderType /\ o.stage = "visit" /\ o.proved = reader[r].proved
      /\ o.claim = reader[r].claim /\ o.began = reader[r].began /\ o.found = NoBody
      /\ o.edges = reader[r].edges /\ o.rows = reader[r].rows
      /\ o.copying = reader[r].copying
  BY <1>1 DEF ReaderType, ReaderStages
<1>4. /\ \A s, n : [q EXCEPT !.stage = s, !.i = n] = [o EXCEPT !.stage = s, !.i = n]
      /\ Missed(q) = Missed(o)
  <2>1. \A s, n : [q EXCEPT !.stage = s, !.i = n] = [o EXCEPT !.stage = s, !.i = n]
    BY <1>2 DEF ReaderType
  <2>2. [q EXCEPT !.stage = "ask", !.due = minute + CallLimit]
          = [o EXCEPT !.stage = "ask", !.due = minute + CallLimit]
    BY <1>2 DEF ReaderType
  <2>3. MaxAge(q) = MaxAge(o) /\ q.proved = o.proved
    BY <1>2 DEF MaxAge, ReaderType
  <2> HIDE DEF q, o
  <2> QED
    BY <2>1, <2>2, <2>3 DEF Missed
<1>5. Only(r, IF q.how = "swr" THEN [q EXCEPT !.stage = "swr", !.i = q.i + 1]
              ELSE IF q.how = "stale" THEN [q EXCEPT !.stage = "stale", !.i = q.i + 1]
              ELSE IF q.i = 0 THEN Missed(q)
              ELSE [q EXCEPT !.stage = "visit", !.i = q.i + 1])
  BY DEF Unavailable
<1> HIDE DEF q, o
<1>6. BodiesKept(o) /\ o.stage \notin Special
  BY <1>1, <1>3, PlainStages DEF ReaderOK, BodiesKept
<1>7. ReaderOK(o)
  BY <1>1, <1>3, <1>6, GoesOn
<1>8. \A s \in ReaderStages \ Special : ReaderOK([q EXCEPT !.stage = s, !.i = q.i + 1])
  BY <1>2, <1>4, <1>7, MovesOn
<1>9. ReaderOK(Missed(q))
  BY <1>1, <1>4, <1>7, MissedOK
<1>10. /\ ReaderOK([q EXCEPT !.stage = "swr", !.i = q.i + 1])
       /\ ReaderOK([q EXCEPT !.stage = "stale", !.i = q.i + 1])
       /\ ReaderOK([q EXCEPT !.stage = "visit", !.i = q.i + 1])
  BY <1>8, PlainStages
<1> QED
  BY <1>5, <1>9, <1>10, OnlyStep

--------------------------------------------------------------------------------
(* A fill.                                                                 *)

LEMMA FetchKeeps ==
    ASSUME ReadsInv, NEW r \in Readers, NEW i \in 0..Len(Pool), Fetch(r, i)
    PROVE  ReadsInv'
<1> DEFINE q == reader[r]
<1>b. PICK b : b = [NoBody EXCEPT !.fill = fills + 1, !.version = version,
                                  !.updated = since, !.seen = minute]
  OBVIOUS
<1>p. PICK p : p = [q EXCEPT !.stage = "publish", !.i = i, !.found = b]
  OBVIOUS
<1>1. q \in ReaderType /\ ReaderOK(q) /\ WorldOK /\ ClaimsOK /\ BodiesOK
  BY OneReader DEF ReadsInv
<1>2. /\ minute \in Nat /\ version \in Nat /\ since \in Nat /\ since <= minute
      /\ fills \in Nat /\ i \in Nat
  BY <1>1, ReadsConstants DEF WorldOK
<1>3. /\ reader' = [reader EXCEPT ![r] = p] /\ fills' = fills + 1
      /\ UNCHANGED <<minute, route, version, since, claims, row, edge, goneAt>>
  BY <1>b, <1>p DEF Fetch, Becomes
<1>4. fills' \in Nat /\ fills' >= fills
  BY <1>2, <1>3
<1>5. /\ b \in BodyType /\ b.fill = fills' /\ b.seen = minute /\ b.updated = since
      /\ b.until = 0 /\ b.stale = 0
  BY <1>b, <1>2, <1>3, <1>4, NoBodyKept DEF NoBody, BodyType
<1>6. /\ p \in ReaderType /\ p.stage = "publish" /\ p.proved = q.proved
      /\ p.claim = q.claim /\ p.began = q.began /\ p.found = b
      /\ p.edges = q.edges /\ p.rows = q.rows /\ p.copying = q.copying
  BY <1>p, <1>1, <1>2, <1>5 DEF ReaderType, ReaderStages
<1> HIDE DEF q
<1>7. WorldOK'
  BY <1>1, <1>3, <1>4 DEF WorldOK
<1>8. \A x : Kept(x) => Kept(x)'
  BY <1>1, <1>3, <1>4, KeptStays
<1>9. Kept(b)'
  <2>1. Promised(b)' \in Nat /\ StaleMinutes(Promised(b))' \in Nat
    <3>1. Promised(b) \in Nat /\ StaleMinutes(Promised(b)) \in Nat
      BY <1>1, <1>5, PromisedIs DEF WorldOK
    <3>2. Promised(b)' = Promised(b)
      BY <1>3, SameRoute
    <3>3. StaleMinutes(Promised(b))' = StaleMinutes(Promised(b))
      BY <1>3, <3>2, SameRoute
    <3> QED
      BY <3>1, <3>2, <3>3
  <2> QED
    BY <1>2, <1>4, <1>5, <2>1 DEF Kept
<1>10. ReaderOK(p)'
  <2>1. BodiesKept(p)'
    BY <1>1, <1>6, <1>8, <1>9 DEF ReaderOK, BodiesKept
  <2>2. Young(p)'
    BY <1>6 DEF Young
  <2>3. ClaimStands(p)'
    BY <1>1, <1>3, <1>6 DEF ReaderOK, ClaimStands
  <2>4. p.found.updated <= minute'
    BY <1>2, <1>3, <1>5, <1>6
  <2> QED
    BY <1>6, <2>1, <2>2, <2>3, <2>4 DEF ReaderOK
<1>11. \A x \in Readers : reader'[x] = IF x = r THEN p ELSE reader[x]
  BY <1>3 DEF ReadsInv
<1>12. ASSUME NEW x \in Readers PROVE ReaderOK(reader[x])'
  <2>1. CASE x = r
    <3>1. reader'[x] = p
      BY <1>11, <2>1
    <3> QED
      BY <1>10, <3>1
  <2>2. CASE x # r
    <3>1. PICK o : o = reader'[x] /\ o = reader[x] /\ ReaderOK(o)
      BY <1>11, <2>2 DEF ReadsInv
    <3>2. ReaderOK(o)'
      BY <1>1, <1>3, <1>4, <3>1, SameWorld
    <3> QED
      BY <3>1, <3>2
  <2> QED
    BY <2>1, <2>2
<1>13. ClaimsOK'
  BY <1>1, <1>3 DEF ClaimsOK
<1>14. BodiesOK'
  BY <1>1, <1>3, <1>8 DEF BodiesOK
<1>15. reader' \in [Readers -> ReaderType]
  BY <1>3, <1>6 DEF ReadsInv
<1> QED
  BY <1>7, <1>12, <1>13, <1>14, <1>15 DEF ReadsInv

LEMMA FetchFailsKeeps ==
    ASSUME ReadsInv, NEW r \in Readers, FetchFails(r)
    PROVE  ReadsInv'
<1>1. FirstStale \in Nat
  BY ReadsConstants DEF FirstStale, LastStale
<1>2. ReaderOK([reader[r] EXCEPT !.stage = "stale", !.i = FirstStale])
  BY <1>1, OneReader, MovesOn, PlainStages
<1> QED
  BY <1>2, ReaderStep DEF FetchFails, Becomes, ReadsInv

\* A body that is written, to its row or to its copy.
LEMMA BodyWritten ==
    ASSUME ReadsInv, NEW k \in Keys, NEW b, Kept(b), UNCHANGED <<route, fills>>,
           row' \in {row, [row EXCEPT ![k] = b]}, edge' \in {edge, [edge EXCEPT ![k] = b]}
    PROVE  BodiesOK'
<1>1. \A x : Kept(x) => Kept(x)'
  BY KeptStays DEF ReadsInv, WorldOK
<1>2. b \in BodyType /\ row \in [Keys -> BodyType] /\ edge \in [Keys -> BodyType]
  BY DEF Kept, ReadsInv, BodiesOK
<1>3. /\ row' \in [Keys -> BodyType] /\ edge' \in [Keys -> BodyType]
      /\ \A j \in Keys : row'[j] \in {row[j], b} /\ edge'[j] \in {edge[j], b}
  BY <1>2
<1>4. \A j \in Keys : Kept(row[j]) /\ Kept(edge[j])
  BY DEF ReadsInv, BodiesOK
<1>5. ASSUME NEW j \in Keys PROVE Kept(row[j])' /\ Kept(edge[j])'
  <2>1. PICK x, y : x = row'[j] /\ y = edge'[j] /\ Kept(x) /\ Kept(y)
    BY <1>3, <1>4
  <2>2. Kept(x)' /\ Kept(y)'
    BY <1>1, <2>1
  <2> QED
    BY <2>1, <2>2
<1> QED
  BY <1>3, <1>5 DEF BodiesOK

\* The dates of a body start from when it was fetched, and its freshness is what
\* its route lets it be.
LEMMA StampedKept ==
    ASSUME ReadsInv, NEW q, ReaderOK(q), q.stage = "publish"
    PROVE  Kept(Stamped(q))
<1> DEFINE f == q.found
           age == minute - f.updated
<1>1. f \in BodyType /\ Kept(f) /\ f.updated <= minute
  BY DEF ReaderOK, ReaderType, BodiesKept
<1>2. /\ minute \in 0..Horizon /\ route \in Route /\ route \in Routes /\ Horizon \in Nat
      /\ f.updated \in Nat /\ f.version \in Nat /\ f.seen \in Nat
  BY <1>1, ReadsConstants DEF ReadsInv, WorldOK, BodyType
<1>3. age \in 0..Horizon
  BY <1>1, <1>2
<1>4. PICK fresh \in Nat, most \in Nat :
        /\ fresh = FreshMinutes(f.version, age, q.proved = "live")
        /\ most = FreshMinutes(f.version, Horizon, TRUE)
        /\ fresh <= most
  <2> HIDE DEF age
  <2> QED
    BY <1>2, <1>3, FreshIsPromised
<1>5. PICK stale \in Nat, window \in Nat :
        stale = StaleMinutes(fresh) /\ window = StaleMinutes(most) /\ stale <= window
  BY <1>2, <1>4, StaleGrows
<1>6. PICK until \in Nat, last \in Nat :
        until = f.seen + fresh /\ last = f.seen + fresh + stale
  BY <1>2
<1>7. PICK b : b = [f EXCEPT !.at = f.seen, !.until = until, !.stale = last]
  OBVIOUS
<1>8. b = Stamped(q)
  BY <1>4, <1>5, <1>6, <1>7 DEF Stamped, Dated
<1> HIDE DEF f, age
<1>9. /\ b \in BodyType /\ b.fill = f.fill /\ b.version = f.version /\ b.seen = f.seen
      /\ b.at = f.seen /\ b.until = until /\ b.stale = last
  BY <1>1, <1>2, <1>7 DEF BodyType
<1>10. Promised(b) = most
  BY <1>4, <1>9 DEF Promised
<1>11. StaleMinutes(Promised(b)) = window
  BY <1>5, <1>10
<1>12. b.fill <= fills
  BY <1>1, <1>9 DEF Kept
<1>13. until <= f.seen + most /\ last <= f.seen + most + window
  <2>1. PICK seen \in Nat : seen = f.seen
    BY <1>2
  <2>2. until = seen + fresh /\ last = seen + fresh + stale
    BY <1>6, <2>1
  <2>3. fresh <= most /\ stale <= window
    BY <1>4, <1>5
  <2>4. until <= seen + most /\ last <= seen + most + window
    BY <2>2, <2>3
  <2> QED
    BY <2>1, <2>4
<1>14. Kept(b)
  BY <1>9, <1>10, <1>11, <1>12, <1>13 DEF Kept
<1> QED
  BY <1>8, <1>14

LEMMA WritesKeep ==
    ASSUME ReadsInv, NEW r \in Readers, WriteRow(r) \/ RowUnknown(r)
    PROVE  ReadsInv'
<1> DEFINE q == reader[r]
           b == Stamped(q)
           p == [q EXCEPT !.stage = "edge", !.found = b]
<1>1. /\ q \in ReaderType /\ ReaderOK(q) /\ WorldOK /\ q.stage = "publish"
      /\ Candidate(q) \in Keys
  BY OneReader DEF WriteRow, RowUnknown
<1>2. Kept(b)
  BY <1>1, StampedKept
<1>3. \/ reader' = [reader EXCEPT ![r] = p]
      \/ reader' = [reader EXCEPT ![r] = Ends(q, "fetched")]
  BY DEF WriteRow, RowUnknown, Becomes
<1>4. /\ row' \in {row, [row EXCEPT ![Candidate(q)] = b]}
      /\ UNCHANGED <<minute, route, version, since, claims, edge, fills, goneAt>>
  BY DEF WriteRow, RowUnknown
<1> HIDE DEF b
<1>5. /\ p \in ReaderType /\ p.stage = "edge" /\ p.proved = q.proved
      /\ p.claim = q.claim /\ p.began = q.began /\ p.found = b
      /\ p.edges = q.edges /\ p.rows = q.rows /\ p.copying = q.copying
  BY <1>1, <1>2 DEF Kept, ReaderType, ReaderStages
<1> HIDE DEF p, q
<1>6. BodiesKept(p) /\ p.stage \notin Special
  BY <1>1, <1>2, <1>5 DEF ReaderOK, BodiesKept, Special
<1>7. ReaderOK(p) /\ ReaderOK(Ends(q, "fetched"))
  BY <1>1, <1>5, <1>6, GoesOn, EndsOK
<1>8. BodiesOK'
  BY <1>1, <1>2, <1>4, BodyWritten
<1> QED
  BY <1>3, <1>4, <1>7, <1>8, ReaderStep DEF ReadsInv

LEMMA CopiesKeep ==
    ASSUME ReadsInv, NEW r \in Readers, WriteEdge(r) \/ CopyToEdge(r)
    PROVE  ReadsInv'
<1> DEFINE q == reader[r]
<1>1. q \in ReaderType /\ ReaderOK(q) /\ WorldOK /\ Candidate(q) \in Keys
  BY OneReader
<1>2. UNCHANGED <<minute, route, version, since, claims, row, fills, goneAt>>
  BY DEF WriteEdge, CopyToEdge
<1> HIDE DEF q
<1>3. CASE WriteEdge(r)
  <2>1. /\ reader' = [reader EXCEPT ![r] = Ends(q, "fetched")]
        /\ edge' \in {edge, [edge EXCEPT ![Candidate(q)] = q.found]}
    BY <1>3 DEF WriteEdge, Becomes, Puts, q
  <2>2. Kept(q.found) /\ ReaderOK(Ends(q, "fetched"))
    BY <1>1, EndsOK DEF ReaderOK, BodiesKept
  <2>3. BodiesOK'
    BY <1>1, <1>2, <2>1, <2>2, BodyWritten
  <2> QED
    BY <1>2, <2>1, <2>2, <2>3, ReaderStep DEF ReadsInv
<1>4. CASE CopyToEdge(r)
  <2> DEFINE p == [q EXCEPT !.copying = <<>>]
  <2>1. /\ reader' = [reader EXCEPT ![r] = p] /\ q.copying # <<>>
        /\ edge' \in {edge, [edge EXCEPT ![q.copying[1]] = q.copying[2]]}
    BY <1>4 DEF CopyToEdge, Becomes, Puts, q
  <2>2. q.copying[1] \in Keys /\ Kept(q.copying[2])
    BY <1>1, <2>1 DEF ReaderOK, ReaderType, BodiesKept
  <2>3. /\ p \in ReaderType /\ p.stage = q.stage /\ p.proved = q.proved
        /\ p.claim = q.claim /\ p.began = q.began /\ p.found = q.found /\ p.due = q.due
        /\ p.edges = q.edges /\ p.rows = q.rows /\ p.copying = <<>>
        /\ p.how = q.how /\ p.chosen = q.chosen /\ p.age = q.age
    BY <1>1 DEF ReaderType
  <2> HIDE DEF p
  <2>4. MaxAge(p) = MaxAge(q)
    BY <2>3 DEF MaxAge
  <2>5. BodiesKept(p)
    BY <1>1, <2>3 DEF ReaderOK, BodiesKept
  <2>6. Young(p)
    BY <1>1, <2>3, <2>4 DEF ReaderOK, Young
  <2>7. ClaimStands(p)
    BY <1>1, <2>3 DEF ReaderOK, ClaimStands
  <2>8. ReaderOK(p)
    BY <1>1, <2>3, <2>5, <2>6, <2>7 DEF ReaderOK
  <2>9. BodiesOK'
    BY <1>2, <2>1, <2>2, BodyWritten
  <2> QED
    BY <1>2, <2>1, <2>8, <2>9, ReaderStep DEF ReadsInv
<1> QED
  BY <1>3, <1>4

--------------------------------------------------------------------------------
(* What the readers do not do.                                             *)

LEMMA PruneKeeps ==
    ASSUME ReadsInv, NEW k \in Keys, PruneRow(k)
    PROVE  ReadsInv'
<1>1. /\ UNCHANGED <<minute, route, version, since, claims, edge, fills, reader, goneAt>>
      /\ row' = [row EXCEPT ![k] = NoBody]
  BY DEF PruneRow
<1>2. WorldOK /\ Kept(NoBody)
  BY NoBodyKept DEF ReadsInv
<1>3. BodiesOK'
  BY <1>1, <1>2, BodyWritten
<1>4. WorldOK' /\ ClaimsOK'
  BY <1>1 DEF ReadsInv, WorldOK, ClaimsOK
<1>5. ASSUME NEW x \in Readers PROVE ReaderOK(reader[x])'
  <2>1. PICK p : p = reader[x] /\ p = reader'[x] /\ ReaderOK(p)
    BY <1>1 DEF ReadsInv
  <2>2. ReaderOK(p)'
    BY <1>1, <1>2, <2>1, SameWorld DEF WorldOK
  <2> QED
    BY <2>1, <2>2
<1> QED
  BY <1>1, <1>3, <1>4, <1>5 DEF ReadsInv

\* A version that goes is the newest, so that nothing is known of a later one.
LEMMA ChangeKeeps ==
    ASSUME ReadsInv, Change
    PROVE  ReadsInv'
<1>1. /\ version \in Nat /\ version < MaxVersion /\ version' = version + 1
      /\ since' = minute /\ goneAt' = [goneAt EXCEPT ![version] = minute]
      /\ UNCHANGED <<minute, route, claims, row, edge, fills, reader>>
  BY ReadsConstants DEF Change, ReadsInv, WorldOK
<1>2. /\ MaxVersion \in Nat /\ Horizon \in Nat /\ CallLimit \in Nat /\ ClaimTtl \in Nat
      /\ ClaimTtl > 0 /\ NoAge > Horizon /\ NoAge \in Nat /\ Claims \subseteq Nat
  BY ReadsConstants
<1>3. /\ minute \in 0..Horizon /\ goneAt \in [0..MaxVersion -> Nat]
      /\ \A v \in 0..MaxVersion : v >= version => goneAt[v] = NoAge
  BY DEF ReadsInv, WorldOK
<1>4. /\ goneAt' \in [0..MaxVersion -> Nat]
      /\ \A v \in 0..MaxVersion : goneAt'[v] = IF v = version THEN minute ELSE goneAt[v]
  BY <1>1, <1>2, <1>3
<1>5. WorldOK'
  BY <1>1, <1>2, <1>3, <1>4 DEF ReadsInv, WorldOK
<1>6. ClaimsOK'
  <2>1. claims \in [Claims -> Nat]
    BY DEF ReadsInv, ClaimsOK
  <2>2. ASSUME NEW v \in Claims, claims[v] > 0
        PROVE  /\ v <= version' /\ claims[v] <= minute + ClaimTtl
               /\ claims[v] <= goneAt'[v] + CallLimit + ClaimTtl
    <3>1. /\ v \in Nat /\ v <= version /\ claims[v] <= minute + ClaimTtl
          /\ claims[v] <= goneAt[v] + CallLimit + ClaimTtl
          /\ claims[v] \in Nat
      BY <1>2, <2>1, <2>2 DEF ReadsInv, ClaimsOK
    <3>2. v \in 0..MaxVersion
      BY <1>1, <1>2, <3>1
    <3>3. CASE v = version
      BY <1>1, <1>2, <1>3, <1>4, <3>1, <3>2, <3>3
    <3>4. CASE v # version
      BY <1>1, <1>2, <1>4, <3>1, <3>2, <3>4
    <3> QED
      BY <3>3, <3>4
  <2> QED
    BY <1>1, <2>1, <2>2 DEF ClaimsOK
<1>7. ASSUME NEW b, Kept(b) PROVE Kept(b)'
  BY <1>1, <1>7, KeptStays DEF ReadsInv, WorldOK
<1>8. BodiesOK'
  BY <1>1, <1>7 DEF ReadsInv, BodiesOK
<1>9. ASSUME NEW q, ReaderOK(q) PROVE ReaderOK(q)'
  <2>1. BodiesKept(q)'
    BY <1>7, <1>9 DEF ReaderOK, BodiesKept
  <2>2. MaxAge(q)' = MaxAge(q)
    BY <1>1, SameRoute
  <2>3. Young(q)'
    BY <1>9, <2>2 DEF ReaderOK, Young
  <2>4. /\ q.claim \in Nat /\ q.began \in Nat /\ q.due \in Nat /\ ClaimStands(q)
    BY <1>2, <1>9 DEF ReaderOK, ReaderType
  <2>5. ASSUME q.claim <= version
        PROVE  /\ q.claim <= version' /\ q.claim \in 0..MaxVersion
               /\ goneAt[q.claim] \in Nat
               /\ goneAt'[q.claim] = IF q.claim = version THEN minute ELSE goneAt[q.claim]
    BY <1>1, <1>2, <1>3, <1>4, <2>4, <2>5
  <2>6. ASSUME q.stage = "record"
        PROVE  /\ q.claim <= version' /\ q.began <= goneAt'[q.claim]
               /\ q.due <= goneAt'[q.claim] + CallLimit
    <3>1. CASE q.claim = version
      BY <1>2, <1>3, <2>4, <2>5, <2>6, <3>1 DEF ClaimStands
    <3>2. CASE q.claim # version
      BY <2>4, <2>5, <2>6, <3>2 DEF ClaimStands
    <3> QED
      BY <3>1, <3>2
  <2>7. ASSUME q.proved # "no"
        PROVE  q.claim <= version' /\ q.began < goneAt'[q.claim] + CallLimit + ClaimTtl
    <3>1. CASE q.claim = version
      BY <1>2, <1>3, <2>4, <2>5, <2>7, <3>1 DEF ClaimStands
    <3>2. CASE q.claim # version
      BY <2>4, <2>5, <2>7, <3>2 DEF ClaimStands
    <3> QED
      BY <3>1, <3>2
  <2>8. ClaimStands(q)'
    BY <1>1, <2>4, <2>6, <2>7 DEF ClaimStands
  <2> QED
    BY <1>1, <1>9, <2>1, <2>3, <2>8 DEF ReaderOK
<1>10. ASSUME NEW x \in Readers PROVE ReaderOK(reader[x])'
  <2>1. PICK p : p = reader[x] /\ p = reader'[x] /\ ReaderOK(p)
    BY <1>1 DEF ReadsInv
  <2> QED
    BY <1>9, <2>1
<1> QED
  BY <1>1, <1>5, <1>6, <1>8, <1>10 DEF ReadsInv

\* Time passes no verification that is under way.
LEMMA PassKeeps ==
    ASSUME ReadsInv, NEW d \in Jumps, Pass(d)
    PROVE  ReadsInv'
<1>1. /\ minute' = minute + d /\ minute + d <= Horizon
      /\ \A r \in Readers : reader[r].stage \in {"ask", "record"} => minute + d <= reader[r].due
      /\ UNCHANGED <<version, since, route, claims, row, edge, fills, reader, goneAt>>
  BY DEF Pass
<1>2. d \in Nat /\ minute \in Nat /\ Horizon \in Nat /\ CallLimit \in Nat /\ ClaimTtl \in Nat
  BY ReadsAssumption DEF ReadsInv, WorldOK
<1>3. WorldOK'
  BY <1>1, <1>2 DEF ReadsInv, WorldOK
<1>4. ClaimsOK'
  <2>1. ASSUME NEW v \in Claims, claims[v] > 0 PROVE claims[v] <= minute' + ClaimTtl
    <3>1. claims[v] \in Nat /\ claims[v] <= minute + ClaimTtl
      BY <2>1 DEF ReadsInv, ClaimsOK
    <3> QED
      BY <1>1, <1>2, <3>1
  <2> QED
    BY <1>1, <2>1 DEF ReadsInv, ClaimsOK
<1>5. ASSUME NEW b, Kept(b) PROVE Kept(b)'
  BY <1>1, <1>5, KeptStays DEF ReadsInv, WorldOK
<1>6. BodiesOK'
  BY <1>1, <1>5 DEF ReadsInv, BodiesOK
<1>7. ASSUME NEW q, ReaderOK(q), q.stage \in {"ask", "record"} => minute + d <= q.due
      PROVE  ReaderOK(q)'
  <2>1. BodiesKept(q)'
    BY <1>5, <1>7 DEF ReaderOK, BodiesKept
  <2>2. MaxAge(q)' = MaxAge(q)
    BY <1>1, SameRoute
  <2>3. Young(q)'
    BY <1>7, <2>2 DEF ReaderOK, Young
  <2>4. q.began \in Nat /\ q.due \in Nat /\ q.found.updated \in Nat /\ ClaimStands(q)
    BY <1>7 DEF ReaderOK, ReaderType, BodyType
  <2>5. q.began <= minute'
    BY <1>1, <1>2, <2>4 DEF ClaimStands
  <2>6. q.stage \in {"ask", "record"} => minute' <= q.due /\ q.due <= minute' + CallLimit
    BY <1>1, <1>2, <1>7, <2>4 DEF ClaimStands
  <2>7. ClaimStands(q)'
    BY <1>1, <2>4, <2>5, <2>6 DEF ClaimStands
  <2>8. q.stage = "publish" => q.found.updated <= minute'
    BY <1>1, <1>2, <1>7, <2>4 DEF ReaderOK
  <2> QED
    BY <1>7, <2>1, <2>3, <2>7, <2>8 DEF ReaderOK
<1>8. ASSUME NEW x \in Readers PROVE ReaderOK(reader[x])'
  <2>1. PICK p : p = reader[x] /\ p = reader'[x] /\ ReaderOK(p)
    BY <1>1 DEF ReadsInv
  <2>2. p.stage \in {"ask", "record"} => minute + d <= p.due
    BY <1>1, <2>1
  <2> QED
    BY <1>7, <2>1, <2>2
<1> QED
  BY <1>1, <1>3, <1>4, <1>6, <1>8 DEF ReadsInv

LEMMA NothingKeeps ==
    ASSUME ReadsInv, UNCHANGED readVars
    PROVE  ReadsInv'
<1>1. UNCHANGED <<minute, route, version, since, claims, row, edge, fills, reader, goneAt>>
  BY DEF readVars
<1>2. WorldOK /\ WorldOK' /\ ClaimsOK'
  BY <1>1 DEF ReadsInv, WorldOK, ClaimsOK
<1>3. \A b : Kept(b) => Kept(b)'
  BY <1>1, <1>2, KeptStays DEF WorldOK
<1>4. BodiesOK'
  BY <1>1, <1>3 DEF ReadsInv, BodiesOK
<1>5. ASSUME NEW x \in Readers PROVE ReaderOK(reader[x])'
  <2>1. PICK p : p = reader[x] /\ p = reader'[x] /\ ReaderOK(p)
    BY <1>1 DEF ReadsInv
  <2>2. ReaderOK(p)'
    BY <1>1, <1>2, <2>1, SameWorld DEF WorldOK
  <2> QED
    BY <2>1, <2>2
<1> QED
  BY <1>1, <1>2, <1>4, <1>5 DEF ReadsInv

LEMMA ReadsStart == ReadsInit => ReadsInv
<1> SUFFICES ASSUME ReadsInit PROVE ReadsInv
  OBVIOUS
<1>1. /\ minute = 0 /\ route \in Routes /\ version = 0 /\ since = 0 /\ fills = 0
      /\ claims = [v \in Claims |-> 0] /\ goneAt = [v \in 0..MaxVersion |-> NoAge]
      /\ row = [k \in Keys |-> NoBody] /\ edge = [k \in Keys |-> NoBody]
      /\ reader = [r \in Readers |-> NewReader]
  BY DEF ReadsInit
<1>2. WorldOK
  BY <1>1, ReadsConstants DEF WorldOK
<1>3. ClaimsOK
  BY <1>1 DEF ClaimsOK
<1>4. NoBody \in BodyType /\ Kept(NoBody)
  BY <1>2, NoBodyKept
<1> HIDE DEF NoBody
<1>5. BodiesOK
  BY <1>1, <1>4 DEF BodiesOK
<1>6. [i \in DOMAIN Pool |-> NoBody] \in [DOMAIN Pool -> BodyType]
  BY <1>4
<1>7. /\ NewReader \in ReaderType /\ NewReader.stage = "idle" /\ NewReader.proved = "no"
      /\ NewReader.found = NoBody /\ NewReader.copying = <<>> /\ NewReader.began = 0
      /\ NewReader.edges = [i \in DOMAIN Pool |-> NoBody]
      /\ NewReader.rows = [i \in DOMAIN Pool |-> NoBody]
  BY <1>4, <1>6, ReadsConstants DEF NewReader, ReaderType, ReaderStages
<1> HIDE DEF NewReader
<1>8. BodiesKept(NewReader)
  BY <1>4, <1>7 DEF BodiesKept
<1>9. Young(NewReader) /\ ClaimStands(NewReader)
  BY <1>1, <1>7 DEF Young, ClaimStands
<1>10. ReaderOK(NewReader)
  BY <1>7, <1>8, <1>9 DEF ReaderOK
<1> QED
  BY <1>1, <1>2, <1>3, <1>5, <1>7, <1>10 DEF ReadsInv

LEMMA ReadsStep == ReadsInv /\ [ReadsNext]_readVars => ReadsInv'
<1> SUFFICES ASSUME ReadsInv, [ReadsNext]_readVars PROVE ReadsInv'
  OBVIOUS
<1>1. ASSUME NEW r \in Readers, Read(r) PROVE ReadsInv'
  <2>1. CASE \E age \in MaxAges[route], claim \in Claimed[route] : BeginRead(r, age, claim)
    BY <2>1, BeginReadKeeps
  <2>2. CASE VerifyClaim(r) \/ ClaimUnknown(r) \/ AskForClaim(r)
    BY <2>2, VerifyClaimKeeps, ClaimUnknownKeeps, AskForClaimKeeps
  <2>3. CASE RecordClaim(r) \/ ClaimFails(r)
    BY <2>3, RecordClaimKeeps, ClaimFailsKeeps
  <2>4. CASE ReadSharedEdge(r) \/ ReadSharedRow(r)
    BY <2>4, SharedKeeps
  <2>5. CASE Probe(r) \/ ProbeRest(r) \/ Batch(r)
    BY <2>5, ProbesKeep
  <2>6. CASE VisitEdge(r) \/ VisitRow(r) \/ NoneLeft(r)
    BY <2>6, VisitsKeep
  <2>7. CASE ReadJustExpired(r) \/ ReadOutdated(r)
    BY <2>7, OldKeep
  <2>8. CASE CheckAvailable(r) \/ Unavailable(r)
    BY <2>8, CheckAvailableKeeps, UnavailableKeeps
  <2>9. CASE \E i \in 0..Len(Pool) : Fetch(r, i)
    BY <2>9, FetchKeeps
  <2>10. CASE FetchFails(r)
    BY <2>10, FetchFailsKeeps
  <2>11. CASE WriteRow(r) \/ RowUnknown(r)
    BY <2>11, WritesKeep
  <2>12. CASE WriteEdge(r) \/ CopyToEdge(r)
    BY <2>12, CopiesKeep
  <2> QED
    BY <1>1, <2>1, <2>2, <2>3, <2>4, <2>5, <2>6, <2>7, <2>8, <2>9, <2>10, <2>11, <2>12
    DEF Read
<1>2. CASE \E k \in Keys : PruneRow(k)
  BY <1>2, PruneKeeps
<1>3. CASE Change
  BY <1>3, ChangeKeeps
<1>4. CASE \E d \in Jumps : Pass(d)
  BY <1>4, PassKeeps
<1>5. CASE UNCHANGED readVars
  BY <1>5, NothingKeeps
<1> QED
  BY <1>1, <1>2, <1>3, <1>4, <1>5 DEF ReadsNext

LEMMA ReadsAlways == ReadsSpec => []ReadsInv
<1>1. ReadsInit => ReadsInv
  BY ReadsStart
<1>2. ReadsInv /\ [ReadsNext]_readVars => ReadsInv'
  BY ReadsStep
<1> QED
  BY <1>1, <1>2, PTL DEF ReadsSpec

\* Readers are where their code can be, time, versions and fills are counted
\* within their bounds, and no body is of a fill that has not begun.
THEOREM ReadsTypeCorrect == ReadsSpec => []ReadsTypeOK
<1>1. ReadsInv => ReadsTypeOK
  <2> SUFFICES ASSUME ReadsInv PROVE ReadsTypeOK
    OBVIOUS
  <2>1. minute \in 0..Horizon /\ route \in Route /\ version \in 0..MaxVersion
    BY ReadsConstants DEF ReadsInv, WorldOK
  <2>2. ASSUME NEW r \in Readers
        PROVE  /\ reader[r].stage \in ReaderStages
               /\ reader[r].proved \in {"no", "cached", "live"}
               /\ reader[r].found.fill <= fills
    BY OneReader DEF ReaderType, ReaderOK, BodiesKept, Kept
  <2>3. ASSUME NEW k \in Keys PROVE row[k].fill <= fills /\ edge[k].fill <= fills
    BY DEF ReadsInv, BodiesOK, Kept
  <2> QED
    BY <2>1, <2>2, <2>3 DEF ReadsTypeOK
<1> QED
  BY <1>1, ReadsAlways, PTL

\* Whatever copies are made of a body, by any number of readers and as late as
\* they like, what is served from the cache had been fetched no longer ago than
\* the route allows and its caller asked (readRelayCache, writeGitHubCache,
\* readStaleGitHubCache).
THEOREM AnswersStayYoung == ReadsSpec => []AnswersAreYoung
<1>1. ReadsInv => AnswersAreYoung
  <2> SUFFICES ASSUME ReadsInv, NEW r \in Readers, Answered(r)
      PROVE  LET q == reader[r]
                 longest == Promised(q.found)
                 age == q.chosen - q.found.seen IN
             /\ q.how = "hit" => age < longest
             /\ q.how = "swr" => age < longest + SwrWindow
             /\ q.how = "stale" => age < longest + StaleMinutes(longest)
             /\ MaxAge(q) = NoAge \/ age <= MaxAge(q)
    BY Zenon DEF AnswersAreYoung
  <2>1. PICK q : q = reader[r]
    OBVIOUS
  <2>2. ReaderOK(q) /\ q \in ReaderType /\ WorldOK /\ q.stage = "served"
    BY <2>1, OneReader DEF Answered
  <2>3. PICK b \in BodyType : b = q.found
    BY <2>2 DEF ReaderType
  <2>4. PICK longest \in Nat, window \in Nat :
          longest = Promised(b) /\ window = StaleMinutes(longest)
    BY <2>2, PromisedIs DEF WorldOK
  <2>5. PICK seen \in Nat, at \in Nat, until \in Nat, stale \in Nat, chosen \in Nat :
          /\ seen = b.seen /\ at = b.at /\ until = b.until /\ stale = b.stale
          /\ chosen = q.chosen
    BY <2>2 DEF BodyType, ReaderType
  <2>6. /\ until > 0 \/ stale > 0 => at = seen
        /\ until <= seen + longest /\ stale <= seen + longest + window
    BY <2>2, <2>3, <2>4, <2>5 DEF ReaderOK, BodiesKept, Kept
  <2>7. q.age \in Nat /\ NoAge \in Nat /\ q.how \in {"hit", "swr", "stale"}
    BY <2>2, ReadsConstants DEF ReaderType
  <2>8. MaxAge(q) = NoAge \/ MaxAge(q) = q.age
    BY DEF MaxAge
  <2>9. CASE q.how = "hit"
    <3>1. chosen < until /\ (MaxAge(q) = NoAge \/ chosen <= at + MaxAge(q))
      BY <2>2, <2>3, <2>5, <2>9 DEF ReaderOK, Young
    <3>2. chosen - seen < longest
      BY <2>6, <3>1
    <3>3. MaxAge(q) = NoAge \/ chosen - seen <= MaxAge(q)
      BY <2>6, <2>7, <2>8, <3>1
    <3> QED
      BY <2>1, <2>3, <2>4, <2>5, <2>9, <3>2, <3>3
  <2>10. CASE q.how = "swr"
    <3>1. q.age = NoAge /\ stale > 0 /\ chosen < until + SwrWindow
      BY <2>2, <2>3, <2>5, <2>10 DEF ReaderOK, Young
    <3>2. chosen - seen < longest + SwrWindow
      BY <2>6, <3>1 DEF SwrWindow
    <3> QED
      BY <2>1, <2>3, <2>4, <2>5, <2>8, <2>10, <3>1, <3>2
  <2>11. CASE q.how = "stale"
    <3>1. chosen < stale /\ (q.age = NoAge \/ chosen <= at + q.age)
      BY <2>2, <2>3, <2>5, <2>11 DEF ReaderOK, Young
    <3>2. chosen - seen < longest + window
      BY <2>6, <3>1
    <3>3. MaxAge(q) = NoAge \/ chosen - seen <= MaxAge(q)
      BY <2>6, <2>7, <2>8, <3>1
    <3> QED
      BY <2>1, <2>3, <2>4, <2>5, <2>11, <3>2, <3>3
  <2> QED
    BY <2>7, <2>9, <2>10, <2>11
<1> QED
  BY <1>1, ReadsAlways, PTL

\* A proof of a pull request's state is good for ClaimTtl minutes: who names a
\* state that is over is answered from its bodies no longer than that after it
\* ended, and after the question that a verification may have taken
\* (verifyPRStateHint).
THEOREM ClaimsDoExpire == ReadsSpec => []ClaimsExpire
<1>1. ReadsInv => ClaimsExpire
  <2> SUFFICES ASSUME ReadsInv, NEW r \in Readers, reader[r].proved # "no"
      PROVE  /\ reader[r].claim <= version
             /\ reader[r].began < goneAt[reader[r].claim] + CallLimit + ClaimTtl
    BY DEF ClaimsExpire
  <2> QED
    BY OneReader DEF ReaderOK, ClaimStands
<1> QED
  BY <1>1, ReadsAlways, PTL

--------------------------------------------------------------------------------
(***************************************************************************)
(* Logs of finished jobs.  An object, in R2 or in the hands of a request,  *)
(* is dated within the limits of a call to GitHub and of a proof from when *)
(* GitHub had the log, which was before it was deleted.  A request gets as *)
(* far as a put only if it has found the job over, by an object that was   *)
(* there or by a proof, and one with a proof to settle is counted.         *)
(***************************************************************************)

ObjectType == [there : BOOLEAN, whole : BOOLEAN, lossless : BOOLEAN, seen : Nat, at : Nat]

AskerType ==
    [stage : LogStages, age : Nat, body : ObjectType, deferred : BOOLEAN, due : Nat, at : Nat]

ObjectOK(b, now, until) ==
    /\ b \in ObjectType
    /\ b.seen <= now /\ b.seen <= until /\ b.at <= now
    /\ b.at <= b.seen + AskLimit + ProofLimit

HitOK(a, now, until) ==
    /\ a.at <= now /\ LogRevalidate > 0
    /\ a.at < until + AskLimit + ProofLimit + LogRevalidate
    /\ a.age = NoLimit \/ (a.age > 0 /\ a.at <= until + AskLimit + ProofLimit + a.age)

Proving(a) ==
    a.stage \in {"row", "page", "api"} \/ (a.stage = "putting" /\ a.deferred)

AskerOK(a, now, until, over) ==
    /\ a \in AskerType /\ ObjectOK(a.body, now, until)
    /\ a.stage \in {"look", "check", "probe", "remove", "renew"} => ~a.deferred
    /\ a.stage = "expired" => a.deferred
    /\ a.stage \in {"check", "probe", "remove", "renew", "putting"} => over
    /\ a.stage \in {"download", "downloaded"} /\ ~a.deferred => over
    /\ a.stage \in {"renew", "downloaded"} => now <= a.due /\ a.due <= a.body.seen + AskLimit
    /\ a.stage \in {"row", "page", "api"} =>
          a.deferred /\ a.due <= a.body.seen + AskLimit + ProofLimit
    /\ a.stage = "hit" => HitOK(a, now, until)

ProvingAskers == {q \in Askers : Proving(asker[q])}

LogsInv ==
    /\ hour \in 0..LastHour /\ deleted \in 0..NotDeleted
    /\ completed \in BOOLEAN /\ jobRow \in BOOLEAN
    /\ jobRow => completed
    /\ ObjectOK(object, hour, deleted) /\ (object.there => completed)
    /\ asker \in [Askers -> AskerType]
    /\ \A q \in Askers : AskerOK(asker[q], hour, deleted, completed)
    /\ IsFiniteSet(ProvingAskers)
    /\ proofs = Cardinality(ProvingAskers) /\ proofs <= MaxProofs

LEMMA LogsKnow ==
    ASSUME LogsInv
    PROVE  /\ hour \in Nat /\ deleted \in Nat /\ proofs \in Nat
           /\ completed \in BOOLEAN
           /\ HasLog => hour <= deleted
           /\ AskLimit \in Nat /\ ProofLimit \in Nat /\ LogRevalidate \in Nat
           /\ NoLimit \in Nat /\ MaxProofs \in Nat
           /\ ObjectOK(object, hour, deleted)
           /\ \A q \in Askers : /\ asker[q] \in AskerType
                                /\ ObjectOK(asker[q].body, hour, deleted)
                                /\ AskerOK(asker[q], hour, deleted, completed)
  <1>1. /\ hour \in Nat /\ deleted \in Nat /\ proofs \in Nat /\ NoLimit \in Nat
        /\ HasLog => hour <= deleted
    BY LogsAssumption, FS_CardinalityType DEF LogsInv, NotDeleted, NoLimit, HasLog
  <1> QED BY <1>1, LogsAssumption DEF LogsInv, AskerOK

LEMMA LogsInvGivesProperties ==
    ASSUME LogsInv
    PROVE  LogsTypeOK /\ OnlyProvenLogsEnter /\ DeletedLogsStopBeingServed
  <1> DEFINE S == {q \in Askers : asker[q].stage \in {"row", "page", "api"} \/
                                 (asker[q].stage = "putting" /\ asker[q].deferred)}
  <1>1. ProvingAskers = S
    <2>1. \A q \in Askers : q \in ProvingAskers <=> q \in S
      BY DEF ProvingAskers, Proving
    <2>2. ProvingAskers \subseteq Askers /\ S \subseteq Askers
      BY DEF ProvingAskers
    <2> QED BY <2>1, <2>2
  <1>2. \A q \in Askers : asker[q].stage \in LogStages
    BY LogsKnow DEF AskerType
  <1>3. proofs = Cardinality(S)
    BY <1>1 DEF LogsInv
  <1>4. LogsTypeOK
    BY <1>2, <1>3 DEF LogsInv, LogsTypeOK
  <1>5. DeletedLogsStopBeingServed
    BY LogsKnow DEF DeletedLogsStopBeingServed, AskerOK, HitOK
  <1> QED BY <1>4, <1>5 DEF LogsInv, OnlyProvenLogsEnter

LEMMA NoObjectIsSound ==
    /\ NoObject \in ObjectType
    /\ ~NoObject.there /\ NoObject.seen = 0 /\ NoObject.at = 0
  <1> DEFINE b == Object(FALSE, FALSE, 0, 0)
  <1>1. b \in ObjectType /\ b.seen = 0 /\ b.at = 0
    BY DEF Object, ObjectType
  <1> HIDE DEF b
  <1>2. NoObject = [b EXCEPT !.there = FALSE]
    BY DEF NoObject, b
  <1> QED BY <1>1, <1>2 DEF ObjectType

LEMMA InitGivesLogs == LogsInit => LogsInv
  <1> SUFFICES ASSUME LogsInit PROVE LogsInv
    OBVIOUS
  <1>1. hour = 0 /\ hour \in 0..LastHour /\ deleted \in 0..NotDeleted /\ deleted \in Nat
        /\ NoLimit \in Nat /\ AskLimit \in Nat /\ ProofLimit \in Nat
    BY LogsAssumption DEF LogsInit, NotDeleted, NoLimit
  <1>2. NoObject \in ObjectType /\ ~NoObject.there /\ NoObject.seen = 0 /\ NoObject.at = 0
    BY NoObjectIsSound DEF ObjectOK
  <1>3. ObjectOK(NoObject, hour, deleted) /\ ~NoObject.there
    BY <1>1, <1>2 DEF ObjectOK
  <1>4. ASSUME NEW lossless \in BOOLEAN
        PROVE  ObjectOK(Object(TRUE, lossless, 0, 0), hour, deleted)
    BY <1>1 DEF ObjectOK, ObjectType, Object
  <1>5. ObjectOK(object, hour, deleted) /\ (object.there => completed)
    BY <1>3, <1>4 DEF LogsInit
  <1>6. NewAsker \in AskerType
    BY <1>1, <1>3 DEF NewAsker, AskerType, LogStages, ObjectOK
  <1>7. AskerOK(NewAsker, hour, deleted, completed)
    BY <1>3, <1>6 DEF AskerOK, NewAsker
  <1>8. asker = [q \in Askers |-> NewAsker]
    BY DEF LogsInit
  <1>9. ProvingAskers = {}
    BY <1>8 DEF ProvingAskers, Proving, NewAsker
  <1>10. IsFiniteSet(ProvingAskers) /\ proofs = Cardinality(ProvingAskers) /\ proofs <= MaxProofs
    BY <1>9, FS_EmptySet, LogsAssumption DEF LogsInit
  <1>11. /\ asker \in [Askers -> AskerType]
         /\ \A q \in Askers : AskerOK(asker[q], hour, deleted, completed)
    BY <1>6, <1>7, <1>8
  <1>12. completed \in BOOLEAN /\ jobRow = FALSE
    BY DEF LogsInit
  <1> QED BY <1>1, <1>5, <1>10, <1>11, <1>12 DEF LogsInv

\* A request moves, with its place among the proofs.
LEMMA AskerMoves ==
    ASSUME LogsInv, NEW q \in Askers, NEW a, Turns(q, a),
           UNCHANGED <<hour, completed, deleted, jobRow>>,
           ObjectOK(object', hour, deleted), object'.there => completed,
           AskerOK(a, hour, deleted, completed),
           \/ Proving(a) = Proving(asker[q]) /\ UNCHANGED proofs
           \/ ~Proving(asker[q]) /\ Proving(a) /\ proofs < MaxProofs /\ proofs' = proofs + 1
           \/ Proving(asker[q]) /\ ~Proving(a) /\ proofs' = proofs - 1
    PROVE  LogsInv'
  <1> DEFINE P == ProvingAskers
  <1>1. a \in AskerType /\ asker \in [Askers -> AskerType]
    BY DEF AskerOK, LogsInv
  <1>2. /\ asker' \in [Askers -> AskerType] /\ asker'[q] = a
        /\ \A o \in Askers : o # q => asker'[o] = asker[o]
    BY <1>1 DEF Turns
  <1>3. \A o \in Askers : AskerOK(asker'[o], hour, deleted, completed)
    BY <1>2 DEF LogsInv
  <1>4. IsFiniteSet(P) /\ proofs = Cardinality(P) /\ proofs <= MaxProofs
        /\ proofs \in Nat /\ MaxProofs \in Nat
    BY LogsKnow DEF LogsInv
  <1>5. (q \in P <=> Proving(asker[q])) /\ (q \in P' <=> Proving(a))
        /\ \A o : o # q => (o \in P' <=> o \in P)
    BY <1>2 DEF ProvingAskers
  <1>6. IsFiniteSet(P') /\ proofs' = Cardinality(P') /\ proofs' <= MaxProofs
    <2> HIDE DEF P
    <2>1. CASE Proving(a) = Proving(asker[q]) /\ UNCHANGED proofs
      <3>1. P' = P
        BY <1>5, <2>1
      <3> QED BY <1>4, <2>1, <3>1
    <2>2. CASE ~Proving(asker[q]) /\ Proving(a) /\ proofs < MaxProofs /\ proofs' = proofs + 1
      <3>1. P' = P \cup {q} /\ q \notin P
        BY <1>5, <2>2
      <3> QED BY <1>4, <2>2, <3>1, FS_AddElement
    <2>3. CASE Proving(asker[q]) /\ ~Proving(a) /\ proofs' = proofs - 1
      <3>1. P' = P \ {q} /\ q \in P
        BY <1>5, <2>3
      <3>2. IsFiniteSet(P') /\ Cardinality(P') = Cardinality(P) - 1
        BY <1>4, <3>1, FS_RemoveElement
      <3> QED BY <1>4, <2>3, <3>2
    <2> QED BY <2>1, <2>2, <2>3
  <1> QED BY <1>2, <1>3, <1>6 DEF LogsInv

\* A request goes on to a stage that only asks whether the job is over,
LEMMA LogStageFits ==
    ASSUME NEW now, NEW until, NEW over, NEW a, AskerOK(a, now, until, over),
           NEW s \in {"download", "expired", "probe", "page", "api"},
           s = "probe" => over /\ ~a.deferred,
           s = "expired" => a.deferred,
           s = "download" => (~a.deferred => over),
           s \in {"page", "api"} => a.stage \in {"row", "page", "api"}
    PROVE  /\ AskerOK([a EXCEPT !.stage = s], now, until, over)
           /\ Proving([a EXCEPT !.stage = s]) <=> s \in {"page", "api"}
  <1> DEFINE r == [a EXCEPT !.stage = s]
  <1>1. a \in AskerType /\ s \in LogStages
    BY DEF AskerOK, LogStages
  <1>2. r \in AskerType
    BY <1>1 DEF AskerType
  <1>3. r.stage = s /\ r.body = a.body /\ r.deferred = a.deferred /\ r.due = a.due
    BY <1>1 DEF AskerType
  <1> HIDE DEF r
  <1>4. AskerOK(r, now, until, over)
    BY <1>2, <1>3 DEF AskerOK
  <1>5. Proving(r) <=> s \in {"page", "api"}
    BY <1>3 DEF Proving
  <1> QED BY <1>4, <1>5 DEF r

\* has to download the log and then to prove the job over,
LEMMA MissedFits ==
    ASSUME NEW now, NEW until, NEW over, NEW a, AskerOK(a, now, until, over),
           NEW s \in {"download", "expired"},
           NEW r, r = [a EXCEPT !.stage = s, !.deferred = TRUE]
    PROVE  AskerOK(r, now, until, over) /\ ~Proving(r)
  <1>1. a \in AskerType /\ s \in LogStages
    BY DEF AskerOK, LogStages
  <1>2. r \in AskerType
    BY <1>1 DEF AskerType
  <1>3. r.stage = s /\ r.body = a.body /\ r.deferred = TRUE
    BY <1>1 DEF AskerType
  <1> QED BY <1>2, <1>3 DEF AskerOK, Proving

\* is over,
LEMMA DoneFits ==
    ASSUME LogsInv, NEW a \in AskerType, NEW s \in {"answered", "failed"}
    PROVE  /\ AskerOK(Done(a, s), hour, deleted, completed)
           /\ ~Proving(Done(a, s))
  <1> DEFINE r == Done(a, s)
  <1>1. NewAsker \in AskerType /\ NewAsker.body = NoObject
    BY LogsKnow, NoObjectIsSound DEF NewAsker, AskerType, LogStages
  <1>2. a.age \in Nat /\ s \in LogStages
    BY DEF AskerType, LogStages
  <1>3. r \in AskerType
    BY <1>1, <1>2 DEF Done, AskerType
  <1>4. r.stage = s /\ r.body = NoObject
    BY <1>1 DEF Done, AskerType
  <1> HIDE DEF r
  <1>5. ObjectOK(NoObject, hour, deleted)
    BY LogsKnow, NoObjectIsSound DEF ObjectOK
  <1>6. AskerOK(r, hour, deleted, completed) /\ ~Proving(r)
    BY <1>3, <1>4, <1>5 DEF AskerOK, Proving
  <1> QED BY <1>6 DEF r

\* or puts a log that GitHub had not long ago, of a job that is over.
LEMMA StartsPutFits ==
    ASSUME LogsInv, NEW a \in AskerType, ObjectOK(a.body, hour, deleted), completed,
           hour <= a.body.seen + AskLimit + ProofLimit
    PROVE  /\ AskerOK(StartsPut(a), hour, deleted, completed)
           /\ Proving(StartsPut(a)) <=> a.deferred
  <1> DEFINE b == [a.body EXCEPT !.at = hour]
             r == StartsPut(a)
  <1>1. hour \in Nat /\ a.body \in ObjectType /\ a.deferred \in BOOLEAN
    BY LogsKnow DEF AskerType
  <1>2. b \in ObjectType /\ b.at = hour /\ b.seen = a.body.seen
    BY <1>1 DEF ObjectType
  <1>3. r = [a EXCEPT !.stage = "putting", !.due = 0, !.body = b]
    BY DEF StartsPut
  <1> HIDE DEF b, r
  <1>4. ObjectOK(b, hour, deleted)
    BY <1>1, <1>2, LogsKnow DEF ObjectOK
  <1>5. r \in AskerType
    BY <1>2, <1>3 DEF AskerType, LogStages
  <1>6. r.stage = "putting" /\ r.body = b /\ r.deferred = a.deferred
    BY <1>3 DEF AskerType
  <1>7. AskerOK(r, hour, deleted, completed)
    BY <1>4, <1>5, <1>6 DEF AskerOK
  <1>8. Proving(r) <=> a.deferred
    BY <1>1, <1>6 DEF Proving
  <1> QED BY <1>7, <1>8 DEF r

--------------------------------------------------------------------------------
(* Reading an object, and revalidating it.                                 *)

\* A request that does not prove anything moves alone.
LEMMA AloneKeeps ==
    ASSUME LogsInv, NEW q \in Askers, NEW a, Turns(q, a),
           UNCHANGED <<hour, completed, deleted, jobRow, proofs>>,
           object' \in {object, NoObject},
           AskerOK(a, hour, deleted, completed), ~Proving(a), ~Proving(asker[q])
    PROVE  LogsInv'
  <1>1. ObjectOK(NoObject, hour, deleted) /\ ~NoObject.there
    BY LogsKnow, NoObjectIsSound DEF ObjectOK
  <1>2. ObjectOK(object', hour, deleted) /\ (object'.there => completed)
    BY <1>1 DEF LogsInv
  <1>3. Proving(a) = Proving(asker[q])
    BY DEF Proving
  <1> QED BY <1>2, <1>3, AskerMoves

LEMMA AskStep ==
    ASSUME LogsInv, NEW q \in Askers, NEW age \in Ages, Ask(q, age)
    PROVE  LogsInv'
  <1> DEFINE a == [NewAsker EXCEPT !.stage = "look", !.age = age]
  <1>1. NewAsker \in AskerType /\ NewAsker.body = NoObject
    BY LogsKnow, NoObjectIsSound DEF NewAsker, AskerType, LogStages
  <1>2. age \in Nat /\ ObjectOK(NoObject, hour, deleted)
    BY LogsKnow, LogsAssumption, NoObjectIsSound DEF ObjectOK
  <1>3. a \in AskerType /\ a.stage = "look" /\ a.body = NoObject /\ ~a.deferred
    <2>1. ~NewAsker.deferred
      BY DEF NewAsker
    <2> QED BY <1>1, <1>2, <2>1 DEF AskerType, LogStages
  <1> HIDE DEF a
  <1>4. AskerOK(a, hour, deleted, completed) /\ ~Proving(a)
    BY <1>2, <1>3 DEF AskerOK, Proving
  <1>5. ~Proving(asker[q]) /\ Alone(q, a)
    BY DEF Ask, Proving, a
  <1> QED BY <1>4, <1>5, AloneKeeps DEF Alone

LEMMA ReadLogStep ==
    ASSUME LogsInv, NEW q \in Askers, ReadLog(q)
    PROVE  LogsInv'
  <1> DEFINE a == asker[q]
  <1>1. /\ a \in AskerType /\ AskerOK(a, hour, deleted, completed) /\ ~Proving(a)
        /\ ~a.deferred
    BY LogsKnow DEF ReadLog, Proving, AskerOK
  <1>2. PICK r :
            /\ Alone(q, r)
            /\ \/ r = [a EXCEPT !.stage = "download", !.deferred = TRUE]
               \/ r = [[a EXCEPT !.stage = "download", !.deferred = TRUE]
                           EXCEPT !.stage = "expired"]
               \/ object.there /\ r = [a EXCEPT !.stage = "check", !.body = object]
    BY DEF ReadLog
  <1> HIDE DEF a
  <1>3. AskerOK(r, hour, deleted, completed) /\ ~Proving(r)
    <2>1. CASE r = [a EXCEPT !.stage = "download", !.deferred = TRUE]
      BY <1>1, <2>1, MissedFits
    <2>2. CASE r = [[a EXCEPT !.stage = "download", !.deferred = TRUE]
                       EXCEPT !.stage = "expired"]
      <3> DEFINE m == [a EXCEPT !.stage = "download", !.deferred = TRUE]
      <3>1. AskerOK(m, hour, deleted, completed) /\ m.deferred
        BY <1>1, MissedFits DEF AskerType
      <3> HIDE DEF m
      <3>2. r = [m EXCEPT !.stage = "expired"]
        BY <2>2 DEF m
      <3> QED BY <3>1, <3>2, LogStageFits
    <2>3. CASE object.there /\ r = [a EXCEPT !.stage = "check", !.body = object]
      <3>1. ObjectOK(object, hour, deleted) /\ object \in ObjectType /\ completed
        BY <2>3 DEF LogsInv, ObjectOK
      <3>2. r \in AskerType /\ r.stage = "check" /\ r.body = object /\ ~r.deferred
        BY <1>1, <2>3, <3>1 DEF AskerType, LogStages
      <3> QED BY <3>1, <3>2 DEF AskerOK, Proving
    <2> QED BY <1>2, <2>1, <2>2, <2>3
  <1> QED BY <1>1, <1>2, <1>3, AloneKeeps DEF Alone, a

\* A request whose R2, page or GitHub fails is over, or downloads the log.
LEMMA FailureStep ==
    ASSUME LogsInv, NEW q \in Askers,
           ReadFails(q) \/ DeleteExpired(q) \/ ProbeUnknown(q) \/ RemoveDeleted(q)
           \/ DownloadFails(q)
    PROVE  LogsInv'
  <1> DEFINE a == asker[q]
  <1>1. /\ a \in AskerType /\ AskerOK(a, hour, deleted, completed)
        /\ UNCHANGED <<hour, completed, deleted, jobRow, proofs>>
        /\ object' \in {object, NoObject}
        /\ a.stage \in {"look", "check", "expired", "probe", "remove", "download"}
    BY LogsKnow DEF ReadFails, DeleteExpired, ProbeUnknown, RemoveDeleted, DownloadFails
  <1>2. ~Proving(a)
    BY <1>1 DEF Proving
  <1>3. PICK r :
            /\ Turns(q, r)
            /\ \/ r = Done(a, "failed") \/ r = Done(a, "answered")
               \/ r = [a EXCEPT !.stage = "download", !.deferred = TRUE]
               \/ r = [a EXCEPT !.stage = "download"] /\ a.stage \in {"expired", "probe"}
    BY DEF ReadFails, DeleteExpired, ProbeUnknown, RemoveDeleted, DownloadFails
  <1> HIDE DEF a
  <1>4. AskerOK(r, hour, deleted, completed) /\ ~Proving(r)
    <2>1. CASE r = Done(a, "failed") \/ r = Done(a, "answered")
      BY <1>1, <2>1, DoneFits
    <2>2. CASE r = [a EXCEPT !.stage = "download", !.deferred = TRUE]
      BY <1>1, <2>2, MissedFits
    <2>3. CASE r = [a EXCEPT !.stage = "download"] /\ a.stage \in {"expired", "probe"}
      <3>1. ~a.deferred => completed
        BY <1>1, <2>3 DEF AskerOK
      <3>2. /\ AskerOK([a EXCEPT !.stage = "download"], hour, deleted, completed)
            /\ ~Proving([a EXCEPT !.stage = "download"])
        <4>1. CASE completed
          BY <1>1, <4>1, LogStageFits
        <4>2. CASE ~completed
          <5>1. a.deferred
            BY <3>1, <4>2
          <5> QED BY <1>1, <5>1, LogStageFits
        <4> QED BY <4>1, <4>2
      <3> QED BY <2>3, <3>2
    <2> QED BY <1>3, <2>1, <2>2, <2>3
  <1> QED BY <1>1, <1>2, <1>3, <1>4, AloneKeeps DEF a

LEMMA CheckAgeStep ==
    ASSUME LogsInv, NEW q \in Askers, CheckAge(q)
    PROVE  LogsInv'
  <1> DEFINE a == asker[q]
  <1>1. /\ a \in AskerType /\ AskerOK(a, hour, deleted, completed) /\ a.stage = "check"
        /\ ObjectOK(a.body, hour, deleted) /\ a.body \in ObjectType
        /\ hour \in Nat /\ completed /\ ~a.deferred
    BY LogsKnow DEF CheckAge, AskerOK, ObjectOK
  <1>2. CASE NeedsRevalidation(a)
    <2>1. Alone(q, [a EXCEPT !.stage = "probe"])
      BY <1>2 DEF CheckAge
    <2>2. AskerOK([a EXCEPT !.stage = "probe"], hour, deleted, completed)
          /\ ~Proving([a EXCEPT !.stage = "probe"])
      BY <1>1, LogStageFits
    <2> QED BY <1>1, <2>1, <2>2, AloneKeeps DEF Alone, Proving
  <1>3. CASE ~NeedsRevalidation(a)
    <2> DEFINE d == [NewAsker EXCEPT !.stage = "hit", !.age = a.age]
               r == [d EXCEPT !.at = hour]
    <2>1. Alone(q, r)
      BY <1>3 DEF CheckAge, Done
    <2>2. /\ NewAsker \in AskerType /\ NewAsker.body = NoObject /\ a.age \in Nat
          /\ ObjectOK(NoObject, hour, deleted)
      BY <1>1, LogsKnow, NoObjectIsSound DEF NewAsker, AskerType, LogStages, ObjectOK
    <2>3. d \in AskerType /\ d.stage = "hit" /\ d.age = a.age /\ d.body = NoObject
      BY <2>2 DEF AskerType, LogStages
    <2> HIDE DEF d
    <2>4. /\ r \in AskerType /\ r.stage = "hit" /\ r.age = a.age /\ r.body = NoObject
          /\ r.at = hour
      BY <1>1, <2>3 DEF AskerType
    <2> HIDE DEF r
    <2>5. /\ a.body.at \in Nat /\ a.body.seen \in Nat
          /\ hour < a.body.at + LogRevalidate /\ a.age # 0
          /\ a.age = NoLimit \/ hour <= a.body.at + a.age
      <3>1. a.body.at \in Nat /\ a.body.seen \in Nat
        BY <1>1 DEF ObjectType
      <3> QED BY <1>1, <1>3, <2>2, <3>1, LogsKnow DEF NeedsRevalidation
    <2>6. /\ a.body.at <= hour /\ a.body.at <= deleted + AskLimit + ProofLimit
      BY <1>1, <2>5, LogsKnow DEF ObjectOK
    <2> HIDE DEF a
    <2>7. HitOK(r, hour, deleted)
      BY <1>1, <2>2, <2>4, <2>5, <2>6, LogsKnow DEF HitOK
    <2>8. AskerOK(r, hour, deleted, completed) /\ ~Proving(r)
      BY <2>2, <2>4, <2>7 DEF AskerOK, Proving
    <2> QED BY <1>1, <2>1, <2>8, AloneKeeps DEF Alone, Proving, a
  <1> QED BY <1>2, <1>3

\* GitHub is asked, whether it has the log or for the log.
LEMMA AnswerStep ==
    ASSUME LogsInv, NEW q \in Askers, Probe404(q) \/ ProbeExists(q) \/ Download(q)
    PROVE  LogsInv'
  <1> DEFINE a == asker[q]
  <1>1. /\ a \in AskerType /\ AskerOK(a, hour, deleted, completed)
        /\ ObjectOK(a.body, hour, deleted) /\ a.body \in ObjectType
        /\ a.stage \in {"probe", "download"}
        /\ hour \in Nat /\ hour + AskLimit \in Nat /\ AskLimit \in Nat /\ ProofLimit \in Nat
        /\ completed \in BOOLEAN
    BY LogsKnow DEF Probe404, ProbeExists, Download, ObjectOK
  <1>2. PICK r :
            /\ Alone(q, r)
            /\ \/ /\ a.stage = "probe"
                  /\ r = [a EXCEPT !.stage = "remove", !.due = hour + AskLimit]
               \/ /\ a.stage = "probe" /\ HasLog
                  /\ r = [a EXCEPT !.stage = "renew", !.due = hour + AskLimit,
                                   !.body.seen = hour]
               \/ /\ a.stage = "download" /\ HasLog
                  /\ r = [a EXCEPT !.stage = "downloaded", !.due = hour + AskLimit,
                                   !.body = Object(completed, TRUE, hour, 0)]
    BY DEF Probe404, ProbeExists, Download
  <1> HIDE DEF a
  <1>3. AskerOK(r, hour, deleted, completed) /\ ~Proving(r)
    <2>1. CASE /\ a.stage = "probe"
               /\ r = [a EXCEPT !.stage = "remove", !.due = hour + AskLimit]
      <3>1. r \in AskerType /\ r.stage = "remove" /\ r.body = a.body /\ r.deferred = a.deferred
        BY <1>1, <2>1 DEF AskerType, LogStages
      <3> QED BY <1>1, <2>1, <3>1 DEF AskerOK, Proving
    <2>2. CASE /\ a.stage = "probe" /\ HasLog
               /\ r = [a EXCEPT !.stage = "renew", !.due = hour + AskLimit,
                                !.body.seen = hour]
      <3> DEFINE b == [a.body EXCEPT !.seen = hour]
      <3>1. b \in ObjectType /\ b.seen = hour /\ b.at = a.body.at
        BY <1>1 DEF ObjectType
      <3>2. r = [a EXCEPT !.stage = "renew", !.due = hour + AskLimit, !.body = b]
        BY <2>2
      <3> HIDE DEF b
      <3>3. /\ r \in AskerType /\ r.stage = "renew" /\ r.body = b
            /\ r.due = hour + AskLimit /\ r.deferred = a.deferred
        BY <1>1, <3>1, <3>2 DEF AskerType, LogStages
      <3>4. ObjectOK(b, hour, deleted) /\ completed /\ ~a.deferred
        <4>1. a.body.at \in Nat /\ a.body.at <= hour /\ hour <= deleted
          BY <1>1, <2>2, LogsKnow DEF ObjectOK, ObjectType
        <4> QED BY <1>1, <2>2, <3>1, <4>1 DEF ObjectOK, AskerOK
      <3> QED BY <1>1, <3>1, <3>3, <3>4 DEF AskerOK, Proving
    <2>3. CASE /\ a.stage = "download" /\ HasLog
               /\ r = [a EXCEPT !.stage = "downloaded", !.due = hour + AskLimit,
                                !.body = Object(completed, TRUE, hour, 0)]
      <3> DEFINE b == Object(completed, TRUE, hour, 0)
      <3>1. b \in ObjectType /\ b.seen = hour /\ b.at = 0
        BY <1>1 DEF ObjectType, Object
      <3> HIDE DEF b
      <3>2. /\ r \in AskerType /\ r.stage = "downloaded" /\ r.body = b
            /\ r.due = hour + AskLimit /\ r.deferred = a.deferred
        BY <1>1, <2>3, <3>1 DEF AskerType, LogStages, b
      <3>3. ObjectOK(b, hour, deleted)
        BY <1>1, <2>3, <3>1, LogsKnow DEF ObjectOK
      <3>4. a.deferred \in BOOLEAN /\ (~a.deferred => completed) /\ hour <= hour + AskLimit
        BY <1>1, <2>3 DEF AskerOK, AskerType
      <3> QED BY <1>1, <3>1, <3>2, <3>3, <3>4 DEF AskerOK, Proving
    <2> QED BY <1>2, <2>1, <2>2, <2>3
  <1>4. ~Proving(asker[q])
    BY <1>1 DEF Proving, a
  <1> QED BY <1>2, <1>3, <1>4, AloneKeeps DEF Alone

\* An object is put, by whoever has proved the job over or need not.
LEMMA PutsLog ==
    ASSUME LogsInv, NEW q \in Askers, Turns(q, StartsPut(asker[q])),
           asker[q].deferred = Proving(asker[q]), completed,
           hour <= asker[q].body.seen + AskLimit + ProofLimit,
           UNCHANGED <<hour, completed, deleted, jobRow, object, proofs>>
    PROVE  LogsInv'
  <1>1. /\ AskerOK(StartsPut(asker[q]), hour, deleted, completed)
        /\ Proving(StartsPut(asker[q])) <=> asker[q].deferred
    BY LogsKnow, StartsPutFits
  <1>2. Proving(StartsPut(asker[q])) = Proving(asker[q])
    BY <1>1 DEF Proving
  <1>3. ObjectOK(object', hour, deleted) /\ (object'.there => completed)
    BY DEF LogsInv
  <1> QED BY <1>1, <1>2, <1>3, AskerMoves

LEMMA RenewStep ==
    ASSUME LogsInv, NEW q \in Askers, Renew(q)
    PROVE  LogsInv'
  <1> DEFINE a == asker[q]
  <1>1. /\ a \in AskerType /\ AskerOK(a, hour, deleted, completed)
        /\ a.body \in ObjectType /\ a.stage = "renew"
    BY LogsKnow DEF Renew, ObjectOK
  <1>2. /\ completed /\ hour <= a.due /\ a.due <= a.body.seen + AskLimit
        /\ a.due \in Nat /\ a.body.seen \in Nat /\ a.deferred \in BOOLEAN /\ ~a.deferred
    BY <1>1 DEF AskerOK, AskerType, ObjectType
  <1>3. hour <= a.body.seen + AskLimit + ProofLimit
    BY <1>2, LogsKnow
  <1>4. a.deferred = Proving(a)
    BY <1>1, <1>2 DEF Proving
  <1> QED BY <1>2, <1>3, <1>4, PutsLog DEF Renew, Alone

--------------------------------------------------------------------------------
(* The proof that the job is over.                                         *)

LEMMA DeliverStep ==
    ASSUME LogsInv, NEW q \in Askers, Deliver(q)
    PROVE  LogsInv'
  <1> DEFINE a == asker[q]
  <1>1. /\ a \in AskerType /\ AskerOK(a, hour, deleted, completed)
        /\ ObjectOK(a.body, hour, deleted) /\ a.body \in ObjectType
        /\ a.stage = "downloaded" /\ a.deferred \in BOOLEAN
        /\ ObjectOK(object', hour, deleted) /\ (object'.there => completed)
        /\ UNCHANGED <<hour, completed, deleted, jobRow, object>>
    BY LogsKnow DEF Deliver, ObjectOK, AskerType, LogsInv
  <1>2. /\ hour <= a.due /\ a.due <= a.body.seen + AskLimit
        /\ a.due \in Nat /\ a.body.seen \in Nat /\ hour \in Nat
        /\ AskLimit \in Nat /\ ProofLimit \in Nat
    BY <1>1, LogsKnow DEF AskerOK, AskerType, ObjectType
  <1>3. ~Proving(a)
    BY <1>1 DEF Proving
  <1>4. CASE ~a.deferred /\ Turns(q, StartsPut(a)) /\ UNCHANGED proofs
    <2>1. completed /\ a.deferred = Proving(a)
      BY <1>1, <1>3, <1>4 DEF AskerOK, Proving
    <2>2. hour <= a.body.seen + AskLimit + ProofLimit
      BY <1>2
    <2> QED BY <1>1, <1>4, <2>1, <2>2, PutsLog
  <1>5. CASE /\ a.deferred /\ proofs < MaxProofs /\ proofs' = proofs + 1
             /\ Turns(q, [a EXCEPT !.stage = "row", !.due = hour + ProofLimit])
    <2> DEFINE r == [a EXCEPT !.stage = "row", !.due = hour + ProofLimit]
    <2>0. hour + ProofLimit \in Nat
      BY <1>2
    <2> HIDE DEF a
    <2>1. /\ r \in AskerType /\ r.stage = "row" /\ r.due = hour + ProofLimit
          /\ r.body = a.body /\ r.deferred = a.deferred
      BY <1>1, <2>0 DEF AskerType, LogStages
    <2> HIDE DEF r
    <2>2. r.due <= r.body.seen + AskLimit + ProofLimit
      BY <1>2, <2>1
    <2>3. AskerOK(r, hour, deleted, completed) /\ Proving(r)
      BY <1>1, <1>5, <2>1, <2>2 DEF AskerOK, Proving
    <2> QED BY <1>1, <1>3, <1>5, <2>3, AskerMoves DEF a, r
  <1>6. CASE Turns(q, Done(a, "answered")) /\ UNCHANGED proofs
    <2>1. AskerOK(Done(a, "answered"), hour, deleted, completed)
          /\ Proving(Done(a, "answered")) = Proving(a)
      BY <1>1, <1>3, DoneFits DEF Proving
    <2> QED BY <1>1, <1>6, <2>1, AskerMoves
  <1> QED BY <1>4, <1>5, <1>6 DEF Deliver

LEMMA ProveStep ==
    ASSUME LogsInv, NEW q \in Askers, ProveByRow(q) \/ ProveByPage(q) \/ ProveByAPI(q)
    PROVE  LogsInv'
  <1> DEFINE a == asker[q]
  <1>1. /\ a \in AskerType /\ AskerOK(a, hour, deleted, completed)
        /\ a.body \in ObjectType
        /\ a.stage \in {"row", "page", "api"} /\ hour <= a.due
        /\ a.deferred \in BOOLEAN
        /\ UNCHANGED <<hour, completed, deleted, jobRow, object, proofs>>
        /\ ObjectOK(object', hour, deleted) /\ (object'.there => completed)
    BY LogsKnow DEF ProveByRow, ProveByPage, ProveByAPI, ObjectOK, AskerType, Alone, LogsInv
  <1>2. a.deferred = Proving(a)
    BY <1>1 DEF AskerOK, Proving
  <1>3. CASE completed /\ Turns(q, StartsPut(a))
    <2>1. /\ a.due <= a.body.seen + AskLimit + ProofLimit
          /\ a.due \in Nat /\ a.body.seen \in Nat
      BY <1>1 DEF AskerOK, AskerType, ObjectType
    <2>2. hour <= a.body.seen + AskLimit + ProofLimit
      BY <1>1, <2>1, LogsKnow
    <2> QED BY <1>1, <1>2, <1>3, <2>2, PutsLog
  <1>4. ASSUME NEW s \in {"page", "api"}, Turns(q, [a EXCEPT !.stage = s])
        PROVE  LogsInv'
    <2> DEFINE r == [a EXCEPT !.stage = s]
    <2>1. AskerOK(r, hour, deleted, completed) /\ Proving(r)
      BY <1>1, LogStageFits
    <2>2. Proving(r) = Proving(a)
      BY <1>1, <2>1 DEF Proving
    <2> QED BY <1>1, <1>4, <2>1, <2>2, AskerMoves
  <1> QED BY <1>3, <1>4 DEF ProveByRow, ProveByPage, ProveByAPI, Alone, LogsInv

LEMMA UnprovenStep ==
    ASSUME LogsInv, NEW q \in Askers, Unproven(q)
    PROVE  LogsInv'
  <1> DEFINE r == Done(asker[q], "answered")
  <1>1. Proving(asker[q]) /\ Turns(q, r) /\ proofs' = proofs - 1
        /\ UNCHANGED <<hour, completed, deleted, jobRow, object>>
    BY DEF Unproven, Proving
  <1>2. AskerOK(r, hour, deleted, completed) /\ ~Proving(r)
    BY LogsKnow, DoneFits
  <1>3. ObjectOK(object', hour, deleted) /\ (object'.there => completed)
    BY <1>1 DEF LogsInv
  <1> QED BY <1>1, <1>2, <1>3, AskerMoves

LEMMA PutSettlesStep ==
    ASSUME LogsInv, NEW q \in Askers, PutSettles(q)
    PROVE  LogsInv'
  <1> DEFINE a == asker[q]  r == Done(a, "answered")
  <1>1. /\ a \in AskerType /\ AskerOK(a, hour, deleted, completed)
        /\ ObjectOK(a.body, hour, deleted) /\ a.stage = "putting" /\ proofs \in Nat
        /\ a.deferred \in BOOLEAN
        /\ UNCHANGED <<hour, completed, deleted, jobRow>> /\ Turns(q, r)
    BY LogsKnow DEF PutSettles, AskerType
  <1>2. object' = object \/ object' = a.body
    BY DEF PutSettles, Settles
  <1>3. ObjectOK(object', hour, deleted) /\ (object'.there => completed)
    BY <1>1, <1>2 DEF LogsInv, AskerOK
  <1>4. AskerOK(r, hour, deleted, completed) /\ ~Proving(r)
    BY <1>1, DoneFits
  <1>5. CASE a.deferred
    <2>1. Proving(a) /\ proofs' = proofs - 1
      BY <1>1, <1>5 DEF Proving, PutSettles
    <2> QED BY <1>1, <1>3, <1>4, <2>1, AskerMoves
  <1>6. CASE ~a.deferred
    <2>1. Proving(r) = Proving(a) /\ proofs' = proofs
      BY <1>1, <1>4, <1>6 DEF Proving, PutSettles
    <2> QED BY <1>1, <1>3, <1>4, <2>1, AskerMoves
  <1> QED BY <1>1, <1>5, <1>6

--------------------------------------------------------------------------------
(* GitHub, D1 and time.                                                    *)

LEMMA JobMovesOn == ASSUME LogsInv, JobCompletes \/ JobIsViewed PROVE LogsInv'
  <1>1. /\ UNCHANGED <<hour, deleted, object, proofs, asker>>
        /\ completed' \in BOOLEAN /\ (completed => completed')
        /\ jobRow' \in BOOLEAN /\ (jobRow' => completed')
    BY DEF LogsInv, JobCompletes, JobIsViewed
  <1>2. \A q \in Askers : AskerOK(asker[q], hour, deleted, completed')
    BY <1>1 DEF LogsInv, AskerOK
  <1>3. ProvingAskers' = ProvingAskers
    BY <1>1 DEF ProvingAskers
  <1> QED BY <1>1, <1>2, <1>3 DEF LogsInv

LEMMA LogIsDeletedStep == ASSUME LogsInv, LogIsDeleted PROVE LogsInv'
  <1>1. /\ UNCHANGED <<hour, completed, jobRow, object, proofs, asker>>
        /\ deleted' = hour /\ deleted' \in 0..NotDeleted
    BY LogsAssumption DEF LogsInv, LogIsDeleted, NotDeleted
  <1>2. ASSUME NEW b, ObjectOK(b, hour, deleted)
        PROVE  ObjectOK(b, hour, hour)
    BY <1>2 DEF ObjectOK
  <1>3. ASSUME NEW q \in Askers
        PROVE  AskerOK(asker[q], hour, hour, completed)
    <2> DEFINE a == asker[q]
    <2>1. /\ AskerOK(a, hour, deleted, completed) /\ a \in AskerType
          /\ ObjectOK(a.body, hour, hour)
      BY <1>2, LogsKnow
    <2>2. ASSUME a.stage = "hit" PROVE HitOK(a, hour, hour)
      <3>1. /\ HitOK(a, hour, deleted) /\ a.at \in Nat /\ a.age \in Nat
        BY <2>1, <2>2 DEF AskerOK, AskerType
      <3> HIDE DEF a
      <3> QED BY <3>1, LogsKnow DEF HitOK
    <2> HIDE DEF a
    <2>3. AskerOK(a, hour, hour, completed)
      BY <2>1, <2>2 DEF AskerOK
    <2> QED BY <2>3 DEF a
  <1>4. ProvingAskers' = ProvingAskers
    BY <1>1 DEF ProvingAskers
  <1> QED BY <1>1, <1>2, <1>3, <1>4 DEF LogsInv

LEMMA HourPassesStep == ASSUME LogsInv, HourPasses PROVE LogsInv'
  <1>1. /\ UNCHANGED <<completed, deleted, jobRow, object, proofs, asker>>
        /\ hour' = hour + 1 /\ hour' \in 0..LastHour
    BY LogsAssumption DEF LogsInv, HourPasses
  <1>2. ASSUME NEW b, ObjectOK(b, hour, deleted)
        PROVE  ObjectOK(b, hour + 1, deleted)
    BY <1>2, LogsKnow DEF ObjectOK, ObjectType
  <1>3. ASSUME NEW q \in Askers
        PROVE  AskerOK(asker[q], hour + 1, deleted, completed)
    <2> DEFINE a == asker[q]
    <2>1. /\ AskerOK(a, hour, deleted, completed) /\ a \in AskerType
          /\ ObjectOK(a.body, hour + 1, deleted)
          /\ a.stage \in {"renew", "downloaded"} => hour < a.due
          /\ a.due \in Nat /\ a.at \in Nat /\ hour \in Nat
      BY <1>2, LogsKnow DEF HourPasses, AskerType
    <2> HIDE DEF a
    <2>2. a.stage = "hit" => HitOK(a, hour + 1, deleted)
      BY <2>1 DEF AskerOK, HitOK
    <2>3. a.stage \in {"renew", "downloaded"} => hour + 1 <= a.due
      BY <2>1
    <2>4. AskerOK(a, hour + 1, deleted, completed)
      BY <2>1, <2>2, <2>3 DEF AskerOK
    <2> QED BY <2>4 DEF a
  <1>4. ProvingAskers' = ProvingAskers
    BY <1>1 DEF ProvingAskers
  <1> QED BY <1>1, <1>2, <1>3, <1>4 DEF LogsInv

LEMMA StepKeepsLogs == ASSUME LogsInv, [LogsNext]_logVars PROVE LogsInv'
  <1>1. ASSUME NEW q \in Askers, NEW age \in Ages, Ask(q, age)
        PROVE  LogsInv'
    BY <1>1, AskStep
  <1>2. ASSUME NEW q \in Askers,
               \/ ReadLog(q) \/ ReadFails(q) \/ DeleteExpired(q) \/ CheckAge(q)
               \/ Probe404(q) \/ ProbeExists(q) \/ ProbeUnknown(q) \/ Renew(q)
               \/ RemoveDeleted(q) \/ Download(q) \/ DownloadFails(q)
        PROVE  LogsInv'
    BY <1>2, ReadLogStep, FailureStep, CheckAgeStep, AnswerStep, RenewStep
  <1>3. ASSUME NEW q \in Askers,
               \/ Deliver(q) \/ ProveByRow(q) \/ ProveByPage(q) \/ ProveByAPI(q)
               \/ Unproven(q) \/ PutSettles(q)
        PROVE  LogsInv'
    BY <1>3, DeliverStep, ProveStep, UnprovenStep, PutSettlesStep
  <1>4. CASE UNCHANGED logVars
    <2>1. ProvingAskers' = ProvingAskers
      BY <1>4 DEF logVars, ProvingAskers
    <2> QED BY <1>4, <2>1 DEF logVars, LogsInv
  <1> QED BY <1>1, <1>2, <1>3, <1>4, JobMovesOn, LogIsDeletedStep, HourPassesStep DEF LogsNext

LEMMA LogsInvariant == LogsSpec => []LogsInv
  <1>1. LogsInv /\ [LogsNext]_logVars => LogsInv'
    BY StepKeepsLogs
  <1> QED BY InitGivesLogs, <1>1, PTL DEF LogsSpec

\* deferredTerminalLogProofs counts exactly the proofs and puts that have not
\* settled, and is never above its maximum.
THEOREM LogsTypeCorrect == LogsSpec => []LogsTypeOK
  BY LogsInvariant, LogsInvGivesProperties, PTL

\* A log that GitHub has dropped is served from R2 for no longer than an hour, or
\* than the caller said, from when an object of it was dated, and objects are dated
\* within the limits of one call and one proof of GitHub's having the log.
THEOREM DeletedLogsStop == LogsSpec => []DeletedLogsStopBeingServed
  BY LogsInvariant, LogsInvGivesProperties, PTL

\* Nothing is stored before the job is over.
THEOREM LogsAreProven == LogsSpec => []OnlyProvenLogsEnter
  BY LogsInvariant, LogsInvGivesProperties, PTL
--------------------------------------------------------------------------------
(* JobLists.  A page says what GitHub listed for its attempt at one moment: *)
(* its jobs are a slice of all there were.  A list that is being merged is *)
(* a prefix of the attempt's jobs that ends where a page does; one that is *)
(* merged is refused as incomplete or holds every job there was when its   *)
(* last page was read, for an attempt only ever adds jobs at the end and a *)
(* full page or a last one leaves no gap.  So are the merged lists in the  *)
(* cache.  Of the latest attempt, which may change between two pages, a    *)
(* merged list says nothing.                                               *)

JobList == Seq(Nat \X Nat)
ListType ==
    [jobs : JobList, total : Nat, link : {"next", "prev", "none"}, all : JobList, at : Nat]

CollectorType ==
    [stage : {"idle", "more", "merged", "served", "failed"}, path : Paths,
     page : Nat \ {0}, limit : 1..PageSize, shaped : BOOLEAN,
     list : ListType, first : ListType, next : Nat,
     from : {"github", "merged", "bigger", "equivalent"}]

\* What GitHub said of a path, page and size, when the attempt had count jobs.
PageOf(l, path, page, size) ==
    \E a \in Nat, count \in Nat :
        /\ l.all = Jobs(a, count) /\ (path # Latest => a = path)
        /\ l.jobs = Slice(l.all, page, size)
        /\ l.link = "next" <=> count > page * size

WholeOf(l, path) == \E count \in Nat : l.all = Jobs(path, count) /\ l.jobs = l.all

ExactFor(k) ==
    \/ k.from = "equivalent" /\ k.list.jobs = <<>>
    \/ k.from = "merged" /\ k.path = Latest
    \/ /\ k.list.jobs = Slice(k.list.all, k.page, k.limit)
       /\ k.path # Latest => \A i \in DOMAIN k.list.jobs : k.list.jobs[i][1] = k.path

ReadSoFar(k) ==
    /\ PageOf(k.first, k.path, 1, PageSize)
    /\ k.list.jobs = Jobs(k.path, (k.next - 1) * PageSize)
    /\ Len(k.list.jobs) < k.first.total

Collecting(k) ==
    /\ k.stage \in {"more", "merged"} => k.page = 1
    /\ k.stage = "more" => k.next # 0
    /\ k.stage = "more" /\ k.path # Latest => ReadSoFar(k)
    /\ k.stage = "merged" /\ k.path # Latest => Incomplete(k.list) \/ WholeOf(k.list, k.path)
    /\ k.stage = "served" => ExactFor(k)

RunOK ==
    /\ second \in Nat /\ attempt \in 1..LastAttempt
    /\ listing \in [1..LastAttempt -> [jobs : Nat, total : Nat]]
    /\ viewed.attempt \in 0..LastAttempt

PagesOK ==
    \A h \in pages :
        /\ h.path \in Paths /\ h.page \in Nat \ {0} /\ h.size \in 1..PageSize
        /\ h.list \in ListType /\ PageOf(h.list, h.path, h.page, h.size)

MergedOK ==
    \A p \in Paths :
        /\ merged[p] \in ListType
        /\ p # Latest => merged[p] = NoList \/ WholeOf(merged[p], p)

CollectorsOK ==
    /\ collector \in [Collectors -> CollectorType]
    /\ \A c \in Collectors : Collecting(collector[c])

JobsInv == RunOK /\ PagesOK /\ MergedOK /\ CollectorsOK

\* The jobs of an attempt are a sequence.
LEMMA JobsAre ==
    ASSUME NEW a \in Nat, NEW count \in Nat
    PROVE  /\ Jobs(a, count) \in JobList /\ Len(Jobs(a, count)) = count
           /\ \A i \in 1..count : Jobs(a, count)[i] = <<a, i>>
  BY DEF Jobs, JobList

\* What s holds if it is count jobs of an attempt cut after the first low ones.
CutOut(s, a, count, low, size) ==
    /\ s \in JobList
    /\ Len(s) = IF count <= low THEN 0 ELSE IF count <= low + size THEN count - low ELSE size
    /\ \A i \in 1..Len(s) : s[i] = <<a, low + i>>

LEMMA LowIs ==
    ASSUME NEW page \in Nat \ {0}, NEW size \in Nat \ {0}
    PROVE  (page - 1) * size \in Nat /\ page * size = (page - 1) * size + size
  OBVIOUS

LEMMA SliceIs ==
    ASSUME NEW a \in Nat, NEW count \in Nat, NEW page \in Nat \ {0}, NEW size \in Nat \ {0}
    PROVE  CutOut(Slice(Jobs(a, count), page, size), a, count, (page - 1) * size, size)
  <1>1. PICK low \in Nat : low = (page - 1) * size /\ page * size = low + size
    BY LowIs
  <1>2. PICK high \in Nat : high = IF count <= low + size THEN count ELSE low + size
    OBVIOUS
  <1>3. PICK j \in JobList : j = Jobs(a, count) /\ Len(j) = count
                             /\ \A i \in 1..count : j[i] = <<a, i>>
    BY JobsAre
  <1>4. PICK s : s = Slice(Jobs(a, count), page, size)
    OBVIOUS
  <1>5. AtMostJobs(page * size, count) = high
    <2>1. PICK p \in Nat : p = page * size /\ p = low + size
      BY <1>1
    <2> QED BY <1>2, <2>1 DEF AtMostJobs
  <1>6. s = SubSeq(j, low + 1, high)
    BY <1>1, <1>3, <1>4, <1>5 DEF Slice
  <1>7. \A i \in (low + 1)..high : j[i] = <<a, i>> /\ j[i] \in Nat \X Nat
    <2>1. ASSUME NEW i \in (low + 1)..high PROVE i \in 1..count
      BY <1>2
    <2>2. \A i \in 1..count : <<a, i>> \in Nat \X Nat
      OBVIOUS
    <2> QED BY <1>3, <2>1, <2>2
  <1>8. /\ s \in JobList
        /\ Len(s) = IF low + 1 <= high THEN high - (low + 1) + 1 ELSE 0
        /\ \A i \in 1..(high - (low + 1) + 1) : s[i] = j[(low + 1) + i - 1]
    <2> DEFINE Pair == Nat \X Nat
    <2>1. \A i \in (low + 1)..high : j[i] \in Pair
      BY <1>7
    <2>2. low + 1 \in Int /\ high \in Int /\ JobList = Seq(Pair)
      BY DEF JobList
    <2> HIDE DEF Pair
    <2> QED BY <1>6, <2>1, <2>2, SubSeqProperties
  <1>9. /\ Len(s) = IF low < high THEN high - low ELSE 0
        /\ \A i \in 1..Len(s) : s[i] = j[low + i]
    BY <1>8
  <1>10. Len(s) = IF count <= low THEN 0 ELSE IF count <= low + size THEN count - low ELSE size
    BY <1>2, <1>9
  <1>11. \A i \in 1..Len(s) : s[i] = <<a, low + i>>
    BY <1>2, <1>7, <1>9
  <1> QED BY <1>1, <1>4, <1>8, <1>10, <1>11 DEF CutOut

\* Lists with the same jobs are the same.
LEMMA SameJobs ==
    ASSUME NEW a \in Nat, NEW n \in Nat, NEW s \in JobList, Len(s) = n,
           \A i \in 1..n : s[i] = <<a, i>>
    PROVE  s = Jobs(a, n)
  <1>1. PICK j \in JobList : j = Jobs(a, n) /\ Len(j) = n /\ \A i \in 1..n : j[i] = <<a, i>>
    BY JobsAre
  <1>2. \A i \in 1..n : s[i] = j[i]
    BY <1>1
  <1>3. s = j
    BY <1>1, <1>2 DEF JobList
  <1> QED BY <1>1, <1>3

LEMMA CutsAttempt ==
    ASSUME NEW s, NEW a, NEW count, NEW low, NEW size, CutOut(s, a, count, low, size)
    PROVE  s \in JobList /\ \A i \in DOMAIN s : s[i][1] = a
  <1>1. s \in JobList /\ DOMAIN s = 1..Len(s)
    BY DEF CutOut, JobList
  <1> QED BY <1>1 DEF CutOut

\* A page holds jobs of one attempt, and is a list.
LEMMA PageHolds ==
    ASSUME NEW l, NEW path, NEW page \in Nat \ {0}, NEW size \in Nat \ {0},
           PageOf(l, path, page, size)
    PROVE  /\ l.jobs \in JobList /\ l.jobs = Slice(l.all, page, size)
           /\ path # Latest => \A i \in DOMAIN l.jobs : l.jobs[i][1] = path
  <1>1. PICK a \in Nat, count \in Nat :
          /\ l.all = Jobs(a, count) /\ (path # Latest => a = path)
          /\ l.jobs = Slice(l.all, page, size)
    BY DEF PageOf
  <1>2. CutOut(l.jobs, a, count, (page - 1) * size, size)
    BY <1>1, SliceIs
  <1>3. l.jobs \in JobList /\ \A i \in DOMAIN l.jobs : l.jobs[i][1] = a
    BY <1>2, CutsAttempt
  <1> QED BY <1>1, <1>3

\* If everything fits on the first page, the page is everything.
LEMMA FirstIsAll ==
    ASSUME NEW a \in Nat, NEW count \in Nat, NEW size \in Nat \ {0}, count <= size
    PROVE  Slice(Jobs(a, count), 1, size) = Jobs(a, count)
  <1>1. PICK s : s = Slice(Jobs(a, count), 1, size)
    OBVIOUS
  <1>2. CutOut(s, a, count, 0, size)
    <2>1. (1 - 1) * size = 0
      OBVIOUS
    <2>2. CutOut(s, a, count, (1 - 1) * size, size)
      BY <1>1, SliceIs
    <2> QED BY <2>1, <2>2
  <1>3. s \in JobList /\ Len(s) = count /\ \A i \in 1..count : s[i] = <<a, i>>
    BY <1>2 DEF CutOut
  <1>4. s = Jobs(a, count)
    BY <1>3, SameJobs
  <1> QED BY <1>1, <1>4

\* A merged list is cut like the list of its attempt.
CutsLike(l, path, page, size) ==
    \E jobs \in JobList :
        /\ l.jobs = l.all /\ jobs = Slice(l.all, page, size)
        /\ \A i \in DOMAIN jobs : jobs[i][1] = path

LEMMA CutOfWhole ==
    ASSUME NEW l, NEW path \in Nat, NEW page \in Nat \ {0}, NEW size \in Nat \ {0},
           WholeOf(l, path)
    PROVE  CutsLike(l, path, page, size)
  <1>1. PICK count \in Nat : l.all = Jobs(path, count) /\ l.jobs = l.all
    BY DEF WholeOf
  <1>2. PICK jobs : jobs = Slice(l.all, page, size)
    OBVIOUS
  <1>3. CutOut(jobs, path, count, (page - 1) * size, size)
    BY <1>1, <1>2, SliceIs
  <1>4. jobs \in JobList /\ \A i \in DOMAIN jobs : jobs[i][1] = path
    BY <1>3, CutsAttempt
  <1> QED BY <1>1, <1>2, <1>4 DEF CutsLike

\* The next page continues what was read, if it is full or the last.
Continued(s, a, count, low, size) ==
    /\ Len(s) = size => Jobs(a, low) \o s = Jobs(a, low + size)
    /\ Len(s) # 0 /\ count <= low + size => Jobs(a, low) \o s = Jobs(a, count)

LEMMA NextContinues ==
    ASSUME NEW a \in Nat, NEW count \in Nat, NEW low \in Nat, NEW size \in Nat \ {0},
           NEW s, CutOut(s, a, count, low, size)
    PROVE  Continued(s, a, count, low, size)
  <1>1. PICK n \in Nat : n = Len(s)
    <2>1. s \in JobList
      BY DEF CutOut
    <2> QED BY <2>1, LenProperties DEF JobList
  <1>2. s \in JobList /\ \A i \in 1..n : s[i] = <<a, low + i>>
    BY <1>1 DEF CutOut
  <1>3. PICK j \in JobList : j = Jobs(a, low) /\ Len(j) = low
                             /\ \A i \in 1..low : j[i] = <<a, i>>
    BY JobsAre
  <1>4. PICK t : t = j \o s
    OBVIOUS
  <1>5. t \in JobList /\ Len(t) = low + n
    <2>1. t \in JobList /\ Len(t) = Len(j) + Len(s)
      BY <1>2, <1>3, <1>4, ConcatProperties DEF JobList
    <2> QED BY <1>1, <1>3, <2>1
  <1>6. /\ \A i \in 1..low : t[i] = j[i]
        /\ \A i \in 1..n : t[low + i] = s[i]
    <2>1. \A i \in 1..(Len(j) + Len(s)) : t[i] = IF i <= Len(j) THEN j[i] ELSE s[i - Len(j)]
      BY <1>2, <1>3, <1>4, ConcatProperties DEF JobList
    <2>2. \A i \in 1..(low + n) : t[i] = IF i <= low THEN j[i] ELSE s[i - low]
      BY <1>1, <1>3, <2>1
    <2>3. \A i \in 1..n : low + i \in 1..(low + n) /\ ~(low + i <= low) /\ (low + i) - low = i
      OBVIOUS
    <2>4. \A i \in 1..low : i \in 1..(low + n)
      OBVIOUS
    <2> QED BY <2>2, <2>3, <2>4
  <1>7. ASSUME NEW i \in 1..(low + n) PROVE t[i] = <<a, i>>
    <2>1. CASE i <= low
      BY <1>3, <1>6, <2>1
    <2>2. CASE i > low
      <3>1. PICK k \in 1..n : i = low + k
        <4>1. i - low \in 1..n /\ i = low + (i - low)
          BY <2>2
        <4> QED BY <4>1
      <3> QED BY <1>2, <1>6, <3>1
    <2> QED BY <2>1, <2>2
  <1>8. t = Jobs(a, low + n)
    <2>1. low + n \in Nat
      OBVIOUS
    <2> QED BY <1>5, <1>7, <2>1, SameJobs
  <1>9. Len(s) # 0 /\ count <= low + size => low + n = count
    BY <1>1 DEF CutOut
  <1> QED BY <1>1, <1>3, <1>4, <1>8, <1>9 DEF Continued

\* What GitHub sends is a page.
LEMMA GitHubSends ==
    ASSUME JobsInv, NEW path \in Paths, NEW page \in Nat \ {0}, NEW size \in Nat \ {0}
    PROVE  LET l == JobsPage(path, page, size) IN
           /\ l \in ListType /\ PageOf(l, path, page, size)
           /\ path # Latest => \E count \in Nat :
                 /\ l.all = Jobs(path, count) /\ l.jobs = Slice(Jobs(path, count), page, size)
                 /\ l.link = "next" <=> count > page * size
  <1>1. PICK a \in 1..LastAttempt : a = AttemptAt(path) /\ (path # Latest => a = path)
    BY DEF JobsInv, RunOK, AttemptAt, Paths
  <1>2. PICK count \in Nat, total \in Nat : count = listing[a].jobs /\ total = listing[a].total
    BY DEF JobsInv, RunOK
  <1>3. PICK l : l = JobsPage(path, page, size)
    OBVIOUS
  <1>4. PICK s : s = Slice(Jobs(a, count), page, size)
    OBVIOUS
  <1>5. a \in Nat
    BY JobsAssumption
  <1>6. s \in JobList /\ Jobs(a, count) \in JobList
    BY <1>4, <1>5, SliceIs, JobsAre DEF CutOut
  <1>7. PICK link \in {"next", "prev", "none"} :
          link = IF count > page * size THEN "next" ELSE IF page > 1 THEN "prev" ELSE "none"
    OBVIOUS
  <1>8. l = [jobs |-> s, total |-> total, link |-> link, all |-> Jobs(a, count), at |-> second]
    BY <1>1, <1>2, <1>3, <1>4, <1>7 DEF JobsPage
  <1>9. link = "next" <=> count > page * size
    BY <1>7
  <1>10. l \in ListType
    BY <1>6, <1>8 DEF ListType, JobsInv, RunOK
  <1>11. PageOf(l, path, page, size)
    BY <1>1, <1>4, <1>5, <1>8, <1>9 DEF PageOf
  <1>12. path # Latest =>
           /\ l.all = Jobs(path, count) /\ l.jobs = Slice(Jobs(path, count), page, size)
           /\ l.link = "next" <=> count > page * size
    BY <1>1, <1>4, <1>8, <1>9
  <1> QED BY <1>3, <1>10, <1>11, <1>12

\* A first page that is not refused is the whole list.
LEMMA FirstIsRefusedOrWhole ==
    ASSUME NEW l, NEW path, path # Latest, PageOf(l, path, 1, PageSize)
    PROVE  Incomplete(l) \/ WholeOf(l, path)
  <1>1. PICK count \in Nat :
          /\ l.all = Jobs(path, count) /\ path \in Nat
          /\ l.jobs = Slice(Jobs(path, count), 1, PageSize)
          /\ l.link = "next" <=> count > 1 * PageSize
    BY DEF PageOf
  <1>2. PageSize \in Nat \ {0}
    BY JobsAssumption
  <1>3. CASE count > PageSize
    BY <1>1, <1>2, <1>3 DEF Incomplete
  <1>4. CASE count <= PageSize
    BY <1>1, <1>2, <1>4, FirstIsAll DEF WholeOf
  <1> QED BY <1>1, <1>2, <1>3, <1>4

\* One collector moves, and pages and merged lists stay as they are.
LEMMA CollectorMoves ==
    ASSUME JobsInv, NEW c \in Collectors, NEW k \in CollectorType, Collects(c, k),
           Collecting(k)
    PROVE  CollectorsOK'
  <1>1. collector' \in [Collectors -> CollectorType]
    BY DEF JobsInv, CollectorsOK, Collects
  <1>2. ASSUME NEW d \in Collectors PROVE Collecting(collector'[d])
    <2>1. collector'[d] = IF d = c THEN k ELSE collector[d]
      BY DEF JobsInv, CollectorsOK, Collects
    <2> QED BY <2>1 DEF JobsInv, CollectorsOK
  <1> QED BY <1>1, <1>2 DEF CollectorsOK

LEMMA OnlyCollectorMoves ==
    ASSUME JobsInv, NEW c \in Collectors, NEW k \in CollectorType, OnlyCollects(c, k),
           Collecting(k)
    PROVE  JobsInv'
  <1>1. CollectorsOK'
    BY CollectorMoves DEF OnlyCollects
  <1>2. UNCHANGED <<second, attempt, listing, merged, pages, viewed>>
    BY DEF OnlyCollects
  <1>3. RunOK' /\ PagesOK' /\ MergedOK'
    BY <1>2 DEF JobsInv, RunOK, PagesOK, MergedOK
  <1> QED BY <1>1, <1>3 DEF JobsInv

LEMMA AsksIs ==
    ASSUME JobsInv, NEW c \in Collectors, NEW a \in Asked
    PROVE  /\ Asks(c, a) \in CollectorType
           /\ LET k == Asks(c, a) IN
              /\ k.stage = "idle" /\ k.path = a.path /\ k.page = a.page /\ k.limit = a.limit
              /\ a.path \in Paths /\ a.page \in Nat \ {0} /\ a.limit \in 1..PageSize
              /\ k.shaped = a.shaped
  <1>1. a \in JobRequest
    BY AskedAssumption
  <1>2. NoList \in ListType
    BY JobsAssumption DEF NoList, ListType, JobList
  <1>3. /\ Latest \in Paths /\ 1 \in 1..PageSize /\ 1 \in Nat \ {0}
        /\ a.path \in Paths /\ a.page \in Nat \ {0} /\ a.limit \in 1..PageSize
        /\ a.shaped \in BOOLEAN
    BY <1>1, JobsAssumption DEF Paths, JobRequest
  <1> HIDE DEF NoList, Latest
  <1> QED BY <1>2, <1>3 DEF Asks, NewCollector, CollectorType

\* What a request is served.
LEMMA SendsIs ==
    ASSUME NEW k \in CollectorType, NEW l \in ListType, NEW jobs \in JobList,
           NEW from \in {"github", "merged", "bigger", "equivalent"}
    PROVE  LET s == Sends(k, l, jobs, from) IN
           /\ s \in CollectorType /\ s.stage = "served" /\ s.path = k.path /\ s.page = k.page
           /\ s.limit = k.limit /\ s.list.jobs = jobs /\ s.list.all = l.all /\ s.from = from
  <1>1. NoList \in ListType
    BY JobsAssumption DEF NoList, ListType, JobList
  <1>2. PICK m : m = [l EXCEPT !.jobs = jobs]
    OBVIOUS
  <1>3. m \in ListType /\ m.jobs = jobs /\ m.all = l.all
    BY <1>2 DEF ListType
  <1>4. PICK s : s = Sends(k, l, jobs, from)
    OBVIOUS
  <1>5. s = [k EXCEPT !.stage = "served", !.list = m, !.from = from, !.first = NoList,
                      !.next = 1]
    BY <1>2, <1>4 DEF Sends
  <1>6. /\ s \in CollectorType /\ s.stage = "served" /\ s.path = k.path /\ s.page = k.page
        /\ s.limit = k.limit /\ s.list = m /\ s.from = from
    <2>1. PICK none \in ListType : none = NoList
      BY <1>1
    <2>2. s = [k EXCEPT !.stage = "served", !.list = m, !.from = from, !.first = none, !.next = 1]
      BY <1>5, <2>1
    <2>3. m \in ListType
      BY <1>3
    <2> QED BY <2>2, <2>3 DEF CollectorType
  <1> QED BY <1>3, <1>4, <1>6

\* Whoever is served with exactly its jobs is collecting as it should.
LEMMA ServesRightly ==
    ASSUME JobsInv, NEW c \in Collectors, NEW k \in CollectorType, NEW l \in ListType,
           NEW jobs \in JobList, NEW from \in {"github", "merged", "bigger", "equivalent"},
           \/ from = "equivalent" /\ jobs = <<>>
           \/ from = "merged" /\ k.path = Latest
           \/ /\ jobs = Slice(l.all, k.page, k.limit)
              /\ k.path # Latest => \A i \in DOMAIN jobs : jobs[i][1] = k.path
    PROVE  /\ Sends(k, l, jobs, from) \in CollectorType
           /\ Collecting(Sends(k, l, jobs, from))
  <1>1. PICK s : s = Sends(k, l, jobs, from)
    OBVIOUS
  <1>2. /\ s \in CollectorType /\ s.stage = "served" /\ s.path = k.path /\ s.page = k.page
        /\ s.limit = k.limit /\ s.list.jobs = jobs /\ s.list.all = l.all /\ s.from = from
    BY <1>1, SendsIs
  <1>3. ExactFor(s)
    BY <1>2 DEF ExactFor
  <1> QED BY <1>1, <1>2, <1>3 DEF Collecting

\* Any list is cut to a list.
LEMMA SliceListed ==
    ASSUME NEW s \in JobList, NEW page \in Nat \ {0}, NEW size \in Nat \ {0}
    PROVE  Slice(s, page, size) \in JobList
  <1> DEFINE Pair == Nat \X Nat
  <1>1. s \in Seq(Pair) /\ JobList = Seq(Pair)
    BY DEF JobList
  <1> HIDE DEF Pair
  <1>2. PICK low \in Nat, high \in Nat, n \in Nat :
          low = (page - 1) * size /\ high = page * size /\ n = Len(s)
    <2>1. (page - 1) * size \in Nat /\ page * size \in Nat
      BY LowIs
    <2>2. Len(s) \in Nat
      BY <1>1, LenProperties
    <2> QED BY <2>1, <2>2
  <1>3. PICK last \in Nat : last = IF high < n THEN high ELSE n
    OBVIOUS
  <1>4. \A i \in (low + 1)..last : i \in 1..Len(s)
    BY <1>2, <1>3
  <1>5. \A i \in (low + 1)..last : s[i] \in Pair
    BY <1>1, <1>4, ElementOfSeq
  <1>6. SubSeq(s, low + 1, last) \in Seq(Pair)
    BY <1>5, SubSeqProperties
  <1> QED BY <1>1, <1>2, <1>3, <1>6 DEF Slice, AtMostJobs

LEMMA ServesFromMerged ==
    ASSUME JobsInv, NEW c \in Collectors, NEW a \in Asked, ServeMerged(c, a)
    PROVE  JobsInv'
  <1>1. PICK k \in CollectorType :
          /\ k = Asks(c, a) /\ k.path \in Paths /\ k.page \in Nat \ {0}
          /\ k.limit \in Nat \ {0} /\ k.limit \in 1..PageSize
    BY AsksIs, JobsAssumption
  <1>2. PICK l \in ListType : l = merged[k.path] /\ l # NoList
                              /\ (k.path # Latest => WholeOf(l, k.path))
    <2>1. merged[k.path] # NoList
      BY <1>1 DEF ServeMerged, FreshList
    <2> QED BY <1>1, <2>1 DEF JobsInv, MergedOK
  <1>3. PICK jobs : jobs = Slice(l.jobs, k.page, k.limit)
    OBVIOUS
  <1>4. OnlyCollects(c, Sends(k, l, jobs, "merged"))
    BY <1>1, <1>2, <1>3 DEF ServeMerged
  <1>5. CASE k.path # Latest
    <2>1. k.path \in Nat
      BY <1>1 DEF Paths, Latest
    <2>2. /\ jobs = Slice(l.all, k.page, k.limit) /\ jobs \in JobList
          /\ \A i \in DOMAIN jobs : jobs[i][1] = k.path
      <3>1. PICK path \in Nat, page \in Nat \ {0}, size \in Nat \ {0} :
              /\ path = k.path /\ page = k.page /\ size = k.limit
              /\ WholeOf(l, path) /\ jobs = Slice(l.jobs, page, size)
        BY <1>1, <1>2, <1>3, <1>5, <2>1
      <3>2. CutsLike(l, path, page, size)
        BY <3>1, CutOfWhole
      <3>3. /\ jobs = Slice(l.all, page, size) /\ jobs \in JobList
            /\ \A i \in DOMAIN jobs : jobs[i][1] = path
        BY <3>1, <3>2 DEF CutsLike
      <3> QED BY <3>1, <3>3
    <2> QED BY <1>4, <2>2, ServesRightly, OnlyCollectorMoves
  <1>6. CASE k.path = Latest
    <2>1. jobs \in JobList
      BY <1>1, <1>2, <1>3, SliceListed DEF ListType
    <2> QED BY <1>4, <1>6, <2>1, ServesRightly, OnlyCollectorMoves
  <1> QED BY <1>5, <1>6

LEMMA HeldIs ==
    ASSUME JobsInv, NEW path, NEW page, NEW size, NEW h \in Held(path, page, size)
    PROVE  /\ h.list \in ListType /\ PageOf(h.list, path, page, size) /\ h.list.jobs \in JobList
           /\ size \in Nat \ {0} /\ page \in Nat \ {0}
  <1>1. /\ h.list \in ListType /\ PageOf(h.list, h.path, h.page, h.size)
        /\ h.path = path /\ h.page = page /\ h.size = size /\ h.page \in Nat \ {0}
        /\ h.size \in 1..PageSize
    BY DEF Held, JobsInv, PagesOK
  <1>2. h.size \in Nat \ {0}
    BY <1>1, JobsAssumption
  <1> QED BY <1>1, <1>2 DEF ListType

LEMMA ServesFromBigger ==
    ASSUME JobsInv, NEW c \in Collectors, NEW a \in Asked, ServeSmaller(c, a)
    PROVE  JobsInv'
  <1>1. PICK k \in CollectorType :
          k = Asks(c, a) /\ k.path \in Paths /\ k.limit \in 1..PageSize /\ k.page = 1
    BY AsksIs DEF ServeSmaller
  <1>2. PICK h \in Held(k.path, 1, PageSize) :
          /\ CompleteRaw(h.list, k.limit)
          /\ OnlyCollects(c, Sends(k, h.list, h.list.jobs, "bigger"))
    BY <1>1 DEF ServeSmaller
  <1>3. PICK l \in ListType : l = h.list /\ PageOf(l, k.path, 1, PageSize) /\ l.jobs \in JobList
    BY <1>2, HeldIs
  <1>4. PageSize \in Nat \ {0} /\ k.limit \in Nat \ {0} /\ k.limit <= PageSize
    BY <1>1, JobsAssumption
  <1>5. PICK b \in Nat, count \in Nat :
          /\ l.all = Jobs(b, count) /\ l.jobs = Slice(Jobs(b, count), 1, PageSize)
          /\ l.link = "next" <=> count > 1 * PageSize
    BY <1>3 DEF PageOf
  <1>6. count <= PageSize
    <2>1. l.link = "none"
      BY <1>2, <1>3 DEF CompleteRaw
    <2> QED BY <1>4, <1>5, <2>1
  <1>7. l.jobs = Jobs(b, count)
    BY <1>4, <1>5, <1>6, FirstIsAll
  <1>8. count <= k.limit
    BY <1>2, <1>3, <1>7, JobsAre DEF CompleteRaw
  <1>9. l.jobs = Slice(l.all, k.page, k.limit)
    BY <1>1, <1>4, <1>5, <1>7, <1>8, FirstIsAll
  <1>10. k.path # Latest => \A i \in DOMAIN l.jobs : l.jobs[i][1] = k.path
    BY <1>3, <1>4, PageHolds
  <1>11. OnlyCollects(c, Sends(k, l, l.jobs, "bigger"))
    BY <1>2, <1>3
  <1> QED BY <1>3, <1>9, <1>10, <1>11, ServesRightly, OnlyCollectorMoves

LEMMA ServesFromEquivalent ==
    ASSUME JobsInv, NEW c \in Collectors, NEW a \in Asked, ServeEquivalent(c, a)
    PROVE  JobsInv'
  <1>1. PICK k \in CollectorType :
          k = Asks(c, a) /\ k.path \in {Latest, viewed.attempt}
    BY AsksIs DEF ServeEquivalent
  <1>2. PICK other : other = IF k.path = Latest THEN viewed.attempt ELSE Latest
    OBVIOUS
  <1>3. PICK h \in Held(other, k.page, k.limit) :
          /\ SamePage(h.list, k.page, k.limit)
          /\ OnlyCollects(c, Sends(k, h.list, h.list.jobs, "equivalent"))
    BY <1>1, <1>2 DEF ServeEquivalent
  <1>4. PICK l \in ListType : l = h.list /\ PageOf(l, other, k.page, k.limit)
                              /\ l.jobs \in JobList
                              /\ k.page \in Nat \ {0} /\ k.limit \in Nat \ {0}
    BY <1>3, HeldIs
  <1>5. l.jobs = Slice(l.all, k.page, k.limit)
    <2>1. PICK page \in Nat \ {0}, size \in Nat \ {0} :
            page = k.page /\ size = k.limit /\ PageOf(l, other, page, size)
      BY <1>4
    <2>2. l.jobs = Slice(l.all, page, size)
      BY <2>1, PageHolds
    <2> QED BY <2>1, <2>2
  <1>6. k.path # Latest => \A i \in DOMAIN l.jobs : l.jobs[i][1] = k.path
    BY <1>1, <1>3, <1>4 DEF SamePage
  <1>7. OnlyCollects(c, Sends(k, l, l.jobs, "equivalent"))
    BY <1>3, <1>4
  <1> QED BY <1>4, <1>5, <1>6, <1>7, ServesRightly, OnlyCollectorMoves

LEMMA ServesExact ==
    ASSUME JobsInv, NEW c \in Collectors, NEW a \in Asked, FetchExact(c, a)
    PROVE  JobsInv'
  <1>1. PICK k \in CollectorType :
          /\ k = Asks(c, a) /\ k.path \in Paths /\ k.page \in Nat \ {0}
          /\ k.limit \in 1..PageSize /\ k.limit \in Nat \ {0}
    BY AsksIs, JobsAssumption
  <1>2. PICK l \in ListType : l = JobsPage(k.path, k.page, k.limit)
                              /\ PageOf(l, k.path, k.page, k.limit)
    BY <1>1, GitHubSends
  <1>3. /\ l.jobs \in JobList /\ l.jobs = Slice(l.all, k.page, k.limit)
        /\ k.path # Latest => \A i \in DOMAIN l.jobs : l.jobs[i][1] = k.path
    <2>1. PICK path \in Paths, page \in Nat \ {0}, size \in Nat \ {0} :
            path = k.path /\ page = k.page /\ size = k.limit /\ PageOf(l, path, page, size)
      BY <1>1, <1>2
    <2>2. /\ l.jobs \in JobList /\ l.jobs = Slice(l.all, page, size)
          /\ path # Latest => \A i \in DOMAIN l.jobs : l.jobs[i][1] = path
      BY <2>1, PageHolds
    <2> QED BY <2>1, <2>2
  <1>4. Collects(c, Sends(k, l, l.jobs, "github"))
    BY <1>1, <1>2 DEF FetchExact
  <1>5. CollectorsOK'
    BY <1>3, <1>4, ServesRightly, CollectorMoves
  <1>6. UNCHANGED <<second, attempt, listing, merged, viewed>>
    BY DEF FetchExact
  <1>7. PagesOK'
    <2>1. PICK page : page = [path |-> k.path, page |-> k.page, size |-> k.limit, list |-> l]
      OBVIOUS
    <2>2. pages' \subseteq pages \cup {page}
      BY <1>1, <1>2, <2>1 DEF FetchExact
    <2>3. /\ page.path \in Paths /\ page.page \in Nat \ {0} /\ page.size \in 1..PageSize
          /\ page.list \in ListType /\ PageOf(page.list, page.path, page.page, page.size)
      BY <1>1, <1>2, <2>1
    <2> QED BY <2>2, <2>3 DEF JobsInv, PagesOK
  <1>8. RunOK' /\ MergedOK'
    BY <1>6 DEF JobsInv, RunOK, MergedOK
  <1> QED BY <1>5, <1>7, <1>8 DEF JobsInv

LEMMA ReadsFirst ==
    ASSUME JobsInv, NEW c \in Collectors, NEW a \in Asked, FetchFirst(c, a)
    PROVE  JobsInv'
  <1>1. PICK k \in CollectorType : k = Asks(c, a) /\ k.path \in Paths /\ k.page = 1
    BY AsksIs DEF FetchFirst
  <1>2. PageSize \in Nat \ {0}
    BY JobsAssumption
  <1>3. PICK l \in ListType :
          /\ l = JobsPage(k.path, 1, PageSize) /\ PageOf(l, k.path, 1, PageSize)
          /\ k.path # Latest => \E count \in Nat :
                l.all = Jobs(k.path, count) /\ l.jobs = Slice(Jobs(k.path, count), 1, PageSize)
    BY <1>1, <1>2, GitHubSends
  <1>4. PICK stage \in {"merged", "more"} :
          /\ stage = IF \/ l.total <= Len(l.jobs) \/ l.total > MaxApiJobs
                        \/ Len(l.jobs) # PageSize
                     THEN "merged" ELSE "more"
    OBVIOUS
  <1>5. PICK p : p = [k EXCEPT !.list = l, !.first = l, !.next = 2, !.stage = stage]
    OBVIOUS
  <1>6. OnlyCollects(c, p)
    BY <1>1, <1>3, <1>4, <1>5 DEF FetchFirst
  <1>7. /\ p \in CollectorType /\ p.path = k.path /\ p.page = 1 /\ p.stage = stage
        /\ p.list = l /\ p.first = l /\ p.next = 2
    BY <1>1, <1>5 DEF CollectorType
  <1>8. stage = "merged" /\ k.path # Latest => Incomplete(l) \/ WholeOf(l, k.path)
    BY <1>3, FirstIsRefusedOrWhole
  <1>9. ASSUME stage = "more", k.path # Latest
        PROVE  l.jobs = Jobs(k.path, PageSize) /\ Len(l.jobs) < l.total
    <2>1. PICK count \in Nat :
            l.all = Jobs(k.path, count) /\ l.jobs = Slice(Jobs(k.path, count), 1, PageSize)
      BY <1>3, <1>9
    <2>2. k.path \in Nat
      BY <1>1 DEF Paths, Latest
    <2>3. CutOut(l.jobs, k.path, count, 0, PageSize)
      <3>1. (1 - 1) * PageSize = 0
        BY <1>2
      <3>2. CutOut(l.jobs, k.path, count, (1 - 1) * PageSize, PageSize)
        BY <1>2, <2>1, <2>2, SliceIs
      <3> QED BY <3>1, <3>2
    <2>4. Len(l.jobs) = PageSize /\ l.total \in Nat /\ ~(l.total <= Len(l.jobs))
      BY <1>4, <1>9 DEF ListType
    <2>5. \A i \in 1..PageSize : l.jobs[i] = <<k.path, i>>
      BY <1>2, <2>3, <2>4 DEF CutOut
    <2>6. l.jobs = Jobs(k.path, PageSize)
      BY <1>2, <2>2, <2>3, <2>4, <2>5, SameJobs DEF CutOut
    <2> QED BY <1>2, <2>4, <2>6
  <1>10. Collecting(p)
    <2>1. (2 - 1) * PageSize = PageSize
      BY <1>2
    <2>2. p.stage = "more" /\ p.path # Latest => ReadSoFar(p)
      BY <1>3, <1>7, <1>9, <2>1 DEF ReadSoFar
    <2> QED BY <1>4, <1>7, <1>8, <2>2 DEF Collecting
  <1> QED BY <1>6, <1>7, <1>10, OnlyCollectorMoves

\* The collector gives up on later pages, and the first is all it has.
LEMMA FirstAlone ==
    ASSUME JobsInv, NEW c \in Collectors, collector[c].stage = "more",
           OnlyCollects(c, [collector[c] EXCEPT !.stage = "merged", !.list = collector[c].first])
    PROVE  JobsInv'
  <1>1. PICK k \in CollectorType : k = collector[c] /\ Collecting(k) /\ k.stage = "more"
    BY DEF JobsInv, CollectorsOK
  <1>2. PICK p : p = [k EXCEPT !.stage = "merged", !.list = k.first]
    OBVIOUS
  <1>3. OnlyCollects(c, p)
    BY <1>1, <1>2
  <1>4. /\ p \in CollectorType /\ p.path = k.path /\ p.page = k.page /\ p.stage = "merged"
        /\ p.list = k.first
    BY <1>1, <1>2 DEF CollectorType
  <1>5. k.path # Latest => PageOf(k.first, k.path, 1, PageSize)
    BY <1>1 DEF Collecting, ReadSoFar
  <1>6. k.path # Latest => Incomplete(k.first) \/ WholeOf(k.first, k.path)
    BY <1>5, FirstIsRefusedOrWhole
  <1>7. Collecting(p)
    BY <1>1, <1>4, <1>6 DEF Collecting
  <1> QED BY <1>3, <1>4, <1>7, OnlyCollectorMoves

\* How a list grows by the next page, for an attempt that is named.
Grows(path, next, had, total, l, count) ==
    /\ had = Jobs(path, (next - 1) * PageSize) /\ Len(had) < total
    /\ l.all = Jobs(path, count) /\ l.jobs = Slice(Jobs(path, count), next, PageSize)
    /\ l.link = "next" <=> count > next * PageSize
    /\ Len(l.jobs) = AtMostJobs(PageSize, total - Len(had))

Grown(path, next, had, total, l) ==
    /\ Len(had \o l.jobs) < total =>
          had \o l.jobs = Jobs(path, ((next + 1) - 1) * PageSize)
    /\ ~(Len(had \o l.jobs) < total) /\ l.link # "next" => had \o l.jobs = l.all

LEMMA GrowsRightly ==
    ASSUME NEW path \in Nat, NEW next \in Nat \ {0}, NEW had, NEW total \in Nat, NEW l,
           NEW count \in Nat, Grows(path, next, had, total, l, count)
    PROVE  Grown(path, next, had, total, l)
  <1> USE DEF Grows
  <1>1. PageSize \in Nat \ {0}
    BY JobsAssumption
  <1>2. PICK low \in Nat : /\ low = (next - 1) * PageSize /\ next * PageSize = low + PageSize
                           /\ ((next + 1) - 1) * PageSize = low + PageSize
    <2>1. (next + 1) - 1 = next
      OBVIOUS
    <2> QED BY <1>1, <2>1, LowIs
  <1>3. had = Jobs(path, low) /\ had \in JobList /\ Len(had) = low
    BY <1>2, JobsAre
  <1>4. PICK s : s = l.jobs
    OBVIOUS
  <1>5. CutOut(s, path, count, low, PageSize)
    BY <1>1, <1>2, <1>4, SliceIs
  <1>6. s \in JobList
    BY <1>5 DEF CutOut
  <1>a. /\ Len(s) = PageSize => Jobs(path, low) \o s = Jobs(path, low + PageSize)
        /\ Len(s) # 0 /\ count <= low + PageSize => Jobs(path, low) \o s = Jobs(path, count)
    <2>1. Continued(s, path, count, low, PageSize)
      BY <1>1, <1>5, NextContinues
    <2> QED BY <2>1 DEF Continued
  <1>7. PICK n \in Nat : n = Len(s)
    BY <1>6, LenProperties DEF JobList
  <1>8. Len(had \o s) = low + n
    <2>1. Len(had \o s) = Len(had) + Len(s)
      BY <1>3, <1>6, ConcatProperties DEF JobList
    <2> QED BY <1>3, <1>7, <2>1
  <1>9. n = IF PageSize < total - low THEN PageSize ELSE total - low
    BY <1>3, <1>4, <1>7 DEF AtMostJobs
  <1>10. low < total
    BY <1>3
  <1>11. ASSUME Len(had \o s) < total PROVE had \o s = Jobs(path, low + PageSize)
    <2>1. n = PageSize
      BY <1>1, <1>8, <1>9, <1>10, <1>11
    <2>2. Jobs(path, low) \o s = Jobs(path, low + PageSize)
      BY <1>7, <1>a, <2>1
    <2> QED BY <1>3, <2>2
  <1>12. ASSUME l.link # "next" PROVE had \o s = l.all
    <2>1. n # 0
      BY <1>1, <1>9, <1>10
    <2>2. count <= low + PageSize
      BY <1>1, <1>2, <1>12
    <2>3. Jobs(path, low) \o s = Jobs(path, count)
      BY <1>7, <1>a, <2>1, <2>2
    <2> QED BY <1>3, <2>3
  <1> QED BY <1>2, <1>4, <1>11, <1>12 DEF Grown

LEMMA ReadsNextPage ==
    ASSUME JobsInv, NEW c \in Collectors, FetchNext(c)
    PROVE  JobsInv'
  <1>1. PICK k \in CollectorType :
          k = collector[c] /\ Collecting(k) /\ k.stage = "more" /\ k.page = 1
    BY DEF JobsInv, CollectorsOK, FetchNext, Collecting
  <1>2. /\ PageSize \in Nat \ {0} /\ k.next \in Nat \ {0} /\ k.path \in Paths
        /\ k.first \in ListType /\ k.list \in ListType /\ k.list.jobs \in JobList
        /\ k.first.total \in Nat
    BY <1>1, JobsAssumption DEF Collecting, CollectorType, ListType
  <1>3. PICK l \in ListType :
          /\ l = JobsPage(k.path, k.next, PageSize) /\ PageOf(l, k.path, k.next, PageSize)
          /\ k.path # Latest => \E count \in Nat :
                /\ l.all = Jobs(k.path, count)
                /\ l.jobs = Slice(Jobs(k.path, count), k.next, PageSize)
                /\ l.link = "next" <=> count > k.next * PageSize
    BY <1>2, GitHubSends
  <1>4. PICK jobs : jobs = k.list.jobs \o l.jobs
    OBVIOUS
  <1>5. jobs \in JobList /\ Len(jobs) \in Nat
    <2>1. l.jobs \in JobList
      BY <1>3 DEF ListType
    <2> QED BY <1>2, <1>4, <2>1, ConcatProperties, LenProperties DEF JobList
  <1>6. CASE OnlyCollects(c, [k EXCEPT !.stage = "merged", !.list = k.first])
    BY <1>1, <1>6, FirstAlone
  <1>g. ASSUME k.path # Latest, Fits(k, l)
        PROVE  /\ Len(jobs) < k.first.total =>
                     jobs = Jobs(k.path, ((k.next + 1) - 1) * PageSize)
               /\ ~(Len(jobs) < k.first.total) /\ l.link # "next" => jobs = l.all
    <2>1. PICK count \in Nat :
            /\ l.all = Jobs(k.path, count)
            /\ l.jobs = Slice(Jobs(k.path, count), k.next, PageSize)
            /\ l.link = "next" <=> count > k.next * PageSize
      BY <1>3, <1>g
    <2>2. /\ k.list.jobs = Jobs(k.path, (k.next - 1) * PageSize)
          /\ Len(k.list.jobs) < k.first.total
      BY <1>1, <1>g DEF Collecting, ReadSoFar
    <2>3. Len(l.jobs) = AtMostJobs(PageSize, k.first.total - Len(k.list.jobs))
      BY <1>g DEF Fits
    <2>4. k.path \in Nat
      BY <1>2, <1>g DEF Paths, Latest
    <2>5. PICK path \in Nat, next \in Nat \ {0}, total \in Nat :
            path = k.path /\ next = k.next /\ total = k.first.total
      BY <1>2, <2>4
    <2>6. PICK had : had = k.list.jobs
      OBVIOUS
    <2>7. Grows(path, next, had, total, l, count)
      BY <2>1, <2>2, <2>3, <2>5, <2>6 DEF Grows
    <2>8. Grown(path, next, had, total, l)
      BY <2>7, GrowsRightly
    <2> QED BY <1>4, <2>5, <2>6, <2>8 DEF Grown
  <1>7. CASE /\ Fits(k, l) /\ Len(jobs) < k.first.total
             /\ OnlyCollects(c, [k EXCEPT !.list = [l EXCEPT !.jobs = jobs], !.next = @ + 1])
    <2>0. PICK m : m = [l EXCEPT !.jobs = jobs]
      OBVIOUS
    <2>1. m \in ListType /\ m = [l EXCEPT !.jobs = jobs] /\ m.jobs = jobs
      BY <1>3, <1>5, <2>0 DEF ListType
    <2>2. PICK next \in Nat : next = k.next + 1 /\ next # 0
      BY <1>2
    <2>3. PICK p : p = [k EXCEPT !.list = m, !.next = next]
      OBVIOUS
    <2>4. OnlyCollects(c, p)
      BY <1>7, <2>1, <2>2, <2>3
    <2>5. /\ p \in CollectorType /\ p.path = k.path /\ p.page = k.page /\ p.stage = k.stage
          /\ p.list = m /\ p.next = next /\ p.first = k.first
      BY <1>1, <2>1, <2>2, <2>3 DEF CollectorType
    <2>6. k.path # Latest => jobs = Jobs(k.path, (next - 1) * PageSize)
      BY <1>7, <1>g, <2>2
    <2>7. k.path # Latest => PageOf(k.first, k.path, 1, PageSize)
      BY <1>1 DEF Collecting, ReadSoFar
    <2>8. p.path # Latest => ReadSoFar(p)
      BY <1>7, <2>1, <2>5, <2>6, <2>7 DEF ReadSoFar
    <2>9. Collecting(p)
      BY <1>1, <2>2, <2>5, <2>8 DEF Collecting
    <2> QED BY <2>4, <2>5, <2>9, OnlyCollectorMoves
  <1>8. CASE /\ Fits(k, l) /\ ~(Len(jobs) < k.first.total) /\ l.link # "next"
             /\ OnlyCollects(c, [k EXCEPT !.stage = "merged",
                                          !.list = [l EXCEPT !.jobs = jobs, !.at = k.first.at,
                                                             !.link = "none"]])
    <2>1. PICK at \in Nat : at = k.first.at
      BY <1>2 DEF ListType
    <2>2. PICK m : m = [l EXCEPT !.jobs = jobs, !.at = at, !.link = "none"]
      OBVIOUS
    <2>3. m \in ListType /\ m.jobs = jobs /\ m.all = l.all
      BY <1>3, <1>5, <2>2 DEF ListType
    <2>4. PICK p : p = [k EXCEPT !.stage = "merged", !.list = m]
      OBVIOUS
    <2>5. OnlyCollects(c, p)
      BY <1>8, <2>1, <2>2, <2>4
    <2>6. /\ p \in CollectorType /\ p.path = k.path /\ p.page = k.page /\ p.stage = "merged"
          /\ p.list = m
      BY <1>1, <2>3, <2>4 DEF CollectorType
    <2>7. k.path # Latest => WholeOf(m, k.path)
      <3>1. ASSUME k.path # Latest PROVE WholeOf(m, k.path)
        <4>1. jobs = l.all
          BY <1>8, <1>g, <3>1
        <4>2. PICK count \in Nat : l.all = Jobs(k.path, count)
          BY <1>3, <3>1
        <4> QED BY <2>3, <4>1, <4>2 DEF WholeOf
      <3> QED BY <3>1
    <2>8. Collecting(p)
      BY <1>1, <2>6, <2>7 DEF Collecting
    <2> QED BY <2>5, <2>6, <2>8, OnlyCollectorMoves
  <1> QED BY <1>1, <1>3, <1>4, <1>6, <1>7, <1>8 DEF FetchNext

LEMMA ReadingStops ==
    ASSUME JobsInv, NEW c \in Collectors, NextFails(c)
    PROVE  JobsInv'
  <1>1. PICK k \in CollectorType : k = collector[c] /\ Collecting(k) /\ k.stage = "more"
    BY DEF JobsInv, CollectorsOK, NextFails
  <1>2. CASE OnlyCollects(c, [k EXCEPT !.stage = "failed"])
    <2>1. PICK p : p = [k EXCEPT !.stage = "failed"]
      OBVIOUS
    <2>2. p \in CollectorType /\ p.stage = "failed"
      BY <1>1, <2>1 DEF CollectorType
    <2>3. Collecting(p)
      BY <2>2 DEF Collecting
    <2> QED BY <1>2, <2>1, <2>2, <2>3, OnlyCollectorMoves
  <1>3. CASE OnlyCollects(c, [k EXCEPT !.stage = "merged", !.list = k.first])
    BY <1>1, <1>3, FirstAlone
  <1> QED BY <1>1, <1>2, <1>3 DEF NextFails

LEMMA MergesRightly ==
    ASSUME JobsInv, NEW c \in Collectors, Merge(c)
    PROVE  JobsInv'
  <1>1. PICK k \in CollectorType :
          k = collector[c] /\ Collecting(k) /\ k.stage = "merged" /\ k.page = 1
    BY DEF JobsInv, CollectorsOK, Merge, Collecting
  <1>2. UNCHANGED <<second, attempt, listing, pages, viewed>>
    BY DEF Merge
  <1>3. RunOK' /\ PagesOK'
    BY <1>2 DEF JobsInv, RunOK, PagesOK
  <1>4. CASE Collects(c, [k EXCEPT !.stage = "failed"]) /\ UNCHANGED merged
    <2>1. PICK p : p = [k EXCEPT !.stage = "failed"]
      OBVIOUS
    <2>2. p \in CollectorType /\ p.stage = "failed"
      BY <1>1, <2>1 DEF CollectorType
    <2>3. Collecting(p)
      BY <2>2 DEF Collecting
    <2>4. CollectorsOK'
      BY <1>4, <2>1, <2>2, <2>3, CollectorMoves
    <2>5. MergedOK'
      BY <1>4 DEF JobsInv, MergedOK
    <2> QED BY <1>3, <2>4, <2>5 DEF JobsInv
  <1>5. CASE /\ ~Incomplete(k.list)
             /\ Collects(c, Sends(k, k.list, Slice(k.list.jobs, 1, k.limit), "merged"))
             /\ merged' = [merged EXCEPT ![k.path] = k.list]
    <2>1. PICK l \in ListType : l = k.list /\ (k.path # Latest => WholeOf(l, k.path))
      BY <1>1, <1>5 DEF Collecting, CollectorType
    <2>2. l.jobs \in JobList /\ k.limit \in Nat \ {0} /\ k.path \in Paths
      BY <1>1, <2>1, JobsAssumption DEF ListType, CollectorType
    <2>3. PICK jobs : jobs = Slice(l.jobs, 1, k.limit)
      OBVIOUS
    <2>4. jobs \in JobList
      BY <2>2, <2>3, SliceListed
    <2>5. k.path # Latest =>
            /\ jobs = Slice(l.all, k.page, k.limit)
            /\ \A i \in DOMAIN jobs : jobs[i][1] = k.path
      <3>1. ASSUME k.path # Latest
            PROVE  /\ jobs = Slice(l.all, k.page, k.limit)
                   /\ \A i \in DOMAIN jobs : jobs[i][1] = k.path
        <4>1. PICK path \in Nat, size \in Nat \ {0} : path = k.path /\ size = k.limit
          BY <2>2, <3>1 DEF Paths, Latest
        <4>2. WholeOf(l, path)
          BY <2>1, <3>1, <4>1
        <4>3. CutsLike(l, path, 1, size)
          BY <4>1, <4>2, CutOfWhole
        <4> QED BY <1>1, <2>3, <4>1, <4>3 DEF CutsLike
      <3> QED BY <3>1
    <2>6. Collects(c, Sends(k, l, jobs, "merged"))
      BY <1>5, <2>1, <2>3
    <2>7. CollectorsOK'
      BY <2>4, <2>5, <2>6, ServesRightly, CollectorMoves
    <2>8. MergedOK'
      <3>1. ASSUME NEW p \in Paths
            PROVE  /\ merged'[p] \in ListType
                   /\ p # Latest => merged'[p] = NoList \/ WholeOf(merged'[p], p)
        <4>1. CASE p = k.path /\ k.path \in DOMAIN merged
          BY <1>5, <2>1, <4>1
        <4>2. CASE ~(p = k.path /\ k.path \in DOMAIN merged)
          <5>1. merged'[p] = merged[p]
            BY <1>5, <4>2
          <5> QED BY <5>1 DEF JobsInv, MergedOK
        <4> QED BY <4>1, <4>2
      <3> QED BY <3>1 DEF MergedOK
    <2> QED BY <1>3, <2>7, <2>8 DEF JobsInv
  <1> QED BY <1>1, <1>4, <1>5 DEF Merge

\* The run changes, and time passes.
LEMMA RunChangesRightly ==
    ASSUME JobsInv, ViewRun \/ AddJob \/ (\E l \in Listings : Rerun(l)) \/ SecondPasses
    PROVE  JobsInv'
  <1>1. UNCHANGED <<merged, pages, collector>>
    BY DEF ViewRun, AddJob, Rerun, SecondPasses
  <1>2. PagesOK' /\ MergedOK' /\ CollectorsOK'
    BY <1>1 DEF JobsInv, PagesOK, MergedOK, CollectorsOK
  <1>3. LastAttempt \in Nat \ {0} /\ Listings \subseteq [jobs : Nat, total : Nat]
    BY JobsAssumption
  <1>4. ASSUME ViewRun PROVE RunOK'
    BY <1>3, <1>4 DEF ViewRun, JobsInv, RunOK
  <1>5. ASSUME AddJob PROVE RunOK'
    <2>1. PICK jobs \in Nat, total \in Nat :
            jobs = listing[attempt].jobs /\ total = listing[attempt].total
      BY DEF JobsInv, RunOK
    <2>2. PICK l : l = [jobs |-> jobs + 1, total |-> total + 1]
      OBVIOUS
    <2>3. l \in [jobs : Nat, total : Nat]
      BY <2>2
    <2>4. listing' = [listing EXCEPT ![attempt] = l]
      BY <1>5, <2>1, <2>2 DEF AddJob
    <2> QED BY <1>5, <2>3, <2>4 DEF AddJob, JobsInv, RunOK
  <1>6. ASSUME NEW l \in Listings, Rerun(l) PROVE RunOK'
    BY <1>3, <1>6 DEF Rerun, JobsInv, RunOK
  <1>7. ASSUME SecondPasses PROVE RunOK'
    BY <1>7 DEF SecondPasses, JobsInv, RunOK
  <1>8. RunOK'
    BY <1>4, <1>5, <1>6, <1>7
  <1> QED BY <1>2, <1>8 DEF JobsInv

LEMMA JobsInitially == JobsInit => JobsInv
  <1> SUFFICES ASSUME JobsInit PROVE JobsInv
    OBVIOUS
  <1>1. NoList \in ListType
    BY JobsAssumption DEF NoList, ListType, JobList
  <1>2. RunOK
    <2>1. PICK l \in Listings :
            listing = [a \in 1..LastAttempt |-> IF a = 1 THEN l ELSE [jobs |-> 0, total |-> 0]]
      BY DEF JobsInit
    <2> QED BY <2>1, JobsAssumption DEF JobsInit, RunOK
  <1>3. PagesOK /\ MergedOK
    BY <1>1 DEF JobsInit, PagesOK, MergedOK
  <1>4. NewCollector \in CollectorType /\ NewCollector.stage = "idle"
    <2>1. Latest \in Paths /\ 1 \in 1..PageSize /\ 1 \in Nat \ {0}
      BY JobsAssumption DEF Paths
    <2> HIDE DEF NoList, Latest
    <2> QED BY <1>1, <2>1 DEF NewCollector, CollectorType
  <1>5. CollectorsOK
    <2> HIDE DEF NewCollector
    <2>1. Collecting(NewCollector)
      BY <1>4 DEF Collecting
    <2> QED BY <1>4, <2>1 DEF JobsInit, CollectorsOK
  <1> QED BY <1>2, <1>3, <1>5 DEF JobsInv

LEMMA JobsStep == JobsInv /\ [JobsNext]_jobVars => JobsInv'
  <1> SUFFICES ASSUME JobsInv, [JobsNext]_jobVars PROVE JobsInv'
    OBVIOUS
  <1>1. ASSUME UNCHANGED jobVars PROVE JobsInv'
    BY <1>1 DEF jobVars, JobsInv, RunOK, PagesOK, MergedOK, CollectorsOK
  <1>2. ASSUME NEW c \in Collectors, NEW a \in Asked,
               \/ ServeMerged(c, a) \/ ServeSmaller(c, a) \/ ServeEquivalent(c, a)
               \/ FetchExact(c, a) \/ FetchFirst(c, a)
        PROVE  JobsInv'
    BY <1>2, ServesFromMerged, ServesFromBigger, ServesFromEquivalent, ServesExact, ReadsFirst
  <1>3. ASSUME NEW c \in Collectors, FetchNext(c) \/ NextFails(c) \/ Merge(c) PROVE JobsInv'
    BY <1>3, ReadsNextPage, ReadingStops, MergesRightly
  <1> QED BY <1>1, <1>2, <1>3, RunChangesRightly DEF JobsNext

\* Whatever list the jobs of a run are cut from, and however jobs and attempts
\* are added while its pages are read one by one, what is served is what GitHub
\* would have said to this very request at one moment: no job is missing, there
\* twice or of another attempt.
THEOREM JobListsStayExact == JobsSpec => []JobListsAreExact
  <1>1. JobsInv => JobListsAreExact
    <2> SUFFICES ASSUME JobsInv, NEW c \in Collectors, collector[c].stage = "served"
        PROVE  ExactFor(collector[c])
      BY DEF JobListsAreExact, ExactFor
    <2> QED BY DEF JobsInv, CollectorsOK, Collecting
  <1> QED BY <1>1, JobsInitially, JobsStep, PTL DEF JobsSpec
--------------------------------------------------------------------------------
(* How long lists get.  A list that is being merged consists of full pages, *)
(* so with the next one it is no longer than the list this is a page of.   *)

Short(l) == Len(l.jobs) <= MaxJobs

Sized(k) ==
    /\ Short(k.list) /\ Short(k.first)
    /\ k.stage = "more" =>
          /\ Len(k.list.jobs) = (k.next - 1) * PageSize
          /\ Len(k.list.jobs) < k.first.total

SizesInv ==
    /\ second <= LastSecond
    /\ \A a \in 1..LastAttempt : listing[a].jobs <= MaxJobs
    /\ viewed \in [attempt : Nat, at : Nat] /\ viewed.attempt <= attempt
    /\ viewed.at <= second
    /\ \A h \in pages : Short(h.list)
    /\ \A g, h \in pages :
          g.path = h.path /\ g.page = h.page /\ g.size = h.size => g = h
    /\ \A p \in Paths : Short(merged[p])
    /\ \A c \in Collectors : Sized(collector[c])

LEMMA CollectorSized ==
    ASSUME JobsInv, SizesInv, NEW c \in Collectors, NEW k, Collects(c, k), Sized(k)
    PROVE  \A d \in Collectors : Sized(collector'[d])
  <1> SUFFICES ASSUME NEW d \in Collectors PROVE Sized(collector'[d])
    OBVIOUS
  <1>1. collector'[d] = IF d = c THEN k ELSE collector[d]
    BY DEF Collects, JobsInv, CollectorsOK
  <1> QED BY <1>1 DEF SizesInv

LEMMA OnlyCollectorSized ==
    ASSUME JobsInv, SizesInv, NEW c \in Collectors, NEW k, OnlyCollects(c, k), Sized(k)
    PROVE  SizesInv'
  <1>1. \A d \in Collectors : Sized(collector'[d])
    BY CollectorSized DEF OnlyCollects
  <1>2. UNCHANGED <<second, attempt, listing, merged, pages, viewed>>
    BY DEF OnlyCollects
  <1> QED BY <1>1, <1>2 DEF SizesInv

LEMMA NoListIsShort == Short(NoList)
  BY JobsAssumption DEF Short, NoList

LEMMA SendsShort ==
    ASSUME NEW k \in CollectorType, NEW l \in ListType, NEW jobs \in JobList,
           Len(jobs) <= MaxJobs, NEW from
    PROVE  Sized(Sends(k, l, jobs, from))
  <1>1. PICK m : m = [l EXCEPT !.jobs = jobs]
    OBVIOUS
  <1>2. m.jobs = jobs
    BY <1>1 DEF ListType
  <1>3. PICK none : none = NoList
    OBVIOUS
  <1>4. PICK s : s = [k EXCEPT !.stage = "served", !.list = m, !.from = from,
                               !.first = none, !.next = 1]
    OBVIOUS
  <1>5. s.stage = "served" /\ s.list = m /\ s.first = none
    BY <1>4 DEF CollectorType
  <1>6. Sized(s)
    BY <1>2, <1>3, <1>5, NoListIsShort DEF Sized, Short
  <1>7. s = Sends(k, l, jobs, from)
    BY <1>1, <1>3, <1>4 DEF Sends
  <1> QED BY <1>6, <1>7

\* A slice is a list, no longer than what it is cut from.
LEMMA SliceIsShort ==
    ASSUME NEW s \in JobList, Len(s) <= MaxJobs,
           NEW page \in Nat \ {0}, NEW size \in Nat \ {0}
    PROVE  Len(Slice(s, page, size)) <= MaxJobs
  <1> DEFINE Pair == Nat \X Nat
  <1>1. s \in Seq(Pair)
    BY DEF JobList
  <1> HIDE DEF Pair
  <1>2. PICK low \in Nat, high \in Nat, n \in Nat :
          low = (page - 1) * size /\ high = page * size /\ n = Len(s)
    <2>1. (page - 1) * size \in Nat /\ page * size \in Nat
      BY LowIs
    <2>2. Len(s) \in Nat
      BY <1>1, LenProperties
    <2> QED BY <2>1, <2>2
  <1>3. PICK last \in Nat : last = IF high < n THEN high ELSE n
    OBVIOUS
  <1>4. \A i \in (low + 1)..last : i \in 1..Len(s)
    BY <1>2, <1>3
  <1>5. \A i \in (low + 1)..last : s[i] \in Pair
    BY <1>1, <1>4, ElementOfSeq
  <1>6. Len(SubSeq(s, low + 1, last)) =
          IF low + 1 <= last THEN last - (low + 1) + 1 ELSE 0
    BY <1>5, SubSeqProperties
  <1>7. Len(SubSeq(s, low + 1, last)) <= MaxJobs
    BY <1>2, <1>3, <1>6, JobsAssumption
  <1> QED BY <1>2, <1>3, <1>7 DEF Slice, AtMostJobs

\* So is a page, and what comes before it counts too.
LEMMA PageIsShort ==
    ASSUME JobsInv, SizesInv, NEW path \in Paths, NEW page \in Nat \ {0},
           NEW size \in Nat \ {0}
    PROVE  LET n == Len(JobsPage(path, page, size).jobs) IN
           n \in Nat /\ n <= MaxJobs /\ (n # 0 => (page - 1) * size + n <= MaxJobs)
  <1>1. PICK a \in 1..LastAttempt : a = AttemptAt(path)
    BY DEF JobsInv, RunOK, AttemptAt, Paths
  <1>2. PICK count \in Nat : count = listing[a].jobs /\ count <= MaxJobs
    BY DEF JobsInv, RunOK, SizesInv
  <1>3. PICK s : s = Slice(Jobs(a, count), page, size)
    OBVIOUS
  <1>4. JobsPage(path, page, size).jobs = s
    BY <1>1, <1>2, <1>3 DEF JobsPage
  <1>5. PICK low \in Nat : low = (page - 1) * size
    BY LowIs
  <1>6. a \in Nat
    BY JobsAssumption
  <1>7. CutOut(s, a, count, low, size)
    BY <1>3, <1>5, <1>6, SliceIs
  <1>8. PICK n \in Nat : n = Len(s)
    BY <1>7, LenProperties DEF CutOut, JobList
  <1>9. n = IF count <= low THEN 0 ELSE IF count <= low + size THEN count - low ELSE size
    BY <1>7, <1>8 DEF CutOut
  <1>10. n <= MaxJobs /\ (n # 0 => low + n <= MaxJobs)
    BY <1>2, <1>9, JobsAssumption
  <1> QED BY <1>4, <1>5, <1>8, <1>10

LEMMA ServesSized ==
    ASSUME JobsInv, SizesInv, NEW c \in Collectors, NEW a \in Asked,
           ServeMerged(c, a) \/ ServeSmaller(c, a) \/ ServeEquivalent(c, a)
    PROVE  SizesInv'
  <1>1. PICK k \in CollectorType :
          /\ k = Asks(c, a) /\ k.path \in Paths /\ k.page \in Nat \ {0}
          /\ k.limit \in Nat \ {0}
    BY AsksIs, JobsAssumption
  <1>2. PICK l \in ListType, jobs \in JobList, from \in {"merged", "bigger", "equivalent"} :
          Len(jobs) <= MaxJobs /\ OnlyCollects(c, Sends(k, l, jobs, from))
    <2>1. CASE ServeMerged(c, a)
      <3>1. PICK l \in ListType : l = merged[k.path] /\ Len(l.jobs) <= MaxJobs
        BY <1>1 DEF JobsInv, MergedOK, SizesInv, Short
      <3>2. PICK jobs : jobs = Slice(l.jobs, k.page, k.limit)
        OBVIOUS
      <3>3. l.jobs \in JobList
        BY DEF ListType
      <3>4. jobs \in JobList /\ Len(jobs) <= MaxJobs
        BY <1>1, <3>1, <3>2, <3>3, SliceListed, SliceIsShort
      <3>5. OnlyCollects(c, Sends(k, l, jobs, "merged"))
        BY <1>1, <2>1, <3>1, <3>2 DEF ServeMerged
      <3> QED BY <3>4, <3>5
    <2>2. CASE ServeSmaller(c, a) \/ ServeEquivalent(c, a)
      <3>1. PICK h \in pages, from \in {"bigger", "equivalent"} :
              OnlyCollects(c, Sends(k, h.list, h.list.jobs, from))
        BY <1>1, <2>2 DEF ServeSmaller, ServeEquivalent, Held
      <3>2. h.list \in ListType /\ h.list.jobs \in JobList /\ Len(h.list.jobs) <= MaxJobs
        BY DEF JobsInv, PagesOK, SizesInv, Short, ListType
      <3> QED BY <3>1, <3>2
    <2> QED BY <2>1, <2>2
  <1> QED BY <1>1, <1>2, SendsShort, OnlyCollectorSized

LEMMA ServesExactSized ==
    ASSUME JobsInv, SizesInv, NEW c \in Collectors, NEW a \in Asked, FetchExact(c, a)
    PROVE  SizesInv'
  <1>1. PICK k \in CollectorType :
          /\ k = Asks(c, a) /\ k.path \in Paths /\ k.page \in Nat \ {0}
          /\ k.limit \in Nat \ {0}
    BY AsksIs, JobsAssumption
  <1>2. PICK l \in ListType : l = JobsPage(k.path, k.page, k.limit)
    BY <1>1, GitHubSends
  <1>3. l.jobs \in JobList /\ Len(l.jobs) <= MaxJobs
    BY <1>1, <1>2, PageIsShort DEF ListType
  <1>4. Collects(c, Sends(k, l, l.jobs, "github"))
    BY <1>1, <1>2 DEF FetchExact
  <1>5. \A d \in Collectors : Sized(collector'[d])
    BY <1>3, <1>4, SendsShort, CollectorSized
  <1>6. UNCHANGED <<second, attempt, listing, merged, viewed>>
    BY DEF FetchExact
  <1>7. /\ \A h \in pages' : Short(h.list)
        /\ \A g, h \in pages' :
              g.path = h.path /\ g.page = h.page /\ g.size = h.size => g = h
    <2>1. PICK page : page = [path |-> k.path, page |-> k.page, size |-> k.limit, list |-> l]
      OBVIOUS
    <2>2. \/ pages' = pages
          \/ pages' = {h \in pages : <<h.path, h.page, h.size>> # <<k.path, k.page, k.limit>>}
                      \cup {page}
      BY <1>1, <1>2, <2>1 DEF FetchExact
    <2>3. Short(page.list)
      BY <1>3, <2>1 DEF Short
    <2>4. page.path = k.path /\ page.page = k.page /\ page.size = k.limit
      BY <2>1
    <2> QED BY <2>2, <2>3, <2>4 DEF SizesInv
  <1> QED BY <1>5, <1>6, <1>7 DEF SizesInv

LEMMA ReadsFirstSized ==
    ASSUME JobsInv, SizesInv, NEW c \in Collectors, NEW a \in Asked, FetchFirst(c, a)
    PROVE  SizesInv'
  <1>1. PICK k \in CollectorType : k = Asks(c, a) /\ k.path \in Paths
    BY AsksIs
  <1>2. PageSize \in Nat \ {0}
    BY JobsAssumption
  <1>3. PICK l \in ListType : l = JobsPage(k.path, 1, PageSize)
    BY <1>1, <1>2, GitHubSends
  <1>4. PICK stage \in {"merged", "more"} :
          stage = IF \/ l.total <= Len(l.jobs) \/ l.total > MaxApiJobs
                     \/ Len(l.jobs) # PageSize
                  THEN "merged" ELSE "more"
    OBVIOUS
  <1>5. PICK p : p = [k EXCEPT !.list = l, !.first = l, !.next = 2, !.stage = stage]
    OBVIOUS
  <1>6. OnlyCollects(c, p)
    BY <1>1, <1>3, <1>4, <1>5 DEF FetchFirst
  <1>7. p.stage = stage /\ p.list = l /\ p.first = l /\ p.next = 2
    BY <1>5 DEF CollectorType
  <1>8. Len(l.jobs) <= MaxJobs /\ Len(l.jobs) \in Nat /\ l.total \in Nat
    <2>1. PICK page \in Nat \ {0} : page = 1
      OBVIOUS
    <2>2. l = JobsPage(k.path, page, PageSize)
      BY <1>3, <2>1
    <2>3. Len(l.jobs) <= MaxJobs /\ Len(l.jobs) \in Nat
      BY <1>1, <1>2, <2>2, PageIsShort
    <2> QED BY <2>3 DEF ListType
  <1>9. (2 - 1) * PageSize = PageSize
    BY <1>2
  <1>10. stage = "more" => Len(l.jobs) = PageSize /\ Len(l.jobs) < l.total
    BY <1>4, <1>8
  <1>11. Sized(p)
    BY <1>7, <1>8, <1>9, <1>10 DEF Sized, Short
  <1> QED BY <1>6, <1>11, OnlyCollectorSized

LEMMA FirstAloneSized ==
    ASSUME JobsInv, SizesInv, NEW c \in Collectors,
           OnlyCollects(c, [collector[c] EXCEPT !.stage = "merged", !.list = collector[c].first])
    PROVE  SizesInv'
  <1>1. PICK k \in CollectorType : k = collector[c] /\ Sized(k)
    BY DEF JobsInv, CollectorsOK, SizesInv
  <1>2. PICK p : p = [k EXCEPT !.stage = "merged", !.list = k.first]
    OBVIOUS
  <1>3. p.stage = "merged" /\ p.list = k.first /\ p.first = k.first
    BY <1>2 DEF CollectorType
  <1>4. Sized(p)
    BY <1>1, <1>3 DEF Sized
  <1> QED BY <1>1, <1>2, <1>4, OnlyCollectorSized

LEMMA ReadsNextSized ==
    ASSUME JobsInv, SizesInv, NEW c \in Collectors, FetchNext(c)
    PROVE  SizesInv'
  <1>1. PICK k \in CollectorType :
          k = collector[c] /\ Collecting(k) /\ k.stage = "more" /\ Sized(k)
    BY DEF JobsInv, CollectorsOK, SizesInv, FetchNext
  <1>2. /\ PageSize \in Nat \ {0} /\ k.next \in Nat \ {0} /\ k.path \in Paths
        /\ k.list.jobs \in JobList /\ MaxJobs \in Nat
    BY <1>1, JobsAssumption DEF Collecting, CollectorType, ListType
  <1>3. PICK l \in ListType : l = JobsPage(k.path, k.next, PageSize)
    BY <1>2, GitHubSends
  <1>4. PICK low \in Nat, next \in Nat \ {0} :
          /\ next = k.next /\ low = (next - 1) * PageSize
          /\ ((next + 1) - 1) * PageSize = low + PageSize
    <2>1. PICK next \in Nat \ {0} : next = k.next
      BY <1>2
    <2>2. (next - 1) * PageSize \in Nat /\ next * PageSize = (next - 1) * PageSize + PageSize
      BY <1>2, LowIs
    <2>3. (next + 1) - 1 = next
      OBVIOUS
    <2> QED BY <2>1, <2>2, <2>3
  <1>5. PICK n \in Nat : n = Len(l.jobs) /\ (n # 0 => low + n <= MaxJobs)
    BY <1>2, <1>3, <1>4, PageIsShort
  <1>6. PICK total \in Nat : total = k.first.total
    BY <1>1 DEF CollectorType, ListType
  <1>7. Len(k.list.jobs) = low /\ low < total
    BY <1>1, <1>4, <1>6 DEF Sized
  <1>8. PICK jobs : jobs = k.list.jobs \o l.jobs
    OBVIOUS
  <1>9. Len(jobs) = low + n /\ jobs \in JobList
    <2>1. l.jobs \in JobList
      BY <1>3 DEF ListType
    <2>2. jobs \in JobList /\ Len(jobs) = Len(k.list.jobs) + Len(l.jobs)
      BY <1>2, <1>8, <2>1, ConcatProperties DEF JobList
    <2> QED BY <1>5, <1>7, <2>2
  <1>10. Fits(k, l) => n = IF PageSize < total - low THEN PageSize ELSE total - low
    BY <1>5, <1>6, <1>7 DEF Fits, AtMostJobs
  <1>11. Fits(k, l) => Len(jobs) <= MaxJobs /\ (Len(jobs) < total => n = PageSize)
    <2>1. ASSUME Fits(k, l) PROVE n # 0 /\ (low + n < total => n = PageSize)
      BY <1>2, <1>7, <1>10, <2>1
    <2> QED BY <1>5, <1>9, <2>1
  <1>12. CASE OnlyCollects(c, [k EXCEPT !.stage = "merged", !.list = k.first])
    BY <1>1, <1>12, FirstAloneSized
  <1>13. CASE /\ Fits(k, l) /\ Len(jobs) < k.first.total
              /\ OnlyCollects(c, [k EXCEPT !.list = [l EXCEPT !.jobs = jobs], !.next = @ + 1])
    <2>1. PICK m : m = [l EXCEPT !.jobs = jobs]
      OBVIOUS
    <2>2. m.jobs = jobs
      BY <2>1 DEF ListType
    <2>3. PICK p : p = [k EXCEPT !.list = m, !.next = next + 1]
      OBVIOUS
    <2>4. OnlyCollects(c, p)
      BY <1>4, <1>13, <2>1, <2>3
    <2>5. p.list = m /\ p.next = next + 1 /\ p.first = k.first
      BY <2>3 DEF CollectorType
    <2>6. Len(jobs) = ((next + 1) - 1) * PageSize /\ Len(jobs) < total
      BY <1>4, <1>6, <1>9, <1>11, <1>13
    <2>7. Sized(p)
      BY <1>1, <1>6, <1>11, <1>13, <2>2, <2>5, <2>6 DEF Sized, Short
    <2> QED BY <2>4, <2>7, OnlyCollectorSized
  <1>14. CASE /\ Fits(k, l)
              /\ OnlyCollects(c, [k EXCEPT !.stage = "merged",
                                           !.list = [l EXCEPT !.jobs = jobs, !.at = k.first.at,
                                                              !.link = "none"]])
    <2>1. PICK at : at = k.first.at
      OBVIOUS
    <2>2. PICK m : m = [l EXCEPT !.jobs = jobs, !.at = at, !.link = "none"]
      OBVIOUS
    <2>3. m.jobs = jobs
      BY <2>2 DEF ListType
    <2>4. PICK p : p = [k EXCEPT !.stage = "merged", !.list = m]
      OBVIOUS
    <2>5. p.stage = "merged" /\ p.list = m /\ p.first = k.first
      BY <2>4 DEF CollectorType
    <2>6. Sized(p)
      BY <1>1, <1>11, <1>14, <2>3, <2>5 DEF Sized, Short
    <2> QED BY <1>14, <2>1, <2>2, <2>4, <2>6, OnlyCollectorSized
  <1> QED BY <1>1, <1>3, <1>8, <1>12, <1>13, <1>14 DEF FetchNext

LEMMA CollectingEndsSized ==
    ASSUME JobsInv, SizesInv, NEW c \in Collectors, NextFails(c) \/ Merge(c)
    PROVE  SizesInv'
  <1>1. PICK k \in CollectorType : k = collector[c] /\ Sized(k)
    BY DEF JobsInv, CollectorsOK, SizesInv
  <1>2. PICK failed : failed = [k EXCEPT !.stage = "failed"]
    OBVIOUS
  <1>3. Sized(failed)
    <2>1. failed.stage = "failed" /\ failed.list = k.list /\ failed.first = k.first
      BY <1>2 DEF CollectorType
    <2> QED BY <1>1, <2>1 DEF Sized
  <1>4. CASE NextFails(c)
    BY <1>1, <1>2, <1>3, <1>4, OnlyCollectorSized, FirstAloneSized DEF NextFails
  <1>5. CASE Merge(c)
    <2>1. UNCHANGED <<second, attempt, listing, pages, viewed>>
      BY <1>5 DEF Merge
    <2>2. CASE Collects(c, failed) /\ UNCHANGED merged
      <3>1. \A d \in Collectors : Sized(collector'[d])
        BY <1>3, <2>2, CollectorSized
      <3> QED BY <2>1, <2>2, <3>1 DEF SizesInv
    <2>3. CASE /\ Collects(c, Sends(k, k.list, Slice(k.list.jobs, 1, k.limit), "merged"))
               /\ merged' = [merged EXCEPT ![k.path] = k.list]
      <3>1. /\ k.list \in ListType /\ k.list.jobs \in JobList /\ Len(k.list.jobs) <= MaxJobs
            /\ k.limit \in Nat \ {0} /\ 1 \in Nat \ {0}
        BY <1>1, JobsAssumption DEF CollectorType, ListType, Sized, Short
      <3>2. PICK l \in ListType, s \in JobList, limit \in Nat \ {0} :
              l = k.list /\ s = l.jobs /\ limit = k.limit /\ Len(s) <= MaxJobs
        BY <3>1
      <3>3. PICK jobs : jobs = Slice(s, 1, limit)
        OBVIOUS
      <3>4. jobs \in JobList /\ Len(jobs) <= MaxJobs
        BY <3>1, <3>2, <3>3, SliceListed, SliceIsShort
      <3>5. Collects(c, Sends(k, l, jobs, "merged"))
        BY <2>3, <3>2, <3>3
      <3>6. \A d \in Collectors : Sized(collector'[d])
        BY <1>1, <3>2, <3>4, <3>5, SendsShort, CollectorSized
      <3>7. ASSUME NEW p \in Paths PROVE Short(merged'[p])
        <4>1. merged'[p] = k.list \/ merged'[p] = merged[p]
          BY <2>3
        <4> QED BY <3>1, <4>1 DEF SizesInv, Short
      <3> QED BY <2>1, <3>6, <3>7 DEF SizesInv
    <2> QED BY <1>1, <1>2, <1>5, <2>2, <2>3 DEF Merge
  <1> QED BY <1>4, <1>5

LEMMA RunChangesSized ==
    ASSUME JobsInv, SizesInv,
           ViewRun \/ AddJob \/ (\E l \in Listings : Rerun(l)) \/ SecondPasses
    PROVE  SizesInv'
  <1>1. UNCHANGED <<merged, pages, collector>>
    BY DEF ViewRun, AddJob, Rerun, SecondPasses
  <1>2. /\ second \in Nat /\ attempt \in 1..LastAttempt /\ attempt \in Nat
        /\ listing \in [1..LastAttempt -> [jobs : Nat, total : Nat]]
        /\ LastAttempt \in Nat /\ LastSecond \in Nat /\ MaxJobs \in Nat
        /\ viewed.attempt \in Nat /\ viewed.at \in Nat
        /\ \A a \in 1..LastAttempt : listing[a].jobs \in Nat
    BY JobsAssumption DEF JobsInv, RunOK, SizesInv
  <1>3. \A a \in 1..LastAttempt : listing'[a].jobs <= MaxJobs
    <2>1. CASE ViewRun \/ SecondPasses
      BY <2>1 DEF ViewRun, SecondPasses, SizesInv
    <2>2. CASE AddJob
      <3>1. PICK jobs \in Nat, total \in Nat :
              jobs = listing[attempt].jobs /\ total = listing[attempt].total
        BY <1>2
      <3>2. PICK l : l = [jobs |-> jobs + 1, total |-> total + 1]
        OBVIOUS
      <3>3. listing' = [listing EXCEPT ![attempt] = l] /\ jobs < MaxJobs
        BY <2>2, <3>1, <3>2 DEF AddJob
      <3>4. l.jobs <= MaxJobs
        BY <1>2, <3>2, <3>3
      <3> QED BY <1>2, <3>3, <3>4 DEF SizesInv
    <2>3. ASSUME NEW l \in Listings, Rerun(l)
          PROVE  \A a \in 1..LastAttempt : listing'[a].jobs <= MaxJobs
      <3>1. l.jobs <= MaxJobs
        BY JobsAssumption
      <3> QED BY <1>2, <2>3, <3>1 DEF Rerun, SizesInv
    <2> QED BY <2>1, <2>2, <2>3
  <1>4. /\ second' <= LastSecond /\ second <= second'
        /\ attempt <= attempt'
    BY <1>2 DEF ViewRun, AddJob, Rerun, SecondPasses, SizesInv
  <1>5. /\ viewed' \in [attempt : Nat, at : Nat] /\ viewed'.attempt <= attempt'
        /\ viewed'.at <= second'
    <2>1. CASE ViewRun
      BY <1>2, <2>1 DEF ViewRun
    <2>2. CASE AddJob \/ (\E l \in Listings : Rerun(l)) \/ SecondPasses
      <3>1. UNCHANGED viewed /\ second' \in Nat /\ attempt' \in Nat
        BY <1>2, <2>2 DEF AddJob, Rerun, SecondPasses
      <3> QED BY <1>2, <1>4, <3>1 DEF SizesInv
    <2> QED BY <2>1, <2>2
  <1> QED BY <1>1, <1>3, <1>4, <1>5 DEF SizesInv

LEMMA SizesInitially == JobsInit => SizesInv
  <1> SUFFICES ASSUME JobsInit PROVE SizesInv
    OBVIOUS
  <1>1. Short(NoList)
    BY NoListIsShort
  <1>2. Sized(NewCollector)
    <2>1. NewCollector.list = NoList /\ NewCollector.first = NoList
          /\ NewCollector.stage = "idle"
      BY DEF NewCollector
    <2> QED BY <1>1, <2>1 DEF Sized
  <1>3. \A a \in 1..LastAttempt : listing[a].jobs <= MaxJobs
    <2>1. PICK l \in Listings :
            listing = [a \in 1..LastAttempt |-> IF a = 1 THEN l ELSE [jobs |-> 0, total |-> 0]]
      BY DEF JobsInit
    <2>2. l.jobs <= MaxJobs /\ MaxJobs \in Nat
      BY JobsAssumption
    <2> QED BY <2>1, <2>2
  <1>4. /\ second <= LastSecond /\ viewed \in [attempt : Nat, at : Nat]
        /\ viewed.attempt <= attempt /\ viewed.at <= second
    BY JobsAssumption DEF JobsInit
  <1> HIDE DEF NewCollector, NoList
  <1> QED BY <1>1, <1>2, <1>3, <1>4 DEF JobsInit, SizesInv

\* Lists of jobs, collectors and pages keep their shape: no list is longer than an
\* attempt gets, though a merged one is put together from pages read at different
\* times, and a page is cached once.
THEOREM JobsTypeCorrect == JobsSpec => []JobsTypeOK
  <1>1. JobsInv /\ SizesInv => JobsTypeOK
    BY JobsAssumption
    DEF JobsInv, RunOK, CollectorsOK, CollectorType, SizesInv, Sized, Short, JobsTypeOK
  <1>2. ASSUME JobsInv, SizesInv, [JobsNext]_jobVars PROVE SizesInv'
    <2>1. CASE UNCHANGED jobVars
      BY <1>2, <2>1 DEF jobVars, SizesInv
    <2>2. ASSUME NEW c \in Collectors, NEW a \in Asked,
                 \/ ServeMerged(c, a) \/ ServeSmaller(c, a) \/ ServeEquivalent(c, a)
                 \/ FetchExact(c, a) \/ FetchFirst(c, a)
          PROVE  SizesInv'
      BY <1>2, <2>2, ServesSized, ServesExactSized, ReadsFirstSized
    <2>3. ASSUME NEW c \in Collectors, FetchNext(c) \/ NextFails(c) \/ Merge(c)
          PROVE  SizesInv'
      BY <1>2, <2>3, ReadsNextSized, CollectingEndsSized
    <2> QED BY <1>2, <2>1, <2>2, <2>3, RunChangesSized DEF JobsNext
  <1>3. JobsInv /\ SizesInv /\ [JobsNext]_jobVars => (JobsInv /\ SizesInv)'
    BY <1>2, JobsStep
  <1>4. JobsInit => JobsInv /\ SizesInv
    BY JobsInitially, SizesInitially
  <1> QED BY <1>1, <1>3, <1>4, PTL DEF JobsSpec
--------------------------------------------------------------------------------
(* RunLists.  The first entries of a list are the first of any longer list *)
(* it is the beginning of, if there are enough of them; those of its first *)
(* entries are its own; and the runs that match are among the first the    *)
(* ones among all.  The rest is which of two sizes is smaller.             *)

Numbered(S) == IsFiniteSet(S) /\ S \subseteq Nat

\* T is S and more behind it.
Precedes(S, T) == S \subseteq T /\ \A i \in S, j \in T \ S : i < j

LEMMA UpTo ==
    ASSUME NEW S, Numbered(S), NEW i \in Nat
    PROVE  /\ IsFiniteSet({j \in S : j <= i})
           /\ Cardinality({j \in S : j <= i}) \in Nat
           /\ Cardinality({j \in S : j <= i}) <= Cardinality(S)
  <1> DEFINE U == {j \in S : j <= i}
  <1>1. U \subseteq S
    OBVIOUS
  <1> QED BY <1>1, FS_Subset, FS_CardinalityType DEF Numbered

LEMMA NewestOf ==
    ASSUME NEW S, Numbered(S), NEW n \in Nat
    PROVE  /\ Numbered(Newest(n, S)) /\ Newest(n, S) \subseteq S
           /\ \A i \in Newest(n, S), j \in S : j <= i => j \in Newest(n, S)
           /\ \A i \in Newest(n, S), j \in S \ Newest(n, S) : i < j
  <1>1. Newest(n, S) \subseteq S
    BY DEF Newest
  <1>2. Numbered(Newest(n, S))
    BY <1>1, FS_Subset DEF Numbered
  <1>3. ASSUME NEW i \in Newest(n, S), NEW j \in S, j <= i PROVE j \in Newest(n, S)
    <2> DEFINE U(k) == {l \in S : l <= k}
    <2>1. i \in Nat /\ j \in Nat /\ i \in S
      BY <1>1 DEF Numbered
    <2>2. U(j) \subseteq U(i)
      <3>1. ASSUME NEW l \in S, l <= j PROVE l <= i
        <4>1. l \in Nat
          BY DEF Numbered
        <4> QED BY <1>3, <2>1, <3>1, <4>1
      <3> QED BY <3>1
    <2>3. Cardinality(U(j)) <= Cardinality(U(i))
      BY <2>1, <2>2, UpTo, FS_Subset
    <2>4. Cardinality(U(i)) <= n
      BY DEF Newest
    <2>5. Cardinality(U(j)) \in Nat /\ Cardinality(U(i)) \in Nat
      BY <2>1, UpTo
    <2>6. Cardinality(U(j)) <= n
      BY <2>3, <2>4, <2>5
    <2> QED BY <2>6 DEF Newest
  <1>4. ASSUME NEW i \in Newest(n, S), NEW j \in S \ Newest(n, S) PROVE i < j
    <2>1. i \in Nat /\ j \in Nat
      BY <1>1 DEF Numbered
    <2> QED BY <1>3, <2>1
  <1> QED BY <1>1, <1>2, <1>3, <1>4

\* A list that is short enough is kept whole.
LEMMA NewestIsAll ==
    ASSUME NEW S, Numbered(S), NEW n \in Nat, Cardinality(S) <= n
    PROVE  Newest(n, S) = S
  <1>1. ASSUME NEW i \in S PROVE Cardinality({j \in S : j <= i}) <= n
    <2>1. i \in Nat /\ Cardinality(S) \in Nat
      BY FS_CardinalityType DEF Numbered
    <2> QED BY <2>1, UpTo
  <1> QED BY <1>1 DEF Newest

\* A list that is not empty has a last entry.
LEMMA LastOfSome ==
    ASSUME NEW U, Numbered(U), U # {}
    PROVE  \E i \in U : \A j \in U : j <= i
  <1> DEFINE Above(i) == {j \in U : i <= j}
             Sets == {Above(i) : i \in U}
  <1>1. Sets \subseteq FiniteSubsetsOf(U) /\ Sets # {}
    <2>1. FiniteSubsetsOf(U) = SUBSET U
      BY FS_FiniteSubsetsOfFinite DEF Numbered
    <2>2. \A i \in U : Above(i) \in SUBSET U /\ Above(i) \in Sets
      OBVIOUS
    <2>3. Sets # {}
      <3>1. PICK i \in U : TRUE
        OBVIOUS
      <3>2. Above(i) \in Sets
        BY <2>2, <3>1
      <3> HIDE DEF Sets
      <3> QED BY <3>2
    <2>4. Sets \subseteq SUBSET U
      BY <2>2
    <2> HIDE DEF Sets
    <2> QED BY <2>1, <2>3, <2>4
  <1>2. PICK T \in Sets : \A V \in Sets : <<V, T>> \notin StrictSubsetOrdering(U)
    <2> HIDE DEF Sets
    <2> QED BY <1>1, FS_StrictSubsetOrderingWellFounded, WFMin DEF Numbered
  <1>3. PICK i \in U : T = Above(i)
    OBVIOUS
  <1>4. ASSUME NEW j \in U PROVE j <= i
    <2> SUFFICES ASSUME ~(j <= i) PROVE FALSE
      OBVIOUS
    <2>1. i \in Nat /\ j \in Nat
      BY DEF Numbered
    <2>2. Above(j) \subseteq Above(i) /\ i \in Above(i) /\ i \notin Above(j)
      <3>1. i < j /\ i <= i /\ ~(j <= i)
        BY <2>1
      <3>2. ASSUME NEW k \in U, j <= k PROVE i <= k
        <4>1. k \in Nat
          BY DEF Numbered
        <4> QED BY <2>1, <3>1, <3>2, <4>1
      <3> QED BY <3>1, <3>2
    <2>3. <<Above(j), T>> \in StrictSubsetOrdering(U)
      BY <1>3, <2>2 DEF StrictSubsetOrdering
    <2> QED BY <1>2, <2>3
  <1> QED BY <1>4

\* No more than n are kept.
LEMMA NewestIsShort ==
    ASSUME NEW S, Numbered(S), NEW n \in Nat
    PROVE  Cardinality(Newest(n, S)) <= n
  <1> DEFINE N == Newest(n, S)
  <1>1. Numbered(N)
    BY NewestOf
  <1>2. CASE N = {}
    BY <1>2, FS_EmptySet
  <1>3. CASE N # {}
    <2>1. PICK i \in N : \A j \in N : j <= i
      BY <1>1, <1>3, LastOfSome
    <2>2. N \subseteq {j \in S : j <= i}
      BY <2>1, NewestOf
    <2>3. Cardinality({j \in S : j <= i}) <= n /\ i \in Nat
      BY <1>1 DEF Newest, Numbered
    <2>4. Cardinality(N) <= Cardinality({j \in S : j <= i})
      BY <2>2, <2>3, UpTo, FS_Subset
    <2>5. Cardinality(N) \in Nat /\ Cardinality({j \in S : j <= i}) \in Nat
      BY <1>1, <2>3, UpTo, FS_CardinalityType DEF Numbered
    <2> QED BY <2>3, <2>4, <2>5
  <1> QED BY <1>2, <1>3

\* The first of a list are the first of a longer one.
LEMMA NewestGoesOn ==
    ASSUME NEW S, NEW T, Numbered(T), Precedes(S, T), NEW n \in Nat,
           S = T \/ n <= Cardinality(S)
    PROVE  Newest(n, S) = Newest(n, T)
  <1>1. Numbered(S) /\ S \subseteq T
    BY FS_Subset DEF Precedes, Numbered
  <1>2. ASSUME NEW i \in S PROVE {j \in S : j <= i} = {j \in T : j <= i}
    <2>1. \A j \in T : j <= i => j \in S
      <3> SUFFICES ASSUME NEW j \in T, j <= i, j \notin S PROVE FALSE
        OBVIOUS
      <3>1. i < j
        BY DEF Precedes
      <3> QED BY <1>1, <3>1 DEF Numbered
    <2> QED BY <1>1, <2>1
  <1>3. ASSUME NEW i \in T \ S, S # T PROVE i \notin Newest(n, T)
    <2> DEFINE U == {j \in T : j <= i}
    <2>1. S \cup {i} \subseteq U
      <3>1. ASSUME NEW j \in S PROVE j \in T /\ j <= i
        <4>1. j < i
          BY DEF Precedes
        <4> QED BY <1>1, <4>1 DEF Numbered
      <3>2. i \in U
        BY DEF Numbered
      <3> QED BY <3>1, <3>2
    <2>2. Cardinality(S \cup {i}) = Cardinality(S) + 1 /\ IsFiniteSet(S \cup {i})
      BY <1>1, <1>3, FS_AddElement DEF Numbered
    <2>3. i \in Nat
      BY DEF Numbered
    <2>4. IsFiniteSet(U) /\ Cardinality(U) \in Nat
      BY <2>3, UpTo
    <2>5. Cardinality(S) + 1 <= Cardinality(U)
      BY <2>1, <2>2, <2>4, FS_Subset
    <2>6. Cardinality(S) \in Nat /\ n <= Cardinality(S)
      BY <1>1, <1>3, FS_CardinalityType DEF Numbered
    <2>7. ~(Cardinality(U) <= n)
      BY <2>4, <2>5, <2>6
    <2> QED BY <2>7 DEF Newest
  <1> QED BY <1>1, <1>2, <1>3 DEF Newest

\* The first m of the first n.
LEMMA NewestOfNewest ==
    ASSUME NEW S, Numbered(S), NEW m \in Nat, NEW n \in Nat
    PROVE  Newest(m, Newest(n, S)) = Newest(Least(n, m), S)
  <1> DEFINE N == Newest(n, S)
             U(i) == {j \in S : j <= i}
  <1>1. ASSUME NEW i \in N PROVE {j \in N : j <= i} = U(i)
    BY NewestOf
  <1>2. ASSUME NEW i \in S
        PROVE  i \in Newest(m, N) <=> i \in Newest(Least(n, m), S)
    <2>1. i \in N <=> Cardinality(U(i)) <= n
      BY DEF Newest
    <2>2. i \in Newest(m, N) <=> i \in N /\ Cardinality({j \in N : j <= i}) <= m
      BY DEF Newest
    <2>3. i \in Newest(m, N) <=> Cardinality(U(i)) <= n /\ Cardinality(U(i)) <= m
      BY <1>1, <2>1, <2>2
    <2>4. Cardinality(U(i)) \in Nat
      BY UpTo DEF Numbered
    <2>5. Cardinality(U(i)) <= n /\ Cardinality(U(i)) <= m <=> Cardinality(U(i)) <= Least(n, m)
      BY <2>4 DEF Least
    <2> QED BY <2>3, <2>5 DEF Newest
  <1>3. Newest(m, N) \subseteq S /\ Newest(Least(n, m), S) \subseteq S
    BY DEF Newest
  <1> QED BY <1>2, <1>3
--------------------------------------------------------------------------------

RunRequest ==
    [branch : {Unfiltered} \cup Branches, status : {Unfiltered} \cup Statuses,
     perPage : {NoSize} \cup Sizes, limit : {NoSize} \cup Sizes, wide : BOOLEAN]

RunListsInv ==
    /\ \E n \in 0..MaxRuns : runs \in [1..n -> Runs]
    /\ ask \in RunRequest
    /\ reply.stage \in {"idle", "exact", "sent"}
    /\ reply.stage = "exact" => SharedSize(ask) # NoSize
    /\ reply.stage # "sent" => reply.runs = {}
    /\ RunListsAreExact

\* How many runs a request wants.
SizeWanted(q) ==
    LET size == IF q.perPage # NoSize THEN Capped(q.perPage)
                ELSE IF q.limit # NoSize THEN Capped(q.limit) ELSE DefaultPage
    IN  IF q.limit = NoSize THEN size ELSE Least(size, q.limit)

LEMMA RunNumbers ==
    ASSUME NEW q \in RunRequest
    PROVE  /\ q.perPage \in Nat /\ q.limit \in Nat
           /\ SmallPage \in Nat \ {0} /\ BigPage \in Nat /\ SmallPage < BigPage
           /\ DefaultPage \in Nat \ {0} /\ DefaultPage <= BigPage
  <1>1. /\ SmallPage \in Nat \ {0} /\ BigPage \in Nat /\ SmallPage < BigPage
        /\ DefaultPage \in Nat \ {0} /\ DefaultPage <= BigPage
    BY RunListsAssumption
  <1>2. {NoSize} \cup Sizes \subseteq Nat
    BY RunListsAssumption DEF NoSize
  <1>3. q.perPage \in {NoSize} \cup Sizes /\ q.limit \in {NoSize} \cup Sizes
    BY DEF RunRequest
  <1> QED BY <1>1, <1>2, <1>3

\* A request with a shared list wants as many as are cut from it, and no more than
\* it holds.
LEMMA SharedSizes ==
    ASSUME NEW q \in RunRequest, SharedSize(q) # NoSize
    PROVE  /\ Requested(q) \in Nat /\ Requested(q) = SizeWanted(q)
           /\ SharedSize(q) \in {SmallPage, BigPage} /\ Requested(q) <= SharedSize(q)
  <1>1. q.perPage \in Nat /\ q.limit \in Nat /\ q.perPage <= BigPage /\ q.limit <= BigPage
    BY RunNumbers DEF SharedSize, Bounded
  <1>2. /\ Requested(q) \in Nat /\ Requested(q) <= BigPage
    BY <1>1, RunNumbers DEF Requested, Least, NoSize
  <1>3. Requested(q) = SizeWanted(q)
    BY <1>1, RunNumbers DEF Requested, SizeWanted, Capped, Least, NoSize
  <1>4. /\ SharedSize(q) \in {SmallPage, BigPage} /\ Requested(q) <= SharedSize(q)
    BY <1>2, RunNumbers DEF SharedSize, NoSize
  <1> QED BY <1>2, <1>3, <1>4

\* The exact list is cut to what the request wants.
LEMMA ExactSizes ==
    ASSUME NEW q \in RunRequest
    PROVE  /\ ExactSize(q) \in Nat /\ SizeWanted(q) \in Nat /\ SizeWanted(q) <= BigPage
           /\ ShapeLimit(q) \in Nat
           /\ ShapeLimit(q) = NoSize => ExactSize(q) = SizeWanted(q)
           /\ ShapeLimit(q) # NoSize => Least(ExactSize(q), ShapeLimit(q)) = SizeWanted(q)
           /\ SharedSize(q) # NoSize =>
                 /\ Requested(q) # NoSize
                 /\ Least(ExactSize(q), Requested(q)) = SizeWanted(q)
  <1>1. /\ ExactSize(q) \in Nat /\ SizeWanted(q) \in Nat /\ SizeWanted(q) <= BigPage
        /\ ShapeLimit(q) \in Nat
    BY RunNumbers DEF ExactSize, SizeWanted, ShapeLimit, Capped, Least, NoSize
  <1>2. ShapeLimit(q) = NoSize => ExactSize(q) = SizeWanted(q)
    BY RunNumbers DEF ExactSize, SizeWanted, ShapeLimit, Capped, Bounded, Least, NoSize
  <1>3. ShapeLimit(q) # NoSize => Least(ExactSize(q), ShapeLimit(q)) = SizeWanted(q)
    BY RunNumbers DEF ExactSize, SizeWanted, ShapeLimit, Capped, Bounded, Least, NoSize
  <1>4. ASSUME SharedSize(q) # NoSize
        PROVE  Requested(q) # NoSize /\ Least(ExactSize(q), Requested(q)) = SizeWanted(q)
    <2>1. q.perPage <= BigPage /\ q.limit <= BigPage
      BY <1>4, RunNumbers DEF SharedSize, Bounded
    <2>2. Requested(q) # NoSize
      BY <2>1, RunNumbers DEF Requested, Least, NoSize
    <2>3. Least(ExactSize(q), Requested(q)) = SizeWanted(q)
      BY <2>1, RunNumbers DEF ExactSize, Requested, SizeWanted, Capped, Least, NoSize
    <2> QED BY <2>2, <2>3
  <1> QED BY <1>1, <1>2, <1>3, <1>4

LEMMA WantedIs ==
    Wanted(ask) = Newest(SizeWanted(ask), Filtered(ask, DOMAIN runs))
  BY DEF Wanted, SizeWanted, Filtered, Matches

LEMMA AllRuns ==
    ASSUME RunListsInv
    PROVE  \E n \in Nat : n <= MaxRuns /\ DOMAIN runs = 1..n /\ Len(runs) = n
  <1>1. PICK n \in 0..MaxRuns : runs \in [1..n -> Runs]
    BY DEF RunListsInv
  <1>2. n \in Nat /\ n <= MaxRuns /\ DOMAIN runs = 1..n
    BY <1>1, RunListsAssumption
  <1>3. Len(runs) = n
    <2>1. runs \in Seq(Runs)
      BY <1>1, <1>2, SeqDef
    <2> QED BY <1>2, <2>1, LenProperties
  <1> QED BY <1>2, <1>3

LEMMA Numbers1To ==
    ASSUME NEW n \in Nat
    PROVE  Numbered(1..n) /\ Cardinality(1..n) = n
  <1>1. IsFiniteSet(1..n) /\ Cardinality(1..n) = n
    BY FS_Interval
  <1> QED BY <1>1 DEF Numbered

\* The first runs: all there are, or as many as that.
LEMMA FirstRuns ==
    ASSUME NEW n \in Nat, NEW size \in Nat
    PROVE  /\ Precedes(Newest(size, 1..n), 1..n)
           /\ Newest(size, 1..n) = 1..n \/ Cardinality(Newest(size, 1..n)) = size
  <1>1. Precedes(Newest(size, 1..n), 1..n)
    BY Numbers1To, NewestOf DEF Precedes
  <1>2. CASE n <= size
    <2>1. Newest(size, 1..n) = 1..n
      BY <1>2, Numbers1To, NewestIsAll
    <2> QED BY <1>1, <2>1
  <1>3. CASE size < n
    <2>1. ASSUME NEW i \in 1..n PROVE Cardinality({j \in 1..n : j <= i}) = i
      <3>1. {j \in 1..n : j <= i} = 1..i /\ i \in Nat
        OBVIOUS
      <3> QED BY <3>1, Numbers1To
    <2>2. Newest(size, 1..n) = 1..size
      <3>1. \A i : i \in Newest(size, 1..n) <=> i \in 1..n /\ i <= size
        BY <2>1 DEF Newest
      <3>2. \A i : i \in 1..size <=> i \in 1..n /\ i <= size
        BY <1>3
      <3> QED BY <3>1, <3>2
    <2>3. Cardinality(Newest(size, 1..n)) = size
      BY <2>2, Numbers1To
    <2> QED BY <1>1, <2>3
  <1> QED BY <1>2, <1>3

\* What is cut from the first runs, if they are enough, is what is wanted.
LEMMA CutIsWanted ==
    ASSUME RunListsInv, SharedSize(ask) # NoSize,
           ~Underfilled(ask, Newest(SharedSize(ask), DOMAIN runs))
    PROVE  Newest(Requested(ask), Filtered(ask, Newest(SharedSize(ask), DOMAIN runs)))
             = Wanted(ask)
  <1> DEFINE list == Newest(SharedSize(ask), DOMAIN runs)
             F(S) == Filtered(ask, S)
  <1>1. PICK n \in Nat : DOMAIN runs = 1..n
    BY AllRuns
  <1>2. ask \in RunRequest
    BY DEF RunListsInv
  <1>3. PICK size \in Nat : size = SharedSize(ask)
    BY <1>2, SharedSizes, RunNumbers
  <1>4. PICK want \in Nat : want = Requested(ask) /\ want = SizeWanted(ask) /\ want <= size
    BY <1>2, <1>3, SharedSizes
  <1>5. /\ Precedes(list, DOMAIN runs)
        /\ list = DOMAIN runs \/ Cardinality(list) = size
    BY <1>1, <1>3, FirstRuns
  <1>6. Precedes(F(list), F(DOMAIN runs))
    BY <1>5 DEF Precedes, Filtered
  <1>7. Numbered(F(DOMAIN runs)) /\ Numbered(list) /\ Numbered(F(list))
    <2>1. Numbered(DOMAIN runs)
      BY <1>1, Numbers1To
    <2>2. F(DOMAIN runs) \subseteq DOMAIN runs /\ list \subseteq DOMAIN runs
          /\ F(list) \subseteq DOMAIN runs
      BY DEF Filtered, Newest
    <2> QED BY <2>1, <2>2, FS_Subset DEF Numbered
  <1>8. F(list) = F(DOMAIN runs) \/ want <= Cardinality(F(list))
    <2>1. CASE ask.branch = Unfiltered /\ ask.status = Unfiltered
      <3>1. \A S : S \subseteq DOMAIN runs => F(S) = S
        BY <2>1 DEF Filtered, Matches
      <3>2. F(list) = list /\ F(DOMAIN runs) = DOMAIN runs
        BY <3>1 DEF Newest
      <3> QED BY <1>4, <1>5, <3>2
    <2>2. CASE ask.branch # Unfiltered \/ ask.status # Unfiltered
      <3>1. ~(Cardinality(F(list)) < want)
        BY <1>4, <2>2 DEF Underfilled
      <3>2. Cardinality(F(list)) \in Nat
        BY <1>7, FS_CardinalityType DEF Numbered
      <3> QED BY <3>1, <3>2
    <2> QED BY <2>1, <2>2
  <1> HIDE DEF F, list
  <1>9. Newest(want, F(list)) = Newest(want, F(DOMAIN runs))
    BY <1>6, <1>7, <1>8, NewestGoesOn
  <1> QED BY <1>4, <1>9, WantedIs DEF F, list

\* A step that cuts the first runs.
LEMMA CutsRightly ==
    ASSUME RunListsInv, SharedSize(ask) # NoSize,
           Cut(Newest(SharedSize(ask), DOMAIN runs))
    PROVE  RunListsInv'
  <1>1. UNCHANGED <<runs, ask>>
    BY DEF Cut
  <1>2. CASE Underfilled(ask, Newest(SharedSize(ask), DOMAIN runs))
    <2>1. reply' = [stage |-> "exact", runs |-> {}]
      BY <1>2 DEF Cut, NoReply
    <2> QED BY <1>1, <2>1 DEF RunListsInv, RunListsAreExact, SharedSize, Requested
  <1>3. CASE ~Underfilled(ask, Newest(SharedSize(ask), DOMAIN runs))
    <2>1. reply' = [stage |-> "sent", runs |-> Wanted(ask)]
      BY <1>3, CutIsWanted DEF Cut, Replies
    <2> QED BY <1>1, <2>1 DEF RunListsInv, RunListsAreExact, Wanted
  <1> QED BY <1>2, <1>3

LEMMA RunListsInitially == RunListsInit => RunListsInv
  BY DEF RunListsInit, RunListsInv, NoReply, RunListsAreExact, RunRequest

LEMMA RunListsStep == RunListsInv /\ [RunListsNext]_runVars => RunListsInv'
  <1> SUFFICES ASSUME RunListsInv, [RunListsNext]_runVars PROVE RunListsInv'
    OBVIOUS
  <1>1. PICK n \in Nat : DOMAIN runs = 1..n
    BY AllRuns
  <1>2. ask \in RunRequest
    BY DEF RunListsInv
  <1>3. CASE UNCHANGED runVars
    BY <1>3 DEF runVars, RunListsInv, RunListsAreExact, SharedSize, Requested, Wanted
  <1>4. CASE FromShared
    BY <1>4, CutsRightly DEF FromShared
  <1>5. ASSUME NEW total, FromLarger(total) PROVE RunListsInv'
    <2>1. SharedSize(ask) = SmallPage /\ SharedSize(ask) # NoSize
          /\ Cut(Newest(SmallPage, Newest(BigPage, DOMAIN runs)))
      BY <1>2, <1>5, RunNumbers DEF FromLarger, NoSize
    <2>2. Newest(SmallPage, Newest(BigPage, DOMAIN runs)) = Newest(SmallPage, DOMAIN runs)
      <3>1. Least(BigPage, SmallPage) = SmallPage /\ SmallPage \in Nat /\ BigPage \in Nat
        BY <1>2, RunNumbers DEF Least
      <3> QED BY <1>1, <3>1, Numbers1To, NewestOfNewest
    <2> QED BY <2>1, <2>2, CutsRightly
  <1>6. CASE Exact
    <2> DEFINE found == Filtered(ask, DOMAIN runs)
               list == Newest(ExactSize(ask), found)
               limit == IF SharedSize(ask) # NoSize THEN Requested(ask) ELSE ShapeLimit(ask)
    <2>1. Numbered(found) /\ ExactSize(ask) \in Nat /\ limit \in Nat
      <3>1. found \subseteq 1..n
        BY <1>1 DEF Filtered
      <3>2. Numbered(found)
        BY <3>1, Numbers1To, FS_Subset DEF Numbered
      <3> QED BY <1>2, <3>2, ExactSizes, SharedSizes
    <2>2. Filtered(ask, list) = list
      BY DEF Filtered, Newest
    <2>3. reply' = [stage |-> "sent", runs |-> IF limit = NoSize THEN list
                                               ELSE Newest(limit, list)]
      BY <1>6, <2>2 DEF Exact, Replies
    <2>4. CASE limit = NoSize
      <3>1. ExactSize(ask) = SizeWanted(ask)
        BY <1>2, <2>4, ExactSizes
      <3> QED BY <1>6, <2>3, <2>4, <3>1, WantedIs
          DEF Exact, RunListsInv, RunListsAreExact, Wanted
    <2>5. CASE limit # NoSize
      <3>1. Least(ExactSize(ask), limit) = SizeWanted(ask)
        BY <1>2, <2>5, ExactSizes
      <3>2. Newest(limit, list) = Newest(SizeWanted(ask), found)
        BY <2>1, <3>1, NewestOfNewest
      <3> QED BY <1>6, <2>3, <2>5, <3>2, WantedIs
          DEF Exact, RunListsInv, RunListsAreExact, Wanted
    <2> QED BY <2>4, <2>5
  <1> QED BY <1>3, <1>4, <1>5, <1>6 DEF RunListsNext

LEMMA RunListsAlways == RunListsSpec => []RunListsInv
  BY RunListsInitially, RunListsStep, PTL DEF RunListsSpec

\* A summary holds runs of the list, and no more than GitHub sends.
THEOREM RunListsTypeCorrect == RunListsSpec => []RunListsTypeOK
  <1>1. RunListsInv => RunListsTypeOK
    <2> SUFFICES ASSUME RunListsInv PROVE RunListsTypeOK
      OBVIOUS
    <2>1. PICK n \in Nat : n <= MaxRuns /\ DOMAIN runs = 1..n /\ Len(runs) = n
      BY AllRuns
    <2>2. ask \in RunRequest
      BY DEF RunListsInv
    <2>3. PICK size \in Nat : size = SizeWanted(ask) /\ size <= BigPage
      BY <2>2, ExactSizes
    <2>4. PICK found : found = Filtered(ask, DOMAIN runs)
      OBVIOUS
    <2>5. Numbered(found) /\ found \subseteq DOMAIN runs
      <3>1. found \subseteq 1..n
        BY <2>1, <2>4 DEF Filtered
      <3> QED BY <2>1, <3>1, Numbers1To, FS_Subset DEF Numbered
    <2>6. reply.runs = {} \/ reply.runs = Newest(size, found)
      BY <2>3, <2>4, WantedIs DEF RunListsInv, RunListsAreExact
    <2>7. reply.runs \subseteq DOMAIN runs /\ Cardinality(reply.runs) <= BigPage
      <3>1. CASE reply.runs = {}
        BY <2>2, <3>1, FS_EmptySet, RunNumbers
      <3>2. CASE reply.runs = Newest(size, found)
        <4>1. Newest(size, found) \subseteq DOMAIN runs
          BY <2>5 DEF Newest
        <4>2. Cardinality(Newest(size, found)) <= size
          BY <2>5, NewestIsShort
        <4>3. Cardinality(Newest(size, found)) \in Nat
          BY <2>5, NewestOf, FS_CardinalityType DEF Numbered
        <4> QED BY <2>2, <2>3, <3>2, <4>1, <4>2, <4>3, RunNumbers
      <3> QED BY <2>6, <3>1, <3>2
    <2> QED BY <2>1, <2>7 DEF RunListsInv, RunListsTypeOK
  <1> QED BY <1>1, RunListsAlways, PTL

\* Whichever list a summary of runs is cut from, and whatever sizes are asked for,
\* it holds exactly the runs that GitHub would have sent: the newest that match, as
\* many as were asked for and as there are.
THEOREM RunListsStayExact == RunListsSpec => []RunListsAreExact
  <1>1. RunListsInv => RunListsAreExact
    BY DEF RunListsInv
  <1> QED BY <1>1, RunListsAlways, PTL
================================================================================
