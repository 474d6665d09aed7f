---------------------------- MODULE RelayFlowProofs ----------------------------
(***************************************************************************)
(* Proofs about RelayFlow, for every set of requests, identities and kinds *)
(* of routes, every placement in isolates and every number of failures.    *)
(***************************************************************************)
EXTENDS RelayFlow, TLAPS, FiniteSetTheorems

Upstream ==
    {"revalidate", "revaltoken", "revalcall", "tokenfree",
     "public", "pooltoken", "poolcall", "fetched", "finalize"}

\* Where a relay has a fill, and of what key.
FillFits(q) ==
    /\ q.fill \in {NoKey, q.key}
    /\ q.stage \in {"new", "lookup", "coalesce", "served", "done", "admitting", "dead"}
          => q.fill = NoKey
    /\ q.stage = "aborting" /\ q.then = "late" => q.fill = NoKey
    /\ q.stage \in Upstream => q.fill = q.key

\* Which key a relay is at.
KeyFits(q) ==
    /\ q.stage # "new" => q.key \in Keys /\ q.key[1] = Shape(q)
    /\ q.stage \in {"lookup", "revalidate", "tokenfree", "public"} => q.key = SharedKey(q)
    /\ q.stage = "coalesce" =>
          \/ q.then \in {"revalidate", "tokenfree"} /\ q.key = SharedKey(q)
          \/ /\ q.then \in {"revaltoken", "pooltoken"}
             /\ q.who \in Identities /\ q.key = <<Shape(q), q.who>>
    /\ q.stage \in {"revaltoken", "pooltoken", "poolcall", "fetched"} =>
          q.who \in Identities /\ q.key = <<Shape(q), q.who>>
    /\ q.stage = "pool" => q.key[2] \in q.failed \cup {Nobody}

\* What a relay will refresh.
RefreshFits(q) ==
    /\ q.refresh # NoKey /\ ~q.background =>
          q.stage \in {"closing", "done"} /\ q.refresh = SharedKey(q)
    /\ q.stage = "admitting" => q.background /\ q.refresh = SharedKey(q)
    /\ q.stage = "done" /\ q.background => q.refresh = NoKey

Fits(q) == FillFits(q) /\ KeyFits(q) /\ RefreshFits(q)

RelayInv == TypeOK /\ NoFillIsLeftBehind /\ \A c \in Requests : Fits(req[c])

LEMMA Names == Nobody \notin Requests /\ Nobody \notin Identities /\ NoKey \notin Keys
<1>1. Nobody \notin Requests /\ Nobody \notin Identities
  BY RelayAssumption
<1>2. NoKey \notin Keys
  BY DEF NoKey, Keys, Shapes
<1> QED
  BY <1>1, <1>2

LEMMA StageNames ==
    /\ "new" \in Stages /\ "lookup" \in Stages /\ "coalesce" \in Stages /\ "revalcall" \in Stages
    /\ "restore" \in Stages /\ "tokenfree" \in Stages /\ "public" \in Stages
    /\ "pool" \in Stages /\ "poolcall" \in Stages /\ "fetched" \in Stages
    /\ "finalize" \in Stages /\ "served" \in Stages /\ "throwing" \in Stages
    /\ "failing" \in Stages /\ "closing" \in Stages /\ "aborting" \in Stages
    /\ "admitting" \in Stages /\ "done" \in Stages /\ "dead" \in Stages
  BY DEF Stages

\* A request that is neither waiting to begin nor over.
Busy(q) ==
    /\ q \in RequestType
    /\ q.fill \in {NoKey, q.key}
    /\ q.key \in Keys /\ q.key[1] = Shape(q)
    /\ q.refresh # NoKey => q.background

LEMMA WorkingIsBusy ==
    ASSUME NEW q \in RequestType, Fits(q),
           q.stage \notin {"new", "closing", "done"}
    PROVE  Busy(q)
  BY DEF Fits, FillFits, KeyFits, RefreshFits, Busy

LEMMA ThrowFits ==
    ASSUME NEW q, Busy(q)
    PROVE  Throw(q) \in RequestType /\ Fits(Throw(q)) /\ Throw(q).fill = q.fill
  BY StageNames DEF Throw, Busy, Fits, FillFits, KeyFits, RefreshFits, RequestType, Upstream, Shape

LEMMA AnswerFits ==
    ASSUME NEW q, Busy(q), NEW a \in {"none", "cached", "stale", "data", "handed"}
    PROVE  /\ Answer(q, a) \in RequestType /\ Fits(Answer(q, a))
           /\ Answer(q, a).fill = q.fill
<1> DEFINE r == Answer(q, a)
<1>1. PICK b \in {"none", "cached", "stale", "data", "handed"} :
          r = [q EXCEPT !.stage = "closing", !.answer = b]
  BY DEF Answer, Busy, RequestType
<1>2. r \in RequestType
  BY <1>1, StageNames DEF Busy, RequestType
<1>3. Fits(r) /\ r.fill = q.fill
  BY <1>1 DEF Busy, Fits, FillFits, KeyFits, RefreshFits, RequestType, Upstream, Shape
<1> QED
  BY <1>2, <1>3

\* What a step of a request leaves of the rest of the state.
LEMMA GoKeeps ==
    ASSUME RelayInv, NEW c \in Requests, NEW q \in RequestType, Fits(q),
           q.fill = req[c].fill, Go(c, q), UNCHANGED outside
    PROVE  RelayInv'
<1>1. TypeOK'
  BY DEF RelayInv, TypeOK, Go, tables, outside, Fits, FillFits
<1>2. NoFillIsLeftBehind'
  BY Names DEF RelayInv, TypeOK, NoFillIsLeftBehind, Go, tables
<1>3. ASSUME NEW d \in Requests PROVE Fits(req'[d])
  <2>1. CASE d = c
    BY <2>1 DEF Go, RelayInv, TypeOK
  <2>2. CASE d # c
    BY <2>2 DEF Go, RelayInv, TypeOK
  <2> QED
    BY <2>1, <2>2
<1> QED
  BY <1>1, <1>2, <1>3 DEF RelayInv, Fits, FillFits, KeyFits, RefreshFits, Shape, SharedKey, Upstream

LEMMA FailKeeps ==
    ASSUME RelayInv, NEW c \in Requests, NEW q, q.fill = NoKey,
           Fail(c, req[c].fill), req' = [req EXCEPT ![c] = q]
    PROVE  /\ owner' \in [Keys -> Requests \cup {Nobody}]
           /\ lost' \subseteq Keys /\ faults' \in Nat
           /\ NoFillIsLeftBehind'
<1> USE Names
<1>1. CASE req[c].fill = NoKey
  BY <1>1 DEF Fail, RelayInv, TypeOK, NoFillIsLeftBehind
<1>2. CASE req[c].fill # NoKey
  <2>1. req[c].fill \in Keys
    BY <1>2 DEF RelayInv, TypeOK, RequestType
  <2>2. CASE /\ owner' = [owner EXCEPT ![req[c].fill] = IF @ = c THEN Nobody ELSE @]
             /\ UNCHANGED <<lost, faults>>
    BY <2>1, <2>2 DEF RelayInv, TypeOK, NoFillIsLeftBehind
  <2>3. CASE /\ owner[req[c].fill] = c /\ lost' = lost \cup {req[c].fill}
             /\ Fault /\ UNCHANGED owner
    <3>1. faults' \in Nat
      BY <2>3 DEF Fault, RelayInv, TypeOK
    <3> QED
      BY <2>1, <2>3, <3>1 DEF RelayInv, TypeOK, NoFillIsLeftBehind
  <2> QED
    BY <1>2, <2>2, <2>3 DEF Fail
<1> QED
  BY <1>1, <1>2

\* What a relay is after it moved to k.
Moved(q, k) == [q EXCEPT !.key = k, !.fill = IF k = q.key THEN @ ELSE NoKey]

LEMMA MovedIs ==
    ASSUME NEW p \in RequestType, NEW k \in Keys
    PROVE  LET r == Moved(p, k)
           IN  /\ r \in RequestType /\ r.key = k
               /\ r.fill = IF k = p.key THEN p.fill ELSE NoKey
               /\ r.stage = p.stage /\ r.exact = p.exact /\ r.who = p.who /\ r.then = p.then
               /\ r.failed = p.failed /\ r.refresh = p.refresh
               /\ r.background = p.background
<1> DEFINE r == Moved(p, k)
<1>1. PICK f \in Keys \cup {NoKey} :
          r = [p EXCEPT !.key = k, !.fill = f] /\ f = IF k = p.key THEN p.fill ELSE NoKey
  BY DEF Moved, RequestType
<1> HIDE DEF r
<1>2. r \in RequestType
  BY <1>1 DEF RequestType
<1> QED
  BY <1>1, <1>2 DEF r, RequestType

\* A step that gives the relay c the state r, and keeps the shape of the rest.
LEMMA StepKeeps ==
    ASSUME RelayInv, NEW c \in Requests, NEW r \in RequestType, Fits(r),
           req' = [req EXCEPT ![c] = r],
           visibility' \in {"public", "private"},
           body' \in [Keys -> {"none", "fresh", "stale"}],
           owner' \in [Keys -> Requests \cup {Nobody}],
           refresher' \in [Keys -> Requests \cup {Nobody}],
           lost' \subseteq Keys,
           pending' \in [{IsolateOf[d] : d \in Requests} -> SUBSET Keys],
           faults' \in Nat,
           NoFillIsLeftBehind'
    PROVE  RelayInv'
<1>1. TypeOK'
  BY DEF RelayInv, TypeOK, Fits, FillFits
<1>2. ASSUME NEW d \in Requests PROVE Fits(req'[d])
  <2>1. CASE d = c
    BY <2>1 DEF RelayInv, TypeOK
  <2>2. CASE d # c
    BY <2>2 DEF RelayInv, TypeOK
  <2> QED
    BY <2>1, <2>2
<1> QED
  BY <1>1, <1>2 DEF RelayInv, Fits, FillFits, KeyFits, RefreshFits, Shape, SharedKey, Upstream

LEMMA SwitchKeyKeeps ==
    ASSUME RelayInv, NEW c \in Requests, NEW q \in RequestType, NEW k \in Keys,
           q.fill = req[c].fill, Moved(q, k) \in RequestType, Fits(Moved(q, k)),
           SwitchKey(c, q, k), UNCHANGED outside
    PROVE  RelayInv'
<1> DEFINE r == Moved(q, k)
<1>1. req' = [req EXCEPT ![c] = r] /\ UNCHANGED body
  BY DEF SwitchKey, Moved
<1>2. CASE k = q.key
  <2>1. r.fill = req[c].fill /\ UNCHANGED <<owner, lost, faults>>
    BY <1>2 DEF SwitchKey, Moved, RequestType
  <2>2. NoFillIsLeftBehind'
    BY <1>1, <2>1, Names DEF RelayInv, TypeOK, NoFillIsLeftBehind
  <2> QED
    BY <1>1, <2>1, <2>2, StepKeeps DEF outside, RelayInv, TypeOK
<1>3. CASE k # q.key
  <2>1. r.fill = NoKey /\ Fail(c, req[c].fill)
    BY <1>3 DEF SwitchKey, Moved, RequestType
  <2> HIDE DEF r
  <2>2. /\ owner' \in [Keys -> Requests \cup {Nobody}]
        /\ lost' \subseteq Keys /\ faults' \in Nat
        /\ NoFillIsLeftBehind'
    BY <1>1, <2>1, FailKeeps
  <2> QED
    BY <1>1, <2>2, StepKeeps DEF r, outside, RelayInv, TypeOK
<1> QED
  BY <1>2, <1>3

\* A relay that ends with an answer moves to any key of its shape.
LEMMA ClosingMoves ==
    ASSUME NEW p \in RequestType, p.stage = "closing",
           p.fill \in {NoKey, p.key}, p.refresh # NoKey => p.background,
           NEW k \in Keys, k[1] = Shape(p)
    PROVE  Moved(p, k) \in RequestType /\ Fits(Moved(p, k))
<1> DEFINE r == Moved(p, k)
<1>1. PICK f \in {NoKey, p.fill} : r = [p EXCEPT !.key = k, !.fill = f] /\ f \in {NoKey, k}
  BY DEF Moved, RequestType
<1> HIDE DEF r
<1>2. r \in RequestType
  BY <1>1 DEF RequestType
<1>3. Fits(r)
  BY <1>1 DEF Fits, FillFits, KeyFits, RefreshFits, RequestType, Upstream, Shape
<1> QED
  BY <1>2, <1>3 DEF r

\* So does one that ends with the exact list.
LEMMA ExactMoves ==
    ASSUME NEW q, Busy(q), NEW a \in {"none", "cached", "stale", "data", "handed"},
           NEW k \in Keys, k[1] = "exact"
    PROVE  LET p == [Answer(q, a) EXCEPT !.exact = TRUE, !.who = k[2]]
           IN  /\ p \in RequestType /\ p.fill = q.fill
               /\ Moved(p, k) \in RequestType /\ Fits(Moved(p, k))
<1> DEFINE p == [Answer(q, a) EXCEPT !.exact = TRUE, !.who = k[2]]
<1>1. PICK b \in {"none", "cached", "stale", "data", "handed"} :
          Answer(q, a) = [q EXCEPT !.stage = "closing", !.answer = b]
  BY DEF Answer, Busy, RequestType
<1>2. k[2] \in Identities \cup {Nobody}
  BY DEF Keys
<1>3. p = [q EXCEPT !.stage = "closing", !.answer = b, !.exact = TRUE, !.who = k[2]]
  BY <1>1
<1> HIDE DEF p
<1>4. p \in RequestType /\ p.fill = q.fill /\ p.stage = "closing" /\ p.exact = TRUE
  BY <1>2, <1>3, StageNames DEF Busy, RequestType
<1>5. p.refresh # NoKey => p.background
  BY <1>3 DEF Busy, RequestType
<1>6. p.fill \in {NoKey, p.key}
  BY <1>3 DEF Busy, RequestType
<1> QED
  BY <1>4, <1>5, <1>6, ClosingMoves DEF p, Shape

LEMMA StartExactKeeps ==
    ASSUME RelayInv, NEW c \in Requests, NEW q, Busy(q), q.fill = req[c].fill,
           ~q.exact \/ q.fill = NoKey, StartExact(c, q), UNCHANGED outside
    PROVE  RelayInv'
<1> DEFINE p == [q EXCEPT !.exact = TRUE, !.who = Nobody, !.stage = "lookup",
                          !.nested = q.nested \/ q.reval, !.reval = FALSE,
                          !.guard = "none"]
           k == <<"exact", Nobody>>
           r == Moved(p, k)
<1>1. k \in Keys
  BY DEF Keys, Shapes
<1>2. \/ p = [q EXCEPT !.exact = TRUE, !.who = Nobody, !.stage = "lookup",
                        !.nested = TRUE, !.reval = FALSE, !.guard = "none"]
      \/ p = [q EXCEPT !.exact = TRUE, !.who = Nobody, !.stage = "lookup",
                        !.nested = FALSE, !.reval = FALSE, !.guard = "none"]
  <2>1. (q.nested \/ q.reval) = TRUE \/ (q.nested \/ q.reval) = FALSE
    BY DEF Busy, RequestType
  <2> QED
    BY <2>1 DEF Busy, RequestType
<1> HIDE DEF p
<1>3. p \in RequestType /\ p.fill = q.fill /\ p.key = q.key
  BY <1>2, StageNames DEF Busy, RequestType
<1>4. /\ p.stage = "lookup" /\ p.exact = TRUE
      /\ p.refresh # NoKey => p.background
  BY <1>2 DEF Busy, RequestType
<1>5. k = p.key => p.fill = NoKey
  BY <1>3 DEF Busy, Shape
<1>6. r = [p EXCEPT !.key = k, !.fill = NoKey]
  BY <1>3, <1>5 DEF Moved, Busy, RequestType
<1> HIDE DEF r
<1>7. r \in RequestType
  BY <1>1, <1>3, <1>6 DEF RequestType
<1>8. Fits(r)
  BY <1>1, <1>3, <1>4, <1>6 DEF Fits, FillFits, KeyFits, RefreshFits, RequestType,
                                Upstream, Shape, SharedKey
<1>9. SwitchKey(c, p, k)
  BY DEF StartExact, p
<1> HIDE DEF k
<1> QED
  BY <1>1, <1>3, <1>7, <1>8, <1>9, SwitchKeyKeeps DEF r

LEMMA ServeFreshKeeps ==
    ASSUME RelayInv, NEW c \in Requests, NEW q, Busy(q), q.fill = req[c].fill,
           NEW k \in Keys, k[1] = Shape(q), ServeFresh(c, q, k), UNCHANGED outside
    PROVE  RelayInv'
<1>1. CASE SwitchKey(c, Answer(q, "cached"), k)
  <2> DEFINE p == Answer(q, "cached")
  <2>1. p \in RequestType /\ p.fill = q.fill
    BY AnswerFits
  <2>2. p.stage = "closing" /\ Shape(p) = Shape(q) /\ (p.refresh # NoKey => p.background)
    BY DEF Answer, Busy, RequestType, Shape
  <2> HIDE DEF p
  <2>3. Moved(p, k) \in RequestType /\ Fits(Moved(p, k))
    BY <2>1, <2>2, ClosingMoves, AnswerFits DEF Fits, FillFits, p
  <2> QED
    BY <1>1, <2>1, <2>3, SwitchKeyKeeps DEF p
<1>2. CASE ~q.exact /\ StartExact(c, q)
  BY <1>2, StartExactKeeps
<1> QED
  BY <1>1, <1>2 DEF ServeFresh

LEMMA ServeStaleKeeps ==
    ASSUME RelayInv, NEW c \in Requests, Busy(req[c]), ServeStale(c, req[c]),
           UNCHANGED outside
    PROVE  RelayInv'
<1> DEFINE q == req[c]
<1>1. CASE Go(c, Answer(q, "stale"))
  BY <1>1, AnswerFits, GoKeeps
<1>2. ASSUME NEW k \in ExactKeys(q),
             SwitchKey(c, [Answer(q, "stale") EXCEPT !.exact = TRUE, !.who = k[2]], k)
      PROVE  RelayInv'
  <2> DEFINE p == [Answer(q, "stale") EXCEPT !.exact = TRUE, !.who = k[2]]
  <2>1. k \in Keys /\ k[1] = "exact" /\ k[2] \in Identities \cup {Nobody}
    BY <1>2 DEF ExactKeys, Keys, Shapes
  <2>2. /\ p \in RequestType /\ p.fill = q.fill
        /\ Moved(p, k) \in RequestType /\ Fits(Moved(p, k))
    BY <2>1, ExactMoves
  <2> HIDE DEF p
  <2> QED
    BY <1>2, <2>1, <2>2, SwitchKeyKeeps DEF p
<1> QED
  BY <1>1, <1>2 DEF ServeStale

--------------------------------------------------------------------------------
(* The steps, by the sections of RelayFlow.                                *)

LEMMA BeginKeeps ==
    ASSUME RelayInv, NEW c \in Requests, NEW kind \in Kinds, Begin(c, kind)
    PROVE  RelayInv'
<1> DEFINE q == req[c]
           r(e, k) == [q EXCEPT !.stage = "lookup", !.kind = kind, !.exact = e, !.key = k]
<1>1. q \in RequestType /\ Fits(q) /\ q.stage = "new" /\ UNCHANGED outside
  BY DEF RelayInv, TypeOK, Begin
<1>2. kind.superset \in BOOLEAN
  BY RelayAssumption DEF KindType
<1>3. \/ Go(c, r(TRUE, <<"exact", Nobody>>))
      \/ Go(c, r(FALSE, <<"wide", Nobody>>))
  BY <1>2 DEF Begin
<1>4. <<"exact", Nobody>> \in Keys /\ <<"wide", Nobody>> \in Keys
  BY DEF Keys, Shapes
<1>5. ASSUME NEW e \in BOOLEAN, NEW k, k = <<IF e THEN "exact" ELSE "wide", Nobody>>,
             Go(c, r(e, k))
      PROVE  RelayInv'
  <2>1. CASE e = TRUE
    <3>1. r(TRUE, <<"exact", Nobody>>) \in RequestType
      BY <1>1, <1>4, StageNames DEF RequestType
    <3>2. Fits(r(TRUE, <<"exact", Nobody>>)) /\ r(TRUE, <<"exact", Nobody>>).fill = q.fill
      BY <1>1, <1>4 DEF RequestType, Fits, FillFits, KeyFits, RefreshFits, Shape, SharedKey, Upstream
    <3> QED
      BY <1>1, <1>5, <2>1, <3>1, <3>2, GoKeeps
  <2>2. CASE e = FALSE
    <3>1. r(FALSE, <<"wide", Nobody>>) \in RequestType
      BY <1>1, <1>4, StageNames DEF RequestType
    <3>2. Fits(r(FALSE, <<"wide", Nobody>>)) /\ r(FALSE, <<"wide", Nobody>>).fill = q.fill
      BY <1>1, <1>4 DEF RequestType, Fits, FillFits, KeyFits, RefreshFits, Shape, SharedKey, Upstream
    <3> QED
      BY <1>1, <1>5, <2>2, <3>1, <3>2, GoKeeps
  <2> QED
    BY <2>1, <2>2
<1> QED
  BY <1>3, <1>5

LEMMA HitKeeps ==
    ASSUME RelayInv, NEW c \in Requests, Hit(c)
    PROVE  RelayInv'
<1> DEFINE q == req[c]
<1>1. Busy(q) /\ UNCHANGED outside
  BY WorkingIsBusy DEF RelayInv, TypeOK, Hit
<1>2. ASSUME NEW k \in {q.key} \cup IdentityKeys(q),
             ServeFresh(c, [q EXCEPT !.who = k[2]], k)
      PROVE  RelayInv'
  <2> DEFINE p == [q EXCEPT !.who = k[2]]
  <2>1. k \in Keys /\ k[1] = Shape(q) /\ k[2] \in Identities \cup {Nobody}
    BY <1>1 DEF Busy, IdentityKeys, Keys, Shapes, Shape
  <2>2. Busy(p) /\ p.fill = q.fill /\ Shape(p) = Shape(q)
    BY <1>1, <2>1 DEF Busy, RequestType, Shape
  <2> HIDE DEF p
  <2> QED
    BY <1>1, <1>2, <2>1, <2>2, ServeFreshKeeps DEF p
<1>3. ASSUME NEW k \in ExactKeys(q),
             SwitchKey(c, [Answer(q, "cached") EXCEPT !.exact = TRUE, !.who = k[2]], k)
      PROVE  RelayInv'
  <2> DEFINE p == [Answer(q, "cached") EXCEPT !.exact = TRUE, !.who = k[2]]
  <2>1. k \in Keys /\ k[1] = "exact"
    BY <1>3 DEF ExactKeys, Keys, Shapes
  <2>2. /\ p \in RequestType /\ p.fill = q.fill
        /\ Moved(p, k) \in RequestType /\ Fits(Moved(p, k))
    BY <1>1, <2>1, ExactMoves
  <2> HIDE DEF p
  <2> QED
    BY <1>1, <1>3, <2>1, <2>2, SwitchKeyKeeps DEF p
<1> QED
  BY <1>2, <1>3 DEF Hit

LEMMA HitStaleKeeps ==
    ASSUME RelayInv, NEW c \in Requests, HitStale(c)
    PROVE  RelayInv'
<1> DEFINE q == req[c]
           r(e, k) == [q EXCEPT !.stage = "closing", !.answer = "stale", !.exact = e, !.refresh = k]
           wide == <<"wide", Nobody>>
           exact == <<"exact", Nobody>>
<1>1. /\ Busy(q) /\ Fits(q) /\ q.stage = "lookup" /\ q.background = FALSE
      /\ UNCHANGED outside
  BY WorkingIsBusy DEF RelayInv, TypeOK, RequestType, HitStale
<1>2. ASSUME NEW e, NEW k
      PROVE  [Answer(q, "stale") EXCEPT !.exact = e, !.refresh = k] = r(e, k)
  BY <1>1 DEF Answer
<1>3. wide \in Keys /\ exact \in Keys
  BY DEF Keys, Shapes
<1>4. q.fill = NoKey
  BY <1>1 DEF Fits, FillFits
<1>5. r(TRUE, exact) \in RequestType /\ r(FALSE, wide) \in RequestType
  BY <1>1, <1>3, StageNames DEF Busy, RequestType
<1>6. /\ r(TRUE, exact).fill = NoKey /\ r(FALSE, wide).fill = NoKey
      /\ q.exact = TRUE => Fits(r(TRUE, exact))
      /\ q.exact = FALSE => Fits(r(FALSE, wide))
  BY <1>1, <1>3, <1>4 DEF Busy, RequestType, Fits, FillFits, KeyFits, RefreshFits,
                                Shape, SharedKey, Upstream
<1> DEFINE p == r(TRUE, exact)
           m == Moved(p, exact)
<1>7. /\ p.stage = "closing" /\ p.exact = TRUE /\ p.refresh = exact
      /\ p.background = FALSE /\ p.fill = NoKey
  BY <1>1, <1>4 DEF Busy, RequestType
<1>8. p \in RequestType
  BY <1>5
<1> HIDE DEF p
<1>9. /\ m \in RequestType /\ m.key = exact /\ m.fill = NoKey
       /\ m.stage = "closing" /\ m.exact = TRUE /\ m.refresh = exact /\ m.background = FALSE
  BY <1>3, <1>7, <1>8, MovedIs
<1> HIDE DEF m
<1>10. m \in RequestType /\ Fits(m)
  BY <1>3, <1>9 DEF Fits, FillFits, KeyFits, RefreshFits, Shape, SharedKey, Upstream
<1>11. CASE Go(c, r(q.exact, <<IF q.exact THEN "exact" ELSE "wide", Nobody>>))
  <2>1. CASE q.exact = TRUE
    BY <1>1, <1>4, <1>5, <1>6, <1>11, <2>1, GoKeeps
  <2>2. CASE q.exact = FALSE
    BY <1>1, <1>4, <1>5, <1>6, <1>11, <2>2, GoKeeps
  <2> QED
    BY <1>1, <2>1, <2>2 DEF Busy, RequestType
<1>12. CASE SwitchKey(c, r(TRUE, exact), exact)
  BY <1>1, <1>3, <1>4, <1>5, <1>6, <1>12, <1>10, SwitchKeyKeeps DEF p, m
<1> QED
  BY <1>2, <1>11, <1>12 DEF HitStale

LEMMA MissKeeps ==
    ASSUME RelayInv, NEW c \in Requests, Miss(c)
    PROVE  RelayInv'
<1> DEFINE q == req[c]
           r == [q EXCEPT !.stage = "coalesce", !.then = "revalidate"]
<1>1. Busy(q) /\ Fits(q) /\ q.stage = "lookup" /\ UNCHANGED outside
  BY WorkingIsBusy DEF RelayInv, TypeOK, Miss
<1>2. r \in RequestType /\ Fits(r) /\ r.fill = q.fill
  BY <1>1, StageNames DEF Busy, RequestType, Fits, FillFits, KeyFits, RefreshFits,
              Shape, SharedKey, Upstream
<1>3. CASE Go(c, r)
  BY <1>1, <1>2, <1>3, GoKeeps
<1>4. CASE Go(c, Answer(q, "handed"))
  BY <1>1, <1>4, AnswerFits, GoKeeps
<1> QED
  BY <1>3, <1>4 DEF Miss

\* A relay with no fill is granted that of k.
LEMMA OwnKeeps ==
    ASSUME RelayInv, NEW c \in Requests, req[c].fill = NoKey,
           NEW k \in Keys, owner' = [owner EXCEPT ![k] = c],
           NEW r \in RequestType, Fits(r), r.fill = k, req' = [req EXCEPT ![c] = r],
           UNCHANGED <<body, lost, faults, outside>>
    PROVE  RelayInv'
<1>1. owner' \in [Keys -> Requests \cup {Nobody}]
  BY DEF RelayInv, TypeOK
<1>2. NoFillIsLeftBehind'
  BY Names DEF RelayInv, TypeOK, NoFillIsLeftBehind
<1> QED
  BY <1>1, <1>2, StepKeeps DEF RelayInv, TypeOK, outside

LEMMA CoalesceKeeps ==
    ASSUME RelayInv, NEW c \in Requests, Coalesce(c)
    PROVE  RelayInv'
<1> DEFINE q == req[c]
<1>1. /\ Busy(q) /\ Fits(q) /\ q.stage = "coalesce" /\ q.fill = NoKey /\ q.key \in Keys
      /\ UNCHANGED outside
  BY WorkingIsBusy DEF RelayInv, TypeOK, Coalesce, Fits, FillFits, Busy
<1>2. ASSUME NEW p, p \in {[q EXCEPT !.stage = q.then], Answer(q, "cached")},
             owner' = [owner EXCEPT ![q.key] = c],
             req' = [req EXCEPT ![c] = [p EXCEPT !.fill = q.key]],
             UNCHANGED <<body, lost, faults>>
      PROVE  RelayInv'
  <2> DEFINE r == [p EXCEPT !.fill = q.key]
  <2>1. r \in RequestType /\ Fits(r) /\ r.fill = q.key
    <3>1. CASE p = [q EXCEPT !.stage = q.then]
      <4>1. q.then \in Stages \cap Upstream
        BY <1>1 DEF Fits, KeyFits, Stages, Upstream
      <4>2. r = [q EXCEPT !.stage = q.then, !.fill = q.key]
        BY <3>1
      <4> HIDE DEF r
      <4>3. r \in RequestType
        BY <1>1, <4>1, <4>2 DEF Busy, RequestType
      <4> QED
        BY <1>1, <4>2, <4>3 DEF Busy, RequestType, Fits, FillFits, KeyFits, RefreshFits,
                                Shape, SharedKey, Upstream
    <3>2. CASE p = Answer(q, "cached")
      <4>1. PICK b \in {q.answer, "cached"} :
                r = [q EXCEPT !.stage = "closing", !.answer = b, !.fill = q.key]
        BY <3>2 DEF Answer
      <4> HIDE DEF r
      <4>2. r \in RequestType
        BY <1>1, <4>1, StageNames DEF Busy, RequestType
      <4> QED
        BY <1>1, <4>1, <4>2 DEF Busy, RequestType, Fits, FillFits, KeyFits, RefreshFits,
                                Shape, SharedKey, Upstream
    <3> QED
      BY <1>2, <3>1, <3>2
  <2> HIDE DEF r
  <2> QED
    BY <1>1, <1>2, <2>1, OwnKeeps DEF r
<1>3. CASE ServeFresh(c, q, q.key)
  BY <1>1, <1>3, ServeFreshKeeps DEF Busy
<1>4. CASE /\ owner' = [owner EXCEPT ![q.key] = c]
           /\ lost' = lost \cup {q.key} /\ Fault /\ UNCHANGED <<body, req>>
  <2>1. owner' \in [Keys -> Requests \cup {Nobody}] /\ lost' \subseteq Keys /\ faults' \in Nat
    BY <1>1, <1>4 DEF RelayInv, TypeOK, Fault
  <2>2. NoFillIsLeftBehind'
    BY <1>1, <1>4 DEF RelayInv, TypeOK, NoFillIsLeftBehind
  <2>3. req' = [req EXCEPT ![c] = q] /\ q \in RequestType
    BY <1>4 DEF RelayInv, TypeOK
  <2> QED
    BY <1>1, <1>4, <2>1, <2>2, <2>3, StepKeeps DEF RelayInv, TypeOK, outside
<1>5. CASE Go(c, Throw(q))
  BY <1>1, <1>5, ThrowFits, GoKeeps
<1> QED
  BY <1>2, <1>3, <1>4, <1>5 DEF Coalesce

\* A relay that is not at the key of identity i is to own that key.
LEMMA CandidateKeeps ==
    ASSUME RelayInv, NEW c \in Requests, NEW q, Busy(q), q.fill = req[c].fill,
           NEW i \in Identities, q.key # <<Shape(q), i>>,
           q.stage = "coalesce", q.then \in {"revaltoken", "pooltoken"}, q.who = i,
           SwitchKey(c, q, <<Shape(q), i>>), UNCHANGED outside
    PROVE  RelayInv'
<1> DEFINE k == <<Shape(q), i>>
           m == Moved(q, k)
<1>1. k \in Keys
  BY DEF Keys, Shapes, Shape
<1>2. /\ m \in RequestType /\ m.key = k /\ m.fill = NoKey /\ m.stage = "coalesce"
      /\ m.exact = q.exact /\ m.who = i /\ m.then = q.then /\ m.refresh = q.refresh
      /\ m.background = q.background
  BY <1>1, MovedIs DEF Busy
<1> HIDE DEF m
<1>3. Fits(m)
  BY <1>1, <1>2 DEF Busy, Fits, FillFits, KeyFits, RefreshFits, Shape, Upstream
<1> QED
  BY <1>1, <1>2, <1>3, SwitchKeyKeeps DEF m, Busy

LEMMA RevalidateKeeps ==
    ASSUME RelayInv, NEW c \in Requests, Revalidate(c)
    PROVE  RelayInv'
<1> DEFINE q == req[c]
           skip == [q EXCEPT !.stage = "tokenfree"]
           call == [q EXCEPT !.stage = "revalcall", !.reval = TRUE]
           fail == [q EXCEPT !.reval = TRUE]
<1>1. Busy(q) /\ Fits(q) /\ q.stage = "revalidate" /\ UNCHANGED outside
  BY WorkingIsBusy DEF RelayInv, TypeOK, Revalidate
<1>2. CASE Go(c, skip)
  <2>1. skip \in RequestType /\ Fits(skip) /\ skip.fill = q.fill
    BY <1>1, StageNames DEF Busy, RequestType, Fits, FillFits, KeyFits, RefreshFits,
                Shape, SharedKey, Upstream
  <2> QED
    BY <1>1, <1>2, <2>1, GoKeeps
<1>3. CASE Go(c, call)
  <2>1. call \in RequestType /\ Fits(call) /\ call.fill = q.fill
    BY <1>1, StageNames DEF Busy, RequestType, Fits, FillFits, KeyFits, RefreshFits,
                Shape, SharedKey, Upstream
  <2> QED
    BY <1>1, <1>3, <2>1, GoKeeps
<1>4. ASSUME NEW i \in Identities,
             SwitchKey(c, [q EXCEPT !.stage = "coalesce", !.then = "revaltoken",
                                    !.reval = TRUE, !.who = i],
                       <<Shape(q), i>>)
      PROVE  RelayInv'
  <2> DEFINE p == [q EXCEPT !.stage = "coalesce", !.then = "revaltoken",
                            !.reval = TRUE, !.who = i]
  <2>1. /\ Busy(p) /\ p.fill = q.fill /\ p.stage = "coalesce" /\ p.then = "revaltoken"
        /\ p.who = i /\ Shape(p) = Shape(q) /\ p.key = q.key
    BY <1>1, StageNames DEF Busy, RequestType, Shape
  <2>2. q.key # <<Shape(q), i>>
    BY <1>1, Names DEF Fits, KeyFits, SharedKey
  <2> HIDE DEF p
  <2> QED
    BY <1>1, <1>4, <2>1, <2>2, CandidateKeeps DEF p
<1>5. CASE Go(c, Throw(fail))
  <2>1. Busy(fail) /\ fail.fill = q.fill
    BY <1>1 DEF Busy, RequestType, Shape
  <2> HIDE DEF fail
  <2> QED
    BY <1>1, <1>5, <2>1, ThrowFits, GoKeeps
<1> QED
  BY <1>2, <1>3, <1>4, <1>5 DEF Revalidate, Candidates

\* Errors leave a relay with its key and its fill.
LEMMA FatalFits ==
    ASSUME NEW q, Busy(q)
    PROVE  Fatal(q) \in RequestType /\ Fits(Fatal(q)) /\ Fatal(q).fill = q.fill
<1> DEFINE p == [q EXCEPT !.reval = FALSE, !.nested = FALSE]
<1>1. Busy(p) /\ p.fill = q.fill /\ Fatal(q) = Throw(p)
  BY DEF Busy, RequestType, Shape, Fatal
<1> HIDE DEF p
<1> QED
  BY <1>1, ThrowFits

LEMMA RestoreFits ==
    ASSUME NEW q, Busy(q), NEW failed, failed \in SUBSET Identities
    PROVE  LET r == [q EXCEPT !.stage = "restore", !.failed = failed]
           IN  r \in RequestType /\ Fits(r) /\ r.fill = q.fill
<1> DEFINE r == [q EXCEPT !.stage = "restore", !.failed = failed]
<1>1. r \in RequestType
  BY StageNames DEF Busy, RequestType
<1>2. Fits(r) /\ r.fill = q.fill
  BY DEF Busy, RequestType, Fits, FillFits, KeyFits, RefreshFits, Shape, Upstream
<1> QED
  BY <1>1, <1>2

LEMMA RevalTokenKeeps ==
    ASSUME RelayInv, NEW c \in Requests, RevalToken(c)
    PROVE  RelayInv'
<1> DEFINE q == req[c]
           call == [q EXCEPT !.stage = "revalcall"]
<1>1. Busy(q) /\ Fits(q) /\ q.stage = "revaltoken" /\ UNCHANGED outside
  BY WorkingIsBusy DEF RelayInv, TypeOK, RevalToken
<1>2. CASE Go(c, call)
  <2>1. call \in RequestType /\ Fits(call) /\ call.fill = q.fill
    BY <1>1, StageNames DEF Busy, RequestType, Fits, FillFits, KeyFits, RefreshFits,
                Shape, SharedKey, Upstream
  <2> QED
    BY <1>1, <1>2, <2>1, GoKeeps
<1>3. CASE Go(c, [q EXCEPT !.stage = "restore", !.failed = @ \cup {q.who}])
  <2>1. q.failed \cup {q.who} \in SUBSET Identities
    BY <1>1 DEF Busy, RequestType, Fits, KeyFits
  <2> QED
    BY <1>1, <1>3, <2>1, RestoreFits, GoKeeps
<1>4. CASE Go(c, Fatal(q))
  BY <1>1, <1>4, FatalFits, GoKeeps
<1> QED
  BY <1>2, <1>3, <1>4 DEF RevalToken

LEMMA RevalCallKeeps ==
    ASSUME RelayInv, NEW c \in Requests, RevalCall(c)
    PROVE  RelayInv'
<1> DEFINE q == req[c]
           done == [q EXCEPT !.stage = "finalize"]
<1>1. Busy(q) /\ Fits(q) /\ q.stage = "revalcall" /\ UNCHANGED outside
  BY WorkingIsBusy DEF RelayInv, TypeOK, RevalCall
<1>2. CASE Go(c, done)
  <2>1. done \in RequestType /\ Fits(done) /\ done.fill = q.fill
    BY <1>1, StageNames DEF Busy, RequestType, Fits, FillFits, KeyFits, RefreshFits,
                Shape, SharedKey, Upstream
  <2> QED
    BY <1>1, <1>2, <2>1, GoKeeps
<1>3. CASE Go(c, [q EXCEPT !.stage = "restore"])
  <2>1. [q EXCEPT !.stage = "restore"] = [q EXCEPT !.stage = "restore", !.failed = q.failed]
    BY <1>1 DEF Busy, RequestType
  <2>2. q.failed \in SUBSET Identities
    BY <1>1 DEF Busy, RequestType
  <2> QED
    BY <1>1, <1>3, <2>1, <2>2, RestoreFits, GoKeeps
<1>4. CASE q.who # Nobody /\ Go(c, [q EXCEPT !.stage = "restore", !.failed = @ \cup {q.who}])
  <2>1. q.failed \cup {q.who} \in SUBSET Identities
    BY <1>1, <1>4 DEF Busy, RequestType
  <2> QED
    BY <1>1, <1>4, <2>1, RestoreFits, GoKeeps
<1>5. CASE Go(c, Throw(q))
  BY <1>1, <1>5, ThrowFits, GoKeeps
<1> QED
  BY <1>2, <1>3, <1>4, <1>5 DEF RevalCall

LEMMA RestoreKeeps ==
    ASSUME RelayInv, NEW c \in Requests, Restore(c)
    PROVE  RelayInv'
<1> DEFINE q == req[c]
           kept == q.key = SharedKey(q) /\ q.fill # NoKey
           k == SharedKey(q)
           p(stage) == [q EXCEPT !.who = Nobody, !.then = "tokenfree", !.stage = stage]
<1>1. /\ Busy(q) /\ Fits(q) /\ q.stage = "restore" /\ UNCHANGED outside
      /\ k \in Keys /\ k[1] = Shape(q)
  BY WorkingIsBusy DEF RelayInv, TypeOK, Restore, SharedKey, Keys, Shapes, Shape
<1>2. ASSUME NEW stage \in {"tokenfree", "coalesce"}, SwitchKey(c, p(stage), k),
             stage = "tokenfree" <=> kept
      PROVE  RelayInv'
  <2> DEFINE m == Moved(p(stage), k)
  <2>1. /\ p(stage) \in RequestType /\ p(stage).fill = q.fill /\ p(stage).key = q.key
        /\ p(stage).stage = stage /\ p(stage).exact = q.exact /\ p(stage).then = "tokenfree"
        /\ p(stage).refresh = q.refresh /\ p(stage).background = q.background
    BY <1>1, StageNames DEF Busy, RequestType
  <2> HIDE DEF p
  <2>2. /\ m \in RequestType /\ m.key = k /\ m.fill = IF k = q.key THEN q.fill ELSE NoKey
        /\ m.stage = stage /\ m.exact = q.exact /\ m.then = "tokenfree"
        /\ m.refresh = q.refresh /\ m.background = q.background
    BY <1>1, <2>1, MovedIs
  <2> HIDE DEF m
  <2>3. Fits(m)
    BY <1>1, <1>2, <2>2 DEF Busy, Fits, FillFits, KeyFits, RefreshFits, Shape, SharedKey, Upstream
  <2> QED
    BY <1>1, <1>2, <2>1, <2>2, <2>3, SwitchKeyKeeps DEF m
<1>3. CASE kept
  BY <1>2, <1>3 DEF Restore, RestoreShared
<1>4. CASE ~kept
  BY <1>2, <1>4 DEF Restore, RestoreShared
<1> QED
  BY <1>3, <1>4

LEMMA TokenFreeKeeps ==
    ASSUME RelayInv, NEW c \in Requests, TokenFree(c)
    PROVE  RelayInv'
<1> DEFINE q == req[c]
           p == [q EXCEPT !.reval = FALSE]
           done == [q EXCEPT !.reval = FALSE, !.stage = "finalize"]
           pool == [q EXCEPT !.reval = FALSE, !.guard = "running", !.stage = "pool"]
           public == [q EXCEPT !.reval = FALSE, !.guard = "proved", !.stage = "public"]
<1>1. Busy(q) /\ Fits(q) /\ q.stage = "tokenfree" /\ UNCHANGED outside
  BY WorkingIsBusy DEF RelayInv, TypeOK, TokenFree
<1>2. CASE Go(c, done)
  <2>1. done \in RequestType
    BY <1>1, StageNames DEF Busy, RequestType
  <2>2. Fits(done) /\ done.fill = q.fill
    BY <1>1 DEF Busy, RequestType, Fits, FillFits, KeyFits, RefreshFits, Shape, SharedKey,
                Upstream
  <2> QED
    BY <1>1, <1>2, <2>1, <2>2, GoKeeps
<1>3. CASE Go(c, pool)
  <2>1. pool \in RequestType
    BY <1>1, StageNames DEF Busy, RequestType
  <2>2. Fits(pool) /\ pool.fill = q.fill
    BY <1>1 DEF Busy, RequestType, Fits, FillFits, KeyFits, RefreshFits, Shape, SharedKey,
                Upstream
  <2> QED
    BY <1>1, <1>3, <2>1, <2>2, GoKeeps
<1>4. CASE Go(c, public)
  <2>1. public \in RequestType
    BY <1>1, StageNames DEF Busy, RequestType
  <2>2. Fits(public) /\ public.fill = q.fill
    BY <1>1 DEF Busy, RequestType, Fits, FillFits, KeyFits, RefreshFits, Shape, SharedKey,
                Upstream
  <2> QED
    BY <1>1, <1>4, <2>1, <2>2, GoKeeps
<1>5. CASE Go(c, Throw(p))
  <2>1. Busy(p) /\ p.fill = q.fill
    BY <1>1 DEF Busy, RequestType, Shape
  <2> HIDE DEF p
  <2> QED
    BY <1>1, <1>5, <2>1, ThrowFits, GoKeeps
<1> QED
  BY <1>2, <1>3, <1>4, <1>5 DEF TokenFree

LEMMA PublicBackendKeeps ==
    ASSUME RelayInv, NEW c \in Requests, PublicBackend(c)
    PROVE  RelayInv'
<1> DEFINE q == req[c]
           done == [q EXCEPT !.stage = "finalize"]
           pool == [q EXCEPT !.stage = "pool"]
<1>1. Busy(q) /\ Fits(q) /\ q.stage = "public" /\ UNCHANGED outside
  BY WorkingIsBusy DEF RelayInv, TypeOK, PublicBackend
<1>2. CASE Go(c, done)
  <2>1. done \in RequestType /\ Fits(done) /\ done.fill = q.fill
    BY <1>1, StageNames DEF Busy, RequestType, Fits, FillFits, KeyFits, RefreshFits,
                Shape, SharedKey, Upstream
  <2> QED
    BY <1>1, <1>2, <2>1, GoKeeps
<1>3. CASE Go(c, pool)
  <2>1. pool \in RequestType /\ Fits(pool) /\ pool.fill = q.fill
    BY <1>1, StageNames DEF Busy, RequestType, Fits, FillFits, KeyFits, RefreshFits,
                Shape, SharedKey, Upstream
  <2> QED
    BY <1>1, <1>3, <2>1, GoKeeps
<1>4. CASE Go(c, Throw(q))
  BY <1>1, <1>4, ThrowFits, GoKeeps
<1> QED
  BY <1>2, <1>3, <1>4 DEF PublicBackend

LEMMA PoolHitKeeps ==
    ASSUME RelayInv, NEW c \in Requests, PoolHit(c)
    PROVE  RelayInv'
<1> DEFINE q == req[c]
<1>1. Busy(q) /\ UNCHANGED outside
  BY WorkingIsBusy DEF RelayInv, TypeOK, PoolHit
<1>2. PICK k \in IdentityKeys(q) : ServeFresh(c, [q EXCEPT !.who = k[2]], k)
  BY DEF PoolHit
<1> DEFINE p == [q EXCEPT !.who = k[2]]
<1>3. k \in Keys /\ k[1] = Shape(q) /\ k[2] \in Identities \cup {Nobody}
  BY DEF IdentityKeys, Keys, Shapes, Shape
<1>4. Busy(p) /\ p.fill = q.fill /\ Shape(p) = Shape(q)
  BY <1>1, <1>3 DEF Busy, RequestType, Shape
<1> HIDE DEF p
<1> QED
  BY <1>1, <1>2, <1>3, <1>4, ServeFreshKeeps DEF p

LEMMA PoolSelectKeeps ==
    ASSUME RelayInv, NEW c \in Requests, PoolSelect(c)
    PROVE  RelayInv'
<1> DEFINE q == req[c]
<1>1. Busy(q) /\ Fits(q) /\ q.stage = "pool" /\ UNCHANGED outside
  BY WorkingIsBusy DEF RelayInv, TypeOK, PoolSelect
<1>2. ASSUME NEW i \in Candidates(q),
             SwitchKey(c, [q EXCEPT !.stage = "coalesce", !.then = "pooltoken", !.who = i],
                       <<Shape(q), i>>)
      PROVE  RelayInv'
  <2> DEFINE p == [q EXCEPT !.stage = "coalesce", !.then = "pooltoken", !.who = i]
  <2>1. i \in Identities /\ q.key # <<Shape(q), i>>
    BY <1>1, Names DEF Fits, KeyFits, Candidates
  <2>2. /\ Busy(p) /\ p.fill = q.fill /\ p.stage = "coalesce" /\ p.then = "pooltoken"
        /\ p.who = i /\ Shape(p) = Shape(q) /\ p.key = q.key
    BY <1>1, <2>1, StageNames DEF Busy, RequestType, Shape
  <2> HIDE DEF p
  <2> QED
    BY <1>1, <1>2, <2>1, <2>2, CandidateKeeps DEF p
<1>3. CASE Go(c, Throw(q))
  BY <1>1, <1>3, ThrowFits, GoKeeps
<1> QED
  BY <1>2, <1>3 DEF PoolSelect

LEMMA PoolTokenKeeps ==
    ASSUME RelayInv, NEW c \in Requests, PoolToken(c)
    PROVE  RelayInv'
<1> DEFINE q == req[c]
           call == [q EXCEPT !.stage = "poolcall"]
<1>1. Busy(q) /\ Fits(q) /\ q.stage = "pooltoken" /\ UNCHANGED outside
  BY WorkingIsBusy DEF RelayInv, TypeOK, PoolToken
<1>2. CASE Go(c, call)
  <2>1. call \in RequestType /\ Fits(call) /\ call.fill = q.fill
    BY <1>1, StageNames DEF Busy, RequestType, Fits, FillFits, KeyFits, RefreshFits,
                Shape, SharedKey, Upstream
  <2> QED
    BY <1>1, <1>2, <2>1, GoKeeps
<1>3. CASE Go(c, [q EXCEPT !.stage = "pool", !.failed = @ \cup {q.who}])
  <2> DEFINE r == [q EXCEPT !.stage = "pool", !.failed = q.failed \cup {q.who}]
  <2>1. q.failed \cup {q.who} \in SUBSET Identities
    BY <1>1 DEF Busy, RequestType, Fits, KeyFits
  <2>2. r \in RequestType
    BY <1>1, <2>1, StageNames DEF Busy, RequestType
  <2>3. Fits(r) /\ r.fill = q.fill
    BY <1>1 DEF Busy, RequestType, Fits, FillFits, KeyFits, RefreshFits, Shape, Upstream
  <2> QED
    BY <1>1, <1>3, <2>2, <2>3, GoKeeps
<1>4. CASE Go(c, Throw(q))
  BY <1>1, <1>4, ThrowFits, GoKeeps
<1>5. CASE Go(c, Fatal(q))
  BY <1>1, <1>5, FatalFits, GoKeeps
<1> QED
  BY <1>2, <1>3, <1>4, <1>5 DEF PoolToken

LEMMA PoolCallKeeps ==
    ASSUME RelayInv, NEW c \in Requests, PoolCall(c)
    PROVE  RelayInv'
<1> DEFINE q == req[c]
           read == [q EXCEPT !.stage = "fetched"]
<1>1. Busy(q) /\ Fits(q) /\ q.stage = "poolcall" /\ UNCHANGED outside
  BY WorkingIsBusy DEF RelayInv, TypeOK, PoolCall
<1>2. CASE Go(c, read)
  <2>1. read \in RequestType /\ Fits(read) /\ read.fill = q.fill
    BY <1>1, StageNames DEF Busy, RequestType, Fits, FillFits, KeyFits, RefreshFits,
                Shape, SharedKey, Upstream
  <2> QED
    BY <1>1, <1>2, <2>1, GoKeeps
<1>3. CASE Go(c, Throw(q))
  BY <1>1, <1>3, ThrowFits, GoKeeps
<1> QED
  BY <1>2, <1>3 DEF PoolCall

LEMMA FetchedKeeps ==
    ASSUME RelayInv, NEW c \in Requests, Fetched(c)
    PROVE  RelayInv'
<1> DEFINE q == req[c]
           done == [q EXCEPT !.stage = "finalize"]
<1>1. Busy(q) /\ Fits(q) /\ q.stage = "fetched" /\ UNCHANGED outside
  BY WorkingIsBusy DEF RelayInv, TypeOK, Fetched
<1>2. CASE Go(c, done)
  <2>1. done \in RequestType /\ Fits(done) /\ done.fill = q.fill
    BY <1>1, StageNames DEF Busy, RequestType, Fits, FillFits, KeyFits, RefreshFits,
                Shape, SharedKey, Upstream
  <2> QED
    BY <1>1, <1>2, <2>1, GoKeeps
<1>3. CASE Go(c, [q EXCEPT !.stage = "pool", !.failed = @ \cup {q.who}])
  <2> DEFINE r == [q EXCEPT !.stage = "pool", !.failed = q.failed \cup {q.who}]
  <2>1. q.failed \cup {q.who} \in SUBSET Identities
    BY <1>1 DEF Busy, RequestType, Fits, KeyFits
  <2>2. r \in RequestType
    BY <1>1, <2>1, StageNames DEF Busy, RequestType
  <2>3. Fits(r) /\ r.fill = q.fill
    BY <1>1 DEF Busy, RequestType, Fits, FillFits, KeyFits, RefreshFits, Shape, Upstream
  <2> QED
    BY <1>1, <1>3, <2>2, <2>3, GoKeeps
<1>4. CASE Go(c, Throw(q))
  BY <1>1, <1>4, ThrowFits, GoKeeps
<1> QED
  BY <1>2, <1>3, <1>4 DEF Fetched

LEMMA RecoverKeeps ==
    ASSUME RelayInv, NEW c \in Requests, Recover(c)
    PROVE  RelayInv'
<1>1. Busy(req[c]) /\ ServeStale(c, req[c]) /\ UNCHANGED outside
  BY WorkingIsBusy DEF RelayInv, TypeOK, Recover
<1> QED
  BY <1>1, ServeStaleKeeps

LEMMA FinalizeKeeps ==
    ASSUME RelayInv, NEW c \in Requests, Finalize(c)
    PROVE  RelayInv'
<1> DEFINE q == req[c]
           settled == [q EXCEPT !.fill = NoKey]
           served == [settled EXCEPT !.stage = "served"]
<1>1. Busy(q) /\ Fits(q) /\ q.stage = "finalize" /\ q.key \in Keys /\ UNCHANGED outside
  BY WorkingIsBusy DEF RelayInv, TypeOK, Finalize, Busy
<1>2. CASE /\ body' \in {[body EXCEPT ![q.key] = b] : b \in {body[q.key], "fresh"}}
           /\ Fail(c, q.fill)
           /\ req' = [req EXCEPT ![c] =
                 IF q.exact THEN Answer(settled, "data") ELSE served]
  <2> DEFINE r == IF q.exact THEN Answer(settled, "data") ELSE served
  <2>1. Busy(settled) /\ settled.fill = NoKey
    BY <1>1 DEF Busy, RequestType, Shape
  <2>2. served \in RequestType
    BY <1>1, StageNames DEF Busy, RequestType
  <2>3. Fits(served) /\ served.fill = NoKey
    BY <1>1 DEF Busy, RequestType, Fits, FillFits, KeyFits, RefreshFits, Shape, SharedKey,
                Upstream
  <2> HIDE DEF settled, served
  <2>4. r \in RequestType /\ Fits(r) /\ r.fill = NoKey
    BY <2>1, <2>2, <2>3, AnswerFits
  <2> HIDE DEF r
  <2>5. /\ owner' \in [Keys -> Requests \cup {Nobody}]
        /\ lost' \subseteq Keys /\ faults' \in Nat
        /\ NoFillIsLeftBehind'
    BY <1>2, <2>4, FailKeeps DEF r
  <2>6. body' \in [Keys -> {"none", "fresh", "stale"}]
    BY <1>1, <1>2 DEF RelayInv, TypeOK
  <2> QED
    BY <1>1, <1>2, <2>4, <2>5, <2>6, StepKeeps DEF r, outside, RelayInv, TypeOK
<1>3. CASE Go(c, Throw(q))
  BY <1>1, <1>3, ThrowFits, GoKeeps
<1> QED
  BY <1>2, <1>3 DEF Finalize

LEMMA ServedKeeps ==
    ASSUME RelayInv, NEW c \in Requests, Served(c)
    PROVE  RelayInv'
<1> DEFINE q == req[c]
<1>1. Busy(q) /\ q.fill = NoKey /\ UNCHANGED outside
  BY WorkingIsBusy DEF RelayInv, TypeOK, Served, Fits, FillFits
<1>2. CASE Go(c, Answer(q, "data"))
  BY <1>1, <1>2, AnswerFits, GoKeeps
<1>3. CASE StartExact(c, q)
  BY <1>1, <1>3, StartExactKeeps
<1> QED
  BY <1>2, <1>3 DEF Served

LEMMA UnwindKeeps ==
    ASSUME RelayInv, NEW c \in Requests, Unwind(c)
    PROVE  RelayInv'
<1> DEFINE q == req[c]
           caught == [q EXCEPT !.stage = "restore", !.guard = "none", !.reval = FALSE]
           outer == [q EXCEPT !.stage = "restore", !.guard = "none", !.reval = FALSE,
                              !.nested = FALSE]
           failing == [q EXCEPT !.stage = "failing"]
<1>1. Busy(q) /\ UNCHANGED outside
  BY WorkingIsBusy DEF RelayInv, TypeOK, Unwind
<1>2. caught \in RequestType
  BY <1>1, StageNames DEF Busy, RequestType
<1>3. outer \in RequestType
  BY <1>1, StageNames DEF Busy, RequestType
<1>4. failing \in RequestType
  BY <1>1, StageNames DEF Busy, RequestType
<1>5. /\ Fits(caught) /\ caught.fill = q.fill
      /\ Fits(outer) /\ outer.fill = q.fill
      /\ Fits(failing) /\ failing.fill = q.fill
  BY <1>1 DEF Busy, RequestType, Fits, FillFits, KeyFits, RefreshFits, Shape, Upstream
<1>6. Go(c, caught) \/ Go(c, outer) \/ Go(c, failing)
  BY DEF Unwind
<1> QED
  BY <1>1, <1>2, <1>3, <1>4, <1>5, <1>6, GoKeeps

LEMMA HandleErrorKeeps ==
    ASSUME RelayInv, NEW c \in Requests, HandleError(c)
    PROVE  RelayInv'
<1>1. req[c] \in RequestType /\ Fits(req[c]) /\ req[c].stage = "failing" /\ UNCHANGED outside
  BY DEF RelayInv, TypeOK, HandleError
<1>2. Busy(req[c])
  BY <1>1, WorkingIsBusy
<1>3. CASE Go(c, Answer(req[c], "handed"))
  BY <1>1, <1>3, <1>2, AnswerFits, GoKeeps
<1>4. CASE ServeStale(c, req[c])
  BY <1>1, <1>4, <1>2, ServeStaleKeeps
<1> QED
  BY <1>3, <1>4 DEF HandleError

LEMMA CloseKeeps ==
    ASSUME RelayInv, NEW c \in Requests, Close(c)
    PROVE  RelayInv'
<1> DEFINE q == req[c]
           over == [q EXCEPT !.stage = "done", !.fill = NoKey]
           gone == [q EXCEPT !.stage = "done", !.fill = NoKey, !.refresh = NoKey]
           r == IF q.background THEN gone ELSE over
<1>1. /\ q \in RequestType /\ Fits(q) /\ q.stage \in {"closing", "aborting"}
      /\ req' = [req EXCEPT ![c] = r] /\ Fail(c, q.fill) /\ Closed(c, q)
      /\ refresher' = [k \in Keys |-> IF refresher[k] = c THEN Nobody ELSE refresher[k]]
      /\ UNCHANGED <<visibility, body>>
  BY DEF RelayInv, TypeOK, Close
<1>2. over \in RequestType /\ gone \in RequestType
  BY <1>1, StageNames DEF RequestType
<1>3. /\ over.fill = NoKey /\ gone.fill = NoKey /\ Fits(gone)
      /\ ~q.background => Fits(over)
  BY <1>1 DEF RequestType, Fits, FillFits, KeyFits, RefreshFits, Shape, SharedKey, Upstream
<1>4. r \in RequestType /\ Fits(r) /\ r.fill = NoKey
  BY <1>2, <1>3
<1> HIDE DEF r
<1>5. /\ owner' \in [Keys -> Requests \cup {Nobody}]
      /\ lost' \subseteq Keys /\ faults' \in Nat
      /\ NoFillIsLeftBehind'
  BY <1>1, <1>4, FailKeeps
<1>6. refresher' \in [Keys -> Requests \cup {Nobody}]
  BY <1>1 DEF RelayInv, TypeOK
<1>7. pending' \in [{IsolateOf[d] : d \in Requests} -> SUBSET Keys]
  BY <1>1 DEF Closed, RelayInv, TypeOK
<1> QED
  BY <1>1, <1>4, <1>5, <1>6, <1>7, StepKeeps DEF RelayInv, TypeOK

LEMMA ScheduleKeeps ==
    ASSUME RelayInv, NEW c \in Requests, Schedule(c)
    PROVE  RelayInv'
<1> DEFINE q == req[c]
           w == IsolateOf[c]
           kept == [q EXCEPT !.stage = "admitting", !.background = TRUE]
           dropped == [q EXCEPT !.refresh = NoKey]
<1>1. /\ q \in RequestType /\ Fits(q) /\ q.stage = "done" /\ q.refresh # NoKey
      /\ UNCHANGED <<visibility, refresher>>
  BY DEF RelayInv, TypeOK, Schedule
<1>2. q.refresh \in Keys /\ q.fill = NoKey
  BY <1>1 DEF RequestType, Fits, FillFits
<1>3. CASE /\ pending' = [pending EXCEPT ![w] = @ \cup {q.refresh}]
           /\ Go(c, kept)
  <2>1. kept \in RequestType
    BY <1>1, StageNames DEF RequestType
  <2>2. Fits(kept) /\ kept.fill = NoKey
    BY <1>1, <1>2 DEF RequestType, Fits, FillFits, KeyFits, RefreshFits, Shape, SharedKey, Upstream
  <2>3. pending' \in [{IsolateOf[d] : d \in Requests} -> SUBSET Keys]
    BY <1>2, <1>3 DEF RelayInv, TypeOK
  <2> HIDE DEF kept
  <2>4. NoFillIsLeftBehind'
    BY <1>2, <1>3, <2>2, Names DEF RelayInv, TypeOK, NoFillIsLeftBehind, Go, tables
  <2> QED
    BY <1>1, <1>3, <2>1, <2>2, <2>3, <2>4, StepKeeps DEF Go, tables, RelayInv, TypeOK
<1>4. CASE Go(c, dropped) /\ UNCHANGED pending
  <2>1. dropped \in RequestType
    BY <1>1 DEF RequestType
  <2>2. Fits(dropped) /\ dropped.fill = q.fill
    BY <1>1 DEF RequestType, Fits, FillFits, KeyFits, RefreshFits, Shape, SharedKey, Upstream
  <2> QED
    BY <1>1, <1>4, <2>1, <2>2, GoKeeps DEF outside
<1> QED
  BY <1>3, <1>4 DEF Schedule

LEMMA AdmitRefreshKeeps ==
    ASSUME RelayInv, NEW c \in Requests, AdmitRefresh(c)
    PROVE  RelayInv'
<1> DEFINE q == req[c]
           admitted == [q EXCEPT !.stage = "lookup", !.key = q.refresh, !.who = Nobody,
                                 !.failed = {}, !.guard = "none",
                                 !.reval = FALSE, !.nested = FALSE]
           out == [q EXCEPT !.stage = "closing"]
<1>1. /\ q \in RequestType /\ Fits(q) /\ q.stage = "admitting"
      /\ UNCHANGED <<visibility, pending>>
  BY DEF RelayInv, TypeOK, AdmitRefresh
<1>2. q.refresh = SharedKey(q) /\ q.refresh \in Keys /\ q.background /\ q.fill = NoKey
  BY <1>1 DEF Fits, FillFits, RefreshFits, SharedKey, Keys, Shapes, Shape
<1>3. CASE /\ refresher' = [refresher EXCEPT ![q.refresh] = c]
           /\ Go(c, admitted)
  <2>1. admitted \in RequestType
    BY <1>1, <1>2, StageNames DEF RequestType
  <2>2. Fits(admitted) /\ admitted.fill = NoKey
    BY <1>1, <1>2 DEF RequestType, Fits, FillFits, KeyFits, RefreshFits, Shape, SharedKey, Upstream
  <2>3. refresher' \in [Keys -> Requests \cup {Nobody}]
    BY <1>2, <1>3 DEF RelayInv, TypeOK
  <2> HIDE DEF admitted
  <2>4. NoFillIsLeftBehind'
    BY <1>2, <1>3, <2>2, Names DEF RelayInv, TypeOK, NoFillIsLeftBehind, Go, tables
  <2> QED
    BY <1>1, <1>3, <2>1, <2>2, <2>3, <2>4, StepKeeps DEF Go, tables, RelayInv, TypeOK
<1>4. CASE Go(c, out) /\ UNCHANGED refresher
  <2>1. out \in RequestType
    BY <1>1, StageNames DEF RequestType
  <2>2. Fits(out) /\ out.fill = q.fill
    BY <1>1, <1>2 DEF RequestType, Fits, FillFits, KeyFits, RefreshFits, Shape, SharedKey, Upstream
  <2> QED
    BY <1>1, <1>4, <2>1, <2>2, GoKeeps DEF outside
<1> QED
  BY <1>3, <1>4 DEF AdmitRefresh

\* A cancelled relay keeps its fill, except that it may still be granted one.
LEMMA AbortedFits ==
    ASSUME NEW q, Busy(q), q.stage = "coalesce" => q.fill = NoKey
    PROVE  Aborted(q) \in RequestType /\ Fits(Aborted(q)) /\ Aborted(q).fill = q.fill
<1> DEFINE r == Aborted(q)
<1>1. PICK b \in {q.answer, "handed"}, t \in {"late", "none"} :
          /\ r = [q EXCEPT !.stage = "aborting", !.answer = b, !.then = t]
          /\ t = "late" => q.stage = "coalesce"
  BY DEF Aborted, Answer
<1> HIDE DEF r
<1>2. r \in RequestType
  BY <1>1, StageNames DEF Busy, RequestType
<1>3. Fits(r) /\ r.fill = q.fill
  BY <1>1 DEF Busy, RequestType, Fits, FillFits, KeyFits, RefreshFits, Shape, Upstream
<1> QED
  BY <1>2, <1>3 DEF r

LEMMA ProveKeeps ==
    ASSUME RelayInv, NEW c \in Requests, Prove(c)
    PROVE  RelayInv'
<1> DEFINE q == req[c]
           proved == [q EXCEPT !.guard = "proved"]
           refused == [q EXCEPT !.guard = "refused"]
<1>1. /\ q \in RequestType /\ Fits(q) /\ Busy(q) /\ UNCHANGED outside
      /\ q.stage = "coalesce" => q.fill = NoKey
  BY WorkingIsBusy DEF RelayInv, TypeOK, Prove, Working, Fits, FillFits
<1>2. CASE Go(c, proved)
  <2>1. proved \in RequestType
    BY <1>1 DEF RequestType
  <2>2. Fits(proved) /\ proved.fill = q.fill
    BY <1>1 DEF RequestType, Fits, FillFits, KeyFits, RefreshFits, Shape, SharedKey, Upstream
  <2> QED
    BY <1>1, <1>2, <2>1, <2>2, GoKeeps
<1>3. CASE Go(c, Aborted(refused))
  <2>1. Busy(refused) /\ refused.fill = q.fill /\ (refused.stage = "coalesce" => q.fill = NoKey)
    BY <1>1 DEF Busy, RequestType, Shape
  <2> HIDE DEF refused
  <2> QED
    BY <1>1, <1>3, <2>1, AbortedFits, GoKeeps
<1> QED
  BY <1>2, <1>3 DEF Prove

LEMMA AbortKeeps ==
    ASSUME RelayInv, NEW c \in Requests, Abort(c)
    PROVE  RelayInv'
<1> DEFINE q == req[c]
<1>1. /\ Busy(q) /\ (q.stage = "coalesce" => q.fill = NoKey)
      /\ req' = [req EXCEPT ![c] = Aborted(q)] /\ UNCHANGED <<tables, outside>>
  BY WorkingIsBusy DEF RelayInv, TypeOK, Abort, Working, Fits, FillFits
<1>2. Aborted(q) \in RequestType /\ Fits(Aborted(q)) /\ Aborted(q).fill = q.fill
  BY <1>1, AbortedFits
<1>3. NoFillIsLeftBehind'
  BY <1>1, <1>2, Names DEF RelayInv, TypeOK, NoFillIsLeftBehind, tables
<1>4. faults' \in Nat
  BY DEF Abort, Fault, RelayInv, TypeOK
<1> QED
  BY <1>1, <1>2, <1>3, <1>4, StepKeeps DEF RelayInv, TypeOK, tables, outside

LEMMA LateAnswerKeeps ==
    ASSUME RelayInv, NEW c \in Requests, LateAnswer(c)
    PROVE  RelayInv'
<1> DEFINE q == req[c]
           granted == [q EXCEPT !.then = "none", !.fill = q.key]
           refused == [q EXCEPT !.then = "none"]
<1>1. /\ Busy(q) /\ Fits(q) /\ q.stage = "aborting" /\ q.then = "late" /\ q.fill = NoKey
      /\ q.key \in Keys /\ UNCHANGED outside
  BY WorkingIsBusy DEF RelayInv, TypeOK, LateAnswer, Fits, FillFits, Busy
<1>2. granted \in RequestType /\ refused \in RequestType
  BY <1>1 DEF Busy, RequestType
<1>3. /\ Fits(granted) /\ granted.fill = q.key
      /\ Fits(refused) /\ refused.fill = q.fill
  BY <1>1 DEF Busy, RequestType, Fits, FillFits, KeyFits, RefreshFits, Shape, Upstream
<1>4. CASE /\ owner' = [owner EXCEPT ![q.key] = c]
           /\ req' = [req EXCEPT ![c] = granted]
           /\ UNCHANGED <<body, lost, faults>>
  BY <1>1, <1>2, <1>3, <1>4, OwnKeeps
<1>5. CASE Go(c, refused)
  BY <1>1, <1>2, <1>3, <1>5, GoKeeps
<1> QED
  BY <1>4, <1>5 DEF LateAnswer

LEMMA DieKeeps ==
    ASSUME RelayInv, NEW c \in Requests, Die(c)
    PROVE  RelayInv'
<1> DEFINE q == req[c]
           dead == [q EXCEPT !.stage = "dead", !.fill = NoKey, !.refresh = NoKey]
<1>1. /\ q \in RequestType /\ Fits(q) /\ q.stage # "new"
      /\ req' = [req EXCEPT ![c] = dead]
      /\ lost' = lost \cup {k \in Keys : owner[k] = c}
      /\ UNCHANGED <<body, owner, outside>>
  BY DEF RelayInv, TypeOK, Die
<1>2. dead \in RequestType
  BY <1>1, StageNames DEF RequestType
<1>3. Fits(dead)
  BY <1>1 DEF RequestType, Fits, FillFits, KeyFits, RefreshFits, Shape, Upstream
<1> HIDE DEF dead
<1>4. lost' \subseteq Keys /\ NoFillIsLeftBehind'
  BY <1>1 DEF RelayInv, TypeOK, NoFillIsLeftBehind
<1>5. faults' \in Nat
  BY DEF Die, Fault, RelayInv, TypeOK
<1> QED
  BY <1>1, <1>2, <1>3, <1>4, <1>5, StepKeeps DEF RelayInv, TypeOK, outside

--------------------------------------------------------------------------------
(* The invariant, and what follows from it.                                *)

LEMMA RelayInvStarts == Init => RelayInv
<1> SUFFICES ASSUME Init PROVE RelayInv
  OBVIOUS
<1>1. NewRequest.kind \in Kinds
  BY RelayAssumption DEF NewRequest
<1>2. NewRequest \in RequestType
  BY <1>1, StageNames DEF NewRequest, RequestType
<1>3. TypeOK
  BY <1>2, RelayAssumption DEF Init, TypeOK, NewRequest
<1>4. Fits(NewRequest)
  BY DEF NewRequest, Fits, FillFits, KeyFits, RefreshFits, Upstream
<1>5. NoFillIsLeftBehind
  BY DEF Init, NoFillIsLeftBehind
<1> QED
  BY <1>3, <1>4, <1>5 DEF RelayInv, Init

\* Steps that are of no relay.
LEMMA OutsideKeeps ==
    ASSUME RelayInv, UNCHANGED <<req, visibility, pending>>,
           body' \in [Keys -> {"none", "fresh", "stale"}],
           owner' \in [Keys -> Requests \cup {Nobody}],
           refresher' \in [Keys -> Requests \cup {Nobody}],
           lost' \subseteq Keys, faults' \in Nat, NoFillIsLeftBehind'
    PROVE  RelayInv'
<1>1. TypeOK'
  BY DEF RelayInv, TypeOK
<1> QED
  BY <1>1 DEF RelayInv, Fits, FillFits, KeyFits, RefreshFits, Shape, SharedKey, Upstream

LEMMA LeasesKeep ==
    ASSUME RelayInv, NEW k \in Keys, Lapse(k) \/ LoseLease(k) \/ LoseRefresh(k) \/ Age(k)
    PROVE  RelayInv'
<1>1. CASE Lapse(k)
  <2>1. owner' \in [Keys -> Requests \cup {Nobody}] /\ lost' \subseteq Keys /\ NoFillIsLeftBehind'
    BY <1>1 DEF Lapse, RelayInv, TypeOK, NoFillIsLeftBehind
  <2> QED
    BY <1>1, <2>1, OutsideKeeps DEF Lapse, outside, RelayInv, TypeOK
<1>2. CASE LoseLease(k)
  <2>1. /\ owner' \in [Keys -> Requests \cup {Nobody}] /\ faults' \in Nat
        /\ NoFillIsLeftBehind'
    BY <1>2 DEF LoseLease, Fault, RelayInv, TypeOK, NoFillIsLeftBehind
  <2> QED
    BY <1>2, <2>1, OutsideKeeps DEF LoseLease, outside, RelayInv, TypeOK
<1>3. CASE LoseRefresh(k)
  <2>1. refresher' \in [Keys -> Requests \cup {Nobody}] /\ faults' \in Nat
    BY <1>3 DEF LoseRefresh, Fault, RelayInv, TypeOK
  <2>2. NoFillIsLeftBehind'
    BY <1>3 DEF LoseRefresh, tables, RelayInv, NoFillIsLeftBehind
  <2> QED
    BY <1>3, <2>1, <2>2, OutsideKeeps DEF LoseRefresh, tables, RelayInv, TypeOK
<1>4. CASE Age(k)
  <2>1. body' \in [Keys -> {"none", "fresh", "stale"}]
    BY <1>4 DEF Age, RelayInv, TypeOK
  <2>2. NoFillIsLeftBehind'
    BY <1>4 DEF Age, RelayInv, NoFillIsLeftBehind
  <2> QED
    BY <1>4, <2>1, <2>2, OutsideKeeps DEF Age, outside, RelayInv, TypeOK
<1> QED
  BY <1>1, <1>2, <1>3, <1>4

LEMMA RelayInvStays == RelayInv /\ [Next]_vars => RelayInv'
<1> SUFFICES ASSUME RelayInv, [Next]_vars PROVE RelayInv'
  OBVIOUS
<1>1. ASSUME NEW c \in Requests, NEW kind \in Kinds, Begin(c, kind) PROVE RelayInv'
  BY <1>1, BeginKeeps
<1>2. ASSUME NEW c \in Requests, Relay(c) PROVE RelayInv'
  BY <1>2,
     HitKeeps, HitStaleKeeps, MissKeeps, CoalesceKeeps, RevalidateKeeps,
     RevalTokenKeeps, RevalCallKeeps, RestoreKeeps, TokenFreeKeeps,
     PublicBackendKeeps, PoolHitKeeps, PoolSelectKeeps, PoolTokenKeeps,
     PoolCallKeeps, FetchedKeeps, RecoverKeeps, FinalizeKeeps, ServedKeeps,
     UnwindKeeps, HandleErrorKeeps, CloseKeeps, ScheduleKeeps, AdmitRefreshKeeps,
     LateAnswerKeeps
     DEF Relay
<1>3. ASSUME NEW c \in Requests, Prove(c) \/ Abort(c) \/ Die(c) PROVE RelayInv'
  BY <1>3, ProveKeeps, AbortKeeps, DieKeeps
<1>4. ASSUME NEW k \in Keys, Lapse(k) \/ LoseLease(k) \/ LoseRefresh(k) \/ Age(k)
      PROVE  RelayInv'
  BY <1>4, LeasesKeep
<1>5. CASE UNCHANGED vars
  <2>1. UNCHANGED <<req, body, owner, refresher, lost, faults, visibility, pending>>
    BY <1>5 DEF vars
  <2>2. NoFillIsLeftBehind'
    BY <2>1 DEF RelayInv, NoFillIsLeftBehind
  <2> QED
    BY <2>1, <2>2, OutsideKeeps DEF RelayInv, TypeOK
<1> QED
  BY <1>1, <1>2, <1>3, <1>4, <1>5 DEF Next, Finished

LEMMA RelayInvHolds == Spec => []RelayInv
<1>1. Init => RelayInv
  BY RelayInvStarts
<1>2. RelayInv /\ [Next]_vars => RelayInv'
  BY RelayInvStays
<1> QED
  BY <1>1, <1>2, PTL DEF Spec

\* However relays interleave, fail, are cancelled or die, the state keeps its
\* shape; in particular a relay of relay.ts never carries the fill of a key other
\* than the one it is at.
THEOREM RelayTypeCorrect == Spec => []TypeOK
<1>1. RelayInv => TypeOK
  BY DEF RelayInv
<1> QED
  BY <1>1, RelayInvHolds, PTL

\* Every grant that relay.ts was given is settled by its relay or known to be
\* lost, however often the relay changed its key, was called again or gave up.
THEOREM FillsAreSettled == Spec => []NoFillIsLeftBehind
<1>1. RelayInv => NoFillIsLeftBehind
  BY DEF RelayInv
<1> QED
  BY <1>1, RelayInvHolds, PTL

\* A relay that acquires a fill holds none, so that relays cannot wait for each
\* other in a circle.
THEOREM WaitersHoldNothing == Spec => []NobodyWaitsHolding
<1>1. RelayInv => NobodyWaitsHolding
  BY DEF RelayInv, NobodyWaitsHolding, Fits, FillFits
<1> QED
  BY <1>1, RelayInvHolds, PTL

\* Work upstream is done only with the fill of the key it will be published
\* under: the internal error of finalizeRelaySuccess cannot happen.
THEOREM UpstreamIsFilled == Spec => []UpstreamHasAFill
<1>1. RelayInv => UpstreamHasAFill
  BY DEF RelayInv, UpstreamHasAFill, Fits, FillFits, Upstream
<1> QED
  BY <1>1, RelayInvHolds, PTL
--------------------------------------------------------------------------------
(* What a relay keeps to itself, and what it refreshes.                    *)

\* A relay that has seen nothing of a repository.
Quiet(q) ==
    /\ q.answer \in {"none", "handed"} /\ q.guard # "proved"
    /\ q.stage \notin {"finalize", "served"}

\* The relay q goes on as r.
Follows(q, r) ==
    /\ r.background = q.background /\ (q.background => r.refresh = q.refresh)
    /\ ~Public /\ Quiet(q) => Quiet(r)

\* A step in which c goes on, and begins and ends no refresh.
Calm(c) ==
    /\ \E r : req' = [req EXCEPT ![c] = r] /\ Follows(req[c], r)
    /\ UNCHANGED <<visibility, pending>>
    /\ ~Public /\ Quiet(req[c]) => UNCHANGED body

LEMMA GoIsCalm ==
    ASSUME NEW c \in Requests, NEW r, Go(c, r), Follows(req[c], r), UNCHANGED outside
    PROVE  Calm(c)
  BY DEF Go, Calm, tables, outside

LEMMA SwitchIsCalm ==
    ASSUME NEW c \in Requests, NEW p \in RequestType, NEW k, SwitchKey(c, p, k),
           Follows(req[c], p), UNCHANGED outside
    PROVE  Calm(c)
<1> DEFINE r == [p EXCEPT !.key = k, !.fill = IF k = p.key THEN p.fill ELSE NoKey]
<1>1. req' = [req EXCEPT ![c] = r] /\ UNCHANGED <<body, visibility, pending>>
  BY DEF SwitchKey, outside
<1>2. /\ r.background = p.background /\ r.refresh = p.refresh /\ r.answer = p.answer
      /\ r.guard = p.guard /\ r.stage = p.stage
  BY DEF RequestType
<1> HIDE DEF r
<1>3. Follows(req[c], r)
  BY <1>2 DEF Follows, Quiet
<1> QED
  BY <1>1, <1>3 DEF Calm

LEMMA AnswerIs ==
    ASSUME NEW q \in RequestType, NEW a \in {"none", "cached", "stale", "data", "handed"}
    PROVE  LET r == Answer(q, a)
           IN  /\ r \in RequestType /\ r.stage = "closing" /\ r.guard = q.guard
               /\ r.background = q.background /\ r.refresh = q.refresh
               /\ r.answer \in {q.answer, a} /\ r.fill = q.fill /\ r.key = q.key
               /\ r.exact = q.exact
<1>1. PICK b \in {"none", "cached", "stale", "data", "handed"} :
          Answer(q, a) = [q EXCEPT !.stage = "closing", !.answer = b] /\ b \in {q.answer, a}
  BY DEF Answer, RequestType
<1> QED
  BY <1>1, StageNames DEF RequestType

\* Answers of a public repository, and errors of any.
LEMMA AnswerFollows ==
    ASSUME NEW q \in RequestType, NEW a \in {"none", "cached", "stale", "data", "handed"},
           Public \/ a = "handed" \/ ~Quiet(q)
    PROVE  Follows(q, Answer(q, a)) /\ Answer(q, a) \in RequestType
  BY AnswerIs DEF Follows, Quiet

LEMMA ThrowFollows ==
    ASSUME NEW q \in RequestType
    PROVE  Follows(q, Throw(q)) /\ Follows(q, Fatal(q))
  BY DEF Follows, Quiet, Throw, Fatal, RequestType

LEMMA StartExactIsCalm ==
    ASSUME NEW c \in Requests, NEW q \in RequestType, Follows(req[c], q),
           StartExact(c, q), UNCHANGED outside
    PROVE  Calm(c)
<1> DEFINE p == [q EXCEPT !.exact = TRUE, !.who = Nobody, !.stage = "lookup",
                          !.nested = q.nested \/ q.reval, !.reval = FALSE,
                          !.guard = "none"]
<1>1. (q.nested \/ q.reval) \in BOOLEAN
  OBVIOUS
<1>2. p \in RequestType
  <2>1. PICK n \in BOOLEAN :
            p = [q EXCEPT !.exact = TRUE, !.who = Nobody, !.stage = "lookup",
                          !.nested = n, !.reval = FALSE, !.guard = "none"]
    BY <1>1
  <2> HIDE DEF p
  <2> QED
    BY <2>1, StageNames DEF RequestType
<1>3. /\ p.background = q.background /\ p.refresh = q.refresh /\ p.answer = q.answer
      /\ p.guard = "none" /\ p.stage = "lookup"
  BY DEF RequestType
<1> HIDE DEF p
<1>4. Follows(req[c], p)
  BY <1>3 DEF Follows, Quiet
<1>5. SwitchKey(c, p, <<"exact", Nobody>>)
  BY DEF StartExact, p
<1> QED
  BY <1>2, <1>4, <1>5, SwitchIsCalm

LEMMA ServeFreshIsCalm ==
    ASSUME NEW c \in Requests, NEW q \in RequestType, Follows(req[c], q), Public,
           NEW k, ServeFresh(c, q, k), UNCHANGED outside
    PROVE  Calm(c)
<1>1. CASE SwitchKey(c, Answer(q, "cached"), k)
  <2>1. Follows(q, Answer(q, "cached")) /\ Answer(q, "cached") \in RequestType
    BY AnswerFollows
  <2>2. Follows(req[c], Answer(q, "cached"))
    BY <2>1 DEF Follows
  <2> QED
    BY <1>1, <2>1, <2>2, SwitchIsCalm
<1>2. CASE StartExact(c, q)
  BY <1>2, StartExactIsCalm
<1> QED
  BY <1>1, <1>2 DEF ServeFresh

\* An answer of the exact list, to a relay that has been at the wide one.
LEMMA ExactAnswerFollows ==
    ASSUME NEW q \in RequestType, NEW a \in {"none", "cached", "stale", "data", "handed"},
           Public, NEW who \in Identities \cup {Nobody}
    PROVE  LET p == [Answer(q, a) EXCEPT !.exact = TRUE, !.who = who]
           IN  Follows(q, p) /\ p \in RequestType
<1> DEFINE r == Answer(q, a)
           p == [r EXCEPT !.exact = TRUE, !.who = who]
<1>1. r \in RequestType /\ r.background = q.background /\ r.refresh = q.refresh
  BY AnswerIs
<1> HIDE DEF r
<1>2. p \in RequestType /\ p.background = q.background /\ p.refresh = q.refresh
  BY <1>1 DEF RequestType
<1> QED
  BY <1>2 DEF Follows, r

LEMMA ServeStaleIsCalm ==
    ASSUME RelayInv, NEW c \in Requests, ServeStale(c, req[c]), UNCHANGED outside
    PROVE  Calm(c)
<1> DEFINE q == req[c]
<1>1. q \in RequestType /\ Public
  BY DEF RelayInv, TypeOK, ServeStale
<1>2. CASE Go(c, Answer(q, "stale"))
  BY <1>1, <1>2, AnswerFollows, GoIsCalm
<1>3. ASSUME NEW k \in ExactKeys(q),
             SwitchKey(c, [Answer(q, "stale") EXCEPT !.exact = TRUE, !.who = k[2]], k)
      PROVE  Calm(c)
  <2> DEFINE p == [Answer(q, "stale") EXCEPT !.exact = TRUE, !.who = k[2]]
  <2>1. k[2] \in Identities \cup {Nobody}
    BY <1>3 DEF ExactKeys
  <2>2. Follows(q, p) /\ p \in RequestType
    BY <1>1, <2>1, ExactAnswerFollows
  <2> HIDE DEF p
  <2> QED
    BY <1>3, <2>2, SwitchIsCalm DEF p
<1> QED
  BY <1>2, <1>3 DEF ServeStale

LEMMA LookupIsCalm ==
    ASSUME RelayInv, NEW c \in Requests,
           \/ \E kind \in Kinds : Begin(c, kind)
           \/ Hit(c) \/ HitStale(c) \/ Miss(c)
    PROVE  Calm(c)
<1> DEFINE q == req[c]
<1>1. q \in RequestType
  BY DEF RelayInv, TypeOK
<1>2. ASSUME NEW kind \in Kinds, Begin(c, kind) PROVE Calm(c)
  <2> DEFINE r == [q EXCEPT !.stage = "lookup", !.kind = kind, !.exact = ~kind.superset,
                            !.key = <<IF kind.superset THEN "wide" ELSE "exact", Nobody>>]
  <2>1. Follows(q, r)
    BY <1>1 DEF Follows, Quiet, RequestType
  <2>2. Go(c, r) /\ UNCHANGED outside
    BY <1>2 DEF Begin
  <2> QED
    BY <2>1, <2>2, GoIsCalm
<1>3. CASE Hit(c)
  <2>1. Public /\ UNCHANGED outside
    BY <1>3 DEF Hit
  <2>2. ASSUME NEW k \in {q.key} \cup IdentityKeys(q),
               ServeFresh(c, [q EXCEPT !.who = k[2]], k)
        PROVE  Calm(c)
    <3> DEFINE p == [q EXCEPT !.who = k[2]]
    <3>1. k[2] \in Identities \cup {Nobody}
      <4>1. q.stage = "lookup" /\ Fits(q)
        BY <1>3 DEF Hit, RelayInv, TypeOK
      <4>2. q.key[2] = Nobody
        BY <4>1 DEF Fits, KeyFits, SharedKey
      <4> QED
        BY <2>2, <4>2 DEF IdentityKeys
    <3>2. p \in RequestType /\ Follows(q, p)
      BY <1>1, <3>1 DEF Follows, Quiet, RequestType
    <3> HIDE DEF p
    <3> QED
      BY <2>1, <2>2, <3>2, ServeFreshIsCalm DEF p
  <2>3. ASSUME NEW k \in ExactKeys(q),
               SwitchKey(c, [Answer(q, "cached") EXCEPT !.exact = TRUE, !.who = k[2]], k)
        PROVE  Calm(c)
    <3> DEFINE p == [Answer(q, "cached") EXCEPT !.exact = TRUE, !.who = k[2]]
    <3>1. k[2] \in Identities \cup {Nobody}
      BY <2>3 DEF ExactKeys
    <3>2. Follows(q, p) /\ p \in RequestType
      BY <1>1, <2>1, <3>1, ExactAnswerFollows
    <3> HIDE DEF p
    <3> QED
      BY <2>1, <2>3, <3>2, SwitchIsCalm DEF p
  <2> QED
    BY <1>3, <2>2, <2>3 DEF Hit
<1>4. CASE HitStale(c)
  <2> DEFINE served(exact) == [Answer(q, "stale") EXCEPT !.exact = exact,
                                  !.refresh = <<IF exact THEN "exact" ELSE "wide", Nobody>>]
  <2>1. Public /\ q.background = FALSE /\ UNCHANGED outside
    BY <1>1, <1>4 DEF HitStale, RequestType
  <2>2. ASSUME NEW exact \in BOOLEAN
        PROVE  served(exact) \in RequestType /\ Follows(q, served(exact))
    <3> DEFINE r == Answer(q, "stale")
               k == <<IF exact THEN "exact" ELSE "wide", Nobody>>
    <3>1. r \in RequestType /\ r.background = q.background
      BY <1>1, AnswerIs
    <3>2. k \in Keys
      BY DEF Keys, Shapes
    <3> HIDE DEF r, k
    <3>3. /\ [r EXCEPT !.exact = exact, !.refresh = k] \in RequestType
          /\ [r EXCEPT !.exact = exact, !.refresh = k].background = q.background
      BY <3>1, <3>2 DEF RequestType
    <3> QED
      BY <2>1, <3>3 DEF Follows, r, k
  <2>3. q.exact \in BOOLEAN
    BY <1>1 DEF RequestType
  <2> HIDE DEF served
  <2>4. Go(c, served(q.exact)) \/ SwitchKey(c, served(TRUE), <<"exact", Nobody>>)
    BY <1>4 DEF HitStale, served
  <2> QED
    BY <2>1, <2>2, <2>3, <2>4, GoIsCalm, SwitchIsCalm
<1>5. CASE Miss(c)
  <2>1. Follows(q, [q EXCEPT !.stage = "coalesce", !.then = "revalidate"])
    BY <1>1 DEF Follows, Quiet, RequestType
  <2>2. Follows(q, Answer(q, "handed"))
    BY <1>1, AnswerFollows
  <2> QED
    BY <1>5, <2>1, <2>2, GoIsCalm DEF Miss
<1> QED
  BY <1>2, <1>3, <1>4, <1>5

\* A step that gives the relay another stage, and no proof.
LEMMA StageFollows ==
    ASSUME NEW q \in RequestType, NEW r, r.background = q.background, r.refresh = q.refresh,
           r.answer = q.answer, r.guard \in {q.guard, "none", "running"},
           r.stage \notin {"finalize", "served"}
    PROVE  Follows(q, r)
  BY DEF Follows, Quiet

LEMMA CoalesceIsCalm ==
    ASSUME RelayInv, NEW c \in Requests, Coalesce(c)
    PROVE  Calm(c)
<1> DEFINE q == req[c]
<1>1. q \in RequestType /\ Fits(q) /\ q.stage = "coalesce" /\ UNCHANGED outside
      /\ req \in [Requests -> RequestType]
  BY DEF RelayInv, TypeOK, Coalesce
<1>2. ASSUME NEW p, p = [q EXCEPT !.stage = q.then] \/ (Public /\ p = Answer(q, "cached")),
             req' = [req EXCEPT ![c] = [p EXCEPT !.fill = q.key]], UNCHANGED body
      PROVE  Calm(c)
  <2>1. CASE p = [q EXCEPT !.stage = q.then]
    <3> DEFINE r == [p EXCEPT !.fill = q.key]
    <3>1. q.then \in {"none", "late", "revalidate", "revaltoken", "tokenfree", "pooltoken"}
      BY <1>1 DEF RequestType
    <3>2. /\ r.background = q.background /\ r.refresh = q.refresh /\ r.answer = q.answer
          /\ r.guard = q.guard /\ r.stage = q.then
      BY <1>1, <2>1 DEF RequestType
    <3> HIDE DEF r
    <3>3. Follows(q, r)
      BY <1>1, <3>1, <3>2, StageFollows
    <3> QED
      BY <1>1, <1>2, <3>3 DEF r, Calm, outside
  <2>2. CASE Public /\ p = Answer(q, "cached")
    <3> DEFINE r == [p EXCEPT !.fill = q.key]
    <3>1. p \in RequestType /\ p.background = q.background /\ p.refresh = q.refresh
      BY <1>1, <2>2, AnswerIs
    <3>2. r.background = q.background /\ r.refresh = q.refresh
      BY <3>1 DEF RequestType
    <3> HIDE DEF r
    <3>3. Follows(q, r)
      BY <2>2, <3>2 DEF Follows
    <3> QED
      BY <1>1, <1>2, <3>3 DEF r, Calm, outside
  <2> QED
    BY <1>2, <2>1, <2>2
<1>3. CASE Public /\ ServeFresh(c, q, q.key)
  <2>1. Follows(q, q)
    BY DEF Follows
  <2> QED
    BY <1>1, <1>3, <2>1, ServeFreshIsCalm
<1>4. CASE UNCHANGED <<body, req>>
  <2>1. req' = [req EXCEPT ![c] = q] /\ Follows(q, q)
    BY <1>1, <1>4 DEF Follows
  <2> QED
    BY <1>1, <1>4, <2>1 DEF Calm, outside
<1>5. CASE Go(c, Throw(q))
  BY <1>1, <1>5, ThrowFollows, GoIsCalm
<1> QED
  BY <1>2, <1>3, <1>4, <1>5 DEF Coalesce

LEMMA RevalidationIsCalm ==
    ASSUME RelayInv, NEW c \in Requests,
           Revalidate(c) \/ RevalToken(c) \/ RevalCall(c) \/ Restore(c)
    PROVE  Calm(c)
<1> DEFINE q == req[c]
<1>1. q \in RequestType /\ UNCHANGED outside
  BY DEF RelayInv, TypeOK, Revalidate, RevalToken, RevalCall, Restore
<1>2. CASE Revalidate(c)
  <2> DEFINE fail == [q EXCEPT !.reval = TRUE]
             p(i) == [q EXCEPT !.stage = "coalesce", !.then = "revaltoken",
                               !.reval = TRUE, !.who = i]
  <2>1. /\ Follows(q, [q EXCEPT !.stage = "tokenfree"])
        /\ Follows(q, [q EXCEPT !.stage = "revalcall", !.reval = TRUE])
    BY <1>1 DEF Follows, Quiet, RequestType
  <2>2. \A i \in Identities : p(i) \in RequestType
    BY <1>1, StageNames DEF RequestType
  <2>3. \A i \in Identities : Follows(q, p(i))
    BY <1>1 DEF Follows, Quiet, RequestType
  <2>4. fail \in RequestType /\ Follows(q, fail)
    BY <1>1 DEF Follows, Quiet, RequestType
  <2> HIDE DEF p, fail
  <2>5. Follows(q, Throw(fail))
    BY <2>4, ThrowFollows DEF Follows
  <2>6. \/ Go(c, [q EXCEPT !.stage = "tokenfree"])
        \/ Go(c, [q EXCEPT !.stage = "revalcall", !.reval = TRUE])
        \/ \E i \in Identities : SwitchKey(c, p(i), <<Shape(q), i>>)
        \/ Go(c, Throw(fail))
    BY <1>2 DEF Revalidate, Candidates, p, fail
  <2> QED
    BY <1>1, <2>1, <2>2, <2>3, <2>5, <2>6, GoIsCalm, SwitchIsCalm
<1>3. CASE RevalToken(c)
  <2>1. /\ Follows(q, [q EXCEPT !.stage = "revalcall"])
        /\ Follows(q, [q EXCEPT !.stage = "restore", !.failed = q.failed \cup {q.who}])
    BY <1>1 DEF Follows, Quiet, RequestType
  <2> QED
    BY <1>1, <1>3, <2>1, ThrowFollows, GoIsCalm DEF RevalToken
<1>4. CASE RevalCall(c)
  <2>1. /\ Public => Follows(q, [q EXCEPT !.stage = "finalize"])
        /\ Follows(q, [q EXCEPT !.stage = "restore"])
        /\ Follows(q, [q EXCEPT !.stage = "restore", !.failed = q.failed \cup {q.who}])
    BY <1>1 DEF Follows, Quiet, RequestType
  <2> QED
    BY <1>1, <1>4, <2>1, ThrowFollows, GoIsCalm DEF RevalCall
<1>5. CASE Restore(c)
  <2> DEFINE p(stage) == [q EXCEPT !.who = Nobody, !.then = "tokenfree", !.stage = stage]
  <2>1. \A stage \in {"tokenfree", "coalesce"} : p(stage) \in RequestType /\ Follows(q, p(stage))
    BY <1>1, StageNames DEF Follows, Quiet, RequestType
  <2> HIDE DEF p
  <2>2. \E stage \in {"tokenfree", "coalesce"} : SwitchKey(c, p(stage), SharedKey(q))
    BY <1>5 DEF Restore, RestoreShared, p
  <2> QED
    BY <1>1, <2>1, <2>2, SwitchIsCalm
<1> QED
  BY <1>2, <1>3, <1>4, <1>5

LEMMA BackendIsCalm ==
    ASSUME RelayInv, NEW c \in Requests, TokenFree(c) \/ PublicBackend(c) \/ PoolCall(c)
    PROVE  Calm(c)
<1> DEFINE q == req[c]
<1>1. q \in RequestType /\ UNCHANGED outside
  BY DEF RelayInv, TypeOK, TokenFree, PublicBackend, PoolCall
<1>2. CASE TokenFree(c)
  <2> DEFINE p == [q EXCEPT !.reval = FALSE]
             pool == [q EXCEPT !.reval = FALSE, !.guard = "running", !.stage = "pool"]
             public == [q EXCEPT !.reval = FALSE, !.guard = "proved", !.stage = "public"]
             done == [q EXCEPT !.reval = FALSE, !.stage = "finalize"]
  <2>1. \/ Public /\ Go(c, done)
        \/ Go(c, pool)
        \/ Public /\ Go(c, public)
        \/ Go(c, Throw(p))
    BY <1>2 DEF TokenFree
  <2>2. /\ Follows(q, pool)
        /\ Public => Follows(q, done) /\ Follows(q, public)
    BY <1>1 DEF Follows, Quiet, RequestType
  <2>3. p \in RequestType /\ Follows(q, p)
    <3>1. p \in RequestType
      BY <1>1 DEF RequestType
    <3>2. Follows(q, p)
      BY <1>1 DEF Follows, Quiet, RequestType
    <3> QED
      BY <3>1, <3>2
  <2> HIDE DEF p, pool, public, done
  <2>4. Follows(q, Throw(p))
    BY <2>3, ThrowFollows DEF Follows
  <2> QED
    BY <1>1, <2>1, <2>2, <2>4, GoIsCalm
<1>3. CASE PublicBackend(c)
  <2>1. /\ Public => Follows(q, [q EXCEPT !.stage = "finalize"])
        /\ Follows(q, [q EXCEPT !.stage = "pool"])
    BY <1>1 DEF Follows, Quiet, RequestType
  <2> QED
    BY <1>1, <1>3, <2>1, ThrowFollows, GoIsCalm DEF PublicBackend
<1>4. CASE PoolCall(c)
  <2>1. Follows(q, [q EXCEPT !.stage = "fetched"])
    BY <1>1 DEF Follows, Quiet, RequestType
  <2> QED
    BY <1>1, <1>4, <2>1, ThrowFollows, GoIsCalm DEF PoolCall
<1> QED
  BY <1>2, <1>3, <1>4

LEMMA PoolIsCalm ==
    ASSUME RelayInv, NEW c \in Requests,
           PoolHit(c) \/ PoolSelect(c) \/ PoolToken(c) \/ Fetched(c) \/ Recover(c)
    PROVE  Calm(c)
<1> DEFINE q == req[c]
<1>1. q \in RequestType /\ UNCHANGED outside
  BY DEF RelayInv, TypeOK, PoolHit, PoolSelect, PoolToken, Fetched, Recover
<1>2. CASE PoolHit(c)
  <2>1. PICK k \in IdentityKeys(q) : ServeFresh(c, [q EXCEPT !.who = k[2]], k)
    BY <1>2 DEF PoolHit
  <2> DEFINE p == [q EXCEPT !.who = k[2]]
  <2>2. k[2] \in Identities /\ Public
    BY <1>2 DEF IdentityKeys, PoolHit
  <2>3. p \in RequestType /\ Follows(q, p)
    BY <1>1, <2>2 DEF Follows, Quiet, RequestType
  <2> HIDE DEF p
  <2> QED
    BY <1>1, <2>1, <2>2, <2>3, ServeFreshIsCalm DEF p
<1>3. CASE PoolSelect(c)
  <2> DEFINE p(i) == [q EXCEPT !.stage = "coalesce", !.then = "pooltoken", !.who = i]
  <2>1. \A i \in Identities : p(i) \in RequestType
    BY <1>1, StageNames DEF RequestType
  <2>2. \A i \in Identities : Follows(q, p(i))
    BY <1>1 DEF Follows, Quiet, RequestType
  <2> HIDE DEF p
  <2>3. (\E i \in Identities : SwitchKey(c, p(i), <<Shape(q), i>>)) \/ Go(c, Throw(q))
    BY <1>3 DEF PoolSelect, Candidates, p
  <2> QED
    BY <1>1, <2>1, <2>2, <2>3, ThrowFollows, GoIsCalm, SwitchIsCalm
<1>4. CASE PoolToken(c)
  <2>1. /\ Follows(q, [q EXCEPT !.stage = "poolcall"])
        /\ Follows(q, [q EXCEPT !.stage = "pool", !.failed = q.failed \cup {q.who}])
    BY <1>1 DEF Follows, Quiet, RequestType
  <2>2. \/ Go(c, [q EXCEPT !.stage = "poolcall"])
        \/ Go(c, [q EXCEPT !.stage = "pool", !.failed = q.failed \cup {q.who}])
        \/ Go(c, Throw(q)) \/ Go(c, Fatal(q))
    BY <1>4 DEF PoolToken
  <2> QED
    BY <1>1, <2>1, <2>2, ThrowFollows, GoIsCalm
<1>5. CASE Fetched(c)
  <2>1. /\ Proved(q) => Follows(q, [q EXCEPT !.stage = "finalize"])
        /\ Follows(q, [q EXCEPT !.stage = "pool", !.failed = q.failed \cup {q.who}])
    BY <1>1 DEF Follows, Quiet, RequestType, Proved
  <2> QED
    BY <1>1, <1>5, <2>1, ThrowFollows, GoIsCalm DEF Fetched
<1>6. CASE Recover(c)
  BY <1>1, <1>6, ServeStaleIsCalm DEF Recover
<1> QED
  BY <1>2, <1>3, <1>4, <1>5, <1>6

LEMMA AbortedFollows ==
    ASSUME NEW q \in RequestType, NEW p \in RequestType, p.background = q.background,
           p.refresh = q.refresh, p.answer = q.answer, p.guard \in {q.guard, "refused"}
    PROVE  Follows(q, Aborted(p))
<1> DEFINE a == Answer(p, "handed")
           r == Aborted(p)
<1>1. /\ a \in RequestType /\ a.guard = p.guard /\ a.background = p.background
      /\ a.refresh = p.refresh /\ a.answer \in {p.answer, "handed"}
  BY AnswerIs
<1> HIDE DEF a
<1>2. r = [a EXCEPT !.stage = "aborting", !.then = IF p.stage = "coalesce" THEN "late" ELSE "none"]
  BY DEF Aborted, a
<1> HIDE DEF r
<1>3. /\ r.background = a.background /\ r.refresh = a.refresh /\ r.answer = a.answer
      /\ r.guard = a.guard /\ r.stage = "aborting"
  BY <1>1, <1>2 DEF RequestType
<1>4. Follows(q, r)
  BY <1>1, <1>3 DEF Follows, Quiet
<1> QED
  BY <1>4 DEF r

LEMMA EndIsCalm ==
    ASSUME RelayInv, NEW c \in Requests,
           Finalize(c) \/ Served(c) \/ Unwind(c) \/ HandleError(c)
    PROVE  Calm(c)
<1> DEFINE q == req[c]
<1>1. q \in RequestType /\ UNCHANGED outside
  BY DEF RelayInv, TypeOK, Finalize, Served, Unwind, HandleError
<1>2. CASE Finalize(c)
  <2> DEFINE settled == [q EXCEPT !.fill = NoKey]
             served == [settled EXCEPT !.stage = "served"]
             r == IF q.exact THEN Answer(settled, "data") ELSE served
  <2>1. ~Quiet(q)
    BY <1>2 DEF Finalize, Quiet
  <2>2. /\ settled \in RequestType /\ settled.background = q.background
        /\ settled.refresh = q.refresh
    BY <1>1 DEF RequestType
  <2> HIDE DEF settled
  <2>3. served.background = q.background /\ served.refresh = q.refresh
    BY <2>2 DEF RequestType
  <2>4. /\ Answer(settled, "data").background = q.background
        /\ Answer(settled, "data").refresh = q.refresh
    BY <2>2, AnswerIs
  <2> HIDE DEF served
  <2>5. Follows(q, r)
    BY <2>1, <2>3, <2>4 DEF Follows
  <2> HIDE DEF r
  <2>6. req' = [req EXCEPT ![c] = r] \/ Go(c, Throw(q))
    BY <1>2 DEF Finalize, settled, served, r
  <2>7. CASE req' = [req EXCEPT ![c] = r]
    BY <1>1, <2>1, <2>5, <2>7 DEF Calm, outside
  <2> QED
    BY <1>1, <2>6, <2>7, ThrowFollows, GoIsCalm
<1>3. CASE Served(c)
  <2>1. ~Quiet(q) /\ Follows(q, q)
    BY <1>3 DEF Served, Quiet, Follows
  <2> QED
    BY <1>1, <1>3, <2>1, AnswerFollows, GoIsCalm, StartExactIsCalm DEF Served
<1>4. CASE Unwind(c)
  <2> DEFINE caught == [q EXCEPT !.stage = "restore", !.guard = "none", !.reval = FALSE]
             outer == [q EXCEPT !.stage = "restore", !.guard = "none", !.reval = FALSE,
                                !.nested = FALSE]
             failing == [q EXCEPT !.stage = "failing"]
  <2>1. Follows(q, caught) /\ Follows(q, outer) /\ Follows(q, failing)
    BY <1>1 DEF Follows, Quiet, RequestType
  <2>2. Go(c, caught) \/ Go(c, outer) \/ Go(c, failing)
    BY <1>4 DEF Unwind
  <2> QED
    BY <1>1, <2>1, <2>2, GoIsCalm
<1>5. CASE HandleError(c)
  BY <1>1, <1>5, AnswerFollows, GoIsCalm, ServeStaleIsCalm DEF HandleError
<1> QED
  BY <1>2, <1>3, <1>4, <1>5

LEMMA InterruptionIsCalm ==
    ASSUME RelayInv, NEW c \in Requests,
           Prove(c) \/ Abort(c) \/ Die(c) \/ LateAnswer(c) \/ AdmitRefresh(c)
    PROVE  Calm(c)
<1> DEFINE q == req[c]
<1>1. q \in RequestType
  BY DEF RelayInv, TypeOK
<1>2. CASE Prove(c)
  <2> DEFINE p == [q EXCEPT !.guard = "refused"]
             proved == [q EXCEPT !.guard = "proved"]
  <2>1. /\ p \in RequestType /\ p.background = q.background /\ p.refresh = q.refresh
        /\ p.answer = q.answer /\ p.guard = "refused"
    BY <1>1 DEF RequestType
  <2>2. Public => Follows(q, proved)
    BY <1>1 DEF Follows, RequestType
  <2> HIDE DEF p, proved
  <2>3. Follows(q, Aborted(p))
    BY <1>1, <2>1, AbortedFollows
  <2>4. (Public /\ Go(c, proved)) \/ Go(c, Aborted(p))
    BY <1>2 DEF Prove, p, proved
  <2> QED
    BY <1>2, <2>2, <2>3, <2>4, GoIsCalm DEF Prove
<1>3. CASE Abort(c)
  <2>1. Follows(q, Aborted(q))
    BY <1>1, AbortedFollows
  <2> QED
    BY <1>3, <2>1 DEF Abort, Calm, tables, outside
<1>4. CASE Die(c)
  <2> DEFINE r == [q EXCEPT !.stage = "dead", !.fill = NoKey, !.refresh = NoKey]
  <2>1. q.background = FALSE
    BY <1>1, <1>4 DEF Die, RequestType
  <2>2. Follows(q, r)
    BY <1>1, <2>1 DEF Follows, Quiet, RequestType
  <2>3. req' = [req EXCEPT ![c] = r] /\ UNCHANGED <<body, visibility, pending>>
    BY <1>4 DEF Die, outside
  <2> QED
    BY <2>2, <2>3 DEF Calm
<1>5. CASE LateAnswer(c)
  <2>1. \A f : /\ Follows(q, [q EXCEPT !.then = "none", !.fill = f])
               /\ Follows(q, [q EXCEPT !.then = "none"])
    BY <1>1 DEF Follows, Quiet, RequestType
  <2>2. \/ /\ req' = [req EXCEPT ![c] = [q EXCEPT !.then = "none", !.fill = q.key]]
           /\ UNCHANGED body
        \/ Go(c, [q EXCEPT !.then = "none"])
    BY <1>5 DEF LateAnswer
  <2>3. UNCHANGED outside
    BY <1>5 DEF LateAnswer
  <2> QED
    BY <2>1, <2>2, <2>3, GoIsCalm DEF Calm, outside
<1>6. CASE AdmitRefresh(c)
  <2> DEFINE r == [q EXCEPT !.stage = "lookup", !.key = q.refresh, !.who = Nobody,
                            !.failed = {}, !.guard = "none",
                            !.reval = FALSE, !.nested = FALSE]
             ended == [q EXCEPT !.stage = "closing"]
  <2>1. Follows(q, r)
    BY <1>1 DEF Follows, Quiet, RequestType
  <2>2. Follows(q, ended)
    BY <1>1 DEF Follows, Quiet, RequestType
  <2>3. Go(c, r) \/ Go(c, ended)
    BY <1>6 DEF AdmitRefresh
  <2>4. UNCHANGED <<visibility, pending>>
    BY <1>6 DEF AdmitRefresh
  <2> HIDE DEF r, ended
  <2> QED
    BY <2>1, <2>2, <2>3, <2>4 DEF Go, tables, Calm
<1> QED
  BY <1>2, <1>3, <1>4, <1>5, <1>6

--------------------------------------------------------------------------------
(* Private repositories.                                                   *)

PrivateInv ==
    ~Public => /\ \A k \in Keys : body[k] = "none"
               /\ \A c \in Requests : Quiet(req[c])

LEMMA CalmKeepsPrivate ==
    ASSUME RelayInv, PrivateInv, NEW c \in Requests, Calm(c)
    PROVE  PrivateInv'
<1>1. PICK r : req' = [req EXCEPT ![c] = r] /\ Follows(req[c], r)
  BY DEF Calm
<1>2. SUFFICES ASSUME ~Public
               PROVE  /\ \A k \in Keys : body'[k] = "none"
                      /\ \A d \in Requests : Quiet(req'[d])
  BY DEF PrivateInv, Calm, Public, Quiet
<1>3. req \in [Requests -> RequestType] /\ Quiet(req[c]) /\ UNCHANGED body
  BY <1>2 DEF RelayInv, TypeOK, PrivateInv, Calm
<1>4. Quiet(r)
  BY <1>1, <1>2, <1>3 DEF Follows
<1>5. ASSUME NEW d \in Requests PROVE Quiet(req'[d])
  <2>1. req'[d] = IF d = c THEN r ELSE req[d]
    BY <1>1, <1>3
  <2> QED
    BY <1>2, <1>4, <2>1 DEF PrivateInv
<1> QED
  BY <1>2, <1>3, <1>5 DEF PrivateInv

--------------------------------------------------------------------------------
(* Refreshes.                                                              *)

\* The requests of isolate w, where requests are as in r, that refresh something.
Running(r, w) ==
    {c \in Requests : IsolateOf[c] = w /\ r[c].background /\ r[c].refresh # NoKey}

\* They are those that the isolate has listed as P.
Counted(r, P, w) ==
    /\ IsFiniteSet(Running(r, w)) /\ IsFiniteSet(P)
    /\ Cardinality(Running(r, w)) = Cardinality(P) /\ Cardinality(P) <= MaxRefreshes
    /\ P = {r[c].refresh : c \in Running(r, w)}
    /\ \A c, d \in Running(r, w) : r[c].refresh = r[d].refresh => c = d

CountInv == \A w \in DOMAIN pending : Counted(req, pending[w], w)

LEMMA CountedStays ==
    ASSUME NEW r, NEW s, NEW P, NEW w, Counted(r, P, w),
           Running(s, w) = Running(r, w),
           \A c \in Running(r, w) : s[c].refresh = r[c].refresh
    PROVE  Counted(s, P, w)
<1>1. {s[c].refresh : c \in Running(s, w)} = {r[c].refresh : c \in Running(r, w)}
  OBVIOUS
<1> QED
  BY <1>1 DEF Counted

\* The other isolates do not see what c does.
LEMMA OtherIsolates ==
    ASSUME RelayInv, NEW c \in Requests, NEW q, req' = [req EXCEPT ![c] = q],
           NEW w, w # IsolateOf[c], NEW P, Counted(req, P, w)
    PROVE  Counted(req', P, w)
<1>1. \A d \in Requests : d # c => req'[d] = req[d]
  BY DEF RelayInv, TypeOK
<1>2. Running(req', w) = Running(req, w)
  BY <1>1 DEF Running
<1>3. \A d \in Running(req, w) : req'[d].refresh = req[d].refresh
  BY <1>1 DEF Running
<1> QED
  BY <1>2, <1>3, CountedStays

LEMMA CalmKeepsCount ==
    ASSUME RelayInv, CountInv, NEW c \in Requests, Calm(c)
    PROVE  CountInv'
<1>1. PICK r : req' = [req EXCEPT ![c] = r] /\ Follows(req[c], r)
  BY DEF Calm
<1>2. pending' = pending /\ req \in [Requests -> RequestType]
  BY DEF Calm, RelayInv, TypeOK
<1>3. \A d \in Requests : req'[d] = IF d = c THEN r ELSE req[d]
  BY <1>1, <1>2
<1>4. r.background = req[c].background /\ (req[c].background => r.refresh = req[c].refresh)
  BY <1>1 DEF Follows
<1>5. ASSUME NEW w \in DOMAIN pending PROVE Counted(req', pending[w], w)
  <2>1. Counted(req, pending[w], w)
    BY DEF CountInv
  <2>2. Running(req', w) = Running(req, w)
    BY <1>3, <1>4 DEF Running
  <2>3. \A d \in Running(req, w) : req'[d].refresh = req[d].refresh
    BY <1>3, <1>4 DEF Running
  <2> QED
    BY <2>1, <2>2, <2>3, CountedStays
<1> QED
  BY <1>2, <1>5 DEF CountInv, Counted, Running

\* A refresh ends, or its request was not refreshing anything.
LEMMA CloseKeepsCount ==
    ASSUME RelayInv, CountInv, NEW c \in Requests, Close(c)
    PROVE  CountInv'
<1> DEFINE q == req[c]
           w == IsolateOf[c]
           over == [q EXCEPT !.stage = "done", !.fill = NoKey]
           ended == [q EXCEPT !.stage = "done", !.fill = NoKey, !.refresh = NoKey]
<1>1. /\ q \in RequestType /\ q.background \in BOOLEAN /\ req \in [Requests -> RequestType]
      /\ pending \in [{IsolateOf[d] : d \in Requests} -> SUBSET Keys]
  BY DEF RelayInv, TypeOK, RequestType
<1>2. CASE ~q.background
  <2>1. Follows(q, over)
    BY <1>1, <1>2 DEF Follows, Quiet, RequestType
  <2>2. req' = [req EXCEPT ![c] = over] /\ UNCHANGED <<visibility, pending, body>>
    BY <1>2 DEF Close, Closed
  <2>3. Calm(c)
    BY <2>1, <2>2 DEF Calm
  <2> QED
    BY <2>3, CalmKeepsCount
<1>3. CASE q.background
  <2> DEFINE P == pending[w] \ {q.refresh}
  <2>1. req' = [req EXCEPT ![c] = ended] /\ pending' = [pending EXCEPT ![w] = P]
    BY <1>3 DEF Close, Closed
  <2>2. ended.refresh = NoKey
    BY <1>1 DEF RequestType
  <2> HIDE DEF ended
  <2>3. \A d \in Requests : req'[d] = IF d = c THEN ended ELSE req[d]
    BY <1>1, <2>1
  <2>4. w \in DOMAIN pending
    BY <1>1
  <2>5. Counted(req, pending[w], w)
    BY <2>4 DEF CountInv
  <2>6. Running(req', w) = Running(req, w) \ {c}
    BY <2>2, <2>3 DEF Running
  <2>7. Counted(req', P, w)
    <3>1. CASE q.refresh = NoKey
      <4>1. c \notin Running(req, w)
        BY <3>1 DEF Running
      <4>2. P = pending[w]
        BY <1>1, <2>4, <3>1, Names
      <4>3. \A d \in Running(req, w) : req'[d].refresh = req[d].refresh
        BY <2>3, <4>1 DEF Running
      <4>4. Running(req', w) = Running(req, w)
        BY <2>6, <4>1
      <4> QED
        BY <2>5, <4>2, <4>3, <4>4, CountedStays
    <3>2. CASE q.refresh # NoKey
      <4>1. c \in Running(req, w)
        BY <1>3, <3>2 DEF Running
      <4>2. q.refresh \in pending[w]
        BY <2>5, <4>1 DEF Counted
      <4>3. /\ IsFiniteSet(Running(req', w)) /\ IsFiniteSet(P)
            /\ Cardinality(Running(req', w)) = Cardinality(Running(req, w)) - 1
            /\ Cardinality(P) = Cardinality(pending[w]) - 1
        <5>1. IsFiniteSet(Running(req, w)) /\ IsFiniteSet(pending[w])
          BY <2>5 DEF Counted
        <5>2. /\ IsFiniteSet(Running(req, w) \ {c})
              /\ Cardinality(Running(req, w) \ {c}) = Cardinality(Running(req, w)) - 1
          BY <4>1, <5>1, FS_RemoveElement
        <5>3. IsFiniteSet(P) /\ Cardinality(P) = Cardinality(pending[w]) - 1
          BY <4>2, <5>1, FS_RemoveElement
        <5> QED
          BY <2>6, <5>2, <5>3
      <4>4. /\ Cardinality(pending[w]) \in Nat /\ MaxRefreshes \in Nat
            /\ Cardinality(Running(req, w)) = Cardinality(pending[w])
            /\ Cardinality(pending[w]) <= MaxRefreshes
        BY <2>5, FS_CardinalityType, RelayAssumption DEF Counted
      <4>5. \A d \in Running(req', w) : d \in Running(req, w) /\ req'[d].refresh = req[d].refresh
                                         /\ d # c
        BY <2>3, <2>6 DEF Running
      <4>6. \A d, e \in Running(req', w) : req'[d].refresh = req'[e].refresh => d = e
        BY <2>5, <4>5 DEF Counted
      <4>7. P = {req'[d].refresh : d \in Running(req', w)}
        <5>1. \A d \in Running(req, w) : d # c => req[d].refresh # q.refresh
          BY <2>5, <4>1 DEF Counted
        <5>2. pending[w] = {req[d].refresh : d \in Running(req, w)}
          BY <2>5 DEF Counted
        <5>3. ASSUME NEW k \in P PROVE \E d \in Running(req', w) : k = req'[d].refresh
          <6>1. PICK d \in Running(req, w) : k = req[d].refresh
            BY <5>2
          <6>2. d # c
            BY <6>1
          <6> QED
            BY <2>6, <4>5, <6>1, <6>2
        <5>4. ASSUME NEW d \in Running(req', w) PROVE req'[d].refresh \in P
          BY <4>5, <5>1, <5>2
        <5> QED
          BY <5>3, <5>4
      <4> HIDE DEF P
      <4>8. /\ Cardinality(Running(req', w)) = Cardinality(P)
            /\ Cardinality(P) <= MaxRefreshes
        BY <4>3, <4>4
      <4> QED
        BY <4>3, <4>6, <4>7, <4>8 DEF Counted
    <3> QED
      BY <3>1, <3>2
  <2> HIDE DEF P
  <2>8. ASSUME NEW v \in DOMAIN pending PROVE Counted(req', pending'[v], v)
    <3>1. CASE v = w
      BY <1>1, <2>1, <2>7, <3>1
    <3>2. CASE v # w
      <4>1. pending'[v] = pending[v] /\ Counted(req, pending[v], v)
        BY <1>1, <2>1, <3>2 DEF CountInv
      <4> QED
        BY <2>1, <3>2, <4>1, OtherIsolates
    <3> QED
      BY <3>1, <3>2
  <2>9. DOMAIN pending' = DOMAIN pending
    BY <1>1, <2>1
  <2> QED
    BY <2>8, <2>9 DEF CountInv, Counted, Running
<1> QED
  BY <1>1, <1>2, <1>3

\* A refresh begins, if its isolate has room for it and none of its key.
LEMMA ScheduleKeepsCount ==
    ASSUME RelayInv, CountInv, NEW c \in Requests, Schedule(c)
    PROVE  CountInv'
<1> DEFINE q == req[c]
           w == IsolateOf[c]
           begun == [q EXCEPT !.stage = "admitting", !.background = TRUE]
           dropped == [q EXCEPT !.refresh = NoKey]
<1>1. /\ q \in RequestType /\ req \in [Requests -> RequestType]
      /\ pending \in [{IsolateOf[d] : d \in Requests} -> SUBSET Keys]
      /\ q.refresh # NoKey
  BY DEF RelayInv, TypeOK, Schedule
<1>2. q.background = FALSE
  <2>1. Fits(q) /\ q.stage = "done"
    BY DEF RelayInv, Schedule
  <2> QED
    BY <1>1, <2>1 DEF Fits, RefreshFits, RequestType
<1>3. CASE ~Schedulable(w, q.refresh)
  <2>1. Go(c, dropped) /\ UNCHANGED <<visibility, pending>>
    BY <1>3 DEF Schedule
  <2>2. Follows(q, dropped)
    BY <1>1, <1>2 DEF Follows, Quiet, RequestType
  <2>3. Calm(c)
    BY <2>1, <2>2 DEF Calm, Go, tables
  <2> QED
    BY <2>3, CalmKeepsCount
<1>4. CASE Schedulable(w, q.refresh)
  <2> DEFINE P == pending[w] \cup {q.refresh}
  <2>1. req' = [req EXCEPT ![c] = begun] /\ pending' = [pending EXCEPT ![w] = P]
    BY <1>4 DEF Schedule, Go
  <2>2. begun.refresh = q.refresh /\ begun.background = TRUE
    BY <1>1 DEF RequestType
  <2> HIDE DEF begun
  <2>3. \A d \in Requests : req'[d] = IF d = c THEN begun ELSE req[d]
    BY <1>1, <2>1
  <2>4. w \in DOMAIN pending
    BY <1>1
  <2>5. Counted(req, pending[w], w)
    BY <2>4 DEF CountInv
  <2>6. Running(req', w) = Running(req, w) \cup {c} /\ c \notin Running(req, w)
    BY <1>1, <1>2, <2>2, <2>3 DEF Running
  <2>7. q.refresh \notin pending[w] /\ Cardinality(pending[w]) < MaxRefreshes
    BY <1>4 DEF Schedulable
  <2>8. /\ IsFiniteSet(Running(req', w)) /\ IsFiniteSet(P)
        /\ Cardinality(Running(req', w)) = Cardinality(Running(req, w)) + 1
        /\ Cardinality(P) = Cardinality(pending[w]) + 1
    <3>1. IsFiniteSet(Running(req, w)) /\ IsFiniteSet(pending[w])
      BY <2>5 DEF Counted
    <3>2. /\ IsFiniteSet(Running(req, w) \cup {c})
          /\ Cardinality(Running(req, w) \cup {c}) = Cardinality(Running(req, w)) + 1
      BY <2>6, <3>1, FS_AddElement
    <3>3. IsFiniteSet(P) /\ Cardinality(P) = Cardinality(pending[w]) + 1
      BY <2>7, <3>1, FS_AddElement
    <3> QED
      BY <2>6, <3>2, <3>3
  <2>9. /\ Cardinality(pending[w]) \in Nat /\ MaxRefreshes \in Nat
        /\ Cardinality(Running(req, w)) = Cardinality(pending[w])
    BY <2>5, FS_CardinalityType, RelayAssumption DEF Counted
  <2>10. /\ \A d \in Running(req, w) : req'[d].refresh = req[d].refresh /\ d # c
         /\ req'[c].refresh = q.refresh
    BY <2>2, <2>3, <2>6 DEF Running
  <2>11. pending[w] = {req[d].refresh : d \in Running(req, w)}
    BY <2>5 DEF Counted
  <2>12. \A d \in Running(req, w) : req[d].refresh # q.refresh
    BY <2>7, <2>11
  <2>13. \A d, e \in Running(req', w) : req'[d].refresh = req'[e].refresh => d = e
    BY <2>5, <2>6, <2>10, <2>12 DEF Counted
  <2>14. P = {req'[d].refresh : d \in Running(req', w)}
    BY <2>6, <2>10, <2>11
  <2> HIDE DEF P
  <2>15. Counted(req', P, w)
    BY <2>7, <2>8, <2>9, <2>13, <2>14 DEF Counted
  <2>16. ASSUME NEW v \in DOMAIN pending PROVE Counted(req', pending'[v], v)
    <3>1. CASE v = w
      BY <1>1, <2>1, <2>15, <3>1
    <3>2. CASE v # w
      <4>1. pending'[v] = pending[v] /\ Counted(req, pending[v], v)
        BY <1>1, <2>1, <3>2 DEF CountInv
      <4> QED
        BY <2>1, <3>2, <4>1, OtherIsolates
    <3> QED
      BY <3>1, <3>2
  <2>17. DOMAIN pending' = DOMAIN pending
    BY <1>1, <2>1
  <2> QED
    BY <2>16, <2>17 DEF CountInv, Counted, Running
<1> QED
  BY <1>3, <1>4

--------------------------------------------------------------------------------
(* The steps that are not calm.                                            *)

\* The end of a relay and the begin of a refresh show nothing of a repository.
LEMMA FinallyKeepsPrivate ==
    ASSUME RelayInv, PrivateInv, NEW c \in Requests, Close(c) \/ Schedule(c)
    PROVE  PrivateInv'
<1> DEFINE q == req[c]
<1>1. q \in RequestType /\ req \in [Requests -> RequestType] /\ UNCHANGED <<visibility, body>>
  BY DEF RelayInv, TypeOK, Close, Schedule, Go, tables
<1>2. \E r : req' = [req EXCEPT ![c] = r] /\ (Quiet(q) => Quiet(r))
  <2>1. CASE Close(c)
    <3> DEFINE over == [q EXCEPT !.stage = "done", !.fill = NoKey]
               r == IF q.background THEN [over EXCEPT !.refresh = NoKey] ELSE over
    <3>1. req' = [req EXCEPT ![c] = r]
      BY <2>1 DEF Close
    <3>2. r.answer = q.answer /\ r.guard = q.guard /\ r.stage = "done"
      BY <1>1 DEF RequestType
    <3> HIDE DEF r
    <3> QED
      BY <3>1, <3>2 DEF Quiet
  <2>2. CASE Schedule(c)
    <3> DEFINE begun == [q EXCEPT !.stage = "admitting", !.background = TRUE]
               dropped == [q EXCEPT !.refresh = NoKey]
    <3>1. /\ begun.answer = q.answer /\ begun.guard = q.guard /\ begun.stage = "admitting"
          /\ dropped.answer = q.answer /\ dropped.guard = q.guard /\ dropped.stage = q.stage
      BY <1>1 DEF RequestType
    <3>2. req' = [req EXCEPT ![c] = begun] \/ req' = [req EXCEPT ![c] = dropped]
      BY <2>2 DEF Schedule, Go
    <3> HIDE DEF begun, dropped
    <3> QED
      BY <3>1, <3>2 DEF Quiet
  <2> QED
    BY <2>1, <2>2
<1>3. PICK r : req' = [req EXCEPT ![c] = r] /\ (Quiet(q) => Quiet(r))
  BY <1>2
<1>4. ASSUME ~Public, NEW d \in Requests PROVE Quiet(req'[d])
  <2>1. req'[d] = IF d = c THEN r ELSE req[d]
    BY <1>1, <1>3
  <2> QED
    BY <1>3, <1>4, <2>1 DEF PrivateInv
<1> QED
  BY <1>1, <1>4 DEF PrivateInv, Public, Quiet

\* Leases and ages are of no request, and no body comes of them.
LEMMA LeasesKeepFlows ==
    ASSUME RelayInv, PrivateInv, CountInv, NEW k \in Keys,
           Lapse(k) \/ LoseLease(k) \/ LoseRefresh(k) \/ Age(k)
    PROVE  PrivateInv' /\ CountInv'
<1>1. UNCHANGED <<visibility, req, pending>>
  BY DEF Lapse, LoseLease, LoseRefresh, Age, outside, tables
<1>2. UNCHANGED body \/ Age(k)
  BY DEF Lapse, LoseLease, LoseRefresh, tables
<1>3. \A j \in Keys : body[j] = "none" => body'[j] = "none"
  BY <1>2 DEF Age, RelayInv, TypeOK
<1> QED
  BY <1>1, <1>3 DEF PrivateInv, CountInv, Counted, Running, Quiet, Public

LEMMA FlowsStart == Init => PrivateInv /\ CountInv
<1> SUFFICES ASSUME Init PROVE PrivateInv /\ CountInv
  OBVIOUS
<1>1. Quiet(NewRequest) /\ NewRequest.background = FALSE
  BY DEF NewRequest, Quiet
<1>2. \A c \in Requests : req[c] = NewRequest
  BY DEF Init
<1>3. PrivateInv
  BY <1>1, <1>2 DEF Init, PrivateInv
<1>4. ASSUME NEW w \in DOMAIN pending PROVE Counted(req, pending[w], w)
  <2>1. Running(req, w) = {} /\ pending[w] = {}
    BY <1>1, <1>2 DEF Init, Running
  <2>2. IsFiniteSet({}) /\ Cardinality({}) = 0 /\ 0 <= MaxRefreshes
    BY FS_EmptySet, RelayAssumption
  <2> QED
    BY <2>1, <2>2 DEF Counted
<1> QED
  BY <1>3, <1>4 DEF CountInv

LEMMA FlowsStay ==
    RelayInv /\ PrivateInv /\ CountInv /\ [Next]_vars => PrivateInv' /\ CountInv'
<1> SUFFICES ASSUME RelayInv, PrivateInv, CountInv, [Next]_vars
             PROVE  PrivateInv' /\ CountInv'
  OBVIOUS
<1>1. ASSUME NEW c \in Requests, Calm(c) PROVE PrivateInv' /\ CountInv'
  BY <1>1, CalmKeepsPrivate, CalmKeepsCount
<1>2. ASSUME NEW c \in Requests, NEW kind \in Kinds, Begin(c, kind) PROVE Calm(c)
  BY <1>2, LookupIsCalm
<1>3. ASSUME NEW c \in Requests, Relay(c) PROVE Calm(c) \/ Close(c) \/ Schedule(c)
  BY <1>3, LookupIsCalm, CoalesceIsCalm, RevalidationIsCalm, BackendIsCalm, PoolIsCalm,
     EndIsCalm, InterruptionIsCalm
     DEF Relay
<1>4. ASSUME NEW c \in Requests, Prove(c) \/ Abort(c) \/ Die(c) PROVE Calm(c)
  BY <1>4, InterruptionIsCalm
<1>5. ASSUME NEW c \in Requests, Close(c) \/ Schedule(c) PROVE PrivateInv' /\ CountInv'
  BY <1>5, FinallyKeepsPrivate, CloseKeepsCount, ScheduleKeepsCount
<1>6. ASSUME NEW k \in Keys, Lapse(k) \/ LoseLease(k) \/ LoseRefresh(k) \/ Age(k)
      PROVE  PrivateInv' /\ CountInv'
  BY <1>6, LeasesKeepFlows
<1>7. CASE UNCHANGED vars
  BY <1>7 DEF vars, PrivateInv, CountInv, Counted, Running, Quiet, Public
<1> QED
  BY <1>1, <1>2, <1>3, <1>4, <1>5, <1>6, <1>7 DEF Next, Finished

LEMMA FlowsHold == Spec => [](PrivateInv /\ CountInv)
<1>1. Init => PrivateInv /\ CountInv
  BY FlowsStart
<1>2. RelayInv /\ PrivateInv /\ CountInv /\ [Next]_vars => (PrivateInv /\ CountInv)'
  BY FlowsStay
<1> QED
  BY <1>1, <1>2, RelayInvHolds, PTL DEF Spec

\* Of a repository that is not public no body is ever published and no request
\* served: a credentialed read that relay.ts begins before the proof leaves
\* nothing behind but an error.
THEOREM PrivateReposAreNotServed == Spec => []PrivateStaysPrivate
<1>1. RelayInv /\ PrivateInv => PrivateStaysPrivate
  BY DEF PrivateInv, PrivateStaysPrivate, Public, Quiet
<1> QED
  BY <1>1, RelayInvHolds, FlowsHold, PTL

\* The refreshes that relay.ts has put off are those under way, one for a key and
\* never more than MaxRefreshes of an isolate: each one that was listed is taken
\* off when it ends, whatever it ends with.
THEOREM RefreshesStayCounted == Spec => []RefreshesAreCounted
<1>1. CountInv => RefreshesAreCounted
  <2> SUFFICES ASSUME CountInv, NEW w \in DOMAIN pending
               PROVE  /\ pending[w] = {req[c].refresh : c \in Running(req, w)}
                      /\ Cardinality(Running(req, w)) <= MaxRefreshes
                      /\ \A c, d \in Running(req, w) : req[c].refresh = req[d].refresh => c = d
    BY DEF RefreshesAreCounted, Running
  <2>1. Counted(req, pending[w], w)
    BY DEF CountInv
  <2> QED
    BY <2>1 DEF Counted
<1> QED
  BY <1>1, FlowsHold, PTL
================================================================================
