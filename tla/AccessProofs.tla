------------------------------ MODULE AccessProofs ------------------------------
(***************************************************************************)
(* Proofs about who may be answered: CallerAccess, for any number of       *)
(* requests, logins, clients and isolates, any lifetimes and any faults;   *)
(* and PublicProof, for any number of requests, any lifetimes and limits   *)
(* and any number of mishaps.                                              *)
(***************************************************************************)
EXTENDS CallerAccess, PublicProof, TLAPS, FiniteSetTheorems, SequenceTheorems

(***************************************************************************)
(* Callers.  A cached row of a caller, and one on its way to a cache,      *)
(* expires within ConfigTtl of when its token stopped being in D1, and is  *)
(* not of a token that was gone when its isolate cleared its cache: a load *)
(* of one from before has an older generation.  Whatever says that the     *)
(* account is a member is dated no later than its leaving, and a cached    *)
(* membership expires within ConfigTtl of when the proof it rests on does. *)
(***************************************************************************)

RowType == [caller : Nat, verified : Nat, by : Requests \cup {Nobody}]

KeyType ==
    [of : {"none", "caller", "membership"}, id : Logins \cup Requests \cup {Nobody},
     scope : Scopes \cup {"unprotected"}]

EntryType == [key : KeyType, value : RowType, expires : Nat]
LoadType == [expires : Nat, generation : Nat, hit : EntryType]

RequestStages ==
    {"idle", "reading", "read", "membership", "verifying", "stamping", "granting",
     "granted", "denied"}

LoginStages == {"idle", "away", "web", "session", "cli", "enrolled", "done", "refused"}

RequestType ==
    [stage : RequestStages, kind : {"token", "session"}, credential : Logins,
     scope : Scopes \cup {"unprotected"}, began : Nat, load : LoadType, row : RowType,
     stamp : Nat, retired : BOOLEAN]

LoginType == [stage : LoginStages, client : Clients, at : Nat, verified : Nat]

\* left is when the account left, dead when a token did, out the tokens gone when
\* the isolate cleared its cache, and gen the generation of that.
RowOK(r, t, left) == r \in RowType /\ r.verified <= t /\ r.verified <= left

EntryOK(e, t, left, dead, out) ==
    /\ e \in EntryType /\ RowOK(e.value, t, left)
    /\ e.expires <= t + ConfigTtl
    /\ e.key.of = "caller" =>
          /\ e.key.id \in Logins /\ e.key.id \notin out
          /\ dead[e.key.id] = Never \/ e.expires <= dead[e.key.id] + ConfigTtl
    /\ e.key.of = "membership" => e.expires <= left + OrgTtl + ConfigTtl

\* The token was in D1 when it was looked up, or a cached row of it was still good.
InTime(q, dead) ==
    /\ ~q.retired
    /\ dead[q.credential] = Never \/ q.began < dead[q.credential] + ConfigTtl

RequestOK(q, t, left, dead, out, gen) ==
    /\ q \in RequestType /\ RowOK(q.row, t, left)
    /\ q.began <= t
    /\ q.load.generation <= gen /\ q.load.expires <= t + ConfigTtl
    /\ q.retired => dead[q.credential] # Never
    /\ q.stage \in {"idle", "reading", "read"} => q.kind = "token"
    /\ q.stage = "idle" => ~q.retired
    /\ q.stage = "granting" => q.kind = "session"
    /\ q.stage = "reading" /\ q.credential \in out => q.retired \/ q.load.generation < gen
    /\ q.stage = "read" =>
          /\ dead[q.credential] = Never \/ q.load.expires <= dead[q.credential] + ConfigTtl
          /\ q.credential \in out => q.load.generation < gen
    /\ q.stage \in {"read", "membership", "verifying", "stamping", "granted"}
       /\ q.kind = "token" => InTime(q, dead)
    /\ q.stage = "stamping" =>
          /\ q.began <= q.stamp /\ q.stamp <= t /\ q.stamp <= left
          /\ q.load.expires <= q.stamp + ConfigTtl
    /\ q.stage = "granting" => q.began < left + OrgTtl
    /\ q.stage = "granted" /\ q.kind = "session" => q.began < left + OrgTtl
    /\ q.stage = "granted" /\ q.kind = "token" => q.began < left + OrgTtl + ConfigTtl

StoreOK(S) ==
    /\ IsFiniteSet(S) /\ Cardinality(S) <= MaxEntries
    /\ \A e, f \in S : e.key = f.key => e = f

LoginOK(l, t, left) == l \in LoginType /\ l.verified <= t /\ l.verified <= left

\* A token has one life, from the login that issues it.
TokensOK ==
    /\ tokens \in Seq([client : Clients, token : Logins])
    /\ Len(tokens) <= KeptTokens + 1
    /\ \A i, j \in DOMAIN tokens : tokens[i].client = tokens[j].client => i = j
    /\ \A i \in DOMAIN tokens :
          login[tokens[i].token].stage \in {"enrolled", "done"} /\ gone[tokens[i].token] = Never

HistoryOK ==
    /\ gone \in [Logins -> 0..Never] /\ leftAt \in 0..Never
    /\ member \in BOOLEAN /\ (member => leftAt = Never)
    /\ retired \in [Isolates -> SUBSET Logins]
    /\ \A t \in Logins : gone[t] # Never => login[t].stage \in {"enrolled", "done"}
    /\ \A w \in Isolates : \A t \in retired[w] : gone[t] # Never

AccessInv ==
    /\ now \in Times
    /\ caller \in [id : Nat, active : BOOLEAN, verified : Nat]
    /\ caller.verified <= now /\ caller.verified <= leftAt
    /\ TokensOK /\ HistoryOK
    /\ generation \in [Isolates -> Nat]
    /\ store \in [Isolates -> SUBSET EntryType]
    /\ \A w \in Isolates :
          /\ StoreOK(store[w])
          /\ \A e \in store[w] : EntryOK(e, now, leftAt, gone, retired[w])
    /\ login \in [Logins -> LoginType]
    /\ \A l \in Logins : LoginOK(login[l], now, leftAt)
    /\ req \in [Requests -> RequestType]
    /\ \A c \in Requests :
          RequestOK(req[c], now, leftAt, gone, retired[IsolateOf[c]], generation[IsolateOf[c]])

LEMMA Numbers ==
    /\ ConfigTtl \in Nat /\ ConfigTtl > 0 /\ OrgTtl \in Nat /\ OrgTtl > 0
    /\ MaxTime \in Nat /\ Never \in Nat /\ Never = MaxTime + 1
    /\ MaxEntries \in Nat /\ MaxEntries > 0 /\ KeptTokens \in Nat
  BY AccessAssumption DEF Never

LEMMA AccessKnows ==
    ASSUME AccessInv
    PROVE  /\ now \in Nat /\ now <= MaxTime /\ now < Never /\ leftAt \in Nat
           /\ member => now < leftAt
           /\ \A t \in Logins : gone[t] \in Nat
           /\ \A c \in Requests : IsolateOf[c] \in Isolates /\ req[c] \in RequestType
           /\ \A w \in Isolates : generation[w] \in Nat /\ store[w] \subseteq EntryType
  BY Numbers, AccessAssumption DEF AccessInv, HistoryOK, Times

LEMMA AccessInvGivesProperties ==
    ASSUME AccessInv
    PROVE  AccessTypeOK /\ RevokedTokensStop /\ MembershipIsRecent
  <1>1. \A c \in Requests :
            RequestOK(req[c], now, leftAt, gone, retired[IsolateOf[c]], generation[IsolateOf[c]])
    BY DEF AccessInv
  <1>2. RevokedTokensStop
    BY <1>1 DEF RevokedTokensStop, Granted, RequestOK, InTime
  <1>3. MembershipIsRecent
    BY <1>1 DEF MembershipIsRecent, Granted, RequestOK
  <1>4. caller \in [id : Nat, active : BOOLEAN, verified : Times]
    <2>1. /\ caller \in [id : Nat, active : BOOLEAN, verified : Nat]
          /\ caller.verified <= now /\ now \in 0..MaxTime
      BY DEF AccessInv, Times
    <2>2. caller.verified \in Times
      BY <2>1, Numbers DEF Times
    <2> QED BY <2>1, <2>2
  <1>5. \A c \in Requests : req[c].stage \in RequestStages
    BY DEF AccessInv, RequestType
  <1>6. \A l \in Logins : login[l].stage \in LoginStages
    BY DEF AccessInv, LoginType
  <1>7. AccessTypeOK
    BY <1>4, <1>5, <1>6 DEF AccessTypeOK, AccessInv, TokensOK, HistoryOK, StoreOK,
                            RequestStages, LoginStages
  <1> QED BY <1>2, <1>3, <1>7

LEMMA NewRequestIs ==
    /\ NoLoad \in LoadType /\ NoLoad.expires = 0 /\ NoLoad.generation = 0
    /\ NoRow \in RowType /\ NoRow.verified = 0
    /\ NewRequest \in RequestType
    /\ NewRequest = [stage |-> "idle", kind |-> "token", credential |-> NewRequest.credential,
                     scope |-> "unprotected", began |-> 0, load |-> NoLoad, row |-> NoRow,
                     stamp |-> 0, retired |-> FALSE]
  <1>1. NoRow \in RowType /\ NoRow.verified = 0
    BY DEF NoRow, RowType
  <1>2. NoKey \in KeyType
    BY DEF NoKey, KeyType
  <1>3. NoEntry \in EntryType
    BY <1>1, <1>2 DEF NoEntry, EntryType
  <1>4. NoLoad \in LoadType /\ NoLoad.expires = 0 /\ NoLoad.generation = 0
    BY <1>3 DEF NoLoad, LoadType
  <1>5. (CHOOSE l \in Logins : TRUE) \in Logins
    BY AccessAssumption
  <1>6. NewRequest \in RequestType
    BY <1>1, <1>4, <1>5 DEF NewRequest, RequestType, RequestStages
  <1> QED BY <1>1, <1>4, <1>6 DEF NewRequest

LEMMA NewLoginIs ==
    /\ NewLogin \in LoginType /\ NewLogin.verified = 0 /\ NewLogin.stage = "idle"
    /\ \A s \in LoginStages :
          Over(s) \in LoginType /\ Over(s).verified = 0 /\ Over(s).stage = s
  <1>1. (CHOOSE c \in Clients : TRUE) \in Clients
    BY AccessAssumption
  <1>2. NewLogin \in LoginType /\ NewLogin.verified = 0 /\ NewLogin.stage = "idle"
    BY <1>1 DEF NewLogin, LoginType, LoginStages
  <1> HIDE DEF NewLogin
  <1> QED BY <1>2 DEF Over, LoginType

LEMMA InitGivesAccess == AccessInit => AccessInv
  <1> SUFFICES ASSUME AccessInit PROVE AccessInv
    OBVIOUS
  <1>1. now = 0 /\ now \in Times /\ leftAt = Never /\ Never \in Nat /\ leftAt \in 0..Never
    BY Numbers DEF AccessInit, Times
  <1>2. /\ caller \in [id : Nat, active : BOOLEAN, verified : Nat]
        /\ caller.verified <= now /\ caller.verified <= leftAt
    BY <1>1 DEF AccessInit
  <1>3. TokensOK
    BY Numbers DEF AccessInit, TokensOK
  <1>4. HistoryOK
    BY <1>1 DEF AccessInit, HistoryOK
  <1>5. StoreOK({})
    BY FS_EmptySet, Numbers DEF StoreOK
  <1>6. LoginOK(NewLogin, now, leftAt) /\ NewLogin \in LoginType
    BY <1>1, NewLoginIs DEF LoginOK
  <1>7. /\ NewRequest \in RequestType /\ NewRequest.stage = "idle" /\ NewRequest.began = 0
        /\ NewRequest.kind = "token"
        /\ NewRequest.load = NoLoad /\ NewRequest.row = NoRow /\ NewRequest.retired = FALSE
    BY NewRequestIs
  <1>8. RowOK(NoRow, now, leftAt)
    BY <1>1, NewRequestIs DEF RowOK
  <1>9. \A out : RequestOK(NewRequest, now, leftAt, gone, out, 0)
    BY <1>1, <1>7, <1>8, NewRequestIs, Numbers DEF RequestOK
  <1>10. /\ login = [l \in Logins |-> NewLogin] /\ req = [c \in Requests |-> NewRequest]
         /\ store = [w \in Isolates |-> {}] /\ generation = [w \in Isolates |-> 0]
    BY DEF AccessInit
  <1>11. \A c \in Requests : IsolateOf[c] \in Isolates
    BY AccessAssumption
  <1> QED BY <1>1, <1>2, <1>3, <1>4, <1>5, <1>6, <1>7, <1>9, <1>10, <1>11 DEF AccessInv

--------------------------------------------------------------------------------
(* What becomes of the others when the world moves on.                     *)

\* Tokens die at t or later, once.
Dying(dead, dead1, t) ==
    \A x \in Logins :
        /\ dead[x] \in Nat /\ dead1[x] \in Nat
        /\ dead1[x] = dead[x] \/ (dead[x] = Never /\ t <= dead1[x] /\ dead1[x] # Never)

LEMMA RequestStays ==
    ASSUME NEW t \in Nat, NEW u \in Nat, t <= u,
           NEW left \in Nat, NEW left1 \in Nat, left1 = left \/ t <= left1,
           NEW dead, NEW dead1, Dying(dead, dead1, t),
           NEW gen \in Nat, NEW gen1 \in Nat, gen <= gen1,
           NEW out, NEW out1, out1 = out \/ gen < gen1,
           NEW q, RequestOK(q, t, left, dead, out, gen)
    PROVE  RequestOK(q, u, left1, dead1, out1, gen1)
  <1>1. /\ q \in RequestType /\ q.credential \in Logins /\ q.began \in Nat /\ q.stamp \in Nat
        /\ q.load \in LoadType /\ q.load.expires \in Nat /\ q.load.generation \in Nat
        /\ q.row.verified \in Nat
    BY DEF RequestOK, RequestType, LoadType, RowOK, RowType
  <1>2. RowOK(q.row, u, left1)
    BY <1>1 DEF RequestOK, RowOK
  <1>3. /\ q.began <= u /\ q.load.generation <= gen1 /\ q.load.expires <= u + ConfigTtl
    BY <1>1, Numbers DEF RequestOK
  <1>4. q.retired => dead1[q.credential] # Never
    BY <1>1 DEF RequestOK, Dying
  <1>5. InTime(q, dead) => InTime(q, dead1)
    BY <1>1, Numbers DEF RequestOK, InTime, Dying
  <1>6. q.stage = "read" =>
            dead1[q.credential] = Never \/ q.load.expires <= dead1[q.credential] + ConfigTtl
    BY <1>1, Numbers DEF RequestOK, Dying
  <1>7. /\ q.stage = "reading" /\ q.credential \in out1 =>
              q.retired \/ q.load.generation < gen1
        /\ q.stage = "read" /\ q.credential \in out1 => q.load.generation < gen1
    BY <1>1 DEF RequestOK
  <1>8. q.stage = "stamping" =>
            /\ q.began <= q.stamp /\ q.stamp <= u /\ q.stamp <= left1
            /\ q.load.expires <= q.stamp + ConfigTtl
    BY <1>1 DEF RequestOK
  <1>9. /\ q.stage = "granting" => q.began < left1 + OrgTtl
        /\ q.stage = "granted" /\ q.kind = "session" => q.began < left1 + OrgTtl
        /\ q.stage = "granted" /\ q.kind = "token" => q.began < left1 + OrgTtl + ConfigTtl
    BY <1>1, Numbers DEF RequestOK
  <1> QED BY <1>1, <1>2, <1>3, <1>4, <1>5, <1>6, <1>7, <1>8, <1>9 DEF RequestOK

LEMMA EntryStays ==
    ASSUME NEW t \in Nat, NEW u \in Nat, t <= u,
           NEW left \in Nat, NEW left1 \in Nat, left1 = left \/ t <= left1,
           NEW dead, NEW dead1,
           \A x \in Logins : /\ dead[x] \in Nat /\ dead1[x] \in Nat
                            /\ \/ dead1[x] = dead[x]
                               \/ dead[x] = Never /\ t <= dead1[x] /\ dead1[x] # Never,
           NEW out, NEW e, EntryOK(e, t, left, dead, out)
    PROVE  EntryOK(e, u, left1, dead1, out)
  <1>1. e \in EntryType /\ e.expires \in Nat /\ e.value.verified \in Nat
    BY DEF EntryOK, EntryType, RowOK, RowType
  <1>2. RowOK(e.value, u, left1) /\ e.expires <= u + ConfigTtl
    BY <1>1, Numbers DEF EntryOK, RowOK
  <1>3. e.key.of = "caller" =>
            /\ e.key.id \in Logins /\ e.key.id \notin out
            /\ dead1[e.key.id] = Never \/ e.expires <= dead1[e.key.id] + ConfigTtl
    BY <1>1, Numbers DEF EntryOK
  <1>4. e.key.of = "membership" => e.expires <= left1 + OrgTtl + ConfigTtl
    BY <1>1, Numbers DEF EntryOK
  <1> QED BY <1>1, <1>2, <1>3, <1>4 DEF EntryOK

--------------------------------------------------------------------------------
(* The cache of an isolate.                                                *)

\* What a step may do to the caches.
CachesKept ==
    /\ store' \in [Isolates -> SUBSET EntryType] /\ generation' \in [Isolates -> Nat]
    /\ \A w \in Isolates :
          /\ generation[w] <= generation'[w]
          /\ StoreOK(store'[w])
          /\ \A e \in store'[w] : EntryOK(e, now, leftAt, gone, retired[w])

LEMMA CachesStay == ASSUME AccessInv, UNCHANGED cacheVars PROVE CachesKept
  BY DEF AccessInv, CachesKept, cacheVars

LEMMA HitIsStored ==
    ASSUME AccessInv, NEW w \in Isolates, NEW key, Hit(w, key)
    PROVE  /\ Entry(w, key) \in store[w] /\ Entry(w, key).key = key
           /\ EntryOK(Entry(w, key), now, leftAt, gone, retired[w])
           /\ Entry(w, key) \in EntryType /\ now < Entry(w, key).expires
  <1>1. now \in Nat /\ now < Entry(w, key).expires
    <2>1. Entry(w, key) \in EntryType
      BY NewRequestIs, AccessKnows DEF Entry, NoEntry, EntryType, NoKey, KeyType
    <2> QED BY <2>1, AccessKnows DEF Hit, EntryType
  <1>2. \E e \in store[w] : e.key = key
    BY <1>1 DEF Entry, NoEntry
  <1>3. Entry(w, key) \in store[w] /\ Entry(w, key).key = key
    BY <1>2 DEF Entry
  <1> QED BY <1>1, <1>3 DEF AccessInv

LEMMA LoadIs ==
    ASSUME AccessInv, NEW w \in Isolates, NEW key
    PROVE  /\ StartLoad(w, key) \in LoadType
           /\ StartLoad(w, key).expires = now + ConfigTtl
           /\ StartLoad(w, key).generation = generation[w]
  <1>1. Entry(w, key) \in EntryType
    BY NewRequestIs, AccessKnows DEF Entry, NoEntry, EntryType, NoKey, KeyType
  <1>2. now + ConfigTtl \in Nat /\ generation[w] \in Nat
    BY AccessKnows, Numbers
  <1> QED BY <1>1, <1>2 DEF StartLoad, LoadType

LEMMA RoomIs ==
    ASSUME AccessInv, NEW w \in Isolates
    PROVE  /\ Room(w) \subseteq store[w] /\ IsFiniteSet(Room(w))
           /\ Cardinality(Room(w)) < MaxEntries
  <1> DEFINE alive == {e \in store[w] : e.expires > now}
  <1>1. IsFiniteSet(store[w])
    BY DEF AccessInv, StoreOK
  <1>2. IsFiniteSet(alive)
    BY <1>1, FS_Subset
  <1>3. \/ Room(w) = store[w] /\ Cardinality(store[w]) < MaxEntries
        \/ Room(w) = alive /\ Cardinality(alive) < MaxEntries
        \/ Room(w) = {}
    BY DEF Room
  <1> QED BY <1>1, <1>2, <1>3, FS_EmptySet, Numbers

LEMMA SettleKeeps ==
    ASSUME AccessInv, NEW w \in Isolates, NEW key \in KeyType, NEW load \in LoadType,
           NEW value \in RowType, Settle(w, key, load, value),
           Current(w, key, load) =>
               EntryOK([key |-> key, value |-> value, expires |-> load.expires],
                       now, leftAt, gone, retired[w])
    PROVE  CachesKept
  <1> DEFINE new == [key |-> key, value |-> value, expires |-> load.expires]
             rest == {e \in Room(w) : e.key # key}
  <1>1. CASE ~Current(w, key, load)
    BY <1>1, CachesStay DEF Settle
  <1>2. CASE Current(w, key, load)
    <2>1. /\ store' = [store EXCEPT ![w] = rest \cup {new}]
          /\ generation' = [generation EXCEPT ![w] = @ + IF Clears(w) THEN 1 ELSE 0]
      BY <1>2 DEF Settle
    <2>2. generation \in [Isolates -> Nat] /\ store \in [Isolates -> SUBSET EntryType]
      BY DEF AccessInv
    <2>3. generation' \in [Isolates -> Nat] /\ \A v \in Isolates : generation[v] <= generation'[v]
      <3>1. PICK n \in {0, 1} : generation' = [generation EXCEPT ![w] = @ + n]
        BY <2>1
      <3> QED BY <2>2, <3>1
    <2>4. new.key = key /\ EntryOK(new, now, leftAt, gone, retired[w])
      BY <1>2
    <2> HIDE DEF new
    <2>5. /\ rest \subseteq store[w] /\ IsFiniteSet(rest) /\ Cardinality(rest) < MaxEntries
          /\ Cardinality(rest) \in Nat
      <3>1. rest \subseteq Room(w)
        OBVIOUS
      <3>2. /\ IsFiniteSet(rest) /\ Cardinality(rest) <= Cardinality(Room(w))
            /\ Cardinality(rest) \in Nat /\ Cardinality(Room(w)) \in Nat
        BY <3>1, RoomIs, FS_Subset, FS_CardinalityType
      <3> QED BY <3>1, <3>2, RoomIs, Numbers
    <2>6. IsFiniteSet(rest \cup {new}) /\ Cardinality(rest \cup {new}) <= MaxEntries
      <3> HIDE DEF rest
      <3>1. IsFiniteSet(rest \cup {new})
            /\ Cardinality(rest \cup {new}) \in {Cardinality(rest), Cardinality(rest) + 1}
        BY <2>5, FS_AddElement
      <3> QED BY <2>5, <3>1, Numbers
    <2>7. \A e, f \in rest \cup {new} : e.key = f.key => e = f
      <3>1. \A e, f \in rest : e.key = f.key => e = f
        BY <2>5 DEF AccessInv, StoreOK
      <3>2. \A e \in rest : e.key # new.key
        BY <2>4
      <3> QED BY <3>1, <3>2
    <2>8. StoreOK(rest \cup {new})
      BY <2>6, <2>7 DEF StoreOK
    <2>9. new \in EntryType
      BY <2>4 DEF EntryOK
    <2>10. \A e \in rest \cup {new} : EntryOK(e, now, leftAt, gone, retired[w])
      BY <2>4, <2>5 DEF AccessInv
    <2> HIDE DEF rest
    <2>11. store' \in [Isolates -> SUBSET EntryType]
      BY <2>1, <2>2, <2>5, <2>9
    <2>12. ASSUME NEW v \in Isolates
           PROVE  StoreOK(store'[v]) /\ \A e \in store'[v] : EntryOK(e, now, leftAt, gone, retired[v])
      BY <2>1, <2>2, <2>8, <2>10 DEF AccessInv
    <2> QED BY <2>3, <2>11, <2>12 DEF CachesKept
  <1> QED BY <1>1, <1>2

LEMMA InvalidateKeeps ==
    ASSUME AccessInv, NEW w \in Isolates, NEW key, NEW value, Invalidate(w, key, value)
    PROVE  CachesKept
  <1> DEFINE rest == {e \in store[w] : e.key # key}
  <1>1. CASE UNCHANGED cacheVars
    BY <1>1, CachesStay
  <1>2. CASE /\ store' = [store EXCEPT ![w] = {e \in @ : e.key # key}]
             /\ generation' = [generation EXCEPT ![w] = @ + 1]
    <2>1. generation \in [Isolates -> Nat] /\ store \in [Isolates -> SUBSET EntryType]
      BY DEF AccessInv
    <2>2. store' = [store EXCEPT ![w] = rest]
      BY <1>2
    <2>3. generation' \in [Isolates -> Nat] /\ \A v \in Isolates : generation[v] <= generation'[v]
      BY <1>2, <2>1
    <2>4. rest \subseteq store[w]
      OBVIOUS
    <2>5. StoreOK(rest)
      <3>1. StoreOK(store[w])
        BY DEF AccessInv
      <3>2. /\ IsFiniteSet(rest) /\ Cardinality(rest) <= Cardinality(store[w])
            /\ Cardinality(rest) \in Nat /\ Cardinality(store[w]) \in Nat
        BY <2>4, <3>1, FS_Subset, FS_CardinalityType DEF StoreOK
      <3> QED BY <2>4, <3>1, <3>2, Numbers DEF StoreOK
    <2> HIDE DEF rest
    <2>6. store' \in [Isolates -> SUBSET EntryType]
      BY <2>1, <2>2, <2>4
    <2>7. ASSUME NEW v \in Isolates
          PROVE  StoreOK(store'[v]) /\ \A e \in store'[v] : EntryOK(e, now, leftAt, gone, retired[v])
      BY <2>1, <2>2, <2>4, <2>5 DEF AccessInv
    <2> QED BY <2>3, <2>6, <2>7 DEF CachesKept
  <1> QED BY <1>1, <1>2 DEF Invalidate

--------------------------------------------------------------------------------
(* One request moves, in its isolate.                                      *)

CallerOK(row, t, left) ==
    /\ row \in [id : Nat, active : BOOLEAN, verified : Nat]
    /\ row.verified <= t /\ row.verified <= left

LEMMA RequestMoves ==
    ASSUME AccessInv, NEW c \in Requests, NEW q, req' = [req EXCEPT ![c] = q],
           UNCHANGED <<now, member, tokens, login, history>>,
           CallerOK(caller', now, leftAt), CachesKept,
           RequestOK(q, now, leftAt, gone, retired[IsolateOf[c]], generation'[IsolateOf[c]])
    PROVE  AccessInv'
  <1>1. q \in RequestType
    BY DEF RequestOK
  <1>2. req' \in [Requests -> RequestType]
    BY <1>1 DEF AccessInv
  <1>3. UNCHANGED <<gone, leftAt, retired>>
    BY DEF history
  <1>4. TokensOK' /\ HistoryOK'
    BY <1>3 DEF AccessInv, TokensOK, HistoryOK, Never
  <1>5. ASSUME NEW o \in Requests
        PROVE  RequestOK(req'[o], now, leftAt, gone, retired[IsolateOf[o]],
                         generation'[IsolateOf[o]])
    <2>1. CASE o = c
      BY <2>1 DEF AccessInv
    <2>2. CASE o # c
      <3>1. /\ req'[o] = req[o]
            /\ RequestOK(req[o], now, leftAt, gone, retired[IsolateOf[o]], generation[IsolateOf[o]])
        BY <2>2 DEF AccessInv
      <3>2. /\ generation[IsolateOf[o]] \in Nat /\ generation'[IsolateOf[o]] \in Nat
            /\ generation[IsolateOf[o]] <= generation'[IsolateOf[o]]
        BY AccessKnows DEF CachesKept
      <3>3. Dying(gone, gone, now)
        BY AccessKnows DEF Dying
      <3>4. now \in Nat /\ now <= now /\ leftAt \in Nat
        BY AccessKnows
      <3>5. RequestOK(req[o], now, leftAt, gone, retired[IsolateOf[o]], generation'[IsolateOf[o]])
        BY <3>1, <3>2, <3>3, <3>4, RequestStays
      <3> QED BY <3>1, <3>5
    <2> QED BY <2>1, <2>2
  <1> QED BY <1>2, <1>3, <1>4, <1>5 DEF AccessInv, CachesKept, CallerOK, LoginOK, Times,
                                       StoreOK, EntryOK, RowOK, RequestOK, InTime, Never

LEMMA RequestKnows ==
    ASSUME AccessInv, NEW c \in Requests
    PROVE  LET w == IsolateOf[c]  q == req[c]
           IN  /\ w \in Isolates /\ q \in RequestType
               /\ RequestOK(q, now, leftAt, gone, retired[w], generation[w])
               /\ q.row \in RowType /\ q.load \in LoadType /\ q.credential \in Logins
               /\ q.began \in Nat /\ q.stamp \in Nat /\ q.retired \in BOOLEAN
               /\ q.load.expires \in Nat /\ q.load.generation \in Nat
               /\ q.row.verified \in Nat /\ q.row.verified <= now /\ q.row.verified <= leftAt
               /\ generation[w] \in Nat
               /\ now \in Nat /\ leftAt \in Nat /\ (member => now < leftAt)
               /\ gone[q.credential] \in Nat
               /\ CallerOK(caller, now, leftAt)
  <1>1. IsolateOf[c] \in Isolates /\ req[c] \in RequestType
    BY AccessKnows
  <1>2. RequestOK(req[c], now, leftAt, gone, retired[IsolateOf[c]], generation[IsolateOf[c]])
    BY DEF AccessInv
  <1>3. /\ req[c].row \in RowType /\ req[c].load \in LoadType /\ req[c].credential \in Logins
        /\ req[c].began \in Nat /\ req[c].stamp \in Nat /\ req[c].retired \in BOOLEAN
    BY <1>1 DEF RequestType
  <1>4. req[c].load.expires \in Nat /\ req[c].load.generation \in Nat
        /\ req[c].row.verified \in Nat
    BY <1>3 DEF LoadType, RowType
  <1>5. CallerOK(caller, now, leftAt)
    BY DEF AccessInv, CallerOK
  <1>6. req[c].row.verified <= now /\ req[c].row.verified <= leftAt
    BY <1>2 DEF RequestOK, RowOK
  <1> QED BY <1>1, <1>2, <1>3, <1>4, <1>5, <1>6, AccessKnows

\* A request that moves alone.
LEMMA MovesAlone ==
    ASSUME AccessInv, NEW c \in Requests, NEW q, req' = [req EXCEPT ![c] = q],
           UNCHANGED <<now, member, d1Vars, cacheVars, login, history>>,
           RequestOK(q, now, leftAt, gone, retired[IsolateOf[c]], generation[IsolateOf[c]])
    PROVE  AccessInv'
  <1>1. CachesKept /\ generation' = generation /\ UNCHANGED <<caller, tokens>>
    BY CachesStay DEF cacheVars, d1Vars
  <1>2. CallerOK(caller', now, leftAt)
    BY <1>1, RequestKnows
  <1> QED BY <1>1, <1>2, RequestMoves

LEMMA DeniedFits ==
    ASSUME AccessInv, NEW w, NEW out, NEW gen \in Nat
    PROVE  RequestOK(Denied, now, leftAt, gone, out, gen)
  <1>1. /\ NewRequest \in RequestType /\ NewRequest.began = 0 /\ NewRequest.load = NoLoad
        /\ NewRequest.row = NoRow /\ NewRequest.retired = FALSE
    BY NewRequestIs
  <1>2. /\ Denied \in RequestType /\ Denied.stage = "denied" /\ Denied.began = 0
        /\ Denied.load = NoLoad /\ Denied.row = NoRow /\ Denied.retired = FALSE
    BY <1>1 DEF Denied, RequestType, RequestStages
  <1>3. RowOK(NoRow, now, leftAt)
    BY NewRequestIs, AccessKnows DEF RowOK
  <1> QED BY <1>2, <1>3, NewRequestIs, AccessKnows, Numbers DEF RequestOK

LEMMA LookUpCallerStep ==
    ASSUME AccessInv, NEW c \in Requests, NEW t \in Logins, NEW s \in Scopes,
           LookUpCaller(c, t, s)
    PROVE  AccessInv'
  <1> DEFINE w == IsolateOf[c]  key == CallerKey(t)  q0 == req[c]
             hit == Hit(w, key)
             row == IF hit THEN Entry(w, key).value ELSE NoRow
             load == IF hit THEN NoLoad ELSE StartLoad(w, key)
             q == [q0 EXCEPT !.credential = t, !.scope = s, !.began = now,
                             !.stage = IF hit THEN "membership" ELSE "reading",
                             !.row = row, !.load = load, !.retired = t \in retired[w]]
  <1>1. req' = [req EXCEPT ![c] = q]
        /\ UNCHANGED <<now, member, d1Vars, cacheVars, login, history>>
    BY DEF LookUpCaller
  <1>2. /\ q0 \in RequestType /\ q0.stage = "idle" /\ q0.kind = "token" /\ w \in Isolates
        /\ now \in Nat /\ leftAt \in Nat /\ generation[w] \in Nat /\ gone[t] \in Nat
    BY RequestKnows, AccessKnows DEF LookUpCaller, RequestOK
  <1>3. ASSUME hit
        PROVE  /\ RowOK(Entry(w, key).value, now, leftAt) /\ t \notin retired[w]
               /\ gone[t] = Never \/ now < gone[t] + ConfigTtl
    <2>1. /\ EntryOK(Entry(w, key), now, leftAt, gone, retired[w])
          /\ Entry(w, key).key = key /\ Entry(w, key) \in EntryType
          /\ now < Entry(w, key).expires
      BY <1>2, <1>3, HitIsStored
    <2>2. key.of = "caller" /\ key.id = t /\ Entry(w, key).expires \in Nat
      BY <2>1 DEF CallerKey, EntryType
    <2> HIDE DEF key
    <2> QED BY <1>2, <2>1, <2>2, Numbers DEF EntryOK
  <1>4. RowOK(row, now, leftAt) /\ row \in RowType
    BY <1>2, <1>3, NewRequestIs DEF RowOK
  <1>5. /\ load \in LoadType /\ load.expires <= now + ConfigTtl
        /\ load.generation <= generation[w]
    BY <1>2, LoadIs, NewRequestIs, Numbers
  <1>6. \A x \in retired[w] : gone[x] # Never
    BY <1>2 DEF AccessInv, HistoryOK
  <1>7. (t \in retired[w]) \in BOOLEAN
    OBVIOUS
  <1> DEFINE stage == IF hit THEN "membership" ELSE "reading"
             isOut == t \in retired[w]
  <1>8. q = [q0 EXCEPT !.credential = t, !.scope = s, !.began = now, !.stage = stage,
                       !.row = row, !.load = load, !.retired = isOut]
    OBVIOUS
  <1>9. stage \in RequestStages /\ isOut \in BOOLEAN
    BY DEF RequestStages
  <1> HIDE DEF q0, q, row, load, stage, isOut
  <1>10. q \in RequestType
    BY <1>2, <1>4, <1>5, <1>8, <1>9 DEF RequestType
  <1>11. /\ q.credential = t /\ q.began = now /\ q.stage = stage /\ q.row = row
         /\ q.load = load /\ q.retired = isOut /\ q.kind = "token"
    BY <1>2, <1>8 DEF RequestType
  <1>12. (stage = "membership" /\ hit) \/ stage = "reading"
    BY DEF stage
  <1>13. isOut => gone[t] # Never
    BY <1>6 DEF isOut
  <1>14. now <= now
    BY <1>2
  <1>15. RequestOK(q, now, leftAt, gone, retired[w], generation[w])
    <2>1. CASE stage = "membership" /\ hit
      <3>1. ~isOut /\ InTime(q, gone)
        BY <1>3, <1>11, <2>1 DEF InTime, isOut
      <3> HIDE DEF w, hit, key
      <3> QED BY <1>4, <1>5, <1>10, <1>11, <1>13, <1>14, <2>1, <3>1 DEF RequestOK
    <2>2. CASE stage = "reading"
      <3>1. q.credential \in retired[w] => q.retired
        BY <1>11 DEF isOut
      <3> HIDE DEF w, hit, key
      <3> QED BY <1>4, <1>5, <1>10, <1>11, <1>13, <1>14, <2>2, <3>1 DEF RequestOK
    <2> QED BY <1>12, <2>1, <2>2
  <1> QED BY <1>1, <1>15, MovesAlone

LEMMA CallerRowIs ==
    ASSUME AccessInv, NEW c \in Requests
    PROVE  LET row == [caller |-> caller.id, verified |-> caller.verified, by |-> c]
           IN  row \in RowType /\ RowOK(row, now, leftAt)
  BY RequestKnows DEF CallerOK, RowOK, RowType

LEMMA StoredIsNotGone ==
    ASSUME AccessInv, NEW t \in Logins, Stored(t)
    PROVE  gone[t] = Never /\ \A w \in Isolates : t \notin retired[w]
  <1>1. gone[t] = Never
    BY DEF AccessInv, TokensOK, Stored
  <1> QED BY <1>1 DEF AccessInv, HistoryOK

LEMMA ReadCallerStep ==
    ASSUME AccessInv, NEW c \in Requests, ReadCaller(c)
    PROVE  AccessInv'
  <1>1. CASE ~Stored(req[c].credential)
    <2>1. req' = [req EXCEPT ![c] = Denied]
          /\ UNCHANGED <<now, member, d1Vars, cacheVars, login, history>>
      BY <1>1 DEF ReadCaller
    <2>2. RequestOK(Denied, now, leftAt, gone, retired[IsolateOf[c]], generation[IsolateOf[c]])
      BY DeniedFits, RequestKnows
    <2> QED BY <2>1, <2>2, MovesAlone
  <1>2. CASE Stored(req[c].credential)
    <2> DEFINE w == IsolateOf[c]  q0 == req[c]
               row == [caller |-> caller.id, verified |-> caller.verified, by |-> c]
               q == [q0 EXCEPT !.stage = "read", !.row = row]
    <2>1. req' = [req EXCEPT ![c] = q]
          /\ UNCHANGED <<now, member, d1Vars, cacheVars, login, history>>
      <3>1. req' = [req EXCEPT ![c].stage = "read", ![c].row = row]
            /\ UNCHANGED <<now, member, d1Vars, cacheVars, login, history>>
        BY <1>2 DEF ReadCaller
      <3>2. req \in [Requests -> RequestType]
        BY DEF AccessInv
      <3> QED BY <3>1, <3>2
    <2>2. /\ q0 \in RequestType /\ q0.stage = "reading" /\ q0.kind = "token"
          /\ RequestOK(q0, now, leftAt, gone, retired[w], generation[w])
          /\ q0.credential \in Logins /\ w \in Isolates /\ Stored(q0.credential)
      BY <1>2, RequestKnows DEF ReadCaller
    <2>3. row \in RowType /\ RowOK(row, now, leftAt)
      BY CallerRowIs
    <2>4. gone[q0.credential] = Never /\ q0.credential \notin retired[w]
      BY <2>2, StoredIsNotGone
    <2> HIDE DEF q0, row, w
    <2>5. q \in RequestType
      BY <2>2, <2>3 DEF RequestType, RequestStages
    <2>6. /\ q.stage = "read" /\ q.row = row /\ q.kind = "token"
          /\ q.credential = q0.credential /\ q.began = q0.began /\ q.load = q0.load
          /\ q.retired = q0.retired
      BY <2>2 DEF RequestType
    <2> HIDE DEF q
    <2>7. ~q.retired /\ InTime(q, gone)
      BY <2>2, <2>4, <2>6 DEF RequestOK, InTime
    <2>8. /\ q.began <= now /\ q.load.generation <= generation[w]
          /\ q.load.expires <= now + ConfigTtl
      BY <2>2, <2>6 DEF RequestOK
    <2>9. RequestOK(q, now, leftAt, gone, retired[w], generation[w])
      BY <2>3, <2>4, <2>5, <2>6, <2>7, <2>8 DEF RequestOK
    <2> QED BY <2>1, <2>9, MovesAlone DEF w
  <1> QED BY <1>1, <1>2

LEMMA SettleCallerStep ==
    ASSUME AccessInv, NEW c \in Requests, SettleCaller(c)
    PROVE  AccessInv'
  <1> DEFINE w == IsolateOf[c]  q0 == req[c]  key == CallerKey(q0.credential)
             q == [q0 EXCEPT !.stage = "membership", !.load = NoLoad]
             new == [key |-> key, value |-> q0.row, expires |-> q0.load.expires]
  <1>1. req' = [req EXCEPT ![c] = q]
    <2>1. req' = [req EXCEPT ![c].stage = "membership", ![c].load = NoLoad]
      BY DEF SettleCaller
    <2>2. req \in [Requests -> RequestType]
      BY DEF AccessInv
    <2> QED BY <2>1, <2>2
  <1>2. UNCHANGED <<now, member, d1Vars, login, history>> /\ Settle(w, key, q0.load, q0.row)
    BY DEF SettleCaller
  <1>3. /\ q0 \in RequestType /\ q0.stage = "read" /\ q0.kind = "token"
        /\ RequestOK(q0, now, leftAt, gone, retired[w], generation[w])
        /\ q0.credential \in Logins /\ w \in Isolates
        /\ q0.load \in LoadType /\ q0.row \in RowType
        /\ q0.load.expires \in Nat /\ q0.load.generation \in Nat
        /\ generation[w] \in Nat /\ CallerOK(caller, now, leftAt)
    BY RequestKnows DEF SettleCaller, RequestOK
  <1>4. key \in KeyType /\ key.of = "caller" /\ key.id = q0.credential
    BY <1>3 DEF CallerKey, KeyType
  <1>5. ASSUME Current(w, key, q0.load)
        PROVE  EntryOK(new, now, leftAt, gone, retired[w])
    <2>1. q0.credential \notin retired[w]
      BY <1>3, <1>5 DEF Current, RequestOK
    <2> HIDE DEF key, q0
    <2>2. /\ new \in EntryType /\ new.key = key /\ new.value = q0.row
          /\ new.expires = q0.load.expires
      BY <1>3, <1>4 DEF EntryType
    <2> HIDE DEF new
    <2> QED BY <1>3, <1>4, <2>1, <2>2 DEF EntryOK, RequestOK
  <1>6. CachesKept
    <2> HIDE DEF key, q0, w
    <2> QED BY <1>2, <1>3, <1>4, <1>5, SettleKeeps
  <1>7. generation'[w] \in Nat
    BY <1>3, <1>6 DEF CachesKept
  <1> HIDE DEF q0, w
  <1>8. /\ q \in RequestType /\ q.stage = "membership" /\ q.row = q0.row /\ q.kind = "token"
        /\ q.credential = q0.credential /\ q.began = q0.began /\ q.load = NoLoad
        /\ q.retired = q0.retired
    BY <1>3, NewRequestIs DEF RequestType, RequestStages
  <1> HIDE DEF q
  <1>9. InTime(q, gone)
    BY <1>3, <1>8 DEF RequestOK, InTime
  <1>10. now + ConfigTtl \in Nat /\ 0 <= now + ConfigTtl /\ 0 <= generation'[w]
    BY <1>7, AccessKnows, Numbers
  <1>11. RequestOK(q, now, leftAt, gone, retired[w], generation'[w])
    BY <1>3, <1>7, <1>8, <1>9, <1>10, NewRequestIs DEF RequestOK
  <1>12. UNCHANGED <<now, member, tokens, login, history>> /\ CallerOK(caller', now, leftAt)
    BY <1>2, <1>3 DEF d1Vars
  <1> QED BY <1>1, <1>6, <1>11, <1>12, RequestMoves DEF w

\* A request is granted in time.
LEMMA GrantFits ==
    ASSUME AccessInv, NEW c \in Requests, NEW gen \in Nat,
           req[c].kind = "token" =>
               /\ req[c].stage \in {"membership", "stamping"}
               /\ req[c].began < leftAt + OrgTtl + ConfigTtl,
           req[c].kind = "session" => req[c].began < leftAt + OrgTtl
    PROVE  RequestOK(Grant(req[c]), now, leftAt, gone, retired[IsolateOf[c]], gen)
  <1> DEFINE q0 == req[c]  q == Grant(q0)
  <1>1. /\ q0 \in RequestType /\ q0.kind \in {"token", "session"}
        /\ RequestOK(q0, now, leftAt, gone, retired[IsolateOf[c]], generation[IsolateOf[c]])
        /\ q0.began \in Nat
    BY RequestKnows DEF RequestType
  <1>2. 0 \in Nat /\ 0 <= gen /\ 0 <= now + ConfigTtl /\ RowOK(NoRow, now, leftAt)
    BY AccessKnows, Numbers, NewRequestIs DEF RowOK
  <1> HIDE DEF q0
  <1>3. /\ q \in RequestType /\ q.stage = "granted" /\ q.row = NoRow /\ q.load = NoLoad
        /\ q.kind = q0.kind /\ q.credential = q0.credential /\ q.began = q0.began
        /\ q.retired = q0.retired
    BY <1>1, NewRequestIs DEF Grant, RequestType, RequestStages
  <1> HIDE DEF q
  <1>4. q.kind = "token" => InTime(q, gone) /\ q.began < leftAt + OrgTtl + ConfigTtl
    BY <1>1, <1>3 DEF q0, RequestOK, InTime
  <1>5. q.kind = "session" => q.began < leftAt + OrgTtl
    BY <1>3 DEF q0
  <1>6. q.began <= now /\ (q.retired => gone[q.credential] # Never)
    BY <1>1, <1>3 DEF RequestOK
  <1>7. RequestOK(q, now, leftAt, gone, retired[IsolateOf[c]], gen)
    BY <1>1, <1>2, <1>3, <1>4, <1>5, <1>6, NewRequestIs DEF RequestOK
  <1> QED BY <1>7 DEF q, q0

LEMMA MembershipEntryFits ==
    ASSUME AccessInv, NEW c \in Requests, NEW expires \in Nat, expires <= now + ConfigTtl,
           expires <= leftAt + OrgTtl + ConfigTtl, NEW out
    PROVE  LET key == MembershipKey(req[c].row, req[c].scope)
           IN  /\ key \in KeyType
               /\ EntryOK([key |-> key, value |-> NoRow, expires |-> expires],
                          now, leftAt, gone, out)
  <1> DEFINE key == MembershipKey(req[c].row, req[c].scope)
             new == [key |-> key, value |-> NoRow, expires |-> expires]
  <1>1. req[c].row.by \in Requests \cup {Nobody} /\ req[c].scope \in Scopes \cup {"unprotected"}
    BY RequestKnows DEF RowType, RequestType
  <1>2. key \in KeyType /\ key.of = "membership"
    BY <1>1 DEF MembershipKey, KeyType
  <1> HIDE DEF key
  <1>3. new \in EntryType /\ new.key = key /\ new.value = NoRow /\ new.expires = expires
    BY <1>2, NewRequestIs DEF EntryType
  <1>4. RowOK(NoRow, now, leftAt)
    BY AccessKnows, NewRequestIs DEF RowOK
  <1> HIDE DEF new
  <1>5. EntryOK(new, now, leftAt, gone, out)
    BY <1>2, <1>3, <1>4 DEF EntryOK
  <1> QED BY <1>2, <1>5 DEF key, new

LEMMA LookUpMembershipStep ==
    ASSUME AccessInv, NEW c \in Requests, LookUpMembership(c)
    PROVE  AccessInv'
  <1> DEFINE w == IsolateOf[c]  q0 == req[c]  key == MembershipKey(q0.row, q0.scope)
             load == StartLoad(w, key)  fresh == FreshMembership(q0.row)
  <1>1. /\ q0.stage = "membership" /\ q0.kind = "token"
        /\ UNCHANGED <<now, member, d1Vars, login, history>>
        /\ \/ /\ Hit(w, key)
              /\ req' = [req EXCEPT ![c] = Grant(q0)]
              /\ UNCHANGED cacheVars
           \/ /\ fresh
              /\ Settle(w, key, load, NoRow)
              /\ req' = [req EXCEPT ![c] = Grant(q0)]
           \/ /\ req' = [req EXCEPT ![c].stage = "verifying", ![c].load = load]
              /\ UNCHANGED cacheVars
    BY DEF LookUpMembership
  <1>2. /\ q0 \in RequestType /\ w \in Isolates /\ generation[w] \in Nat
        /\ RequestOK(q0, now, leftAt, gone, retired[w], generation[w])
        /\ q0.began \in Nat /\ q0.began <= now /\ now \in Nat /\ leftAt \in Nat
        /\ q0.row.verified \in Nat /\ q0.row.verified <= leftAt
        /\ CallerOK(caller, now, leftAt)
    BY RequestKnows DEF RequestOK
  <1>3. /\ load \in LoadType /\ load.expires = now + ConfigTtl
        /\ load.generation = generation[w]
    BY <1>2, LoadIs
  <1>4. CASE Hit(w, key) /\ req' = [req EXCEPT ![c] = Grant(q0)] /\ UNCHANGED cacheVars
    <2>1. /\ EntryOK(Entry(w, key), now, leftAt, gone, retired[w])
          /\ Entry(w, key).key = key /\ Entry(w, key) \in EntryType
          /\ now < Entry(w, key).expires
      BY <1>2, <1>4, HitIsStored
    <2>2. key.of = "membership" /\ Entry(w, key).expires \in Nat
      BY <2>1 DEF MembershipKey, EntryType
    <2>3. Entry(w, key).expires <= leftAt + OrgTtl + ConfigTtl
      BY <2>1, <2>2 DEF EntryOK
    <2> HIDE DEF key, w, q0
    <2>4. q0.began < leftAt + OrgTtl + ConfigTtl
      BY <1>2, <2>1, <2>2, <2>3, Numbers
    <2>5. RequestOK(Grant(q0), now, leftAt, gone, retired[w], generation[w])
      BY <1>1, <1>2, <2>4, GrantFits DEF q0, w
    <2> QED BY <1>1, <1>4, <2>5, MovesAlone DEF q0, w
  <1>5. CASE fresh /\ Settle(w, key, load, NoRow) /\ req' = [req EXCEPT ![c] = Grant(q0)]
    <2>1. now < leftAt + OrgTtl
      BY <1>2, <1>5, Numbers DEF FreshMembership
    <2>2. q0.began < leftAt + OrgTtl + ConfigTtl
      BY <1>2, <2>1, Numbers
    <2>3. /\ load.expires \in Nat /\ load.expires <= now + ConfigTtl
          /\ load.expires <= leftAt + OrgTtl + ConfigTtl
      BY <1>2, <1>3, <2>1, Numbers
    <2> HIDE DEF load
    <2>4. /\ key \in KeyType
          /\ EntryOK([key |-> key, value |-> NoRow, expires |-> load.expires],
                     now, leftAt, gone, retired[w])
      BY <2>3, MembershipEntryFits
    <2>5. NoRow \in RowType
      BY NewRequestIs
    <2> HIDE DEF key, w
    <2>6. CachesKept
      BY <1>2, <1>3, <1>5, <2>4, <2>5, SettleKeeps
    <2>7. generation'[w] \in Nat
      BY <1>2, <2>6 DEF CachesKept
    <2> HIDE DEF q0
    <2>8. RequestOK(Grant(q0), now, leftAt, gone, retired[w], generation'[w])
      BY <1>1, <2>2, <2>7, GrantFits DEF q0, w
    <2>9. UNCHANGED <<now, member, tokens, login, history>> /\ CallerOK(caller', now, leftAt)
      BY <1>1, <1>2 DEF d1Vars
    <2> QED BY <1>5, <2>6, <2>8, <2>9, RequestMoves DEF q0, w
  <1>6. CASE req' = [req EXCEPT ![c].stage = "verifying", ![c].load = load]
             /\ UNCHANGED cacheVars
    <2> DEFINE q == [q0 EXCEPT !.stage = "verifying", !.load = load]
    <2>1. req' = [req EXCEPT ![c] = q]
      <3>1. req \in [Requests -> RequestType]
        BY DEF AccessInv
      <3> QED BY <1>6, <3>1
    <2> HIDE DEF load, q0, key, w
    <2>2. /\ q \in RequestType /\ q.stage = "verifying" /\ q.row = q0.row /\ q.kind = "token"
          /\ q.credential = q0.credential /\ q.began = q0.began /\ q.load = load
          /\ q.retired = q0.retired
      BY <1>1, <1>2, <1>3 DEF RequestType, RequestStages
    <2> HIDE DEF q
    <2>3. InTime(q, gone)
      BY <1>1, <1>2, <2>2 DEF RequestOK, InTime
    <2>4. load.expires <= now + ConfigTtl /\ load.generation <= generation[w]
      BY <1>2, <1>3, Numbers
    <2>5. RequestOK(q, now, leftAt, gone, retired[w], generation[w])
      BY <1>2, <2>2, <2>3, <2>4 DEF RequestOK
    <2> QED BY <1>1, <1>6, <2>1, <2>5, MovesAlone DEF w
  <1> QED BY <1>1, <1>4, <1>5, <1>6

LEMMA DenyByPolicyStep ==
    ASSUME AccessInv, NEW c \in Requests, DenyByPolicy(c)
    PROVE  AccessInv'
  <1>1. req' = [req EXCEPT ![c] = Denied]
        /\ UNCHANGED <<now, member, d1Vars, cacheVars, login, history>>
    BY DEF DenyByPolicy
  <1>2. RequestOK(Denied, now, leftAt, gone, retired[IsolateOf[c]], generation[IsolateOf[c]])
    BY DeniedFits, RequestKnows
  <1> QED BY <1>1, <1>2, MovesAlone

LEMMA VerifyMembershipStep ==
    ASSUME AccessInv, NEW c \in Requests, VerifyMembership(c)
    PROVE  AccessInv'
  <1> DEFINE w == IsolateOf[c]  q0 == req[c]
             q == [q0 EXCEPT !.stage = "stamping", !.stamp = now]
  <1>1. req' = [req EXCEPT ![c] = q]
        /\ UNCHANGED <<now, member, d1Vars, cacheVars, login, history>>
    <2>1. req \in [Requests -> RequestType]
      BY DEF AccessInv
    <2> QED BY <2>1 DEF VerifyMembership
  <1>2. /\ q0 \in RequestType /\ q0.stage = "verifying" /\ w \in Isolates
        /\ RequestOK(q0, now, leftAt, gone, retired[w], generation[w])
        /\ now \in Nat /\ leftAt \in Nat /\ now <= now /\ now <= leftAt
    BY RequestKnows DEF VerifyMembership
  <1> HIDE DEF q0, w
  <1>3. /\ q \in RequestType /\ q.stage = "stamping" /\ q.row = q0.row /\ q.kind = q0.kind
        /\ q.credential = q0.credential /\ q.began = q0.began /\ q.load = q0.load
        /\ q.retired = q0.retired /\ q.stamp = now
    BY <1>2 DEF RequestType, RequestStages
  <1> HIDE DEF q
  <1>4. q.kind = "token" => InTime(q, gone)
    BY <1>2, <1>3 DEF RequestOK, InTime
  <1>5. RequestOK(q, now, leftAt, gone, retired[w], generation[w])
    BY <1>2, <1>3, <1>4 DEF RequestOK
  <1> QED BY <1>1, <1>5, MovesAlone DEF w

LEMMA StampFits ==
    ASSUME AccessInv, NEW c \in Requests, req[c].stage = "stamping", Stamp(c)
    PROVE  CallerOK(caller', now, leftAt)
  <1>1. req[c].stamp \in Nat /\ req[c].stamp <= now /\ req[c].stamp <= leftAt
    BY RequestKnows DEF RequestOK
  <1>2. caller \in [id : Nat, active : BOOLEAN, verified : Nat]
    BY DEF AccessInv
  <1>3. caller' = [caller EXCEPT !.verified = req[c].stamp]
    BY DEF Stamp
  <1> QED BY <1>1, <1>2, <1>3 DEF CallerOK

LEMMA RecordMembershipStep ==
    ASSUME AccessInv, NEW c \in Requests, RecordMembership(c)
    PROVE  AccessInv'
  <1> DEFINE w == IsolateOf[c]  q0 == req[c]  key == MembershipKey(q0.row, q0.scope)
             load == q0.load
  <1>1. /\ q0.stage = "stamping"
        /\ UNCHANGED <<now, member, tokens, sessions, login, history>>
        /\ q0.kind = "token" =>
              /\ Settle(w, key, load, NoRow)
              /\ req' = [req EXCEPT ![c] = Grant(q0)]
        /\ q0.kind # "token" =>
              /\ req' = [req EXCEPT ![c].stage = "granting"]
              /\ UNCHANGED cacheVars
    BY DEF RecordMembership
  <1>2. /\ q0 \in RequestType /\ w \in Isolates /\ generation[w] \in Nat
        /\ RequestOK(q0, now, leftAt, gone, retired[w], generation[w])
        /\ q0.began \in Nat /\ now \in Nat /\ leftAt \in Nat
        /\ load \in LoadType /\ load.expires \in Nat
        /\ CallerOK(caller, now, leftAt)
    BY RequestKnows
  <1>3. CallerOK(caller', now, leftAt)
    BY <1>1, <1>2, StampFits DEF RecordMembership, StampOldRow
  <1>4. /\ q0.stamp \in Nat /\ q0.began <= q0.stamp /\ q0.stamp <= now /\ q0.stamp <= leftAt
        /\ load.expires <= q0.stamp + ConfigTtl
    BY <1>1, <1>2, RequestKnows DEF RequestOK
  <1>5. q0.kind \in {"token", "session"}
    BY <1>2 DEF RequestType
  <1>6. /\ q0.began < leftAt + OrgTtl /\ q0.began < leftAt + OrgTtl + ConfigTtl
        /\ load.expires <= now + ConfigTtl /\ load.expires <= leftAt + OrgTtl + ConfigTtl
    BY <1>2, <1>4, Numbers
  <1>7. CASE q0.kind = "token"
    <2>1. /\ key \in KeyType
          /\ EntryOK([key |-> key, value |-> NoRow, expires |-> load.expires],
                     now, leftAt, gone, retired[w])
      BY <1>2, <1>6, MembershipEntryFits
    <2>2. NoRow \in RowType
      BY NewRequestIs
    <2> HIDE DEF key, w, load
    <2>3. CachesKept
      BY <1>1, <1>2, <1>7, <2>1, <2>2, SettleKeeps
    <2>4. generation'[w] \in Nat
      BY <1>2, <2>3 DEF CachesKept
    <2> HIDE DEF q0
    <2>5. RequestOK(Grant(q0), now, leftAt, gone, retired[w], generation'[w])
      BY <1>1, <1>6, <1>7, <2>4, GrantFits DEF q0, w
    <2> QED BY <1>1, <1>3, <1>7, <2>3, <2>5, RequestMoves DEF q0, w
  <1>8. CASE q0.kind = "session"
    <2> DEFINE q == [q0 EXCEPT !.stage = "granting"]
    <2>1. req' = [req EXCEPT ![c] = q] /\ UNCHANGED cacheVars
      <3>1. req \in [Requests -> RequestType]
        BY DEF AccessInv
      <3> QED BY <1>1, <1>8, <3>1
    <2>2. CachesKept /\ generation' = generation
      BY <2>1, CachesStay DEF cacheVars
    <2> HIDE DEF q0, w, load
    <2>3. /\ q \in RequestType /\ q.stage = "granting" /\ q.row = q0.row /\ q.kind = q0.kind
          /\ q.credential = q0.credential /\ q.began = q0.began /\ q.load = q0.load
          /\ q.retired = q0.retired
      BY <1>2 DEF RequestType, RequestStages
    <2> HIDE DEF q
    <2>4. RequestOK(q, now, leftAt, gone, retired[w], generation[w])
      BY <1>2, <1>6, <1>8, <2>3 DEF RequestOK
    <2> QED BY <1>1, <1>3, <2>1, <2>2, <2>4, RequestMoves DEF w
  <1> QED BY <1>5, <1>7, <1>8

LEMMA DenyKeeps ==
    ASSUME AccessInv, NEW c \in Requests, Deny(c), CallerOK(caller', now, leftAt)
    PROVE  AccessInv'
  <1>1. req' = [req EXCEPT ![c] = Denied] /\ UNCHANGED <<now, member, tokens, login, history>>
    BY DEF Deny
  <1>2. IsolateOf[c] \in Isolates
    BY AccessKnows
  <1>3. CachesKept
    BY <1>2, CachesStay, InvalidateKeeps DEF Deny
  <1>4. generation'[IsolateOf[c]] \in Nat
    BY <1>2, <1>3 DEF CachesKept
  <1>5. RequestOK(Denied, now, leftAt, gone, retired[IsolateOf[c]], generation'[IsolateOf[c]])
    BY <1>4, DeniedFits
  <1> QED BY <1>1, <1>3, <1>5, RequestMoves

LEMMA DenyStep ==
    ASSUME AccessInv, NEW c \in Requests, DenyMembership(c) \/ VerificationFails(c)
    PROVE  AccessInv'
  <1>1. Deny(c)
    BY DEF DenyMembership, VerificationFails
  <1>2. CallerOK(caller, now, leftAt)
    BY RequestKnows
  <1>3. CallerOK(caller', now, leftAt)
    BY <1>2, StampFits DEF DenyMembership, VerificationFails
  <1> QED BY <1>1, <1>3, DenyKeeps

LEMMA ReadSessionStep ==
    ASSUME AccessInv, NEW c \in Requests, NEW l \in WebLogins, ReadSession(c, l)
    PROVE  AccessInv'
  <1> DEFINE w == IsolateOf[c]  q0 == req[c]
             row == [caller |-> caller.id, verified |-> caller.verified, by |-> c]
             q == [q0 EXCEPT !.kind = "session", !.credential = l, !.began = now,
                             !.stage = "membership", !.row = row]
  <1>1. /\ req' = [req EXCEPT ![c] = Denied] \/ req' = [req EXCEPT ![c] = q]
        /\ UNCHANGED <<now, member, d1Vars, cacheVars, login, history>>
    BY DEF ReadSession
  <1>2. /\ q0 \in RequestType /\ q0.stage = "idle" /\ q0.kind = "token" /\ w \in Isolates
        /\ RequestOK(q0, now, leftAt, gone, retired[w], generation[w])
        /\ now \in Nat /\ leftAt \in Nat /\ now <= now /\ generation[w] \in Nat
    BY RequestKnows DEF ReadSession, RequestOK
  <1>3. row \in RowType /\ RowOK(row, now, leftAt) /\ l \in Logins
    BY CallerRowIs, AccessAssumption
  <1>4. CASE req' = [req EXCEPT ![c] = Denied]
    <2>1. RequestOK(Denied, now, leftAt, gone, retired[w], generation[w])
      BY <1>2, DeniedFits
    <2> QED BY <1>1, <1>4, <2>1, MovesAlone
  <1>5. CASE req' = [req EXCEPT ![c] = q]
    <2> HIDE DEF q0, w, row
    <2>1. /\ q \in RequestType /\ q.stage = "membership" /\ q.row = row /\ q.kind = "session"
          /\ q.credential = l /\ q.began = now /\ q.load = q0.load /\ q.retired = q0.retired
      BY <1>2, <1>3 DEF RequestType, RequestStages
    <2> HIDE DEF q
    <2>2. ~q.retired
      BY <1>2, <2>1 DEF RequestOK
    <2>3. RequestOK(q, now, leftAt, gone, retired[w], generation[w])
      BY <1>2, <1>3, <2>1, <2>2 DEF RequestOK
    <2> QED BY <1>1, <1>5, <2>3, MovesAlone DEF w
  <1> QED BY <1>1, <1>4, <1>5

LEMMA SessionStep ==
    ASSUME AccessInv, NEW c \in Requests, CheckSession(c) \/ GrantSession(c)
    PROVE  AccessInv'
  <1> DEFINE w == IsolateOf[c]  q0 == req[c]
  <1>1. UNCHANGED <<now, member, d1Vars, cacheVars, login, history>>
    BY DEF CheckSession, GrantSession
  <1>2. /\ q0 \in RequestType /\ w \in Isolates
        /\ RequestOK(q0, now, leftAt, gone, retired[w], generation[w])
        /\ q0.began \in Nat /\ q0.began <= now /\ now \in Nat /\ leftAt \in Nat
        /\ q0.row.verified \in Nat /\ q0.row.verified <= leftAt /\ generation[w] \in Nat
    BY RequestKnows DEF RequestOK
  <1>3. CASE GrantSession(c)
    <2>1. q0.kind = "session" /\ q0.began < leftAt + OrgTtl
      BY <1>2, <1>3 DEF GrantSession, RequestOK
    <2>2. RequestOK(Grant(q0), now, leftAt, gone, retired[w], generation[w])
      BY <1>2, <2>1, GrantFits
    <2>3. req' = [req EXCEPT ![c] = Grant(q0)]
      BY <1>3 DEF GrantSession
    <2> QED BY <1>1, <2>2, <2>3, MovesAlone
  <1>4. CASE CheckSession(c)
    <2> DEFINE fresh == FreshMembership(q0.row)
               stage == IF fresh THEN "granting" ELSE "verifying"
               q == [q0 EXCEPT !.stage = stage]
    <2>1. req' = [req EXCEPT ![c] = q] /\ q0.kind = "session"
      <3>1. req \in [Requests -> RequestType]
        BY DEF AccessInv
      <3> QED BY <1>4, <3>1 DEF CheckSession
    <2>2. fresh => q0.began < leftAt + OrgTtl
      BY <1>2, Numbers DEF FreshMembership
    <2>3. stage \in {"granting", "verifying"} /\ (stage = "granting" => fresh)
      OBVIOUS
    <2> HIDE DEF fresh, stage, q0, w
    <2>4. /\ q \in RequestType /\ q.stage = stage /\ q.row = q0.row /\ q.kind = q0.kind
          /\ q.credential = q0.credential /\ q.began = q0.began /\ q.load = q0.load
          /\ q.retired = q0.retired
      BY <1>2, <2>3 DEF RequestType, RequestStages
    <2> HIDE DEF q
    <2>5. RequestOK(q, now, leftAt, gone, retired[w], generation[w])
      BY <1>2, <2>1, <2>2, <2>3, <2>4 DEF RequestOK
    <2> QED BY <1>1, <2>1, <2>5, MovesAlone DEF w
  <1> QED BY <1>3, <1>4

--------------------------------------------------------------------------------
(* Logins, the organization and time.                                      *)

TokenType == [client : Clients, token : Logins]

\* What is left of the tokens of other clients than this.
OthersOK(s, client) ==
    /\ s \in Seq(TokenType)
    /\ \A a, b \in 1..Len(s) : s[a].client = s[b].client => a = b
    /\ \A a \in 1..Len(s) : s[a].client # client /\ \E j \in DOMAIN tokens : s[a] = tokens[j]

LEMMA OthersAre ==
    ASSUME AccessInv, NEW client
    PROVE  OthersOK(Others(client), client)
  <1> DEFINE mine == {i \in DOMAIN tokens : tokens[i].client = client}
             i == CHOOSE i \in mine : TRUE
             n == Len(tokens)
  <1>1. /\ tokens \in Seq(TokenType) /\ n \in Nat /\ DOMAIN tokens = 1..n
        /\ \A a \in 1..n : tokens[a] \in TokenType
        /\ \A a, b \in 1..n : tokens[a].client = tokens[b].client => a = b
    <2>1. /\ tokens \in Seq(TokenType)
          /\ \A a, b \in DOMAIN tokens : tokens[a].client = tokens[b].client => a = b
      BY DEF AccessInv, TokensOK, TokenType
    <2>2. n \in Nat /\ DOMAIN tokens = 1..n /\ \A a \in 1..n : tokens[a] \in TokenType
      BY <2>1, LenProperties, ElementOfSeq
    <2> QED BY <2>1, <2>2
  <1>2. CASE mine = {}
    <2>1. Others(client) = tokens
      BY <1>2 DEF Others
    <2>2. \A a \in 1..n : tokens[a].client # client
      BY <1>1, <1>2
    <2> QED BY <1>1, <2>1, <2>2 DEF OthersOK
  <1>3. CASE mine # {}
    <2> DEFINE before == SubSeq(tokens, 1, i - 1)
               after == SubSeq(tokens, i + 1, n)
               s == before \o after
    <2>1. Others(client) = s
      BY <1>3 DEF Others
    <2>2. i \in 1..n /\ tokens[i].client = client
      BY <1>1, <1>3
    <2> HIDE DEF i
    <2>3. /\ before \in Seq(TokenType) /\ Len(before) = i - 1
          /\ \A a \in 1..i - 1 : before[a] = tokens[a]
      <3>1. 1 \in Int /\ i - 1 \in Int /\ \A a \in 1..i - 1 : tokens[a] \in TokenType
        BY <1>1, <2>2
      <3> QED BY <2>2, <3>1, SubSeqProperties
    <2>4. /\ after \in Seq(TokenType) /\ Len(after) = n - i
          /\ \A a \in 1..n - i : after[a] = tokens[i + a]
      <3>1. i + 1 \in Int /\ n \in Int /\ \A a \in i + 1..n : tokens[a] \in TokenType
        BY <1>1, <2>2
      <3>2. /\ after \in Seq(TokenType)
            /\ Len(after) = IF i + 1 <= n THEN n - (i + 1) + 1 ELSE 0
            /\ \A a \in 1..n - (i + 1) + 1 : after[a] = tokens[i + 1 + a - 1]
        BY <3>1, SubSeqProperties
      <3> HIDE DEF after, n
      <3>3. n - (i + 1) + 1 = n - i /\ (~(i + 1 <= n) => n - i = 0)
            /\ \A a \in 1..n - i : i + 1 + a - 1 = i + a
        BY <1>1, <2>2
      <3> QED BY <3>2, <3>3
    <2> HIDE DEF before, after
    <2>5. /\ s \in Seq(TokenType) /\ Len(s) = n - 1
          /\ \A a \in 1..n - 1 : s[a] = IF a <= i - 1 THEN tokens[a] ELSE tokens[a + 1]
      <3>1. /\ s \in Seq(TokenType) /\ Len(s) = Len(before) + Len(after)
            /\ \A a \in 1..Len(before) + Len(after) :
                  s[a] = IF a <= Len(before) THEN before[a] ELSE after[a - Len(before)]
        BY <2>3, <2>4, ConcatProperties
      <3> HIDE DEF s, n
      <3>2. Len(before) + Len(after) = n - 1
        BY <1>1, <2>2, <2>3, <2>4
      <3>3. ASSUME NEW a \in 1..n - 1
            PROVE  s[a] = IF a <= i - 1 THEN tokens[a] ELSE tokens[a + 1]
        <4>1. s[a] = IF a <= i - 1 THEN before[a] ELSE after[a - (i - 1)]
          BY <2>3, <3>1, <3>2, <3>3
        <4>2. CASE a <= i - 1
          <5>1. a \in 1..i - 1
            BY <1>1, <2>2, <4>2
          <5> QED BY <2>3, <4>1, <4>2, <5>1
        <4>3. CASE ~(a <= i - 1)
          <5>1. a - (i - 1) \in 1..n - i /\ i + (a - (i - 1)) = a + 1
            BY <1>1, <2>2, <4>3
          <5> QED BY <2>4, <4>1, <4>3, <5>1
        <4> QED BY <4>2, <4>3
      <3> QED BY <3>1, <3>2, <3>3
    <2> HIDE DEF s, n
    <2>6. ASSUME NEW a \in 1..n - 1
          PROVE  \E j \in 1..n : /\ s[a] = tokens[j] /\ j # i
                                 /\ j = IF a <= i - 1 THEN a ELSE a + 1
      BY <1>1, <2>2, <2>5
    <2>7. \A a, b \in 1..n - 1 : s[a].client = s[b].client => a = b
      <3> SUFFICES ASSUME NEW a \in 1..n - 1, NEW b \in 1..n - 1, s[a].client = s[b].client
                   PROVE  a = b
        OBVIOUS
      <3>1. PICK j \in 1..n : s[a] = tokens[j] /\ j # i /\ j = IF a <= i - 1 THEN a ELSE a + 1
        BY <2>6
      <3>2. PICK k \in 1..n : s[b] = tokens[k] /\ k # i /\ k = IF b <= i - 1 THEN b ELSE b + 1
        BY <2>6
      <3>3. j = k
        BY <1>1, <3>1, <3>2
      <3> QED BY <1>1, <2>2, <3>1, <3>2, <3>3
    <2>8. \A a \in 1..n - 1 : s[a].client # client /\ \E j \in DOMAIN tokens : s[a] = tokens[j]
      BY <1>1, <2>2, <2>6
    <2> QED BY <2>1, <2>5, <2>7, <2>8 DEF OthersOK
  <1> QED BY <1>2, <1>3

LEMMA RotatedIs ==
    ASSUME AccessInv, NEW l \in Logins
    PROVE  /\ Rotated(l) \in Seq(TokenType) /\ Len(Rotated(l)) <= KeptTokens + 1
           /\ \A a, b \in DOMAIN Rotated(l) :
                 Rotated(l)[a].client = Rotated(l)[b].client => a = b
           /\ \A a \in DOMAIN Rotated(l) : Rotated(l)[a].token = l \/ Stored(Rotated(l)[a].token)
  <1> DEFINE client == login[l].client
             others == Others(client)
             n == Len(others)
             off == IF n <= KeptTokens THEN 0 ELSE n - KeptTokens
             kept == IF n <= KeptTokens THEN others
                     ELSE SubSeq(others, n - KeptTokens + 1, n)
             new == [client |-> client, token |-> l]
             s == Append(kept, new)
  <1>1. Rotated(l) = s
    BY DEF Rotated
  <1>2. /\ others \in Seq(TokenType)
        /\ \A a, b \in 1..n : others[a].client = others[b].client => a = b
        /\ \A a \in 1..n : others[a].client # client /\ \E j \in DOMAIN tokens : others[a] = tokens[j]
    BY OthersAre DEF OthersOK
  <1>3. new \in TokenType /\ new.client = client /\ new.token = l
    <2>1. client \in Clients
      BY DEF AccessInv, LoginType
    <2> QED BY <2>1 DEF TokenType
  <1> HIDE DEF new, others, client
  <1>4. n \in Nat /\ \A a \in 1..n : others[a] \in TokenType
    BY <1>2, LenProperties, ElementOfSeq
  <1>5. /\ kept \in Seq(TokenType) /\ Len(kept) = n - off /\ off \in 0..n /\ n - off <= KeptTokens
        /\ \A a \in 1..n - off : kept[a] = others[a + off]
    <2>1. CASE n <= KeptTokens
      BY <1>2, <1>4, <2>1
    <2>2. CASE ~(n <= KeptTokens)
      <3> DEFINE from == n - KeptTokens + 1
      <3>1. /\ KeptTokens \in Nat /\ from \in Int /\ n \in Int /\ 1 <= from /\ from <= n + 1
            /\ n - from + 1 = KeptTokens
        BY <1>4, <2>2, Numbers
      <3>2. \A a \in from..n : others[a] \in TokenType
        BY <1>4, <3>1
      <3> HIDE DEF from
      <3>3. /\ SubSeq(others, from, n) \in Seq(TokenType)
            /\ Len(SubSeq(others, from, n)) = IF from <= n THEN n - from + 1 ELSE 0
            /\ \A a \in 1..n - from + 1 : SubSeq(others, from, n)[a] = others[from + a - 1]
        BY <3>1, <3>2, SubSeqProperties
      <3>4. kept = SubSeq(others, from, n) /\ off = n - KeptTokens /\ from = off + 1
        BY <2>2 DEF from
      <3> HIDE DEF kept, off
      <3>5. off \in 0..n /\ n - off = KeptTokens /\ (~(from <= n) => KeptTokens = 0)
        BY <1>4, <2>2, <3>1, <3>4
      <3>6. \A a \in 1..n - off : kept[a] = others[a + off]
        <4>1. \A a \in 1..KeptTokens : from + a - 1 = a + off
          BY <1>4, <3>1, <3>4, <3>5
        <4> QED BY <3>1, <3>3, <3>4, <3>5, <4>1
      <3>7. Len(kept) = n - off /\ n - off <= KeptTokens
        <4>1. CASE from <= n
          BY <1>4, <3>1, <3>3, <3>4, <3>5, <4>1
        <4>2. CASE ~(from <= n)
          BY <1>4, <3>1, <3>3, <3>4, <3>5, <4>2
        <4> QED BY <4>1, <4>2
      <3>8. kept \in Seq(TokenType)
        BY <3>3, <3>4
      <3> QED BY <3>5, <3>6, <3>7, <3>8
    <2> QED BY <2>1, <2>2
  <1> HIDE DEF kept, off
  <1>6. \A a \in 1..n - off : a + off \in 1..n
    BY <1>4, <1>5
  <1> DEFINE m == n - off
  <1>7. m \in Nat /\ m <= KeptTokens /\ Len(kept) = m
    BY <1>4, <1>5
  <1>8. /\ \A a, b \in 1..m : kept[a].client = kept[b].client => a = b
        /\ \A a \in 1..m : kept[a].client # client /\ \E j \in DOMAIN tokens : kept[a] = tokens[j]
    <2>1. \A a \in 1..m : a + off \in 1..n /\ kept[a] = others[a + off]
      BY <1>5, <1>6
    <2>2. ASSUME NEW a \in 1..m, NEW b \in 1..m, kept[a].client = kept[b].client
          PROVE  a = b
      <3>1. a + off = b + off
        BY <1>2, <2>1, <2>2
      <3> QED BY <1>4, <1>5, <1>7, <3>1
    <2>3. \A a \in 1..m : kept[a].client # client /\ \E j \in DOMAIN tokens : kept[a] = tokens[j]
      BY <1>2, <2>1
    <2> QED BY <2>2, <2>3
  <1> HIDE DEF m
  <1>9. /\ s \in Seq(TokenType) /\ Len(s) = m + 1 /\ DOMAIN s = 1..m + 1
        /\ \A a \in 1..m : s[a] = kept[a]
        /\ s[m + 1] = new
    <2>1. /\ s \in Seq(TokenType) /\ Len(s) = m + 1
          /\ \A a \in 1..m : s[a] = kept[a]
          /\ s[m + 1] = new
      BY <1>3, <1>5, <1>7, AppendProperties
    <2> QED BY <2>1, LenProperties
  <1> HIDE DEF s
  <1>10. \A a \in 1..m + 1 : a \in 1..m \/ a = m + 1
    BY <1>7
  <1>11. \A a, b \in 1..m + 1 : s[a].client = s[b].client => a = b
    BY <1>3, <1>8, <1>9, <1>10
  <1>12. \A a \in 1..m + 1 : s[a].token = l \/ Stored(s[a].token)
    BY <1>3, <1>8, <1>9, <1>10 DEF Stored
  <1>13. m + 1 <= KeptTokens + 1
    BY <1>7, Numbers
  <1> QED BY <1>1, <1>9, <1>11, <1>12, <1>13

LEMMA WorldMoves ==
    ASSUME AccessInv, now' \in Times, now <= now', leftAt' \in Nat,
           leftAt' = leftAt \/ now <= leftAt',
           \A x \in Logins : /\ gone'[x] \in Nat
                             /\ \/ gone'[x] = gone[x]
                                \/ gone[x] = Never /\ now <= gone'[x] /\ gone'[x] # Never,
           UNCHANGED <<store, generation, req, retired>>, TokensOK', HistoryOK',
           CallerOK(caller', now', leftAt'),
           login' \in [Logins -> LoginType],
           \A l \in Logins : LoginOK(login'[l], now', leftAt')
    PROVE  AccessInv'
  <1>1. now \in Nat /\ now' \in Nat /\ leftAt \in Nat /\ \A x \in Logins : gone[x] \in Nat
    BY AccessKnows, Numbers DEF Times
  <1>2. ASSUME NEW c \in Requests
        PROVE  RequestOK(req[c], now', leftAt', gone', retired[IsolateOf[c]],
                         generation[IsolateOf[c]])
    <2>1. /\ RequestOK(req[c], now, leftAt, gone, retired[IsolateOf[c]], generation[IsolateOf[c]])
          /\ generation[IsolateOf[c]] \in Nat
      BY RequestKnows
    <2>2. generation[IsolateOf[c]] <= generation[IsolateOf[c]]
      BY <2>1
    <2>3. Dying(gone, gone', now)
      BY <1>1 DEF Dying
    <2> QED BY <1>1, <2>1, <2>2, <2>3, RequestStays
  <1>3. ASSUME NEW w \in Isolates, NEW e \in store[w]
        PROVE  EntryOK(e, now', leftAt', gone', retired[w])
    <2>1. EntryOK(e, now, leftAt, gone, retired[w])
      BY DEF AccessInv
    <2> QED BY <1>1, <2>1, EntryStays
  <1>4. /\ generation \in [Isolates -> Nat] /\ store \in [Isolates -> SUBSET EntryType]
        /\ req \in [Requests -> RequestType] /\ \A w \in Isolates : StoreOK(store[w])
    BY DEF AccessInv
  <1> QED BY <1>2, <1>3, <1>4 DEF AccessInv, CallerOK, Times, StoreOK, EntryOK, LoginOK,
                                  RequestOK, RowOK, InTime, Never

LEMMA TokensAre ==
    ASSUME AccessInv
    PROVE  tokens \in Seq(TokenType) /\ \A i \in DOMAIN tokens : tokens[i] \in TokenType
  <1>1. tokens \in Seq(TokenType)
    BY DEF AccessInv, TokensOK, TokenType
  <1> QED BY <1>1, ElementOfSeq, LenProperties

\* What holds of a world that has not moved.
LEMMA WorldIs ==
    ASSUME AccessInv
    PROVE  /\ now \in Times /\ now \in Nat /\ now <= now /\ now # Never
           /\ leftAt \in Nat /\ leftAt \in 0..Never /\ (member => now <= leftAt)
           /\ \A x \in Logins : gone[x] \in Nat
           /\ CallerOK(caller, now, leftAt)
           /\ login \in [Logins -> LoginType] /\ \A l \in Logins : LoginOK(login[l], now, leftAt)
           /\ TokensOK /\ HistoryOK
  <1>1. now \in Nat /\ now < Never /\ leftAt \in Nat /\ (member => now < leftAt)
        /\ \A x \in Logins : gone[x] \in Nat
    BY AccessKnows
  <1>2. now <= now /\ now # Never /\ (member => now <= leftAt)
    BY <1>1, Numbers
  <1> QED BY <1>1, <1>2 DEF AccessInv, CallerOK, HistoryOK

LEMMA EnrolledFits ==
    ASSUME AccessInv, NEW l \in Logins, Enrolled(l)
    PROVE  CallerOK(caller', now, leftAt)
  <1>1. login[l].verified \in Nat /\ login[l].verified <= now /\ login[l].verified <= leftAt
    BY DEF AccessInv, LoginOK, LoginType
  <1>2. caller \in [id : Nat, active : BOOLEAN, verified : Nat]
    BY DEF AccessInv
  <1>3. caller' = [id |-> IF caller.active THEN caller.id ELSE caller.id + 1,
                   active |-> TRUE, verified |-> login[l].verified]
    BY DEF Enrolled
  <1>4. (IF caller.active THEN caller.id ELSE caller.id + 1) \in Nat
    BY <1>2
  <1> QED BY <1>1, <1>3, <1>4 DEF CallerOK

\* A login moves, and issues nothing.
LEMMA LoginMoves ==
    ASSUME AccessInv, NEW l \in Logins, NEW x, login' = [login EXCEPT ![l] = x],
           LoginOK(x, now, leftAt), login[l].stage \notin {"enrolled", "done"},
           UNCHANGED <<now, member, tokens, cacheVars, req, history>>,
           CallerOK(caller', now, leftAt)
    PROVE  AccessInv'
  <1>1. /\ UNCHANGED <<store, generation, gone, leftAt, retired>>
        /\ now' = now /\ member' = member /\ tokens' = tokens /\ req' = req
    BY DEF cacheVars, history
  <1>2. login' \in [Logins -> LoginType] /\ \A k \in Logins : LoginOK(login'[k], now, leftAt)
    BY WorldIs DEF LoginOK
  <1>3. \A k \in Logins : login[k].stage \in {"enrolled", "done"} => login'[k] = login[k]
    BY WorldIs
  <1>4. \A i \in DOMAIN tokens : tokens[i].token \in Logins
    BY TokensAre DEF TokenType
  <1>5. TokensOK'
    BY <1>1, <1>3, <1>4, WorldIs DEF TokensOK, Never
  <1>6. HistoryOK'
    BY <1>1, <1>3, WorldIs DEF HistoryOK, Never
  <1>7. \A y \in Logins : /\ gone'[y] \in Nat
                          /\ \/ gone'[y] = gone[y]
                             \/ gone[y] = Never /\ now <= gone'[y] /\ gone'[y] # Never
    BY <1>1, WorldIs
  <1>8. /\ now' \in Times /\ now <= now' /\ leftAt' \in Nat /\ leftAt' = leftAt
    BY <1>1, WorldIs
  <1>9. CallerOK(caller', now', leftAt') /\ \A k \in Logins : LoginOK(login'[k], now', leftAt')
    BY <1>1, <1>2
  <1> QED BY <1>1, <1>2, <1>5, <1>6, <1>7, <1>8, <1>9, WorldMoves

LEMMA LoginStep ==
    ASSUME AccessInv, NEW l \in Logins,
           \/ StartWebLogin(l) \/ FinishWebLogin(l) \/ EnrollWeb(l) \/ OpenSession(l)
           \/ \E client \in Clients : StartLogin(l, client)
    PROVE  AccessInv'
  <1> DEFINE p == login[l]
  <1>1. /\ UNCHANGED <<now, member, tokens, cacheVars, req, history>>
        /\ p.stage \notin {"enrolled", "done"}
    BY DEF StartWebLogin, FinishWebLogin, EnrollWeb, OpenSession, StartLogin, d1Vars
  <1>2. CallerOK(caller', now, leftAt)
    BY WorldIs, EnrolledFits DEF StartWebLogin, FinishWebLogin, EnrollWeb, OpenSession,
                                 StartLogin, d1Vars
  <1>3. p \in LoginType /\ LoginOK(p, now, leftAt) /\ login \in [Logins -> LoginType]
    BY WorldIs
  <1>4. 0 <= now /\ 0 <= leftAt /\ now \in Nat /\ now <= now /\ (member => now <= leftAt)
    BY WorldIs
  <1> DEFINE away == [p EXCEPT !.stage = "away", !.at = now]
             web == [p EXCEPT !.stage = "web", !.verified = now]
             session == [p EXCEPT !.stage = "session"]
             cli(client) == [p EXCEPT !.stage = "cli", !.client = client, !.verified = now]
  <1>5. \/ login' = [login EXCEPT ![l] = away]
        \/ login' = [login EXCEPT ![l] = web] /\ member
        \/ login' = [login EXCEPT ![l] = session]
        \/ \E client \in Clients : login' = [login EXCEPT ![l] = cli(client)] /\ member
        \/ \E st \in {"refused", "done"} : login' = [login EXCEPT ![l] = Over(st)]
    <2>1. CASE StartWebLogin(l)
      BY <1>3, <2>1 DEF StartWebLogin
    <2>2. CASE FinishWebLogin(l)
      BY <1>3, <2>2 DEF FinishWebLogin
    <2>3. CASE EnrollWeb(l)
      BY <1>3, <2>3 DEF EnrollWeb
    <2>4. CASE OpenSession(l)
      BY <1>3, <2>4 DEF OpenSession
    <2>5. CASE \E client \in Clients : StartLogin(l, client)
      <3>1. PICK client \in Clients : StartLogin(l, client)
        BY <2>5
      <3>2. CASE member
        BY <1>3, <3>1, <3>2 DEF StartLogin
      <3>3. CASE ~member
        BY <1>3, <3>1, <3>3 DEF StartLogin
      <3> QED BY <3>2, <3>3
    <2> QED BY <2>1, <2>2, <2>3, <2>4, <2>5
  <1>6. LoginOK(away, now, leftAt) /\ LoginOK(session, now, leftAt)
    BY <1>3, <1>4 DEF LoginOK, LoginType, LoginStages
  <1>7. ASSUME member
        PROVE  LoginOK(web, now, leftAt) /\ \A client \in Clients : LoginOK(cli(client), now, leftAt)
    BY <1>3, <1>4, <1>7 DEF LoginOK, LoginType, LoginStages
  <1>8. \A st \in {"refused", "done"} : LoginOK(Over(st), now, leftAt)
    BY <1>4, NewLoginIs DEF LoginOK, LoginStages
  <1> HIDE DEF p, away, web, session, cli
  <1>9. \E x : login' = [login EXCEPT ![l] = x] /\ LoginOK(x, now, leftAt)
    BY <1>5, <1>6, <1>7, <1>8
  <1>10. PICK x : login' = [login EXCEPT ![l] = x] /\ LoginOK(x, now, leftAt)
    BY <1>9
  <1> QED BY <1>1, <1>2, <1>10, LoginMoves DEF p

\* Tokens are replaced by others of before and, when a login issues it, a new one.
LEMMA TokensMove ==
    ASSUME AccessInv, UNCHANGED <<now, member, cacheVars, req, leftAt, retired>>,
           CallerOK(caller', now, leftAt), MarkGone,
           tokens' \in Seq(TokenType), Len(tokens') <= KeptTokens + 1,
           \A i, j \in DOMAIN tokens' : tokens'[i].client = tokens'[j].client => i = j,
           \A i \in DOMAIN tokens' :
               \/ Stored(tokens'[i].token)
               \/ /\ login[tokens'[i].token].stage = "cli"
                  /\ login'[tokens'[i].token].stage \in {"enrolled", "done"},
           login' \in [Logins -> LoginType],
           \A k \in Logins : LoginOK(login'[k], now, leftAt),
           \A k \in Logins : login[k].stage \in {"enrolled", "done"} =>
                                 login'[k].stage \in {"enrolled", "done"}
    PROVE  AccessInv'
  <1>1. /\ UNCHANGED <<store, generation, leftAt, retired>>
        /\ now' = now /\ member' = member /\ req' = req
    BY DEF cacheVars
  <1>2. \A t \in Logins : Stored(t) => gone[t] = Never /\ login[t].stage \in {"enrolled", "done"}
    BY WorldIs DEF TokensOK, Stored
  <1>3. \A t \in Logins : login[t].stage = "cli" => gone[t] = Never
    BY WorldIs DEF HistoryOK
  <1>4. \A i \in DOMAIN tokens' : tokens'[i].token \in Logins
    <2>1. \A i \in DOMAIN tokens' : tokens'[i] \in TokenType
      BY ElementOfSeq, LenProperties
    <2> QED BY <2>1 DEF TokenType
  <1>5. \A t \in Logins :
            gone'[t] = IF Stored(t) /\ \A i \in DOMAIN tokens' : tokens'[i].token # t
                       THEN now ELSE gone[t]
    BY DEF MarkGone
  <1>6. \A t \in Logins : gone'[t] = gone[t] \/ (gone'[t] = now /\ Stored(t))
    BY <1>5
  <1>7. \A t \in Logins : /\ gone'[t] \in Nat
                          /\ \/ gone'[t] = gone[t]
                             \/ gone[t] = Never /\ now <= gone'[t] /\ gone'[t] # Never
    BY <1>2, <1>6, WorldIs
  <1>8. ASSUME NEW i \in DOMAIN tokens'
        PROVE  /\ gone'[tokens'[i].token] = Never
               /\ login'[tokens'[i].token].stage \in {"enrolled", "done"}
    BY <1>2, <1>3, <1>4, <1>5
  <1>9. TokensOK'
    BY <1>8 DEF TokensOK, TokenType, Never
  <1>10. HistoryOK'
    <2>1. gone' \in [Logins -> 0..Never]
      <3>1. now \in 0..Never /\ \A t \in Logins : gone[t] \in 0..Never
        BY WorldIs, Numbers DEF HistoryOK, Times
      <3> QED BY <3>1 DEF MarkGone
    <2>2. \A t \in Logins : gone'[t] # Never => login'[t].stage \in {"enrolled", "done"}
      BY <1>2, <1>6, WorldIs DEF HistoryOK
    <2>3. \A w \in Isolates : \A t \in retired[w] : gone'[t] # Never
      <3>1. \A w \in Isolates : \A t \in retired[w] : t \in Logins /\ gone[t] # Never
        BY WorldIs DEF HistoryOK
      <3> QED BY <1>6, <3>1, WorldIs
    <2> QED BY <1>1, <2>1, <2>2, <2>3, WorldIs DEF HistoryOK, Never
  <1>11. /\ now' \in Times /\ now <= now' /\ leftAt' \in Nat /\ leftAt' = leftAt
    BY <1>1, WorldIs
  <1>12. CallerOK(caller', now', leftAt') /\ \A k \in Logins : LoginOK(login'[k], now', leftAt')
    BY <1>1
  <1> QED BY <1>1, <1>7, <1>9, <1>10, <1>11, <1>12, WorldMoves

LEMMA EnrollStep ==
    ASSUME AccessInv, NEW l \in Logins, Enroll(l) \/ EnrollFails(l)
    PROVE  AccessInv'
  <1>1. /\ UNCHANGED <<now, member, cacheVars, req, leftAt, retired>> /\ MarkGone
        /\ login[l].stage = "cli"
        /\ \/ Enrolled(l) /\ tokens' = Rotated(l)
           \/ UNCHANGED <<caller, tokens>>
    BY DEF Enroll, EnrollFails
  <1>2. PICK st \in {"enrolled", "done"} : login' = [login EXCEPT ![l] = Over(st)]
    BY DEF Enroll, EnrollFails
  <1>3. CallerOK(caller', now, leftAt)
    BY <1>1, WorldIs, EnrolledFits
  <1>4. Over(st) \in LoginType /\ Over(st).stage = st /\ LoginOK(Over(st), now, leftAt)
    BY NewLoginIs, WorldIs DEF LoginStages, LoginOK
  <1>5. /\ login' \in [Logins -> LoginType] /\ login'[l].stage = st
        /\ \A k \in Logins : LoginOK(login'[k], now, leftAt)
        /\ \A k \in Logins : login[k].stage \in {"enrolled", "done"} =>
                                 login'[k].stage \in {"enrolled", "done"}
    BY <1>2, <1>4, WorldIs
  <1>6. CASE tokens' = Rotated(l)
    <2>1. /\ tokens' \in Seq(TokenType) /\ Len(tokens') <= KeptTokens + 1
          /\ \A i, j \in DOMAIN tokens' : tokens'[i].client = tokens'[j].client => i = j
          /\ \A i \in DOMAIN tokens' : tokens'[i].token = l \/ Stored(tokens'[i].token)
      BY <1>6, RotatedIs
    <2>2. \A i \in DOMAIN tokens' :
              \/ Stored(tokens'[i].token)
              \/ /\ login[tokens'[i].token].stage = "cli"
                 /\ login'[tokens'[i].token].stage \in {"enrolled", "done"}
      BY <1>1, <1>5, <2>1
    <2> QED BY <1>1, <1>3, <1>5, <2>1, <2>2, TokensMove
  <1>7. CASE tokens' = tokens
    <2>1. /\ tokens' \in Seq(TokenType) /\ Len(tokens') <= KeptTokens + 1
          /\ \A i, j \in DOMAIN tokens' : tokens'[i].client = tokens'[j].client => i = j
      BY <1>7, WorldIs, TokensAre DEF TokensOK
    <2>2. \A i \in DOMAIN tokens' : Stored(tokens'[i].token)
      BY <1>7 DEF Stored
    <2> QED BY <1>1, <1>3, <1>5, <2>1, <2>2, TokensMove
  <1> QED BY <1>1, <1>6, <1>7

LEMMA DisableStep ==
    ASSUME AccessInv, Disable
    PROVE  AccessInv'
  <1>1. /\ UNCHANGED <<now, member, cacheVars, req, leftAt, retired>> /\ MarkGone
        /\ login' = login /\ tokens' = <<>> /\ caller' = [caller EXCEPT !.active = FALSE]
    BY DEF Disable
  <1>2. CallerOK(caller', now, leftAt)
    BY <1>1, WorldIs DEF CallerOK
  <1>3. /\ tokens' \in Seq(TokenType) /\ Len(tokens') <= KeptTokens + 1 /\ DOMAIN tokens' = {}
    BY <1>1, Numbers
  <1> QED BY <1>1, <1>2, <1>3, WorldIs, TokensMove

LEMMA AnswerLoginStep ==
    ASSUME AccessInv, NEW l \in Logins, AnswerLogin(l)
    PROVE  AccessInv'
  <1> DEFINE w == IsolateOf[l]  out == {t \in Logins : gone[t] # Never}
  <1>1. /\ store' = [store EXCEPT ![w] = {}]
        /\ generation' = [generation EXCEPT ![w] = @ + 1]
        /\ retired' = [retired EXCEPT ![w] = out]
        /\ login' = [login EXCEPT ![l] = Over("done")] /\ login[l].stage = "enrolled"
        /\ now' = now /\ member' = member /\ caller' = caller /\ tokens' = tokens
        /\ req' = req /\ gone' = gone /\ leftAt' = leftAt
    BY DEF AnswerLogin, d1Vars
  <1>2. /\ generation \in [Isolates -> Nat] /\ store \in [Isolates -> SUBSET EntryType]
        /\ retired \in [Isolates -> SUBSET Logins] /\ req \in [Requests -> RequestType]
        /\ w \in Isolates
    BY AccessAssumption DEF AccessInv, HistoryOK
  <1>3. LoginOK(Over("done"), now, leftAt) /\ Over("done").stage = "done"
    BY NewLoginIs, WorldIs DEF LoginStages, LoginOK
  <1>4. /\ login' \in [Logins -> LoginType] /\ \A k \in Logins : LoginOK(login'[k], now, leftAt)
        /\ \A k \in Logins : login[k].stage \in {"enrolled", "done"} =>
                                 login'[k].stage \in {"enrolled", "done"}
    BY <1>1, <1>3, WorldIs DEF LoginOK
  <1>5. TokensOK'
    <2>1. \A i \in DOMAIN tokens : tokens[i].token \in Logins
      BY TokensAre DEF TokenType
    <2> QED BY <1>1, <1>4, <2>1, WorldIs DEF TokensOK, Never
  <1>6. retired' \in [Isolates -> SUBSET Logins]
        /\ \A v \in Isolates : \A t \in retired'[v] : gone[t] # Never
    BY <1>1, <1>2, WorldIs DEF HistoryOK
  <1>7. HistoryOK'
    BY <1>1, <1>4, <1>6, WorldIs DEF HistoryOK, Never
  <1>8. StoreOK({})
    BY FS_EmptySet, Numbers DEF StoreOK
  <1>9. ASSUME NEW v \in Isolates
        PROVE  StoreOK(store'[v]) /\ \A e \in store'[v] : EntryOK(e, now, leftAt, gone, retired'[v])
    BY <1>1, <1>2, <1>8 DEF AccessInv
  <1>10. /\ generation' \in [Isolates -> Nat] /\ store' \in [Isolates -> SUBSET EntryType]
         /\ \A v \in Isolates :
               /\ generation[v] <= generation'[v]
               /\ retired'[v] = retired[v] \/ generation[v] < generation'[v]
    BY <1>1, <1>2
  <1>11. ASSUME NEW c \in Requests
         PROVE  RequestOK(req[c], now, leftAt, gone, retired'[IsolateOf[c]],
                          generation'[IsolateOf[c]])
    <2>1. /\ RequestOK(req[c], now, leftAt, gone, retired[IsolateOf[c]], generation[IsolateOf[c]])
          /\ IsolateOf[c] \in Isolates
      BY RequestKnows
    <2>2. /\ generation[IsolateOf[c]] \in Nat /\ generation'[IsolateOf[c]] \in Nat
          /\ generation[IsolateOf[c]] <= generation'[IsolateOf[c]]
          /\ \/ retired'[IsolateOf[c]] = retired[IsolateOf[c]]
             \/ generation[IsolateOf[c]] < generation'[IsolateOf[c]]
      BY <1>2, <1>10, <2>1
    <2>3. Dying(gone, gone, now)
      BY WorldIs DEF Dying
    <2>4. now \in Nat /\ now <= now /\ leftAt \in Nat
      BY WorldIs
    <2> QED BY <2>1, <2>2, <2>3, <2>4, RequestStays
  <1>12. (\A c \in Requests :
             RequestOK(req[c], now, leftAt, gone, retired[IsolateOf[c]],
                       generation[IsolateOf[c]]))'
    BY <1>1, <1>11 DEF RequestOK, RowOK, InTime, Never
  <1>13. (\A v \in Isolates :
            /\ StoreOK(store[v])
            /\ \A e \in store[v] : EntryOK(e, now, leftAt, gone, retired[v]))'
    BY <1>1, <1>9 DEF StoreOK, EntryOK, RowOK, Never
  <1>14. (\A k \in Logins : LoginOK(login[k], now, leftAt))'
    BY <1>1, <1>4 DEF LoginOK
  <1>15. /\ now' \in Times' /\ caller' \in [id : Nat, active : BOOLEAN, verified : Nat]
         /\ caller'.verified <= now' /\ caller'.verified <= leftAt'
    BY <1>1, WorldIs DEF CallerOK, Times
  <1> QED BY <1>1, <1>2, <1>4, <1>5, <1>7, <1>10, <1>12, <1>13, <1>14, <1>15 DEF AccessInv

LEMMA WorldStep ==
    ASSUME AccessInv,
           Leave \/ AccessTick \/ PruneSessions \/ \E l \in Logins : LogOut(l)
    PROVE  AccessInv'
  <1>1. /\ UNCHANGED <<caller, tokens, store, generation, login, req, gone, retired>>
        /\ now' \in Times /\ now <= now' /\ leftAt' \in Nat
        /\ leftAt' = leftAt \/ now <= leftAt'
    BY WorldIs, Numbers DEF Leave, AccessTick, PruneSessions, LogOut, d1Vars, cacheVars,
                            history, Times
  <1>2. (member' => leftAt' = Never) /\ member' \in BOOLEAN /\ leftAt' \in 0..Never
    <2>1. CASE Leave
      <3>1. now \in 0..Never /\ leftAt' = now /\ member' = FALSE
        BY <2>1, WorldIs, Numbers DEF Leave, Times
      <3> QED BY <3>1
    <2>2. CASE UNCHANGED <<member, leftAt>>
      BY <2>2, WorldIs DEF HistoryOK
    <2> QED BY <2>1, <2>2 DEF AccessTick, PruneSessions, LogOut, history
  <1>3. HistoryOK'
    BY <1>1, <1>2, WorldIs DEF HistoryOK, Never
  <1>4. TokensOK'
    BY <1>1, WorldIs DEF TokensOK, Never
  <1>5. \A v \in Nat : v <= now /\ v <= leftAt => v <= now' /\ v <= leftAt'
    BY <1>1, WorldIs, Numbers DEF Times
  <1>6. CallerOK(caller', now', leftAt')
    BY <1>1, <1>5, WorldIs DEF CallerOK
  <1>7. \A l \in Logins : LoginOK(login'[l], now', leftAt')
    BY <1>1, <1>5, WorldIs DEF LoginOK, LoginType
  <1>8. \A y \in Logins : /\ gone'[y] \in Nat
                          /\ \/ gone'[y] = gone[y]
                             \/ gone[y] = Never /\ now <= gone'[y] /\ gone'[y] # Never
    BY <1>1, WorldIs
  <1> QED BY <1>1, <1>3, <1>4, <1>6, <1>7, <1>8, WorldIs, WorldMoves

--------------------------------------------------------------------------------
(* The theorems.                                                           *)

LEMMA StepKeepsAccess ==
    ASSUME AccessInv, [AccessNext]_accessVars
    PROVE  AccessInv'
  <1>1. CASE UNCHANGED accessVars
    BY <1>1 DEF AccessInv, accessVars, d1Vars, cacheVars, history, TokensOK, HistoryOK, Times,
                RequestOK, RowOK, EntryOK, StoreOK, LoginOK, InTime, Never
  <1>2. ASSUME NEW c \in Requests, Request(c)
        PROVE  AccessInv'
    <2>1. CASE \E t \in Logins \ WebLogins, s \in Scopes : LookUpCaller(c, t, s)
      BY <2>1, LookUpCallerStep
    <2>2. CASE ReadCaller(c) \/ SettleCaller(c) \/ LookUpMembership(c) \/ DenyByPolicy(c)
      BY <2>2, ReadCallerStep, SettleCallerStep, LookUpMembershipStep, DenyByPolicyStep
    <2>3. CASE VerifyMembership(c) \/ RecordMembership(c)
      BY <2>3, VerifyMembershipStep, RecordMembershipStep
    <2>4. CASE DenyMembership(c) \/ VerificationFails(c)
      BY <2>4, DenyStep
    <2>5. CASE \E l \in WebLogins : ReadSession(c, l)
      BY <2>5, ReadSessionStep
    <2>6. CASE CheckSession(c) \/ GrantSession(c)
      BY <2>6, SessionStep
    <2> QED BY <1>2, <2>1, <2>2, <2>3, <2>4, <2>5, <2>6 DEF Request
  <1>3. ASSUME NEW l \in Logins, Login(l)
        PROVE  AccessInv'
    <2>1. CASE \/ StartWebLogin(l) \/ FinishWebLogin(l) \/ EnrollWeb(l) \/ OpenSession(l)
               \/ \E client \in Clients : StartLogin(l, client)
      BY <2>1, LoginStep
    <2>2. CASE Enroll(l) \/ EnrollFails(l)
      BY <2>2, EnrollStep
    <2>3. CASE AnswerLogin(l)
      BY <2>3, AnswerLoginStep
    <2>4. CASE LogOut(l)
      BY <2>4, WorldStep
    <2> QED BY <1>3, <2>1, <2>2, <2>3, <2>4 DEF Login
  <1>4. CASE PruneSessions \/ Leave \/ AccessTick
    BY <1>4, WorldStep
  <1>5. CASE Disable
    BY <1>5, DisableStep
  <1> QED BY <1>1, <1>2, <1>3, <1>4, <1>5 DEF AccessNext

\* What the properties rest on: every cached row, load and proof of membership
\* keeps its date and its generation.
THEOREM AccessInvariant == AccessSpec => []AccessInv
  <1>1. AccessInit => AccessInv
    BY InitGivesAccess
  <1>2. AccessInv /\ [AccessNext]_accessVars => AccessInv'
    BY StepKeepsAccess
  <1> QED BY <1>1, <1>2, PTL DEF AccessSpec

\* Every variable of the model of callers has its type: one token for a client
\* and no more than pruning keeps, one entry for a key and no more than the cache
\* holds (upsertCallerToken, BoundedTtlCache).
THEOREM AccessTypeCorrect == AccessSpec => []AccessTypeOK
  <1>1. AccessInv => AccessTypeOK
    BY AccessInvGivesProperties
  <1> QED BY <1>1, AccessInvariant, PTL

\* A token that was rotated, pruned or disabled is accepted for at most ConfigTtl
\* more, and not at all by an isolate that has answered a login since.
THEOREM RevokedTokensAreRefused == AccessSpec => []RevokedTokensStop
  <1>1. AccessInv => RevokedTokensStop
    BY AccessInvGivesProperties
  <1> QED BY <1>1, AccessInvariant, PTL

\* An account that has left the organization is served for at most OrgTtl by its
\* sessions, and ConfigTtl more by its tokens.
THEOREM MembershipStaysRecent == AccessSpec => []MembershipIsRecent
  <1>1. AccessInv => MembershipIsRecent
    BY AccessInvGivesProperties
  <1> QED BY <1>1, AccessInvariant, PTL

--------------------------------------------------------------------------------
(***************************************************************************)
(* Proofs that the repository is public.  Whoever holds one, in a row, a   *)
(* copy or on its way, holds one that GitHub spoke for before the          *)
(* repository was made private, that was dated within the limit of a       *)
(* probe, and that lasts from its date.  A request is known to serve only  *)
(* what covers it and is not behind what it has published itself.          *)
(***************************************************************************)

ProofType == [id : Nat, public : BOOLEAN, seen : Nat, at : Nat, until : Nat]

GuardType ==
    [stage : GuardStages, mode : {"fresh", "cached", "tokenfree", "anonymous"},
     began : Nat, created : Nat, floor : Nat, id : Nat, due : Nat, own : ProofType,
     told : Nat, evidence : Nat, decided : Nat]

SoundProof(p, tick, until, last) ==
    /\ p \in ProofType
    /\ p.id <= last /\ p.seen <= p.at /\ p.at <= tick
    /\ p.public => /\ p.seen <= until /\ p.at <= p.seen + ProbeLimit
                   /\ p.until = p.at + PublicTtl

\* A cached answer is covered from when it was made, others from their request.
Need(q) == IF q.mode = "cached" THEN q.created ELSE q.began

ServedOK(q, until) ==
    /\ q.evidence >= q.floor
    /\ q.decided < until + PublicTtl + ProbeLimit
    /\ Need(q) <= until + Slack + ProbeLimit

StageOK(q, tick, until) ==
    /\ q.stage \in {"edgeagain", "edgehistory", "row", "history", "reuse"} => q.mode = "cached"
    /\ q.stage = "copying" /\ q.own.public =>
          /\ q.own.id >= q.floor /\ q.decided < q.own.until
          /\ Need(q) <= q.own.at + Slack
    /\ q.stage = "asking" => tick <= q.due /\ q.due <= tick + ProbeLimit
    /\ q.stage = "answered" => tick <= q.due /\ q.due <= q.own.seen + ProbeLimit
    /\ q.stage \in {"store", "put", "shared", "unknown", "rejected"} =>
          q.own.id = q.floor /\ q.began <= q.own.at
    /\ q.stage = "served" => ServedOK(q, until)

GuardOK(q, tick, until, last) ==
    /\ q \in GuardType
    /\ SoundProof(q.own, tick, until, last)
    /\ q.floor <= last /\ q.id <= last
    /\ q.began <= tick /\ q.created <= q.began /\ q.decided <= tick
    /\ StageOK(q, tick, until)

ProofInv ==
    /\ clock \in 0..LastTick /\ hidden \in 0..NotYet
    /\ turn \in [holder : Guards \cup {NoGuard}, last : Nat]
    /\ SoundProof(proof, clock, hidden, turn.last)
    /\ SoundProof(copy, clock, hidden, turn.last)
    /\ guard \in [Guards -> GuardType]
    /\ \A g \in Guards : GuardOK(guard[g], clock, hidden, turn.last)

LEMMA ProofInvGivesProperties ==
    ASSUME ProofInv
    PROVE  ProofTypeOK /\ PrivateReposStopBeingServed /\ OwnEvidenceStands
  <1>1. /\ PublicTtl \in Nat /\ ProbeLimit \in Nat /\ LastTick \in Nat
        /\ \A g \in Guards : guard[g] \in GuardType
        /\ turn.last \in Nat /\ turn.holder \in Guards \cup {NoGuard}
    BY ProofAssumption DEF ProofInv
  <1>2. ProofTypeOK
    BY <1>1 DEF ProofInv, ProofTypeOK, GuardOK, GuardType, SoundProof
  <1>3. OwnEvidenceStands
    BY <1>1 DEF ProofInv, OwnEvidenceStands, GuardOK, StageOK, ServedOK
  <1>4. ASSUME NEW g \in Guards, guard[g].stage = "served"
        PROVE  ServedOK(guard[g], hidden)
    BY <1>4 DEF ProofInv, GuardOK, StageOK
  <1>5. PrivateReposStopBeingServed
    BY <1>4 DEF PrivateReposStopBeingServed, Served, ServedOK, Need
  <1> QED BY <1>2, <1>3, <1>5

LEMMA InitGivesProofs == ProofInit => ProofInv
  <1> SUFFICES ASSUME ProofInit PROVE ProofInv
    OBVIOUS
  <1>1. NoProof \in ProofType /\ NoProof.id = 0 /\ NoProof.seen = 0 /\ NoProof.at = 0
        /\ ~NoProof.public
    BY DEF NoProof, ProofType
  <1>2. NewGuard \in GuardType
    BY <1>1 DEF NewGuard, GuardType, GuardStages
  <1>3. /\ clock = 0 /\ hidden = LastTick + 1 /\ LastTick \in Nat
        /\ turn = [holder |-> NoGuard, last |-> 0]
        /\ proof = NoProof /\ copy = NoProof /\ guard = [g \in Guards |-> NewGuard]
    BY ProofAssumption DEF ProofInit, NotYet
  <1>4. SoundProof(NoProof, 0, hidden, 0)
    BY <1>1 DEF SoundProof
  <1>5. GuardOK(NewGuard, 0, hidden, 0)
    BY <1>2, <1>4 DEF GuardOK, StageOK, NewGuard
  <1> QED BY <1>2, <1>3, <1>4, <1>5 DEF ProofInv, NotYet

--------------------------------------------------------------------------------
(* Time, and what one request does to the others.                          *)

LEMMA LaterKeeps ==
    ASSUME NEW tick \in Nat, NEW until \in Nat, NEW last \in Nat, NEW later \in Nat,
           last <= later,
           NEW q, GuardOK(q, tick, until, last)
    PROVE  GuardOK(q, tick, until, later)
  BY DEF GuardOK, GuardType, SoundProof, ProofType

LEMMA SoundLater ==
    ASSUME NEW tick \in Nat, NEW until \in Nat, NEW last \in Nat, NEW later \in Nat,
           last <= later,
           NEW p, SoundProof(p, tick, until, last)
    PROVE  SoundProof(p, tick, until, later)
  BY DEF SoundProof, ProofType

\* A request goes on to a stage that asks nothing more of it,
LEMMA StageFits ==
    ASSUME NEW tick, NEW until, NEW last, NEW q, GuardOK(q, tick, until, last),
           NEW s \in GuardStages \ {"copying", "asking", "answered", "served"},
           s \in {"edgeagain", "edgehistory", "row", "history", "reuse"} => q.mode = "cached",
           s \in {"store", "put", "shared", "unknown", "rejected"} =>
               q.stage \in {"store", "put", "shared", "unknown", "rejected"}
    PROVE  GuardOK([q EXCEPT !.stage = s], tick, until, last)
  <1> DEFINE r == [q EXCEPT !.stage = s]
  <1>1. q \in GuardType
    BY DEF GuardOK
  <1>2. r \in GuardType
    BY <1>1 DEF GuardType
  <1>3. /\ r.stage = s /\ r.mode = q.mode /\ r.began = q.began /\ r.created = q.created
        /\ r.floor = q.floor /\ r.id = q.id /\ r.due = q.due /\ r.own = q.own
        /\ r.decided = q.decided
    BY <1>1 DEF GuardType
  <1> HIDE DEF r
  <1>4. GuardOK(r, tick, until, last)
    BY <1>2, <1>3 DEF GuardOK, StageOK
  <1> QED BY <1>4 DEF r

\* is told of a publication,
LEMMA RetoldFits ==
    ASSUME NEW tick, NEW until, NEW last, NEW q, GuardOK(q, tick, until, last),
           NEW s \in {"acquire", "joined"}, NEW id \in Nat,
           NEW r, r = [q EXCEPT !.stage = s, !.told = id]
    PROVE  r \in GuardType /\ GuardOK(r, tick, until, last)
  <1>1. q \in GuardType /\ s \in GuardStages
    BY DEF GuardOK, GuardStages
  <1>2. r \in GuardType
    BY <1>1 DEF GuardType
  <1>3. /\ r.stage = s /\ r.mode = q.mode /\ r.began = q.began /\ r.created = q.created
        /\ r.floor = q.floor /\ r.id = q.id /\ r.own = q.own /\ r.decided = q.decided
    BY <1>1 DEF GuardType
  <1> QED BY <1>2, <1>3 DEF GuardOK, StageOK

\* asks GitHub,
LEMMA AskingFits ==
    ASSUME NEW last, clock \in Nat, hidden \in Nat, NEW q, GuardOK(q, clock, hidden, last)
    PROVE  GuardOK(Asking(q), clock, hidden, last)
  <1> DEFINE r == Asking(q)
  <1>1. q \in GuardType /\ "asking" \in GuardStages /\ clock + ProbeLimit \in Nat
    BY ProofAssumption DEF GuardOK, GuardStages
  <1>2. r \in GuardType
    BY <1>1 DEF GuardType, Asking
  <1>3. /\ r.stage = "asking" /\ r.began = q.began /\ r.created = q.created
        /\ r.floor = q.floor /\ r.id = q.id /\ r.own = q.own /\ r.decided = q.decided
        /\ r.due = clock + ProbeLimit
    BY <1>1 DEF GuardType, Asking
  <1> HIDE DEF r
  <1>4. clock <= clock + ProbeLimit
    BY ProofAssumption
  <1>5. GuardOK(r, clock, hidden, last)
    BY <1>1, <1>2, <1>3, <1>4 DEF GuardOK, StageOK
  <1> QED BY <1>5 DEF r

\* is over without an answer,
LEMMA EndFits ==
    ASSUME NEW tick \in Nat, NEW until \in Nat, NEW last \in Nat, NEW g,
           NEW s \in {"refused", "failed", "read"}
    PROVE  GuardOK(End(g, s), tick, until, last)
  <1>1. End(g, s) = [stage |-> s, mode |-> "fresh", began |-> 0, created |-> 0,
                     floor |-> 0, id |-> 0, due |-> 0, own |-> NoProof, told |-> 0,
                     evidence |-> 0, decided |-> 0]
    BY DEF End, NewGuard
  <1>2. NoProof \in ProofType /\ SoundProof(NoProof, tick, until, last)
    BY DEF NoProof, ProofType, SoundProof
  <1>3. End(g, s) \in GuardType
    BY <1>1, <1>2 DEF GuardType, GuardStages
  <1> QED BY <1>1, <1>2, <1>3 DEF GuardOK, StageOK

\* or is served on a proof that is sound, good enough and young enough.
LEMMA ServeFits ==
    ASSUME NEW tick \in Nat, NEW until \in Nat, NEW last \in Nat, NEW at \in Nat, at <= tick,
           NEW q, GuardOK(q, tick, until, last),
           NEW p, SoundProof(p, tick, until, last), p.public, p.id >= q.floor,
           at < p.until, Need(q) <= p.at + Slack,
           NEW r \in GuardType, r.stage = "served", r.mode = q.mode, r.began = q.began,
           r.created = q.created, r.floor = q.floor, r.id = 0, r.own = NoProof,
           r.evidence = p.id, r.decided = at
    PROVE  GuardOK(r, tick, until, last)
  <1>1. PublicTtl \in Nat /\ ProbeLimit \in Nat /\ Slack \in Nat
    BY ProofAssumption DEF Slack
  <1>2. q \in GuardType /\ p \in ProofType
    BY DEF GuardOK, SoundProof
  <1>3. p.id \in Nat /\ p.at \in Nat /\ p.seen \in Nat
    BY <1>2 DEF ProofType
  <1>4. SoundProof(NoProof, tick, until, last)
    BY DEF NoProof, ProofType, SoundProof
  <1>5. Need(r) = Need(q) /\ Need(q) \in Nat
    BY <1>2 DEF Need, GuardType
  <1>6. ServedOK(r, until)
    BY <1>1, <1>3, <1>5 DEF ServedOK, SoundProof
  <1> QED BY <1>4, <1>6 DEF GuardOK, StageOK

\* A request that waits is woken.
LEMMA ToldKeeps ==
    ASSUME NEW all \in [Guards -> GuardType], NEW id \in Nat,
           NEW tick, NEW until, NEW last, NEW h \in Guards,
           GuardOK(all[h], tick, until, last)
    PROVE  /\ Told(all, id)[h] \in GuardType
           /\ GuardOK(Told(all, id)[h], tick, until, last)
  <1> DEFINE q == all[h]  r == Told(all, id)[h]
  <1>1. CASE q.stage # "waiting"
    BY <1>1 DEF Told
  <1>2. CASE q.stage = "waiting"
    <2>1. PICK s \in {"acquire", "joined"} : r = [q EXCEPT !.stage = s, !.told = id]
      BY <1>2 DEF Told
    <2> QED BY <2>1, RetoldFits
  <1> QED BY <1>1, <1>2

\* A request moves, the turn passes, and a row or a copy is written.
LEMMA GuardMoves ==
    ASSUME ProofInv, NEW g \in Guards, NEW q,
           \/ guard' = [guard EXCEPT ![g] = q]
           \/ \E id \in Nat : guard' = Told([guard EXCEPT ![g] = q], id)
           \/ \E id \in Nat : guard' = [Told(guard, id) EXCEPT ![g] = q],
           UNCHANGED <<clock, hidden>>,
           turn' \in [holder : Guards \cup {NoGuard}, last : Nat], turn.last <= turn'.last,
           SoundProof(proof', clock, hidden, turn'.last),
           SoundProof(copy', clock, hidden, turn'.last),
           GuardOK(q, clock, hidden, turn'.last)
    PROVE  ProofInv'
  <1>1. clock \in Nat /\ hidden \in Nat /\ turn.last \in Nat /\ turn'.last \in Nat
    BY ProofAssumption DEF ProofInv, NotYet
  <1>2. \A h \in Guards : GuardOK(guard[h], clock, hidden, turn'.last)
    BY <1>1, LaterKeeps DEF ProofInv
  <1>3. q \in GuardType
    BY DEF GuardOK
  <1> DEFINE moved == [guard EXCEPT ![g] = q]
  <1>4. moved \in [Guards -> GuardType] /\ moved[g] = q
        /\ \A h \in Guards : GuardOK(moved[h], clock, hidden, turn'.last)
    BY <1>2, <1>3 DEF ProofInv
  <1>5. /\ guard' \in [Guards -> GuardType]
        /\ \A h \in Guards : GuardOK(guard'[h], clock, hidden, turn'.last)
    <2>1. CASE guard' = moved
      BY <1>4, <2>1
    <2>2. ASSUME NEW id \in Nat, guard' = Told(moved, id)
          PROVE  <1>5
      <3> HIDE DEF moved
      <3>1. \A h \in Guards : guard'[h] \in GuardType
                              /\ GuardOK(guard'[h], clock, hidden, turn'.last)
        BY <1>4, <2>2, ToldKeeps
      <3>2. guard' = [h \in Guards |-> guard'[h]]
        BY <2>2 DEF Told
      <3> QED BY <3>1, <3>2
    <2>3. ASSUME NEW id \in Nat, guard' = [Told(guard, id) EXCEPT ![g] = q]
          PROVE  <1>5
      <3>1. \A h \in Guards : Told(guard, id)[h] \in GuardType
                              /\ GuardOK(Told(guard, id)[h], clock, hidden, turn'.last)
        BY <1>2, ToldKeeps DEF ProofInv
      <3>2. /\ guard' = [h \in Guards |-> guard'[h]]
            /\ guard'[g] = q /\ \A h \in Guards : h # g => guard'[h] = Told(guard, id)[h]
        BY <2>3 DEF Told
      <3>3. \A h \in Guards : guard'[h] \in GuardType
                              /\ GuardOK(guard'[h], clock, hidden, turn'.last)
        BY <1>3, <3>1, <3>2
      <3> QED BY <3>2, <3>3
    <2> QED BY <2>1, <2>2, <2>3
  <1> QED BY <1>5 DEF ProofInv

\* A request moves, or gives its turn up, with what it says of the turn.
LEMMA Moves ==
    ASSUME ProofInv, NEW g \in Guards, NEW q,
           (Go(g, q) /\ UNCHANGED turn) \/ \E id \in Nat : GiveUp(g, q, id),
           UNCHANGED <<clock, hidden>>,
           SoundProof(proof', clock, hidden, turn.last),
           SoundProof(copy', clock, hidden, turn.last),
           GuardOK(q, clock, hidden, turn.last)
    PROVE  ProofInv'
  <1>1. turn \in [holder : Guards \cup {NoGuard}, last : Nat]
    BY DEF ProofInv
  <1>2. /\ turn' \in [holder : Guards \cup {NoGuard}, last : Nat]
        /\ turn'.last = turn.last /\ turn.last <= turn'.last
    BY <1>1 DEF GiveUp
  <1>3. \/ guard' = [guard EXCEPT ![g] = q]
        \/ \E id \in Nat : guard' = Told([guard EXCEPT ![g] = q], id)
    BY DEF Go, GiveUp
  <1> QED BY <1>2, <1>3, GuardMoves

LEMMA Knows ==
    ASSUME ProofInv, NEW g \in Guards
    PROVE  /\ clock \in Nat /\ hidden \in Nat /\ turn.last \in Nat
           /\ guard[g] \in GuardType
           /\ GuardOK(guard[g], clock, hidden, turn.last)
           /\ SoundProof(guard[g].own, clock, hidden, turn.last)
           /\ SoundProof(proof, clock, hidden, turn.last)
           /\ SoundProof(copy, clock, hidden, turn.last)
           /\ 0 \in Nat
  BY ProofAssumption DEF ProofInv, GuardOK, NotYet

\* Known or new proofs that are good enough may be served on.
LEMMA ServeIsSound ==
    ASSUME ProofInv, NEW g \in Guards,
           NEW p, SoundProof(p, clock, hidden, turn.last),
           p.public, p.id >= guard[g].floor, Fresh(p), Need(guard[g]) <= p.at + Slack
    PROVE  GuardOK(Serve(g, p), clock, hidden, turn.last)
  <1> DEFINE q == guard[g]  r == Serve(g, p)
  <1>1. /\ GuardOK(q, clock, hidden, turn.last) /\ q \in GuardType /\ p \in ProofType
        /\ clock \in Nat /\ hidden \in Nat /\ turn.last \in Nat
    BY Knows DEF SoundProof
  <1>2. r = [q EXCEPT !.stage = "served", !.id = 0, !.own = NoProof, !.told = 0,
                      !.evidence = p.id, !.decided = clock, !.due = 0]
    BY DEF Serve
  <1> HIDE DEF q, r
  <1>3. /\ p.id \in Nat /\ p.at \in Nat /\ p.until \in Nat
        /\ NoProof \in ProofType /\ "served" \in GuardStages
    BY <1>1 DEF ProofType, NoProof, GuardStages
  <1>4. r \in GuardType
    BY <1>1, <1>2, <1>3 DEF GuardType
  <1>5. /\ r.stage = "served" /\ r.mode = q.mode /\ r.began = q.began
        /\ r.created = q.created /\ r.floor = q.floor /\ r.id = 0 /\ r.own = NoProof
        /\ r.evidence = p.id /\ r.decided = clock
    BY <1>1, <1>2 DEF GuardType
  <1>6. clock < p.until /\ clock <= clock
    BY <1>1, <1>3 DEF Fresh
  <1>7. p.id >= q.floor /\ Need(q) <= p.at + Slack
    BY DEF q
  <1>8. GuardOK(r, clock, hidden, turn.last)
    BY <1>1, <1>4, <1>5, <1>6, <1>7, ServeFits
  <1> QED BY <1>8 DEF r

LEMMA GoodEnoughServes ==
    ASSUME ProofInv, NEW g \in Guards,
           NEW p, SoundProof(p, clock, hidden, turn.last),
           NEW at, at \in {guard[g].created, guard[g].began}, at >= Need(guard[g]),
           GoodEnough(g, p, at)
    PROVE  GuardOK(Serve(g, p), clock, hidden, turn.last)
  <1> DEFINE q == guard[g]
  <1>1. q \in GuardType /\ p \in ProofType
    BY Knows DEF SoundProof
  <1>2. /\ at \in Nat /\ Need(q) \in Nat /\ p.at \in Nat /\ p.id \in Nat /\ q.floor \in Nat
        /\ Slack \in Nat
    BY <1>1 DEF Need, GuardType, ProofType, Slack
  <1>3. p.public /\ p.id >= q.floor /\ Fresh(p) /\ p.at + Slack >= at
    BY DEF GoodEnough, Covers
  <1>4. Need(q) <= p.at + Slack
    BY <1>2, <1>3
  <1> QED BY <1>3, <1>4, ServeIsSound

LEMMA NeedIsBefore ==
    ASSUME ProofInv, NEW g \in Guards
    PROVE  /\ guard[g].began >= Need(guard[g])
           /\ guard[g].mode = "cached" => guard[g].created >= Need(guard[g])
  BY Knows DEF GuardOK, GuardType, Need

LEMMA AuthorityServes ==
    ASSUME ProofInv, NEW g \in Guards, NEW at, NEW least,
           at \in {guard[g].created, guard[g].began}, at >= Need(guard[g]),
           Authority(g, at, least) = "serve"
    PROVE  GuardOK(Serve(g, proof), clock, hidden, turn.last)
  <1>1. GoodEnough(g, proof, at)
    BY DEF Authority
  <1> QED BY <1>1, Knows, GoodEnoughServes

--------------------------------------------------------------------------------
(* Known proofs.                                                           *)

LEMMA BeginStep ==
    ASSUME ProofInv, NEW g \in Guards,
           NEW mode \in {"fresh", "cached", "tokenfree", "anonymous"},
           NEW created \in 0..LastTick, Begin(g, mode, created)
    PROVE  ProofInv'
  <1> DEFINE stage == IF mode = "anonymous" THEN "try" ELSE "edge"
  <1>0. stage \in {"try", "edge"} /\ clock \in Nat /\ created \in Nat
    BY Knows
  <1> DEFINE q == [NewGuard EXCEPT !.stage = stage, !.mode = mode, !.began = clock,
                                   !.created = created]
  <1> HIDE DEF stage
  <1>1. Go(g, q) /\ UNCHANGED <<clock, hidden, proof, copy, turn>> /\ created <= clock
    BY DEF Begin, stage
  <1>2. /\ clock \in Nat /\ hidden \in Nat /\ turn.last \in Nat
        /\ SoundProof(proof, clock, hidden, turn.last)
        /\ SoundProof(copy, clock, hidden, turn.last)
    BY Knows
  <1>3. NoProof \in ProofType /\ SoundProof(NoProof, clock, hidden, turn.last)
    BY <1>2 DEF NoProof, ProofType, SoundProof
  <1>4. /\ NewGuard \in GuardType
        /\ NewGuard.own = NoProof /\ NewGuard.floor = 0 /\ NewGuard.id = 0
        /\ NewGuard.decided = 0
    BY <1>3 DEF NewGuard, GuardType, GuardStages
  <1>5. q \in GuardType
    BY <1>0, <1>4 DEF GuardType, GuardStages
  <1>6. /\ q.stage = stage /\ q.began = clock /\ q.created = created
        /\ q.own = NoProof /\ q.floor = 0 /\ q.id = 0 /\ q.decided = 0
    BY <1>4 DEF GuardType
  <1> HIDE DEF q
  <1>7. GuardOK(q, clock, hidden, turn.last)
    BY <1>0, <1>1, <1>2, <1>3, <1>5, <1>6 DEF GuardOK, StageOK
  <1> QED BY <1>1, <1>2, <1>7, Moves

LEMMA OnwardFits ==
    ASSUME ProofInv, NEW g \in Guards, NEW stage \in {"row", "edgeagain"}
    PROVE  GuardOK(Onward(g, stage), clock, hidden, turn.last)
  <1>1. PICK s \in {"row", "edgeagain", "acquire"} :
            /\ Onward(g, stage) = [guard[g] EXCEPT !.stage = s]
            /\ s \in {"row", "edgeagain"} => guard[g].mode = "cached"
    BY DEF Onward
  <1>2. s \in GuardStages
    BY DEF GuardStages
  <1> QED BY <1>1, <1>2, Knows, StageFits

LEMMA ReadEdgeStep ==
    ASSUME ProofInv, NEW g \in Guards, ReadEdge(g)
    PROVE  ProofInv'
  <1>1. PICK q :
            /\ Go(g, q)
            /\ \/ q = [guard[g] EXCEPT !.stage = "negative"]
               \/ q = End(g, "refused")
               \/ /\ q = Serve(g, copy) /\ guard[g].mode = "cached"
                  /\ GoodEnough(g, copy, guard[g].created)
               \/ q = Onward(g, "row")
    BY DEF ReadEdge
  <1>2. GuardOK(q, clock, hidden, turn.last)
    <2>1. CASE q = [guard[g] EXCEPT !.stage = "negative"]
      BY <2>1, Knows, StageFits DEF GuardStages
    <2>2. CASE q = End(g, "refused")
      BY <2>2, Knows, EndFits
    <2>3. CASE /\ q = Serve(g, copy) /\ guard[g].mode = "cached"
               /\ GoodEnough(g, copy, guard[g].created)
      BY <2>3, Knows, NeedIsBefore, GoodEnoughServes
    <2>4. CASE q = Onward(g, "row")
      BY <2>4, OnwardFits
    <2> QED BY <1>1, <2>1, <2>2, <2>3, <2>4
  <1> QED BY <1>1, <1>2, Knows, Moves DEF ReadEdge

\* A row that is to be copied is held as it was read.
LEMMA CopyingFits ==
    ASSUME ProofInv, NEW g \in Guards, NEW at \in Nat, at <= clock,
           proof.public => /\ proof.id >= guard[g].floor /\ at < proof.until
                           /\ Need(guard[g]) <= proof.at + Slack,
           NEW r \in GuardType, r.stage = "copying", r.own = proof, r.decided = at,
           r.mode = guard[g].mode, r.began = guard[g].began, r.created = guard[g].created,
           r.floor = guard[g].floor, r.id = guard[g].id
    PROVE  GuardOK(r, clock, hidden, turn.last)
  <1>1. Need(r) = Need(guard[g])
    BY DEF Need
  <1> QED BY <1>1, Knows DEF GuardOK, StageOK

LEMMA ReadNegativeStep ==
    ASSUME ProofInv, NEW g \in Guards, ReadNegative(g)
    PROVE  ProofInv'
  <1> DEFINE q == guard[g]
  <1>1. CASE Go(g, Onward(g, "edgeagain"))
    BY <1>1, OnwardFits, Knows, Moves DEF ReadNegative
  <1>2. CASE /\ Go(g, [q EXCEPT !.stage = "copying", !.own = proof])
             /\ ~proof.public
    <2> DEFINE r == [q EXCEPT !.stage = "copying", !.own = proof]
    <2>1. q \in GuardType /\ proof \in ProofType
      BY Knows DEF SoundProof
    <2>2. q.decided \in Nat /\ q.decided <= clock
      BY <2>1, Knows DEF GuardOK, GuardType
    <2> HIDE DEF q
    <2>3. r \in GuardType
      BY <2>1 DEF GuardType, GuardStages
    <2>4. /\ r.stage = "copying" /\ r.own = proof /\ r.decided = q.decided
          /\ r.mode = q.mode /\ r.began = q.began /\ r.created = q.created
          /\ r.floor = q.floor /\ r.id = q.id
      BY <2>1 DEF GuardType
    <2> HIDE DEF r
    <2>5. GuardOK(r, clock, hidden, turn.last)
      BY <1>2, <2>2, <2>3, <2>4, CopyingFits DEF q
    <2> QED BY <1>2, <2>5, Knows, Moves DEF ReadNegative, q, r
  <1> QED BY <1>1, <1>2 DEF ReadNegative

LEMMA ReadEdgeAgainStep ==
    ASSUME ProofInv, NEW g \in Guards, ReadEdgeAgain(g)
    PROVE  ProofInv'
  <1>1. guard[g].mode = "cached"
    BY Knows DEF ReadEdgeAgain, GuardOK, StageOK
  <1>2. CASE GoodEnough(g, copy, guard[g].created)
    <2>1. GuardOK(Serve(g, copy), clock, hidden, turn.last)
      BY <1>1, <1>2, Knows, NeedIsBefore, GoodEnoughServes
    <2> QED BY <1>2, <2>1, Knows, Moves DEF ReadEdgeAgain
  <1>3. CASE ~GoodEnough(g, copy, guard[g].created)
    <2>1. PICK s \in {"row", "history"} : Go(g, [guard[g] EXCEPT !.stage = s]) /\ UNCHANGED turn
      BY <1>3 DEF ReadEdgeAgain
    <2>2. GuardOK([guard[g] EXCEPT !.stage = s], clock, hidden, turn.last)
      BY <1>1, Knows, StageFits DEF GuardStages
    <2> QED BY <2>1, <2>2, Knows, Moves DEF ReadEdgeAgain
  <1> QED BY <1>2, <1>3

LEMMA ReadRowStep ==
    ASSUME ProofInv, NEW g \in Guards, ReadRow(g)
    PROVE  ProofInv'
  <1> DEFINE q == guard[g]
  <1>1. q.mode = "cached"
    BY Knows DEF ReadRow, GuardOK, StageOK
  <1>2. CASE GoodEnough(g, proof, q.created)
    <2> DEFINE r == [q EXCEPT !.stage = "copying", !.own = proof, !.decided = clock]
    <2>1. q \in GuardType /\ proof \in ProofType /\ clock \in Nat /\ clock <= clock
      BY Knows DEF SoundProof
    <2>2. /\ Go(g, r) /\ UNCHANGED turn
          /\ proof.id >= q.floor /\ clock < proof.until /\ Need(q) <= proof.at + Slack
      BY <1>1, <1>2, <2>1 DEF ReadRow, GoodEnough, Covers, Fresh, Need, ProofType, GuardType,
                              Slack
    <2>3. r \in GuardType
      BY <2>1 DEF GuardType, GuardStages
    <2>4. /\ r.stage = "copying" /\ r.own = proof /\ r.decided = clock
          /\ r.mode = q.mode /\ r.began = q.began /\ r.created = q.created
          /\ r.floor = q.floor /\ r.id = q.id
      BY <2>1 DEF GuardType
    <2> HIDE DEF r
    <2>5. GuardOK(r, clock, hidden, turn.last)
      BY <2>1, <2>2, <2>3, <2>4, CopyingFits
    <2> QED BY <2>2, <2>5, Knows, Moves DEF ReadRow
  <1>3. CASE ~GoodEnough(g, proof, q.created)
    <2>1. CASE Go(g, [q EXCEPT !.stage = "acquire"]) /\ UNCHANGED turn
      <3>1. GuardOK([q EXCEPT !.stage = "acquire"], clock, hidden, turn.last)
        BY Knows, StageFits DEF GuardStages
      <3> QED BY <2>1, <3>1, Knows, Moves DEF ReadRow
    <2>2. CASE GiveUp(g, End(g, "failed"), 0)
      <3>1. GuardOK(End(g, "failed"), clock, hidden, turn.last)
        BY Knows, EndFits
      <3> QED BY <2>2, <3>1, Knows, Moves DEF ReadRow
    <2> QED BY <1>3, <2>1, <2>2 DEF ReadRow
  <1> QED BY <1>2, <1>3

\* The edge holds what it held, or the proof that was put there.
LEMMA PutKeeps ==
    ASSUME ProofInv, NEW p, SoundProof(p, clock, hidden, turn.last), Put(p)
    PROVE  SoundProof(copy', clock, hidden, turn.last)
  <1>1. copy' = copy \/ copy' = p
    BY DEF Put
  <1> QED BY <1>1 DEF ProofInv

LEMMA CopyRowStep ==
    ASSUME ProofInv, NEW g \in Guards, CopyRow(g)
    PROVE  ProofInv'
  <1> DEFINE q == guard[g]  p == q.own
  <1>1. SoundProof(copy', clock, hidden, turn.last)
    BY Knows, PutKeeps DEF CopyRow
  <1>2. CASE ~p.public
    <2>1. GuardOK(End(g, "refused"), clock, hidden, turn.last)
      BY Knows, EndFits
    <2> QED BY <1>1, <1>2, <2>1, Knows, Moves DEF CopyRow
  <1>3. CASE p.public
    <2> DEFINE r == [Serve(g, p) EXCEPT !.decided = q.decided]
    <2>1. /\ GuardOK(q, clock, hidden, turn.last) /\ q \in GuardType /\ p \in ProofType
          /\ SoundProof(p, clock, hidden, turn.last)
          /\ clock \in Nat /\ hidden \in Nat /\ turn.last \in Nat
      BY Knows DEF SoundProof
    <2>2. /\ p.id >= q.floor /\ q.decided < p.until /\ Need(q) <= p.at + Slack
          /\ q.decided \in Nat /\ q.decided <= clock
      BY <1>3, <2>1 DEF CopyRow, GuardOK, StageOK, GuardType
    <2>3. r = [[q EXCEPT !.stage = "served", !.id = 0, !.own = NoProof, !.told = 0,
                         !.evidence = p.id, !.decided = clock, !.due = 0]
                 EXCEPT !.decided = q.decided]
      BY DEF Serve
    <2>4. /\ NoProof \in ProofType /\ "served" \in GuardStages /\ p.id \in Nat
      BY <2>1 DEF ProofType, NoProof, GuardStages
    <2> HIDE DEF p, q, r
    <2>5. r \in GuardType
      BY <2>1, <2>2, <2>3, <2>4 DEF GuardType
    <2>6. /\ r.stage = "served" /\ r.mode = q.mode /\ r.began = q.began
          /\ r.created = q.created /\ r.floor = q.floor /\ r.id = 0 /\ r.own = NoProof
          /\ r.evidence = p.id /\ r.decided = q.decided
      BY <2>1, <2>3 DEF GuardType
    <2>7. GuardOK(r, clock, hidden, turn.last)
      BY <1>3, <2>1, <2>2, <2>5, <2>6, ServeFits
    <2>8. GiveUp(g, r, 0) /\ UNCHANGED <<clock, hidden, proof>>
      BY <1>3 DEF CopyRow, r, p, q
    <2> QED BY <1>1, <2>7, <2>8, Knows, Moves
  <1> QED BY <1>2, <1>3

--------------------------------------------------------------------------------
(* The turn.                                                               *)

LEMMA AcquireStep ==
    ASSUME ProofInv, NEW g \in Guards, Acquire(g)
    PROVE  ProofInv'
  <1> DEFINE n == turn.last + 1
             q == [guard[g] EXCEPT !.id = n]
  <1>1. /\ guard[g] \in GuardType /\ GuardOK(guard[g], clock, hidden, n)
        /\ n \in Nat /\ turn.last <= n
        /\ clock \in Nat /\ hidden \in Nat
        /\ SoundProof(proof, clock, hidden, n) /\ SoundProof(copy, clock, hidden, n)
    BY Knows, LaterKeeps, SoundLater
  <1>2. guard[g].stage \in {"acquire", "try"}
    BY DEF Acquire
  <1>3. q \in GuardType
    BY <1>1 DEF GuardType
  <1>4. /\ q.stage = guard[g].stage /\ q.mode = guard[g].mode /\ q.began = guard[g].began
        /\ q.created = guard[g].created /\ q.floor = guard[g].floor /\ q.id = n
        /\ q.own = guard[g].own /\ q.decided = guard[g].decided
    BY <1>1 DEF GuardType
  <1>5. turn' = [holder |-> g, last |-> n] /\ UNCHANGED <<clock, hidden, proof, copy>>
    BY DEF Acquire
  <1>6. guard' = [Told(guard, 0) EXCEPT ![g] =
                     IF q.mode = "cached" THEN [q EXCEPT !.stage = "reuse"] ELSE Asking(q)]
    BY DEF Acquire
  <1> HIDE DEF n, q
  <1>7. GuardOK(q, clock, hidden, n)
    BY <1>1, <1>2, <1>3, <1>4 DEF GuardOK, StageOK
  <1>8. PICK r : /\ guard' = [Told(guard, 0) EXCEPT ![g] = r]
                 /\ r = IF q.mode = "cached" THEN [q EXCEPT !.stage = "reuse"] ELSE Asking(q)
    BY <1>6
  <1>9. GuardOK(r, clock, hidden, n)
    <2>1. CASE q.mode = "cached"
      BY <1>7, <1>8, <2>1, StageFits DEF GuardStages
    <2>2. CASE q.mode # "cached"
      BY <1>1, <1>7, <1>8, <2>2, AskingFits
    <2> QED BY <2>1, <2>2
  <1>10. /\ turn' \in [holder : Guards \cup {NoGuard}, last : Nat]
         /\ turn'.last = n
    BY <1>1, <1>5
  <1>11. 0 \in Nat
    OBVIOUS
  <1> QED BY <1>1, <1>5, <1>8, <1>9, <1>10, <1>11, GuardMoves

LEMMA BusyStep ==
    ASSUME ProofInv, NEW g \in Guards, Busy(g)
    PROVE  ProofInv'
  <1>1. PICK r : /\ Go(g, r)
                 /\ r = Asking(guard[g]) \/ r = [guard[g] EXCEPT !.stage = "waiting"]
    BY DEF Busy
  <1>2. GuardOK(r, clock, hidden, turn.last)
    BY <1>1, Knows, AskingFits, StageFits DEF GuardStages
  <1> QED BY <1>1, <1>2, Knows, Moves DEF Busy

LEMMA JoinedStep ==
    ASSUME ProofInv, NEW g \in Guards, Joined(g)
    PROVE  ProofInv'
  <1> DEFINE q == guard[g]
  <1>1. PICK r :
            /\ Go(g, r)
            /\ \/ r = Serve(g, proof) /\ Authority(g, q.began, q.told) = "serve"
               \/ r = End(g, "refused")
               \/ r = [q EXCEPT !.stage = "acquire", !.told = 0]
    BY DEF Joined
  <1>2. GuardOK(r, clock, hidden, turn.last)
    <2>1. CASE r = Serve(g, proof) /\ Authority(g, q.began, q.told) = "serve"
      BY <2>1, NeedIsBefore, AuthorityServes
    <2>2. CASE r = End(g, "refused")
      BY <2>2, Knows, EndFits
    <2>3. CASE r = [q EXCEPT !.stage = "acquire", !.told = 0]
      BY <2>3, Knows, RetoldFits
    <2> QED BY <1>1, <2>1, <2>2, <2>3
  <1> QED BY <1>1, <1>2, Knows, Moves DEF Joined

LEMMA ReuseStep ==
    ASSUME ProofInv, NEW g \in Guards, Reuse(g)
    PROVE  ProofInv'
  <1> DEFINE q == guard[g]  says == Authority(g, q.created, 0)
  <1>1. q.mode = "cached"
    BY Knows DEF Reuse, GuardOK, StageOK
  <1>2. CASE Go(g, Asking(q)) /\ UNCHANGED turn
    <2>1. GuardOK(Asking(q), clock, hidden, turn.last)
      BY Knows, AskingFits
    <2> QED BY <1>2, <2>1, Knows, Moves DEF Reuse
  <1>3. CASE says = "serve" /\ GiveUp(g, Serve(g, proof), proof.id)
    <2>1. GuardOK(Serve(g, proof), clock, hidden, turn.last)
      BY <1>1, <1>3, NeedIsBefore, AuthorityServes
    <2>2. proof.id \in Nat
      BY Knows DEF SoundProof, ProofType
    <2> QED BY <1>3, <2>1, <2>2, Knows, Moves DEF Reuse
  <1>4. CASE GiveUp(g, End(g, "refused"), 0)
    <2>1. GuardOK(End(g, "refused"), clock, hidden, turn.last)
      BY Knows, EndFits
    <2> QED BY <1>4, <2>1, Knows, Moves DEF Reuse
  <1> QED BY <1>2, <1>3, <1>4 DEF Reuse

--------------------------------------------------------------------------------
(* The probe.                                                              *)

\* Whoever asks, and however, hears that the repository is public only if it is.
LEMMA PublicIsSeen ==
    ASSUME NEW mode, "public" \in Verdicts(mode, Visible)
    PROVE  Visible
  <1> SUFFICES ASSUME ~Visible PROVE FALSE
    OBVIOUS
  <1>1. /\ "public" \notin WithCredential(Visible)
        /\ "public" \notin WithoutCredential(Visible)
        /\ "public" \notin Page(Visible)
    BY DEF WithCredential, WithoutCredential, Page
  <1>2. ASSUME NEW a \in WithCredential(Visible), NEW b \in WithoutCredential(Visible),
               NEW p \in Page(Visible)
        PROVE  Verdict(a, b, p) # "public"
    BY <1>1, <1>2 DEF Verdict
  <1>3. CASE mode = "tokenfree"
    BY <1>1, <1>3 DEF Verdicts
  <1>4. CASE mode = "anonymous"
    BY <1>1, <1>4 DEF Verdicts
  <1>5. CASE mode \notin {"tokenfree", "anonymous"}
    BY <1>2, <1>5 DEF Verdicts
  <1> QED BY <1>3, <1>4, <1>5

LEMMA NewProofIsSound ==
    ASSUME NEW tick \in Nat, NEW until \in Nat, NEW last \in Nat,
           NEW id \in Nat, id <= last, NEW positive \in BOOLEAN, NEW seen \in Nat, seen <= tick,
           positive => seen <= until /\ tick <= seen + ProbeLimit
    PROVE  SoundProof(Proof(id, positive, seen, tick), tick, until, last)
  <1>1. PublicTtl \in Nat /\ PrivateTtl \in Nat
    BY ProofAssumption
  <1>2. tick + (IF positive THEN PublicTtl ELSE PrivateTtl) \in Nat
    BY <1>1
  <1> QED BY <1>2 DEF Proof, SoundProof, ProofType

LEMMA LookStep ==
    ASSUME ProofInv, NEW g \in Guards, Look(g)
    PROVE  ProofInv'
  <1> DEFINE q == guard[g]
  <1>1. PICK v \in Verdicts(q.mode, Visible) :
            IF v \in {"public", "private"}
            THEN /\ Go(g, [q EXCEPT !.stage = "answered",
                                    !.own = Proof(q.id, v = "public", clock, clock)])
                 /\ UNCHANGED turn
            ELSE IF v = "history" /\ q.mode = "cached"
            THEN Go(g, [q EXCEPT !.stage = "edgehistory"]) /\ UNCHANGED turn
            ELSE GiveUp(g, End(g, "failed"), 0)
    BY DEF Look
  <1>2. CASE v \in {"public", "private"}
    <2> DEFINE p == Proof(q.id, v = "public", clock, clock)
               r == [q EXCEPT !.stage = "answered", !.own = p]
    <2>1. /\ GuardOK(q, clock, hidden, turn.last) /\ q \in GuardType
          /\ clock \in Nat /\ hidden \in Nat /\ turn.last \in Nat /\ ProbeLimit \in Nat
      BY Knows, ProofAssumption
    <2>2. q.id \in Nat /\ q.id <= turn.last /\ clock <= q.due /\ q.due <= clock + ProbeLimit
      BY <2>1 DEF Look, GuardOK, StageOK, GuardType
    <2>3. v = "public" => clock <= hidden
      BY <1>1, <1>2, PublicIsSeen, ProofAssumption DEF Visible, NotYet, ProofInv
    <2>4. SoundProof(p, clock, hidden, turn.last)
      <3> DEFINE positive == v = "public"
      <3>1. /\ positive \in BOOLEAN
            /\ positive => clock <= hidden /\ clock <= clock + ProbeLimit
            /\ clock <= clock
        BY <2>1, <2>3
      <3> HIDE DEF positive, q
      <3> QED BY <2>1, <2>2, <3>1, NewProofIsSound DEF positive
    <2>5. p.seen = clock /\ p \in ProofType
      BY <2>4 DEF Proof, SoundProof
    <2> HIDE DEF q, p
    <2>6. r \in GuardType
      BY <2>1, <2>5 DEF GuardType, GuardStages
    <2>7. /\ r.stage = "answered" /\ r.began = q.began /\ r.created = q.created
          /\ r.floor = q.floor /\ r.id = q.id /\ r.due = q.due /\ r.own = p
          /\ r.decided = q.decided
      BY <2>1 DEF GuardType
    <2> HIDE DEF r
    <2>8. GuardOK(r, clock, hidden, turn.last)
      BY <2>1, <2>2, <2>4, <2>5, <2>6, <2>7 DEF GuardOK, StageOK
    <2>9. Go(g, r) /\ UNCHANGED turn
      BY <1>1, <1>2 DEF r, p, q
    <2> QED BY <2>8, <2>9, Knows, Moves DEF Look
  <1>3. CASE v \notin {"public", "private"} /\ v = "history" /\ q.mode = "cached"
    <2>1. GuardOK([q EXCEPT !.stage = "edgehistory"], clock, hidden, turn.last)
      BY <1>3, Knows, StageFits DEF GuardStages
    <2> QED BY <1>1, <1>3, <2>1, Knows, Moves DEF Look
  <1>4. CASE v \notin {"public", "private"} /\ ~(v = "history" /\ q.mode = "cached")
    <2>1. GuardOK(End(g, "failed"), clock, hidden, turn.last)
      BY Knows, EndFits
    <2> QED BY <1>1, <1>4, <2>1, Knows, Moves DEF Look
  <1> QED BY <1>2, <1>3, <1>4

LEMMA ArriveStep ==
    ASSUME ProofInv, NEW g \in Guards, Arrive(g)
    PROVE  ProofInv'
  <1> DEFINE q == guard[g]
  <1>1. CASE Go(g, End(g, "read"))
    <2>1. GuardOK(End(g, "read"), clock, hidden, turn.last)
      BY Knows, EndFits
    <2> QED BY <1>1, <2>1, Knows, Moves DEF Arrive
  <1>2. ASSUME NEW s \in {"store", "lost"},
               Go(g, [q EXCEPT !.stage = s, !.own = Proof(q.id, @.public, @.seen, clock),
                               !.floor = q.id])
        PROVE  ProofInv'
    <2> DEFINE p == Proof(q.id, q.own.public, q.own.seen, clock)
               r == [q EXCEPT !.stage = s, !.own = p, !.floor = q.id]
    <2>1. /\ GuardOK(q, clock, hidden, turn.last) /\ q \in GuardType /\ q.own \in ProofType
          /\ SoundProof(q.own, clock, hidden, turn.last)
          /\ clock \in Nat /\ hidden \in Nat /\ turn.last \in Nat /\ ProbeLimit \in Nat
      BY Knows, ProofAssumption DEF SoundProof
    <2>2. /\ q.id \in Nat /\ q.id <= turn.last /\ q.due \in Nat
          /\ clock <= q.due /\ q.due <= q.own.seen + ProbeLimit
      BY <2>1 DEF Arrive, GuardOK, StageOK, GuardType
    <2>3. /\ q.own.public \in BOOLEAN /\ q.own.seen \in Nat /\ q.own.seen <= clock
          /\ q.own.public => q.own.seen <= hidden /\ clock <= q.own.seen + ProbeLimit
      BY <2>1, <2>2 DEF SoundProof, ProofType
    <2>4. SoundProof(p, clock, hidden, turn.last)
      BY <2>1, <2>2, <2>3, NewProofIsSound
    <2>5. p.at = clock /\ p.id = q.id /\ p \in ProofType
      BY <2>4 DEF Proof, SoundProof
    <2> HIDE DEF q, p
    <2>6. r \in GuardType
      BY <2>1, <2>2, <2>5 DEF GuardType, GuardStages
    <2>7. /\ r.stage = s /\ r.began = q.began /\ r.created = q.created
          /\ r.floor = q.id /\ r.id = q.id /\ r.own = p /\ r.decided = q.decided
      BY <2>1 DEF GuardType
    <2> HIDE DEF r
    <2>8. GuardOK(r, clock, hidden, turn.last)
      BY <2>1, <2>2, <2>4, <2>5, <2>6, <2>7 DEF GuardOK, StageOK
    <2>9. Go(g, r)
      BY <1>2 DEF r, p, q
    <2> QED BY <2>8, <2>9, Knows, Moves DEF Arrive
  <1> QED BY <1>1, <1>2 DEF Arrive

--------------------------------------------------------------------------------
(* Publication of the proof.                                               *)

\* What a request writes to D1 is its own proof.
LEMMA OwnMoves ==
    ASSUME ProofInv, NEW g \in Guards,
           guard[g].stage \in {"store", "put", "shared", "unknown", "rejected"},
           NEW s \in {"put", "shared", "unknown", "rejected", "lost"},
           Go(g, [guard[g] EXCEPT !.stage = s]),
           proof' \in {proof, guard[g].own}, copy' \in {copy, guard[g].own},
           UNCHANGED <<clock, hidden, turn>>
    PROVE  ProofInv'
  <1>1. s \in GuardStages
    BY DEF GuardStages
  <1>2. GuardOK([guard[g] EXCEPT !.stage = s], clock, hidden, turn.last)
    BY <1>1, Knows, StageFits
  <1>3. /\ SoundProof(proof', clock, hidden, turn.last)
        /\ SoundProof(copy', clock, hidden, turn.last)
    BY Knows
  <1> QED BY <1>2, <1>3, Moves

LEMMA StoreStep ==
    ASSUME ProofInv, NEW g \in Guards, Store(g) \/ StoreUnknown(g)
    PROVE  ProofInv'
  <1>1. PICK s \in {"put", "rejected", "unknown"} : Go(g, [guard[g] EXCEPT !.stage = s])
    BY DEF Store, StoreUnknown
  <1> QED BY <1>1, OwnMoves DEF Store, StoreUnknown

LEMMA PutStep ==
    ASSUME ProofInv, NEW g \in Guards, PutProof(g) \/ CompletionLost(g)
    PROVE  ProofInv'
  <1>1. PICK s \in {"shared", "lost"} : Go(g, [guard[g] EXCEPT !.stage = s])
    BY DEF PutProof, CompletionLost
  <1> QED BY <1>1, OwnMoves DEF PutProof, CompletionLost, Put

LEMMA CompleteStep ==
    ASSUME ProofInv, NEW g \in Guards, Complete(g)
    PROVE  ProofInv'
  <1> DEFINE q == guard[g]
             id == IF q.stage = "shared" THEN q.id ELSE 0
  <1>1. /\ GuardOK(q, clock, hidden, turn.last) /\ q \in GuardType /\ q.own \in ProofType
        /\ SoundProof(q.own, clock, hidden, turn.last)
        /\ clock \in Nat /\ hidden \in Nat /\ turn.last \in Nat
    BY Knows DEF SoundProof
  <1>2. id \in Nat /\ q.stage \in {"shared", "unknown", "rejected"}
    BY <1>1 DEF GuardType, Complete
  <1>3. PICK r :
            /\ GiveUp(g, r, id)
            /\ \/ r = End(g, "read") \/ r = End(g, "refused")
               \/ r = [q EXCEPT !.stage = "lost"]
               \/ r = Serve(g, q.own) /\ q.own.public /\ Fresh(q.own)
    BY DEF Complete
  <1>4. GuardOK(r, clock, hidden, turn.last)
    <2>1. CASE r = End(g, "read") \/ r = End(g, "refused")
      BY <1>1, <2>1, EndFits
    <2>2. CASE r = [q EXCEPT !.stage = "lost"]
      BY <1>1, <2>2, StageFits DEF GuardStages
    <2>3. CASE r = Serve(g, q.own) /\ q.own.public /\ Fresh(q.own)
      <3>1. /\ q.own.id = q.floor /\ q.began <= q.own.at
            /\ q.floor \in Nat /\ q.began \in Nat /\ q.own.at \in Nat
        BY <1>1, <1>2 DEF GuardOK, StageOK, GuardType, ProofType
      <3>2. Need(q) \in Nat /\ Need(q) <= q.began
        BY <1>1 DEF Need, GuardOK, GuardType
      <3>3. Need(q) <= q.own.at + Slack
        BY <3>1, <3>2 DEF Slack
      <3>4. q.own.id >= q.floor
        BY <3>1
      <3> QED BY <1>1, <2>3, <3>3, <3>4, ServeIsSound
    <2> QED BY <1>3, <2>1, <2>2, <2>3
  <1>5. UNCHANGED <<clock, hidden, proof, copy>>
    BY DEF Complete
  <1> HIDE DEF id
  <1> QED BY <1>2, <1>3, <1>4, <1>5, Knows, Moves

LEMMA RecoverStep ==
    ASSUME ProofInv, NEW g \in Guards, Recover(g)
    PROVE  ProofInv'
  <1> DEFINE q == guard[g]
             over == [q EXCEPT !.stage = "acquire", !.own = NoProof, !.id = 0]
  <1>1. PICK r :
            /\ Go(g, r)
            /\ \/ r = End(g, "read") \/ r = End(g, "refused")
               \/ r = Serve(g, proof) /\ Authority(g, q.began, 0) = "serve"
               \/ r = over
    BY DEF Recover
  <1>2. GuardOK(r, clock, hidden, turn.last)
    <2>1. CASE r = End(g, "read") \/ r = End(g, "refused")
      BY <2>1, Knows, EndFits
    <2>2. CASE r = Serve(g, proof) /\ Authority(g, q.began, 0) = "serve"
      BY <2>2, NeedIsBefore, AuthorityServes
    <2>3. CASE r = over
      <3>1. /\ GuardOK(q, clock, hidden, turn.last) /\ q \in GuardType
            /\ clock \in Nat /\ hidden \in Nat /\ turn.last \in Nat
        BY Knows
      <3>2. /\ NoProof \in ProofType /\ SoundProof(NoProof, clock, hidden, turn.last)
            /\ "acquire" \in GuardStages
        BY <3>1 DEF NoProof, ProofType, SoundProof, GuardStages
      <3> HIDE DEF q
      <3>3. over \in GuardType
        BY <3>1, <3>2 DEF GuardType
      <3>4. /\ over.stage = "acquire" /\ over.began = q.began /\ over.created = q.created
            /\ over.floor = q.floor /\ over.id = 0 /\ over.own = NoProof
            /\ over.decided = q.decided
        BY <3>1 DEF GuardType
      <3> HIDE DEF over
      <3> QED BY <2>3, <3>1, <3>2, <3>3, <3>4 DEF GuardOK, StageOK
    <2> QED BY <1>1, <2>1, <2>2, <2>3
  <1> QED BY <1>1, <1>2, Knows, Moves DEF Recover

LEMMA LoseTurnStep ==
    ASSUME ProofInv, NEW g \in Guards, LoseTurn(g)
    PROVE  ProofInv'
  <1>1. guard = [guard EXCEPT ![g] = guard[g]]
    BY DEF ProofInv
  <1>2. guard' = Told([guard EXCEPT ![g] = guard[g]], 0)
    BY <1>1 DEF LoseTurn
  <1>3. /\ turn' \in [holder : Guards \cup {NoGuard}, last : Nat]
        /\ turn'.last = turn.last /\ turn.last <= turn'.last
        /\ UNCHANGED <<clock, hidden, proof, copy>>
    BY DEF LoseTurn, ProofInv
  <1> QED BY <1>2, <1>3, Knows, GuardMoves

--------------------------------------------------------------------------------
(* Time, and the repository.                                               *)

LEMMA ProofTickStep == ASSUME ProofInv, ProofTick PROVE ProofInv'
  <1>1. /\ clock \in Nat /\ hidden \in Nat /\ turn.last \in Nat /\ ProbeLimit \in Nat
        /\ clock' = clock + 1 /\ clock' \in 0..LastTick
        /\ UNCHANGED <<hidden, proof, copy, turn, guard>>
    BY ProofAssumption DEF ProofInv, ProofTick, NotYet
  <1>2. ASSUME NEW p, SoundProof(p, clock, hidden, turn.last)
        PROVE  SoundProof(p, clock + 1, hidden, turn.last)
    BY <1>1, <1>2 DEF SoundProof, ProofType
  <1>3. ASSUME NEW g \in Guards
        PROVE  GuardOK(guard[g], clock + 1, hidden, turn.last)
    <2> DEFINE q == guard[g]
    <2>1. /\ GuardOK(q, clock, hidden, turn.last) /\ q \in GuardType
          /\ SoundProof(q.own, clock + 1, hidden, turn.last)
          /\ q.stage \in {"asking", "answered"} => clock < q.due
      BY <1>2, Knows DEF ProofTick
    <2> HIDE DEF q
    <2>2. /\ q.began \in Nat /\ q.created \in Nat /\ q.decided \in Nat /\ q.due \in Nat
      BY <2>1 DEF GuardType
    <2>3. q.began <= clock + 1 /\ q.decided <= clock + 1
      BY <1>1, <2>1, <2>2 DEF GuardOK
    <2>4. StageOK(q, clock + 1, hidden)
      BY <1>1, <2>1, <2>2 DEF GuardOK, StageOK
    <2>5. GuardOK(q, clock + 1, hidden, turn.last)
      BY <2>1, <2>3, <2>4 DEF GuardOK
    <2> QED BY <2>5 DEF q
  <1> QED BY <1>1, <1>2, <1>3 DEF ProofInv

LEMMA HideStep == ASSUME ProofInv, Hide PROVE ProofInv'
  <1>1. /\ clock \in Nat /\ turn.last \in Nat /\ ProbeLimit \in Nat /\ PublicTtl \in Nat \ {0}
        /\ hidden' = clock /\ hidden' \in 0..NotYet
        /\ UNCHANGED <<clock, proof, copy, turn, guard>>
    BY ProofAssumption DEF ProofInv, Hide, NotYet
  <1>2. ASSUME NEW p, SoundProof(p, clock, hidden, turn.last)
        PROVE  SoundProof(p, clock, clock, turn.last)
    BY <1>1, <1>2 DEF SoundProof, ProofType
  <1>3. ASSUME NEW g \in Guards
        PROVE  GuardOK(guard[g], clock, clock, turn.last)
    <2> DEFINE q == guard[g]
    <2>1. /\ GuardOK(q, clock, hidden, turn.last) /\ q \in GuardType
          /\ SoundProof(q.own, clock, clock, turn.last)
      BY <1>2, Knows
    <2> HIDE DEF q
    <2>2. /\ q.began \in Nat /\ q.created \in Nat /\ q.decided \in Nat
          /\ q.began <= clock /\ q.created <= q.began /\ q.decided <= clock
      BY <2>1 DEF GuardType, GuardOK
    <2>3. Need(q) \in Nat /\ Need(q) <= clock
      BY <1>1, <2>2 DEF Need
    <2>4. q.stage = "served" => ServedOK(q, clock)
      BY <1>1, <2>1, <2>2, <2>3 DEF GuardOK, StageOK, ServedOK, Slack
    <2>5. StageOK(q, clock, clock)
      BY <2>1, <2>4 DEF GuardOK, StageOK
    <2>6. GuardOK(q, clock, clock, turn.last)
      BY <2>1, <2>5 DEF GuardOK
    <2> QED BY <2>6 DEF q
  <1> QED BY <1>1, <1>2, <1>3 DEF ProofInv

LEMMA StepKeepsProofs == ASSUME ProofInv, [ProofNext]_proofVars PROVE ProofInv'
  <1>1. ASSUME NEW g \in Guards, Guard(g)
        PROVE  ProofInv'
    <2>1. ASSUME NEW mode \in ModesOf[g], NEW created \in 0..LastTick, Begin(g, mode, created)
          PROVE  ProofInv'
      <3>1. mode \in {"fresh", "cached", "tokenfree", "anonymous"}
        BY ProofAssumption
      <3> QED BY <2>1, <3>1, BeginStep
    <2>2. CASE ReadEdge(g) \/ ReadNegative(g) \/ ReadEdgeAgain(g) \/ ReadRow(g) \/ CopyRow(g)
      BY <2>2, ReadEdgeStep, ReadNegativeStep, ReadEdgeAgainStep, ReadRowStep, CopyRowStep
    <2>3. CASE Acquire(g) \/ Busy(g) \/ Joined(g) \/ Reuse(g)
      BY <2>3, AcquireStep, BusyStep, JoinedStep, ReuseStep
    <2>4. CASE Look(g) \/ Arrive(g)
      BY <2>4, LookStep, ArriveStep
    <2>5. CASE Store(g) \/ StoreUnknown(g) \/ PutProof(g) \/ CompletionLost(g)
      BY <2>5, StoreStep, PutStep
    <2>6. CASE Complete(g) \/ Recover(g) \/ LoseTurn(g)
      BY <2>6, CompleteStep, RecoverStep, LoseTurnStep
    <2> QED BY <1>1, <2>1, <2>2, <2>3, <2>4, <2>5, <2>6 DEF Guard
  <1>2. CASE UNCHANGED proofVars
    BY <1>2 DEF proofVars, ProofInv
  <1> QED BY <1>1, <1>2, ProofTickStep, HideStep DEF ProofNext

LEMMA ProofInvariant == ProofSpec => []ProofInv
  <1>1. ProofInv /\ [ProofNext]_proofVars => ProofInv'
    BY StepKeepsProofs
  <1> QED BY InitGivesProofs, <1>1, PTL DEF ProofSpec

\* Proofs are dated no earlier than GitHub looked and never in the future, and no
\* publication is known that was not given out.
THEOREM ProofTypeCorrect == ProofSpec => []ProofTypeOK
  BY ProofInvariant, ProofInvGivesProperties, PTL

\* ensurePublicGitHubRepo: whatever copies are made of proofs, and in whichever
\* order, a repository made private is served no longer than the life of one
\* proof and the time GitHub may take.
THEOREM PrivateReposStop == ProofSpec => []PrivateReposStopBeingServed
  BY ProofInvariant, ProofInvGivesProperties, PTL

\* A request that has looked for itself is never served on an older publication.
THEOREM OwnEvidenceIsKept == ProofSpec => []OwnEvidenceStands
  BY ProofInvariant, ProofInvGivesProperties, PTL
================================================================================
