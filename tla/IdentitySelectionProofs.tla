------------------------ MODULE IdentitySelectionProofs ------------------------
(***************************************************************************)
(* Proofs about IdentitySelection: type correctness, and that rate states  *)
(* and cooldowns are what the reports say, in whatever order they arrive,  *)
(* for any number of relays, identities, routes and resources, any answers *)
(* of GitHub and any number of failures.                                   *)
(***************************************************************************)
EXTENDS IdentitySelection, FiniteSetTheorems, TLAPS

(***************************************************************************)
(* The invariant in three parts: what the reports have left, which only    *)
(* they, pruning and time change; the relays, which have tried no identity *)
(* but those that failed and the one they have; and the other tables.      *)
(***************************************************************************)

RatesOK ==
    /\ rate \in [Identities -> [Resources -> RateType]]
    /\ \A i \in Identities, s \in Resources : rate[i][s].reset = 0 => rate[i][s] = NoRate
    /\ heardRates \subseteq
          [id : Identities, resource : Resources, remaining : Nat, reset : Nat]
    /\ RatesAreTheStrictestHeard

CoolsOK ==
    /\ cool \in [Identities -> [Scopes -> Nat]]
    /\ heardCools \subseteq [id : Identities, scope : Scopes, until : Nat]
    /\ CooldownsLastAsHeard

RequestOK(q) ==
    /\ q \in RequestType
    /\ q.stage \in {"asking", "selected", "answered", "reporting"} => q.route \in Routes
    /\ q.stage \in {"selected", "answered", "reporting"} => q.id \in Identities
    /\ q.stage \in {"new", "asking", "selected"} => q.used \subseteq q.failed
    /\ q.stage = "selected" => q.id \notin q.failed
    /\ q.stage = "answered" => q.used \subseteq q.failed \cup {q.id}

RequestsOK ==
    /\ req \in [Requests -> RequestType]
    /\ \A c \in Requests : RequestOK(req[c])

ClockOK == now \in Nat \ {0} /\ faults \in Nat

LeaseType == [id : Identities \cup {Nobody}, until : Nat]

LeasesOK == lease \in [Routes -> LeaseType]

QuotasOK == quota \in [Identities -> [Resources -> RateType]]

IdentityInv ==
    /\ ClockOK /\ LeasesOK /\ QuotasOK
    /\ RatesOK /\ CoolsOK /\ RequestsOK

\* The parts say what the properties say.
LEMMA InvGivesProperties ==
    ASSUME IdentityInv
    PROVE  TypeOK /\ RatesAreTheStrictestHeard /\ CooldownsLastAsHeard
  BY DEF IdentityInv, ClockOK, LeasesOK, QuotasOK, LeaseType, RatesOK, CoolsOK,
         RequestsOK, RequestOK, TypeOK

--------------------------------------------------------------------------------
(* The operators that recording is built from.                             *)

\* A rate state that hears one more report is the strictest of what it heard.
LEMMA HearingKeepsRates ==
    ASSUME RatesOK, NEW i \in Identities, NEW s \in Resources, NEW o \in AnswerType,
           o.reset > 0, HearRate(i, s, o)
    PROVE  RatesOK'
  <1> DEFINE r == [id |-> i, resource |-> s, remaining |-> o.remaining, reset |-> o.reset]
             old == rate[i][s]
             new == rate'[i][s]
  <1>1. o.remaining \in Nat /\ o.reset \in Nat
    BY DEF AnswerType
  <1>2. old \in RateType /\ FullQuota \in Nat
    BY TimesAssumption DEF RatesOK
  <1>3. Word(o) \in RateType /\ Word(o).reset = o.reset /\ Word(o).remaining = o.remaining
    BY <1>1 DEF Word, RateType
  <1>4. /\ Merged(old, Word(o)) \in RateType
        /\ \/ Merged(old, Word(o)) = Word(o) /\ o.reset > old.reset
           \/ /\ o.reset = old.reset /\ Merged(old, Word(o)).reset = old.reset
              /\ Merged(old, Word(o)).remaining = Smaller(old.remaining, o.remaining)
           \/ Merged(old, Word(o)) = old /\ o.reset < old.reset
    BY <1>1, <1>2, <1>3 DEF Merged, RateType, Smaller
  <1>5. /\ rate' = [rate EXCEPT ![i][s] = Merged(@, Word(o))]
        /\ heardRates' = heardRates \cup {r}
    BY DEF HearRate
  <1>6. rate' \in [Identities -> [Resources -> RateType]] /\ new = Merged(old, Word(o))
    BY <1>4, <1>5 DEF RatesOK
  <1>7. \A j \in Identities, k \in Resources :
          <<j, k>> # <<i, s>> => rate'[j][k] = rate[j][k]
    BY <1>5 DEF RatesOK
  <1>8. new.reset > 0
    BY <1>1, <1>2, <1>3, <1>4, <1>6 DEF RateType
  <1>9. r \in [id : Identities, resource : Resources, remaining : Nat, reset : Nat]
    BY <1>1
  <1>10. \A j \in Identities, k \in Resources :
           rate'[j][k].reset = 0 => rate'[j][k] = NoRate
    BY <1>7, <1>8 DEF RatesOK
  <1>11. RatesAreTheStrictestHeard'
    <2> SUFFICES ASSUME NEW j \in Identities, NEW k \in Resources
                 PROVE  LET heard == {h \in heardRates' : h.id = j /\ h.resource = k}
                        IN  IF heard = {} THEN rate'[j][k] = NoRate
                            ELSE /\ \E h \in heard :
                                       /\ h.reset = rate'[j][k].reset
                                       /\ h.remaining = rate'[j][k].remaining
                                 /\ \A h \in heard :
                                       \/ h.reset < rate'[j][k].reset
                                       \/ /\ h.reset = rate'[j][k].reset
                                          /\ h.remaining >= rate'[j][k].remaining
      BY DEF RatesAreTheStrictestHeard
    <2> DEFINE before == {h \in heardRates : h.id = j /\ h.resource = k}
               after == {h \in heardRates' : h.id = j /\ h.resource = k}
    <2>1. IF before = {} THEN rate[j][k] = NoRate
          ELSE /\ \E h \in before :
                     h.reset = rate[j][k].reset /\ h.remaining = rate[j][k].remaining
               /\ \A h \in before :
                     \/ h.reset < rate[j][k].reset
                     \/ /\ h.reset = rate[j][k].reset
                        /\ h.remaining >= rate[j][k].remaining
      BY DEF RatesOK, RatesAreTheStrictestHeard
    <2>2. CASE <<j, k>> # <<i, s>>
      <3>1. after = before
        BY <1>5, <2>2
      <3> QED BY <1>7, <2>1, <2>2, <3>1
    <2>3. CASE <<j, k>> = <<i, s>>
      <3>1. after = before \cup {r}
        BY <1>5, <2>3
      <3>2. before = {} => old.reset = 0
        BY <2>1, <2>3 DEF NoRate
      <3>3. \A h \in before : h.reset \in Nat /\ h.remaining \in Nat
        BY DEF RatesOK
      <3>4. \A h \in before :
               h.reset < old.reset \/ (h.reset = old.reset /\ h.remaining >= old.remaining)
        BY <2>1, <2>3
      <3>0. r \in after /\ r.reset = o.reset /\ r.remaining = o.remaining
        BY <3>1
      <3>5. \E h \in after : h.reset = new.reset /\ h.remaining = new.remaining
        <4>1. CASE Merged(old, Word(o)) = Word(o)
          BY <1>3, <1>6, <3>0, <4>1
        <4>2. CASE before # {} /\ Merged(old, Word(o)) = old
          BY <1>6, <2>1, <2>3, <3>1, <4>2
        <4>3. CASE /\ before # {} /\ o.reset = old.reset
                   /\ Merged(old, Word(o)).reset = old.reset
                   /\ Merged(old, Word(o)).remaining = Smaller(old.remaining, o.remaining)
          <5>1. PICK h \in before : h.reset = old.reset /\ h.remaining = old.remaining
            BY <2>1, <2>3, <4>3
          <5>2. new.remaining = old.remaining \/ new.remaining = o.remaining
            BY <1>6, <4>3 DEF Smaller
          <5>3. h \in after
            BY <3>1
          <5>4. new.reset = old.reset
            BY <1>6, <4>3
          <5> QED BY <3>0, <4>3, <5>1, <5>2, <5>3, <5>4
        <4>4. CASE before = {}
          BY <1>1, <1>2, <1>4, <3>2, <4>1, <4>4 DEF RateType
        <4> QED BY <1>4, <4>1, <4>2, <4>3, <4>4
      <3>6. \A h \in after : h.reset < new.reset
                             \/ (h.reset = new.reset /\ h.remaining >= new.remaining)
        <4>1. /\ o.reset < new.reset
                 \/ (o.reset = new.reset /\ o.remaining >= new.remaining)
              /\ old.reset < new.reset
                 \/ (old.reset = new.reset /\ old.remaining >= new.remaining)
          BY <1>1, <1>2, <1>3, <1>4, <1>6 DEF RateType, Smaller
        <4>2. new \in RateType
          BY <1>4, <1>6
        <4>3. \A h \in before : h.reset < new.reset
                                \/ (h.reset = new.reset /\ h.remaining >= new.remaining)
          BY <1>2, <3>3, <3>4, <4>1, <4>2 DEF RateType
        <4> QED BY <3>1, <4>1, <4>3
      <3> QED BY <2>3, <3>1, <3>5, <3>6
    <2> QED BY <2>2, <2>3
  <1> QED BY <1>5, <1>6, <1>9, <1>10, <1>11 DEF RatesOK

\* A cooldown that hears one more end lasts to the latest one.
LEMMA CoolingKeepsCools ==
    ASSUME CoolsOK, ClockOK, now' = now,
           NEW i \in Identities, NEW s \in Scopes, NEW until \in Nat,
           CoolDownHeard(i, s, until)
    PROVE  CoolsOK'
  <1> DEFINE r == [id |-> i, scope |-> s, until |-> until]
  <1>1. /\ cool' = [cool EXCEPT ![i][s] = Larger(@, until)]
        /\ heardCools' = heardCools \cup {r}
    BY DEF CoolDownHeard, CoolDown
  <1>2. cool[i][s] \in Nat
    BY DEF CoolsOK
  <1>3. /\ cool' \in [Identities -> [Scopes -> Nat]]
        /\ cool'[i][s] = Larger(cool[i][s], until)
        /\ \A j \in Identities, k \in Scopes :
              <<j, k>> # <<i, s>> => cool'[j][k] = cool[j][k]
    BY <1>1, <1>2 DEF CoolsOK, Larger
  <1>4. heardCools' \subseteq [id : Identities, scope : Scopes, until : Nat]
    BY <1>1 DEF CoolsOK
  <1>5. CooldownsLastAsHeard'
    <2> SUFFICES ASSUME NEW j \in Identities, NEW k \in Scopes
                 PROVE  /\ cool'[j][k] > now =>
                             [id |-> j, scope |-> k, until |-> cool'[j][k]] \in heardCools'
                        /\ \A h \in heardCools' :
                             h.id = j /\ h.scope = k /\ h.until > now
                             => cool'[j][k] >= h.until
      BY DEF CooldownsLastAsHeard
    <2>1. /\ cool[j][k] > now =>
               [id |-> j, scope |-> k, until |-> cool[j][k]] \in heardCools
          /\ \A h \in heardCools :
               h.id = j /\ h.scope = k /\ h.until > now => cool[j][k] >= h.until
      BY DEF CoolsOK, CooldownsLastAsHeard
    <2>2. \A h \in heardCools : h.until \in Nat
      BY DEF CoolsOK
    <2>3. CASE <<j, k>> # <<i, s>>
      BY <1>1, <1>3, <2>1, <2>3
    <2>4. CASE <<j, k>> = <<i, s>>
      <3>1. cool'[j][k] = cool[j][k] \/ cool'[j][k] = until
        BY <1>3, <2>4 DEF Larger
      <3>2. cool'[j][k] >= cool[j][k] /\ cool'[j][k] >= until
        BY <1>2, <1>3, <2>4 DEF Larger
      <3>3. cool'[j][k] > now =>
              [id |-> j, scope |-> k, until |-> cool'[j][k]] \in heardCools'
        BY <1>1, <2>1, <2>4, <3>1
      <3>4. \A h \in heardCools' :
              h.id = j /\ h.scope = k /\ h.until > now => cool'[j][k] >= h.until
        <4>1. cool[j][k] \in Nat /\ cool'[j][k] \in Nat
          BY <1>2, <1>3, <2>4
        <4>2. \A h \in heardCools :
                h.id = j /\ h.scope = k /\ h.until > now => cool'[j][k] >= h.until
          BY <2>1, <2>2, <3>2, <4>1
        <4>3. r.until = until /\ cool'[j][k] >= r.until
          BY <3>2
        <4> QED BY <1>1, <4>2, <4>3
      <3> QED BY <3>3, <3>4
    <2> QED BY <2>3, <2>4
  <1> QED BY <1>3, <1>4, <1>5 DEF CoolsOK

\* What a failed call costs ends at a time, of a scope that there is.
LEMMA CooldownTyped ==
    ASSUME ClockOK, NEW t \in Routes, NEW o \in AnswerType
    PROVE  Cooldown(t, o).scope \in Scopes /\ Cooldown(t, o).until \in Nat
  <1>1. /\ o.retry \in Nat /\ o.reset \in Nat /\ now \in Nat
        /\ CooldownTtl \in Nat /\ SecondaryTtl \in Nat
    BY TimesAssumption DEF AnswerType, ClockOK
  <1>2. "*" \in Scopes /\ ResourceOf[t] \in Scopes /\ t \in Scopes
    BY NamesAssumption DEF Scopes
  <1> DEFINE wait == IF o.remaining = 0 /\ o.reset > 0 THEN o.reset - now ELSE 0
             most == Larger(SecondaryTtl, IF o.retry > 0 THEN o.retry ELSE wait)
  <1>3. wait \in Int
    BY <1>1
  <1>4. most \in Nat
    BY <1>1, <1>3 DEF Larger
  <1>5. now + most \in Nat /\ now + o.retry \in Nat /\ now + CooldownTtl \in Nat
    BY <1>1, <1>4
  <1> HIDE DEF most
  <1>6. Cooldown(t, o) \in {[scope |-> "*", until |-> now + o.retry],
                            [scope |-> "*", until |-> now + CooldownTtl],
                            [scope |-> "*", until |-> now + most],
                            [scope |-> ResourceOf[t], until |-> now + CooldownTtl],
                            [scope |-> t, until |-> now + CooldownTtl]}
    BY DEF Cooldown, most
  <1> QED BY <1>2, <1>5, <1>6

LEMMA RecordingKeeps ==
    ASSUME ClockOK, now' = now, RatesOK, CoolsOK,
           NEW i \in Identities, NEW t \in Routes, NEW o \in AnswerType,
           RecordResult(i, t, o)
    PROVE  RatesOK' /\ CoolsOK'
  <1>1. ResourceOf[t] \in Resources
    BY NamesAssumption
  <1>2. RatesOK'
    <2>1. CASE o.reset > 0
      <3>1. HearRate(i, ResourceOf[t], o)
        BY <2>1 DEF RecordResult, RecordRate
      <3> QED BY <1>1, <2>1, <3>1, HearingKeepsRates
    <2>2. CASE ~(o.reset > 0)
      <3>1. UNCHANGED <<rate, heardRates>>
        BY <2>2 DEF RecordResult, RecordRate
      <3> QED BY <3>1 DEF RatesOK, RatesAreTheStrictestHeard
    <2> QED BY <2>1, <2>2
  <1>3. CoolsOK'
    <2>1. CASE Cools(t, o)
      <3>1. CoolDownHeard(i, Cooldown(t, o).scope, Cooldown(t, o).until)
        BY <2>1 DEF RecordResult
      <3> QED BY <3>1, CooldownTyped, CoolingKeepsCools
    <2>2. CASE ~Cools(t, o)
      <3>1. UNCHANGED <<cool, heardCools>>
        BY <2>2 DEF RecordResult
      <3> QED BY <3>1 DEF CoolsOK, CooldownsLastAsHeard
    <2> QED BY <2>1, <2>2
  <1> QED BY <1>2, <1>3

\* Pruning only drops what has expired.
LEMMA PruningKeepsCools ==
    ASSUME ClockOK, CoolsOK, now' = now, heardCools' = heardCools, Prune
    PROVE  CoolsOK'
  <1> DEFINE rows == Identities \X Scopes
             ends == [x \in rows |-> cool[x[1]][x[2]]]
  <1>1. PICK doomed \in Oldest(rows, ends) :
          cool' = [i \in Identities |-> [k \in Scopes |->
                     IF <<i, k>> \in doomed THEN 0 ELSE cool[i][k]]]
    BY DEF Prune
  <1>2. doomed \subseteq {x \in rows : ends[x] \in 1..now}
    BY DEF Oldest
  <1>3. \A i \in Identities, k \in Scopes :
          /\ cool[i][k] \in Nat
          /\ cool'[i][k] = cool[i][k] \/ (cool'[i][k] = 0 /\ cool[i][k] <= now)
    <2> SUFFICES ASSUME NEW i \in Identities, NEW k \in Scopes
                 PROVE  /\ cool[i][k] \in Nat
                        /\ cool'[i][k] = cool[i][k]
                           \/ (cool'[i][k] = 0 /\ cool[i][k] <= now)
      OBVIOUS
    <2>1. cool[i][k] \in Nat
      BY DEF CoolsOK
    <2>2. <<i, k>> \in doomed => cool[i][k] <= now
      <3>1. <<i, k>> \in rows /\ ends[<<i, k>>] = cool[i][k]
        OBVIOUS
      <3>2. <<i, k>> \in doomed => ends[<<i, k>>] \in 1..now
        BY <1>2
      <3> QED BY <2>1, <3>1, <3>2 DEF ClockOK
    <2> QED BY <1>1, <2>1, <2>2
  <1>4. cool' \in [Identities -> [Scopes -> Nat]]
    BY <1>1, <1>3
  <1>5. CooldownsLastAsHeard'
    <2> SUFFICES ASSUME NEW j \in Identities, NEW k \in Scopes
                 PROVE  /\ cool'[j][k] > now =>
                             [id |-> j, scope |-> k, until |-> cool'[j][k]] \in heardCools
                        /\ \A h \in heardCools :
                             h.id = j /\ h.scope = k /\ h.until > now
                             => cool'[j][k] >= h.until
      BY DEF CooldownsLastAsHeard
    <2>1. /\ cool[j][k] > now =>
               [id |-> j, scope |-> k, until |-> cool[j][k]] \in heardCools
          /\ \A h \in heardCools :
               h.id = j /\ h.scope = k /\ h.until > now => cool[j][k] >= h.until
      BY DEF CoolsOK, CooldownsLastAsHeard
    <2>2. \A h \in heardCools : h.until \in Nat
      BY DEF CoolsOK
    <2>3. /\ cool[j][k] \in Nat
          /\ cool'[j][k] = cool[j][k] \/ (cool'[j][k] = 0 /\ cool[j][k] <= now)
      BY <1>3
    <2>4. CASE cool'[j][k] = cool[j][k]
      BY <2>1, <2>4
    <2>5. CASE cool'[j][k] = 0 /\ cool[j][k] <= now
      BY <2>1, <2>2, <2>3, <2>5 DEF ClockOK
    <2> QED BY <2>3, <2>4, <2>5
  <1> QED BY <1>4, <1>5 DEF CoolsOK

\* What an answer of the coordinator leaves of the leases.
LEMMA LeasesKeep ==
    ASSUME LeasesOK, ClockOK, NEW t \in Routes, NEW i \in Identities,
           NEW leases \in PrunedLeases,
           \/ lease' = leases
           \/ lease' = [leases EXCEPT ![t] = [id |-> i, until |-> now + LeaseTtl]]
    PROVE  LeasesOK'
  <1>1. NoLease \in LeaseType /\ [id |-> i, until |-> now + LeaseTtl] \in LeaseType
    BY TimesAssumption DEF NoLease, LeaseType, ClockOK
  <1>2. PICK doomed : leases = [u \in Routes |-> IF u \in doomed THEN NoLease ELSE lease[u]]
    BY DEF PrunedLeases
  <1>3. leases \in [Routes -> LeaseType]
    BY <1>1, <1>2 DEF LeasesOK
  <1> HIDE DEF LeaseType
  <1> QED BY <1>1, <1>3 DEF LeasesOK

\* A step that changes one relay, to one that is in order.
LEMMA RelayStep ==
    ASSUME RequestsOK, NEW c \in Requests, NEW q, RequestOK(q),
           req' = [req EXCEPT ![c] = q]
    PROVE  RequestsOK'
  BY DEF RequestsOK, RequestOK

\* Relays that have ended need nothing.
LEMMA EndKeeps ==
    ASSUME RequestsOK, NEW c \in Requests, End(c)
    PROVE  RequestsOK'
  <1>1. RequestOK([req[c] EXCEPT !.stage = "done"])
    BY DEF RequestsOK, RequestOK, RequestType
  <1>2. req' = [req EXCEPT ![c] = [req[c] EXCEPT !.stage = "done"]]
    BY DEF End
  <1> QED BY <1>1, <1>2, RelayStep

--------------------------------------------------------------------------------
(* Every step keeps the invariant.                                         *)

LEMMA InitKeeps == Init => IdentityInv
  <1> SUFFICES ASSUME Init PROVE IdentityInv
    OBVIOUS
  <1>1. NoRate \in RateType /\ FullQuota \in Nat /\ Window \in Nat
    BY TimesAssumption DEF NoRate, RateType
  <1>2. ClockOK /\ LeasesOK
    BY DEF Init, ClockOK, LeasesOK, LeaseType, NoLease
  <1>3. QuotasOK
    BY <1>1 DEF Init, QuotasOK, RateType
  <1>4. RatesOK
    BY <1>1 DEF Init, RatesOK, RatesAreTheStrictestHeard
  <1>5. CoolsOK
    BY DEF Init, CoolsOK, CooldownsLastAsHeard
  <1>6. RequestOK(NewRequest)
    BY DEF RequestOK, NewRequest, RequestType, NoAnswer, AnswerType
  <1>7. RequestsOK
    <2>1. NewRequest \in RequestType
      BY <1>6 DEF RequestOK
    <2> HIDE DEF NewRequest
    <2> QED BY <1>6, <2>1 DEF Init, RequestsOK
  <1> QED BY <1>2, <1>3, <1>4, <1>5, <1>7 DEF IdentityInv

\* The parts that a step leaves alone.
LEMMA Unchanged ==
    ASSUME IdentityInv
    PROVE  /\ UNCHANGED <<rate, heardRates>> => RatesOK'
           /\ now' = now /\ UNCHANGED <<cool, heardCools>> => CoolsOK'
           /\ UNCHANGED lease => LeasesOK'
           /\ UNCHANGED quota => QuotasOK'
           /\ UNCHANGED req => RequestsOK'
           /\ UNCHANGED now /\ faults' \in Nat => ClockOK'
  <1>1. UNCHANGED <<rate, heardRates>> => RatesOK'
    BY DEF IdentityInv, RatesOK, RatesAreTheStrictestHeard
  <1>2. now' = now /\ UNCHANGED <<cool, heardCools>> => CoolsOK'
    BY DEF IdentityInv, CoolsOK, CooldownsLastAsHeard
  <1>3. UNCHANGED lease => LeasesOK'
    BY DEF IdentityInv, LeasesOK
  <1>4. UNCHANGED quota => QuotasOK'
    BY DEF IdentityInv, QuotasOK
  <1>5. UNCHANGED req => RequestsOK'
    BY DEF IdentityInv, RequestsOK, RequestOK
  <1>6. UNCHANGED now /\ faults' \in Nat => ClockOK'
    BY DEF IdentityInv, ClockOK
  <1> QED BY <1>1, <1>2, <1>3, <1>4, <1>5, <1>6

LEMMA FaultCounts ==
    ASSUME ClockOK, Fault \/ UNCHANGED faults
    PROVE  faults' \in Nat
  BY DEF ClockOK, Fault

\* A step that only concerns one relay.
LEMMA RelayOnly ==
    ASSUME IdentityInv, NEW c \in Requests, NEW q, RequestOK(q),
           req' = [req EXCEPT ![c] = q], UNCHANGED <<now, lease, quota, faults, observed>>
    PROVE  IdentityInv'
  <1>1. RequestsOK'
    BY RelayStep DEF IdentityInv
  <1> QED BY <1>1, Unchanged DEF IdentityInv, ClockOK, observed

LEMMA BeginKeeps ==
    ASSUME IdentityInv, NEW c \in Requests, NEW t \in Routes, NEW pool \in Pools,
           Begin(c, t, pool)
    PROVE  IdentityInv'
  <1> DEFINE q == [req[c] EXCEPT !.stage = "asking", !.route = t, !.pool = pool]
  <1>1. RequestOK(q)
    <2>1. req[c] \in RequestType /\ pool \subseteq Identities
      BY NamesAssumption DEF IdentityInv, RequestsOK
    <2>2. req[c].used \subseteq req[c].failed
      BY DEF Begin, IdentityInv, RequestsOK, RequestOK
    <2> QED BY <2>1, <2>2 DEF RequestOK, RequestType
  <1>2. req' = [req EXCEPT ![c] = q] /\ UNCHANGED <<now, lease, quota, faults, observed>>
    BY DEF Begin
  <1> QED BY <1>1, <1>2, RelayOnly

LEMMA SelectKeeps ==
    ASSUME IdentityInv, NEW c \in Requests, Select(c)
    PROVE  IdentityInv'
  <1> DEFINE q == req[c]
  <1>1. /\ q \in RequestType /\ q.route \in Routes /\ Candidates(q) \subseteq Identities
        /\ q.stage = "asking"
    BY DEF Select, IdentityInv, RequestsOK, RequestOK, RequestType, Candidates
  <1>2. /\ Prune /\ UNCHANGED <<now, rate, quota, heardRates, heardCools>>
        /\ Fault \/ UNCHANGED faults
    BY DEF Select, Chosen, Unavailable
  <1>3. ClockOK' /\ QuotasOK' /\ RatesOK'
    BY <1>2, Unchanged, FaultCounts DEF IdentityInv
  <1>4. CoolsOK'
    BY <1>2, PruningKeepsCools DEF IdentityInv
  <1>5. CASE \E i \in Candidates(q) :
               /\ Chosen(q.route, Candidates(q), i)
               /\ \/ req' = [req EXCEPT ![c] = [@ EXCEPT !.stage = "selected", !.id = i]]
                  \/ End(c)
    <2>1. PICK i \in Candidates(q) :
            /\ Chosen(q.route, Candidates(q), i)
            /\ \/ req' = [req EXCEPT ![c] = [@ EXCEPT !.stage = "selected", !.id = i]]
               \/ End(c)
      BY <1>5
    <2>2. i \in Identities /\ i \notin q.failed /\ q.used \subseteq q.failed
      BY <1>1 DEF IdentityInv, RequestsOK, RequestOK, Candidates
    <2>3. LeasesOK'
      <3>1. PICK leases \in PrunedLeases :
              \/ lease' = leases
              \/ lease' = [leases EXCEPT ![q.route] =
                             [id |-> i, until |-> now + LeaseTtl]]
        BY <2>1 DEF Chosen
      <3> QED BY <1>1, <2>2, <3>1, LeasesKeep DEF IdentityInv
    <2>4. RequestsOK'
      <3>1. RequestOK([q EXCEPT !.stage = "selected", !.id = i])
        BY <1>1, <2>2 DEF RequestOK, RequestType
      <3>2. CASE req' = [req EXCEPT ![c] = [@ EXCEPT !.stage = "selected", !.id = i]]
        <4>1. req' = [req EXCEPT ![c] = [q EXCEPT !.stage = "selected", !.id = i]]
          BY <3>2
        <4> QED BY <3>1, <4>1, RelayStep DEF IdentityInv
      <3>3. CASE End(c)
        BY <3>3, EndKeeps DEF IdentityInv
      <3> QED BY <2>1, <3>2, <3>3
    <2> QED BY <1>3, <1>4, <2>3, <2>4 DEF IdentityInv
  <1>6. CASE /\ Unavailable(q.route, Candidates(q))
             /\ req' = [req EXCEPT ![c] = ToldUnavailable(@)]
    <2>1. lease' \in PrunedLeases
      BY <1>6 DEF Unavailable
    <2>2. LeasesOK'
      <3>1. NoLease \in LeaseType
        BY DEF NoLease, LeaseType
      <3>2. PICK doomed :
              lease' = [u \in Routes |-> IF u \in doomed THEN NoLease ELSE lease[u]]
        BY <2>1 DEF PrunedLeases
      <3> QED BY <3>1, <3>2 DEF IdentityInv, LeasesOK
    <2>3. RequestOK(ToldUnavailable(q))
      BY <1>1 DEF ToldUnavailable, RequestOK, RequestType
    <2>4. req' = [req EXCEPT ![c] = ToldUnavailable(q)]
      BY <1>6
    <2>5. RequestsOK'
      BY <2>3, <2>4, RelayStep DEF IdentityInv
    <2> QED BY <1>3, <1>4, <2>2, <2>5 DEF IdentityInv
  <1> QED BY <1>5, <1>6 DEF Select

LEMMA TokenFailsKeeps ==
    ASSUME IdentityInv, NEW c \in Requests, TokenFails(c)
    PROVE  IdentityInv'
  <1> DEFINE q == req[c]
             failed == [q EXCEPT !.stage = "asking", !.failed = @ \cup {q.id},
                                 !.used = @ \cup {q.id}]
  <1>1. /\ q \in RequestType /\ q.route \in Routes /\ q.id \in Identities
        /\ q.used \subseteq q.failed
    BY DEF TokenFails, IdentityInv, RequestsOK, RequestOK
  <1>2. /\ UNCHANGED <<now, lease, quota, rate, heardRates>>
        /\ Fault \/ UNCHANGED faults
        /\ req' = [req EXCEPT ![c] = failed] \/ End(c)
        /\ \/ CoolDownHeard(q.id, "*", now + CooldownTtl)
           \/ UNCHANGED <<cool, heardCools>>
    BY DEF TokenFails
  <1>3. ClockOK' /\ QuotasOK' /\ RatesOK' /\ LeasesOK'
    BY <1>2, Unchanged, FaultCounts DEF IdentityInv
  <1>4. "*" \in Scopes /\ now + CooldownTtl \in Nat
    BY TimesAssumption DEF Scopes, IdentityInv, ClockOK
  <1>5. CoolsOK'
    BY <1>1, <1>2, <1>4, CoolingKeepsCools, Unchanged DEF IdentityInv
  <1>6. RequestOK(failed)
    BY <1>1 DEF RequestOK, RequestType
  <1>7. RequestsOK'
    BY <1>2, <1>6, RelayStep, EndKeeps DEF IdentityInv
  <1> QED BY <1>3, <1>5, <1>7 DEF IdentityInv

LEMMA AnswersTyped ==
    ASSUME NEW w \in RateType
    PROVE  Answers(w) \subseteq AnswerType
  <1>1. /\ w.remaining \in Nat /\ w.reset \in Nat /\ RetryAfters \subseteq Nat
        /\ Refusals \subseteq {"unauthorized", "forbidden", "limited", "secondary"}
    BY NamesAssumption, TimesAssumption DEF RateType
  <1>2. CASE w.remaining = 0
    BY <1>1, <1>2 DEF Answers, AnswerType
  <1>3. CASE w.remaining # 0
    <2>1. w.remaining - 1 \in Nat
      BY <1>1, <1>3
    <2> QED BY <1>1, <1>3, <2>1 DEF Answers, AnswerType
  <1> QED BY <1>2, <1>3

\* An answer of GitHub: what is left of a quota is a number.
LEMMA CallKeeps ==
    ASSUME IdentityInv, NEW c \in Requests, Call(c)
    PROVE  IdentityInv'
  <1> DEFINE q == req[c]
             s == ResourceOf[q.route]
             w == quota[q.id][s]
  <1>1. /\ q \in RequestType /\ q.route \in Routes /\ q.id \in Identities
        /\ q.used \subseteq q.failed
    BY DEF Call, IdentityInv, RequestsOK, RequestOK
  <1>2. s \in Resources /\ w \in RateType
    BY <1>1, NamesAssumption DEF IdentityInv, QuotasOK
  <1>3. PICK o \in Answers(w) :
          req' = [req EXCEPT ![c] =
                    [q EXCEPT !.stage = "answered", !.seen = o, !.used = @ \cup {q.id}]]
    BY DEF Call
  <1>4. RequestOK([q EXCEPT !.stage = "answered", !.seen = o, !.used = @ \cup {q.id}])
    <2>1. o \in AnswerType
      BY <1>2, AnswersTyped
    <2> QED BY <1>1, <2>1 DEF RequestOK, RequestType
  <1>5. RequestsOK'
    BY <1>3, <1>4, RelayStep DEF IdentityInv
  <1>6. /\ UNCHANGED <<now, lease, faults, observed>>
        /\ quota' = [quota EXCEPT ![q.id][s] = Spent(@)]
    BY DEF Call
  <1>7. QuotasOK'
    <2>1. Spent(w) \in RateType
      BY <1>2 DEF Spent, RateType, Larger
    <2> QED BY <1>1, <1>2, <1>6, <2>1 DEF IdentityInv, QuotasOK
  <1> QED BY <1>5, <1>6, <1>7, Unchanged DEF IdentityInv, ClockOK, observed

\* What a report changes, when it is recorded and when it is not.
LEMMA ReportKeeps ==
    ASSUME IdentityInv, now' = now,
           NEW i \in Identities, NEW t \in Routes, NEW o \in AnswerType,
           RecordResult(i, t, o) \/ RolledBack(i, t, o)
    PROVE  RatesOK' /\ CoolsOK'
  <1>1. CASE RecordResult(i, t, o)
    BY <1>1, RecordingKeeps DEF IdentityInv
  <1>2. CASE RolledBack(i, t, o)
    BY <1>2, Unchanged DEF RolledBack, observed
  <1> QED BY <1>1, <1>2

LEMMA ReportFailureKeeps ==
    ASSUME IdentityInv, NEW c \in Requests, ReportFailure(c)
    PROVE  IdentityInv'
  <1> DEFINE q == req[c]
             next == [q EXCEPT !.stage = "asking", !.failed = @ \cup {q.id},
                               !.seen = NoAnswer]
  <1>1. /\ q \in RequestType /\ q.route \in Routes /\ q.id \in Identities
        /\ q.seen \in AnswerType /\ q.used \subseteq q.failed \cup {q.id}
    BY DEF ReportFailure, IdentityInv, RequestsOK, RequestOK, RequestType
  <1>2. /\ UNCHANGED <<now, lease, quota>>
        /\ Fault \/ UNCHANGED faults
        /\ req' = [req EXCEPT ![c] = next] \/ End(c)
        /\ RecordResult(q.id, q.route, q.seen) \/ RolledBack(q.id, q.route, q.seen)
    BY DEF ReportFailure
  <1>3. ClockOK' /\ QuotasOK' /\ LeasesOK'
    BY <1>2, Unchanged, FaultCounts DEF IdentityInv
  <1>4. RatesOK' /\ CoolsOK'
    BY <1>1, <1>2, ReportKeeps
  <1>5. RequestOK(next)
    BY <1>1 DEF RequestOK, RequestType, NoAnswer, AnswerType
  <1>6. RequestsOK'
    BY <1>2, <1>5, RelayStep, EndKeeps DEF IdentityInv
  <1> QED BY <1>3, <1>4, <1>6 DEF IdentityInv

LEMMA DeliverKeeps ==
    ASSUME IdentityInv, NEW c \in Requests, Deliver(c)
    PROVE  IdentityInv'
  <1> DEFINE q == req[c]
  <1>1. /\ q \in RequestType /\ q.route \in Routes /\ q.id \in Identities
        /\ q.seen \in AnswerType
    BY DEF Deliver, IdentityInv, RequestsOK, RequestOK, RequestType
  <1>2. /\ UNCHANGED <<now, lease, quota>> /\ End(c)
        /\ Fault \/ UNCHANGED faults
        /\ RecordResult(q.id, q.route, q.seen) \/ RolledBack(q.id, q.route, q.seen)
    BY DEF Deliver
  <1>3. ClockOK' /\ QuotasOK' /\ LeasesOK'
    BY <1>2, Unchanged, FaultCounts DEF IdentityInv
  <1>4. RatesOK' /\ CoolsOK'
    BY <1>1, <1>2, ReportKeeps
  <1>5. RequestsOK'
    BY <1>2, EndKeeps DEF IdentityInv
  <1> QED BY <1>3, <1>4, <1>5 DEF IdentityInv

LEMMA SucceedKeeps ==
    ASSUME IdentityInv, NEW c \in Requests, Succeed(c)
    PROVE  IdentityInv'
  <1> DEFINE q == [req[c] EXCEPT !.stage = "reporting"]
  <1>1. RequestOK(q)
    BY DEF Succeed, IdentityInv, RequestsOK, RequestOK, RequestType
  <1>2. req' = [req EXCEPT ![c] = q] /\ UNCHANGED <<now, lease, quota, faults, observed>>
    BY DEF Succeed
  <1> QED BY <1>1, <1>2, RelayOnly

LEMMA RefuseKeeps ==
    ASSUME IdentityInv, NEW c \in Requests, Refuse(c)
    PROVE  IdentityInv'
  <1> DEFINE q == [req[c] EXCEPT !.stage = "reporting", !.seen.kind = "ok",
                                 !.seen.retry = 0]
  <1>1. RequestOK(q)
    <2>1. RequestOK(req[c]) /\ req[c].stage = "answered"
      BY DEF Refuse, IdentityInv, RequestsOK
    <2>2. [req[c].seen EXCEPT !.kind = "ok", !.retry = 0] \in AnswerType
      BY <2>1 DEF RequestOK, RequestType, AnswerType
    <2>3. q = [req[c] EXCEPT !.stage = "reporting",
                             !.seen = [req[c].seen EXCEPT !.kind = "ok", !.retry = 0]]
      BY <2>1 DEF RequestOK, RequestType, AnswerType
    <2> QED BY <2>1, <2>2, <2>3 DEF RequestOK, RequestType
  <1>2. req' = [req EXCEPT ![c] = q] /\ UNCHANGED <<now, lease, quota, faults, observed>>
    BY DEF Refuse
  <1> QED BY <1>1, <1>2, RelayOnly

\* A request that ends without a report.
LEMMA QuietEndKeeps ==
    ASSUME IdentityInv, NEW c \in Requests, Exhaust(c) \/ Abandon(c)
    PROVE  IdentityInv'
  <1>1. End(c) /\ UNCHANGED <<now, lease, quota, faults, observed>>
    BY DEF Exhaust, Abandon
  <1>2. RequestsOK'
    BY <1>1, EndKeeps DEF IdentityInv
  <1> QED BY <1>1, <1>2, Unchanged DEF IdentityInv, ClockOK, observed

\* Time only ends cooldowns.
LEMMA TickKeeps ==
    ASSUME IdentityInv, Tick
    PROVE  IdentityInv'
  <1>1. now' = now + 1 /\ now \in Nat /\ now' \in Nat \ {0} /\ faults' \in Nat
    BY DEF Tick, IdentityInv, ClockOK
  <1>2. UNCHANGED <<lease, req, rate, cool, heardRates, heardCools>>
    BY DEF Tick, observed
  <1>3. ClockOK' /\ LeasesOK' /\ RequestsOK'
    BY <1>1, <1>2, Unchanged DEF ClockOK, IdentityInv
  <1>4. RatesOK'
    BY <1>2 DEF IdentityInv, RatesOK, RatesAreTheStrictestHeard
  <1>5. CoolsOK'
    <2>1. \A h \in heardCools : h.until \in Nat
      BY DEF IdentityInv, CoolsOK
    <2>2. \A j \in Identities, k \in Scopes : cool[j][k] \in Nat
      BY DEF IdentityInv, CoolsOK
    <2>3. CooldownsLastAsHeard'
      BY <1>1, <1>2, <2>1, <2>2 DEF IdentityInv, CoolsOK, CooldownsLastAsHeard
    <2> QED BY <1>2, <2>3 DEF IdentityInv, CoolsOK
  <1>6. QuotasOK'
    <2>1. FullQuota \in Nat /\ now + 1 + Window \in Nat
      BY <1>1, TimesAssumption
    <2> QED BY <2>1 DEF Tick, IdentityInv, QuotasOK, RateType
  <1> QED BY <1>3, <1>4, <1>5, <1>6 DEF IdentityInv

\* A relay whose call is answered has the identity that it was given.
LEMMA StepsOfSelected ==
    ASSUME IdentityInv, Next, NEW c \in Requests,
           req[c].stage = "selected", req'[c].stage = "answered"
    PROVE  req'[c].id = req[c].id
  <1>1. req[c] \in RequestType /\ req \in [Requests -> RequestType]
    BY DEF IdentityInv, RequestsOK
  <1>2. req'[c] # req[c]
    OBVIOUS
  <1>3. CASE \E d \in Requests : Call(d)
    <2>1. PICK d \in Requests : Call(d)
      BY <1>3
    <2>2. c = d
      BY <1>1, <1>2, <2>1 DEF Call
    <2>3. PICK o : req' = [req EXCEPT ![c] =
                             [req[c] EXCEPT !.stage = "answered", !.seen = o,
                                            !.used = @ \cup {req[c].id}]]
      BY <2>1, <2>2 DEF Call
    <2> QED BY <1>1, <2>3 DEF RequestType
  <1>4. CASE \E d \in Requests, t \in Routes, pool \in Pools : Begin(d, t, pool)
    BY <1>1, <1>4 DEF Begin, RequestType
  <1>5. CASE \E d \in Requests : Select(d)
    BY <1>1, <1>5 DEF Select, End, ToldUnavailable, RequestType
  <1>6. CASE \E d \in Requests : Exhaust(d) \/ Abandon(d)
    BY <1>1, <1>6 DEF Exhaust, Abandon, End, RequestType
  <1>7. CASE \E d \in Requests : TokenFails(d)
    BY <1>1, <1>7 DEF TokenFails, End, RequestType
  <1>8. CASE \E d \in Requests : ReportFailure(d)
    BY <1>1, <1>8 DEF ReportFailure, End, RequestType
  <1>9. CASE \E d \in Requests : Succeed(d) \/ Refuse(d)
    BY <1>1, <1>9 DEF Succeed, Refuse, RequestType
  <1>10. CASE \E d \in Requests : Deliver(d)
    BY <1>1, <1>10 DEF Deliver, End, RequestType
  <1>11. CASE Tick \/ Finished
    BY <1>2, <1>11 DEF Tick, Finished, vars
  <1> QED BY <1>3, <1>4, <1>5, <1>6, <1>7, <1>8, <1>9, <1>10, <1>11 DEF Next, Serve

LEMMA NextKeeps ==
    ASSUME IdentityInv, [Next]_vars
    PROVE  IdentityInv'
  <1>1. CASE \E c \in Requests, t \in Routes, pool \in Pools : Begin(c, t, pool)
    BY <1>1, BeginKeeps
  <1>2. CASE \E c \in Requests : Serve(c)
    BY <1>2, SelectKeeps, TokenFailsKeeps, CallKeeps, ReportFailureKeeps, SucceedKeeps,
       RefuseKeeps, DeliverKeeps, QuietEndKeeps DEF Serve
  <1>3. CASE Tick
    BY <1>3, TickKeeps
  <1>4. CASE UNCHANGED vars
    BY <1>4, Unchanged DEF vars, IdentityInv, ClockOK
  <1> QED BY <1>1, <1>2, <1>3, <1>4 DEF Next, Finished

--------------------------------------------------------------------------------
(* What the coordinator answers and what it was told.                      *)

\* Of a finite set one has the highest score.
LEMMA SomeoneIsBest ==
    ASSUME NEW U, IsFiniteSet(U), U # {}, NEW score \in [U -> Int]
    PROVE  \E i \in U : \A j \in U : score[j] <= score[i]
  <1> DEFINE Above(i) == {j \in U : score[i] <= score[j]}
             Sets == {Above(i) : i \in U}
  <1>1. Sets \subseteq FiniteSubsetsOf(U) /\ Sets # {}
    <2>1. FiniteSubsetsOf(U) = SUBSET U
      BY FS_FiniteSubsetsOfFinite
    <2>2. \A i \in U : Above(i) \in SUBSET U /\ Above(i) \in Sets
      OBVIOUS
    <2>3. Sets # {}
      <3>1. PICK i \in U : TRUE
        OBVIOUS
      <3>2. Above(i) \in Sets
        BY <2>2, <3>1
      <3> HIDE DEF Sets
      <3> QED BY <3>2
    <2>4. Sets \subseteq SUBSET U
      BY <2>2
    <2> HIDE DEF Sets
    <2> QED BY <2>1, <2>3, <2>4
  <1>2. PICK T \in Sets : \A V \in Sets : <<V, T>> \notin StrictSubsetOrdering(U)
    <2> HIDE DEF Sets
    <2> QED BY <1>1, FS_StrictSubsetOrderingWellFounded, WFMin
  <1>3. PICK i \in U : T = Above(i)
    OBVIOUS
  <1>4. ASSUME NEW j \in U PROVE score[j] <= score[i]
    <2> SUFFICES ASSUME ~(score[j] <= score[i]) PROVE FALSE
      OBVIOUS
    <2>1. Above(j) \subseteq Above(i) /\ i \in Above(i) /\ i \notin Above(j)
      OBVIOUS
    <2>2. <<Above(j), T>> \in StrictSubsetOrdering(U)
      BY <1>3, <2>1 DEF StrictSubsetOrdering
    <2> QED BY <1>2, <2>2
  <1> QED BY <1>4

\* The coordinator's rows and what was reported call the same identities good.
LEMMA UsableIsKnownGood ==
    ASSUME IdentityInv, NEW i \in Identities, NEW t \in Routes
    PROVE  Usable(i, t) <=> KnownGood(i, t)
  <1> DEFINE s == ResourceOf[t]
             scopes == {"*", s, t}
  <1>1. /\ s \in Resources /\ scopes \subseteq Scopes /\ now \in Nat
        /\ rate[i][s] \in RateType /\ (rate[i][s].reset = 0 => rate[i][s] = NoRate)
        /\ \A k \in Scopes : cool[i][k] \in Nat
    BY NamesAssumption DEF IdentityInv, ClockOK, RatesOK, CoolsOK, Scopes
  <1>2. IsCoolingDown(i, t) <=>
          \E h \in heardCools : h.id = i /\ h.scope \in scopes /\ h.until > now
    <2>1. /\ CooldownsLastAsHeard
          /\ heardCools \subseteq [id : Identities, scope : Scopes, until : Nat]
      BY DEF IdentityInv, CoolsOK
    <2>2. ASSUME NEW k \in scopes, cool[i][k] > now
          PROVE  \E h \in heardCools : h.id = i /\ h.scope \in scopes /\ h.until > now
      <3>1. [id |-> i, scope |-> k, until |-> cool[i][k]] \in heardCools
        BY <1>1, <2>1, <2>2 DEF CooldownsLastAsHeard
      <3> QED BY <2>2, <3>1
    <2>3. ASSUME NEW h \in heardCools, h.id = i, h.scope \in scopes, h.until > now
          PROVE  cool[i][h.scope] > now
      <3>1. cool[i][h.scope] >= h.until
        BY <1>1, <2>1, <2>3 DEF CooldownsLastAsHeard
      <3> QED BY <1>1, <2>1, <2>3, <3>1
    <2> QED BY <2>2, <2>3 DEF IsCoolingDown
  <1>3. IsQuotaExhausted(i, s) <=>
          \E h \in heardRates :
             /\ h.id = i /\ h.resource = s /\ h.remaining = 0 /\ h.reset > now
             /\ \A g \in heardRates : g.id = i /\ g.resource = s => g.reset <= h.reset
    <2> DEFINE heard == {h \in heardRates : h.id = i /\ h.resource = s}
    <2>1. /\ RatesAreTheStrictestHeard
          /\ \A h \in heardRates : h.remaining \in Nat /\ h.reset \in Nat
      BY DEF IdentityInv, RatesOK
    <2>2. /\ heard = {} => rate[i][s] = NoRate
          /\ heard # {} =>
               /\ \E h \in heard :
                     h.reset = rate[i][s].reset /\ h.remaining = rate[i][s].remaining
               /\ \A h \in heard :
                     \/ h.reset < rate[i][s].reset
                     \/ h.reset = rate[i][s].reset /\ h.remaining >= rate[i][s].remaining
      BY <1>1, <2>1 DEF RatesAreTheStrictestHeard
    <2>3. rate[i][s].reset \in Nat /\ rate[i][s].remaining \in Nat
      BY <1>1 DEF RateType
    <2>4. ASSUME IsQuotaExhausted(i, s)
          PROVE  \E h \in heard : /\ h.remaining = 0 /\ h.reset > now
                                  /\ \A g \in heard : g.reset <= h.reset
      <3>1. heard # {}
        BY <1>1, <2>2, <2>4 DEF IsQuotaExhausted, NoRate
      <3>2. PICK h \in heard :
              h.reset = rate[i][s].reset /\ h.remaining = rate[i][s].remaining
        BY <2>2, <3>1
      <3>3. \A g \in heard : g.reset <= h.reset
        BY <2>1, <2>2, <2>3, <3>1, <3>2
      <3>4. h.remaining = 0 /\ h.reset > now
        BY <2>3, <2>4, <3>2 DEF IsQuotaExhausted
      <3> QED BY <3>3, <3>4
    <2>5. ASSUME NEW h \in heard, h.remaining = 0, h.reset > now,
                 \A g \in heard : g.reset <= h.reset
          PROVE  IsQuotaExhausted(i, s)
      <3>1. PICK g \in heard : g.reset = rate[i][s].reset
        BY <2>2
      <3>2. h.reset = rate[i][s].reset /\ h.remaining >= rate[i][s].remaining
        BY <2>1, <2>2, <2>3, <2>5, <3>1
      <3> QED BY <1>1, <2>3, <2>5, <3>2 DEF IsQuotaExhausted
    <2> QED BY <2>4, <2>5
  <1>4. KnownGood(i, t) <=>
          /\ \A h \in heardCools : h.id = i /\ h.scope \in scopes => h.until <= now
          /\ \A h \in heardRates :
                h.id = i /\ h.resource = s /\ h.remaining = 0 /\ h.reset > now
                => \E g \in heardRates :
                      g.id = i /\ g.resource = h.resource /\ g.reset > h.reset
    BY DEF KnownGood
  <1>5. /\ \A h \in heardCools : h.until \in Nat
        /\ \A h \in heardRates : h.reset \in Nat
    BY DEF IdentityInv, CoolsOK, RatesOK
  <1> HIDE DEF s, scopes
  <1>6. (\A h \in heardCools : h.id = i /\ h.scope \in scopes => h.until <= now)
          <=> ~ \E h \in heardCools : h.id = i /\ h.scope \in scopes /\ h.until > now
    BY <1>1, <1>5
  <1>7. (\A h \in heardRates :
            h.id = i /\ h.resource = s /\ h.remaining = 0 /\ h.reset > now
            => \E g \in heardRates : g.id = i /\ g.resource = h.resource /\ g.reset > h.reset)
          <=> ~ \E h \in heardRates :
                   /\ h.id = i /\ h.resource = s /\ h.remaining = 0 /\ h.reset > now
                   /\ \A g \in heardRates : g.id = i /\ g.resource = s => g.reset <= h.reset
    BY <1>5
  <1>8. Usable(i, t) <=> ~IsCoolingDown(i, t) /\ ~IsQuotaExhausted(i, s)
    BY DEF Usable, s
  <1> QED BY <1>2, <1>3, <1>4, <1>6, <1>7, <1>8

\* Whom the coordinator chooses is good, and where it chooses nobody nobody is.
LEMMA ChoicesAreGood ==
    ASSUME IdentityInv, NEW t \in Routes, NEW candidates \in SUBSET Identities
    PROVE  /\ \A i \in Choices(t, candidates) : i \in candidates /\ KnownGood(i, t)
           /\ Choices(t, candidates) = {} => \A i \in candidates : ~KnownGood(i, t)
  <1> DEFINE U == {i \in candidates : Usable(i, t)}
             score == [i \in U |-> Score(i, ResourceOf[t])]
  <1>1. ASSUME NEW i \in Choices(t, candidates)
        PROVE  i \in candidates /\ KnownGood(i, t)
    <2>1. i \in candidates /\ Usable(i, t)
      BY <1>1 DEF Choices, Leased
    <2> QED BY <2>1, UsableIsKnownGood
  <1>2. ASSUME NEW i \in candidates, KnownGood(i, t)
        PROVE  Choices(t, candidates) # {}
    <2>1. CASE Leased(t, candidates)
      BY <2>1 DEF Choices
    <2>2. CASE ~Leased(t, candidates)
      <3>1. U # {}
        BY <1>2, UsableIsKnownGood
      <3>2. IsFiniteSet(U)
        BY NamesAssumption, FS_Subset
      <3>3. score \in [U -> Int]
        <4>1. ASSUME NEW j \in U PROVE Score(j, ResourceOf[t]) \in Int
          <5>1. rate[j][ResourceOf[t]] \in RateType
            BY NamesAssumption DEF IdentityInv, RatesOK
          <5> QED BY <5>1, NamesAssumption, TimesAssumption DEF Score, RateType
        <4> QED BY <4>1
      <3>4. PICK j \in U : \A k \in U : score[k] <= score[j]
        <4> HIDE DEF U, score
        <4> QED BY <3>1, <3>2, <3>3, SomeoneIsBest
      <3>5. j \in Choices(t, candidates)
        BY <2>2, <3>4 DEF Choices
      <3> QED BY <3>5
    <2> QED BY <2>1, <2>2
  <1> QED BY <1>1, <1>2

\* A relay that was asking is answered by the coordinator only.
LEMMA StepsOfAsking ==
    ASSUME IdentityInv, Next, NEW c \in Requests,
           req[c].stage = "asking", req'[c].stage \in {"selected", "unavailable"}
    PROVE  LET q == req[c] IN
           \/ req'[c].stage = "selected" /\ req'[c].id \in Choices(q.route, Candidates(q))
           \/ req'[c].stage = "unavailable" /\ Choices(q.route, Candidates(q)) = {}
  <1>1. req[c] \in RequestType /\ req \in [Requests -> RequestType]
    BY DEF IdentityInv, RequestsOK
  <1>2. req'[c] # req[c]
    OBVIOUS
  <1>3. CASE \E d \in Requests : Select(d)
    <2>1. PICK d \in Requests : Select(d)
      BY <1>3
    <2>2. c = d
      BY <1>1, <1>2, <2>1 DEF Select, End
    <2>3. ~End(c)
      BY <1>1 DEF End, RequestType
    <2>4. CASE \E i \in Candidates(req[c]) :
                 /\ Chosen(req[c].route, Candidates(req[c]), i)
                 /\ req' = [req EXCEPT ![c] = [@ EXCEPT !.stage = "selected", !.id = i]]
      <3>1. PICK i : /\ i \in Choices(req[c].route, Candidates(req[c]))
                     /\ req' = [req EXCEPT ![c] = [@ EXCEPT !.stage = "selected", !.id = i]]
        BY <2>4 DEF Chosen
      <3>2. req'[c].stage = "selected" /\ req'[c].id = i
        BY <1>1, <3>1 DEF RequestType
      <3> QED BY <3>1, <3>2
    <2>5. CASE /\ Unavailable(req[c].route, Candidates(req[c]))
               /\ req' = [req EXCEPT ![c] = ToldUnavailable(@)]
      <3>1. req'[c].stage = "unavailable"
        BY <1>1, <2>5 DEF ToldUnavailable, RequestType
      <3> QED BY <2>5, <3>1 DEF Unavailable
    <2> QED BY <2>1, <2>2, <2>3, <2>4, <2>5 DEF Select
  <1>4. CASE \E d \in Requests, t \in Routes, pool \in Pools : Begin(d, t, pool)
    BY <1>1, <1>2, <1>4 DEF Begin, RequestType
  <1>5. CASE \E d \in Requests : Exhaust(d) \/ Abandon(d)
    BY <1>1, <1>5 DEF Exhaust, Abandon, End, RequestType
  <1>6. CASE \E d \in Requests : TokenFails(d)
    BY <1>1, <1>6 DEF TokenFails, End, RequestType
  <1>7. CASE \E d \in Requests : Call(d)
    BY <1>1, <1>7 DEF Call, RequestType
  <1>8. CASE \E d \in Requests : ReportFailure(d)
    BY <1>1, <1>8 DEF ReportFailure, End, RequestType
  <1>9. CASE \E d \in Requests : Succeed(d) \/ Refuse(d)
    BY <1>1, <1>9 DEF Succeed, Refuse, RequestType
  <1>10. CASE \E d \in Requests : Deliver(d)
    BY <1>1, <1>10 DEF Deliver, End, RequestType
  <1>11. CASE Tick \/ Finished
    BY <1>2, <1>11 DEF Tick, Finished, vars
  <1> QED BY <1>3, <1>4, <1>5, <1>6, <1>7, <1>8, <1>9, <1>10, <1>11 DEF Next, Serve

--------------------------------------------------------------------------------
(* The theorems.                                                           *)

LEMMA InvHolds == Spec => []IdentityInv
  <1>1. IdentityInv /\ [Next]_vars => IdentityInv'
    BY NextKeeps
  <1> QED BY InitKeeps, <1>1, PTL DEF Spec

\* Type correctness: leases, rate states, cooldowns and relays keep their shape, a
\* relay that works has a route and an identity (coordinator.sql, relay.ts).
THEOREM SelectionTypeCorrect == Spec => []TypeOK
  <1>1. IdentityInv => TypeOK
    BY InvGivesProperties
  <1> QED BY InvHolds, <1>1, PTL

\* Rate states converge: in whatever order the reports of any number of relays are
\* recorded, a row holds the strictest word of the newest window (UpsertRateState).
THEOREM RatesConverge == Spec => []RatesAreTheStrictestHeard
  <1>1. IdentityInv => RatesAreTheStrictestHeard
    BY InvGivesProperties
  <1> QED BY InvHolds, <1>1, PTL

\* Cooldowns are honoured: no report and no pruning shortens one that is running
\* (UpsertCooldown, DeleteExpiredCooldowns).
THEOREM CooldownsAreKept == Spec => []CooldownsLastAsHeard
  <1>1. IdentityInv => CooldownsLastAsHeard
    BY InvGivesProperties
  <1> QED BY InvHolds, <1>1, PTL

\* Together: what the coordinator knows of any number of identities is a function of
\* the reports it has recorded and not of their order (recordResult, its alarm).
THEOREM KnowledgeConverges == Spec => []ReportsConverge
  BY RatesConverge, CooldownsAreKept, PTL DEF ReportsConverge

\* A request makes at most one call with each identity, whatever the coordinator
\* remembers of the failures that it was told of (failedIdentityIds of relay.ts).
THEOREM NoIdentityIsTriedTwice == Spec => EachIdentityTriedOnce
  <1> DEFINE A == \A c \in Requests :
                    req'[c].stage = "answered" /\ req[c].stage = "selected"
                    => req'[c].id \notin req[c].used
  <1>1. IdentityInv /\ [Next]_vars => [A]_vars
    <2> SUFFICES ASSUME IdentityInv, Next, NEW c \in Requests,
                        req'[c].stage = "answered", req[c].stage = "selected"
                 PROVE  req'[c].id \notin req[c].used
      OBVIOUS
    <2>1. req[c].used \subseteq req[c].failed /\ req[c].id \notin req[c].failed
      BY DEF IdentityInv, RequestsOK, RequestOK
    <2>2. req'[c].id = req[c].id
      BY StepsOfSelected
    <2> QED BY <2>1, <2>2
  <1>2. Spec => [][A]_vars
    <2> HIDE DEF A
    <2> QED BY InvHolds, <1>1, PTL DEF Spec
  <1> QED BY <1>2 DEF EachIdentityTriedOnce

\* What the coordinator answers agrees with every report it recorded: whom it
\* hands out is good as far as is known, and if it says that nobody is available
\* then every candidate is known not to be, whatever was pruned or leased
\* meanwhile (SelectIdentity, selectIdentity).
THEOREM SelectionsAreAsReported == Spec => SelectionsFollowReports
  <1> DEFINE A == \A c \in Requests :
                    LET q == req[c]
                        candidates == q.pool \ q.failed
                    IN  /\ q.stage = "asking" /\ req'[c].stage = "selected"
                           => req'[c].id \in candidates /\ KnownGood(req'[c].id, q.route)
                        /\ q.stage = "asking" /\ req'[c].stage = "unavailable"
                           => \A i \in candidates : ~KnownGood(i, q.route)
  <1>1. IdentityInv /\ [Next]_vars => [A]_vars
    <2> SUFFICES ASSUME IdentityInv, Next, NEW c \in Requests, req[c].stage = "asking",
                        req'[c].stage \in {"selected", "unavailable"}
                 PROVE  /\ req'[c].stage = "selected"
                           => /\ req'[c].id \in req[c].pool \ req[c].failed
                              /\ KnownGood(req'[c].id, req[c].route)
                        /\ req'[c].stage = "unavailable"
                           => \A i \in req[c].pool \ req[c].failed :
                                 ~KnownGood(i, req[c].route)
      OBVIOUS
    <2>1. req[c].route \in Routes /\ Candidates(req[c]) \in SUBSET Identities
      BY DEF IdentityInv, RequestsOK, RequestOK, RequestType, Candidates
    <2>2. \/ /\ req'[c].stage = "selected"
             /\ req'[c].id \in Choices(req[c].route, Candidates(req[c]))
          \/ /\ req'[c].stage = "unavailable"
             /\ Choices(req[c].route, Candidates(req[c])) = {}
      BY StepsOfAsking
    <2>3. PICK candidates : candidates = Candidates(req[c])
      OBVIOUS
    <2>4. candidates = req[c].pool \ req[c].failed
      BY <2>3 DEF Candidates
    <2> QED BY <2>1, <2>2, <2>3, <2>4, ChoicesAreGood
  <1> QED BY InvHolds, <1>1, PTL DEF Spec, SelectionsFollowReports

================================================================================
