----------------------------- MODULE CallerAccess ------------------------------
(***************************************************************************)
(* Who may call octopool: enrollment, caller tokens, web sessions and the  *)
(* membership of an organization on GitHub, with the isolates' cache of    *)
(* configuration between them and D1.                                      *)
(*                                                                         *)
(* One GitHub account is followed.  A login proves that the account is a   *)
(* member now and enrolls it: one D1 batch that refreshes the one active   *)
(* caller row, rotates the token of the client that logged in and prunes   *)
(* those used longest ago.  A token and the login that issued it are one   *)
(* name here.  A request with a token reads the caller row and then the    *)
(* freshness of its membership through the cache of its isolate, where     *)
(* loads, invalidations and clears overlap; a request with a web session   *)
(* reads D1 every time.  Client names are in the form parseClientName      *)
(* gives them.                                                             *)
(***************************************************************************)
EXTENDS Naturals, Sequences, FiniteSets

CONSTANTS
    Requests,    \* API requests of the account
    Logins,      \* its logins, each of which issues one token
    WebLogins,   \* and those of them from a browser, each a web session instead
    Nobody,      \* the loader of no row
    Isolates,    \* isolates of the worker, each with a configuration cache
    IsolateOf,   \* where a request or a login runs
    Clients,     \* names of client machines
    Scopes,      \* egress policies: "unprotected" or digests of patterns
    ConfigTtl,   \* ticks a cached value is used (CONFIG_CACHE_TTL_MS)
    OrgTtl,      \* ticks a verified membership counts (ORG_VERIFY_TTL_SECONDS)
    SessionTtl,  \* ticks of a web session (SESSION_TTL_SECONDS)
    StateTtl,    \* ticks of an OAuth state (STATE_TTL_SECONDS)
    MaxEntries,  \* entries of one cache (MAX_ENTRIES)
    KeptTokens,  \* tokens of other clients that pruning keeps
    MaxTime,     \* bound: ticks of one behaviour
    MaxFaults    \* bound: failed calls

ASSUME AccessAssumption ==
    /\ Logins # {} /\ WebLogins \subseteq Logins /\ Clients # {}
    /\ IsolateOf \in [Requests \cup Logins -> Isolates]
    /\ ConfigTtl \in Nat \ {0} /\ OrgTtl \in Nat \ {0} /\ MaxEntries \in Nat \ {0}
    /\ SessionTtl \in Nat /\ StateTtl \in Nat /\ KeptTokens \in Nat
    /\ MaxTime \in Nat /\ MaxFaults \in Nat

VARIABLES
    now,
    member,      \* GitHub's answer, whether the account is in the organization
    caller,      \* the newest caller row: its id, 0 if none, whether it is active
                 \* and when GitHub confirmed the membership
    tokens,      \* its tokens: client and token, least recently issued first
    sessions,    \* rows of web_sessions
    store,       \* the cache of an isolate: a set of entries, one for a key
    generation,  \* its generation
    login,
    req,
    accessFaults,
    \* history: when a token stopped being in D1, when the account left, and the
    \* tokens gone when an isolate cleared its cache
    gone, leftAt, retired

d1Vars == <<caller, tokens, sessions>>
cacheVars == <<store, generation>>
history == <<gone, leftAt, retired>>
accessVars == <<now, member, d1Vars, cacheVars, login, req, accessFaults, history>>

NoRow == [caller |-> 0, verified |-> 0, by |-> Nobody]
NoKey == [of |-> "none", id |-> Nobody, scope |-> "unprotected"]
NoEntry == [key |-> NoKey, value |-> NoRow, expires |-> 0]
NoLoad == [expires |-> 0, generation |-> 0, hit |-> NoEntry]
Never == MaxTime + 1

CallerKey(t) == [of |-> "caller", id |-> t, scope |-> "unprotected"]
MembershipKey(row, s) == [of |-> "membership", id |-> row.by, scope |-> s]

NewLogin ==
    [stage |-> "idle", client |-> CHOOSE c \in Clients : TRUE, at |-> 0,
     verified |-> 0]

Over(stage) == [NewLogin EXCEPT !.stage = stage]

NewRequest ==
    [stage |-> "idle", kind |-> "token", credential |-> CHOOSE l \in Logins : TRUE,
     scope |-> "unprotected", began |-> 0, load |-> NoLoad, row |-> NoRow,
     stamp |-> 0, retired |-> FALSE]

Denied == [NewRequest EXCEPT !.stage = "denied"]

\* What is left to say of a request that goes on.
Grant(q) == [q EXCEPT !.stage = "granted", !.load = NoLoad, !.row = NoRow, !.stamp = 0]

AccessInit ==
    /\ now = 0 /\ member = TRUE
    /\ caller = [id |-> 0, active |-> FALSE, verified |-> 0] /\ tokens = <<>> /\ sessions = {}
    /\ store = [w \in Isolates |-> {}] /\ generation = [w \in Isolates |-> 0]
    /\ login = [l \in Logins |-> NewLogin]
    /\ req = [c \in Requests |-> NewRequest]
    /\ accessFaults = 0
    /\ gone = [l \in Logins |-> Never] /\ leftAt = Never
    /\ retired = [w \in Isolates |-> {}]

Fault == accessFaults < MaxFaults /\ accessFaults' = accessFaults + 1

--------------------------------------------------------------------------------
(* The configuration cache.                                                *)

\* The entry of a key, whether it has expired or not.
Entry(w, key) ==
    IF \E e \in store[w] : e.key = key
    THEN CHOOSE e \in store[w] : e.key = key
    ELSE NoEntry

Hit(w, key) == Entry(w, key).expires > now

\* A load remembers when it began, in which generation, and what it found.
StartLoad(w, key) ==
    [expires |-> now + ConfigTtl, generation |-> generation[w],
     hit |-> Entry(w, key)]

\* Mutant: the cache is not fenced against invalidations.
CurrentAnyGeneration(w, key, load) ==
    Entry(w, key) = load.hit /\ load.expires > now

\* The cache has not been invalidated, nor the key filled, since the load began.
Current(w, key, load) ==
    /\ generation[w] = load.generation
    /\ Entry(w, key) = load.hit
    /\ load.expires > now

\* A full cache first drops what has expired, and everything if that is nothing.
Room(w) ==
    LET alive == {e \in store[w] : e.expires > now} IN
    IF Cardinality(store[w]) < MaxEntries THEN store[w]
    ELSE IF Cardinality(alive) < MaxEntries THEN alive ELSE {}

Clears(w) == Room(w) = {} /\ store[w] # {} /\ \A e \in store[w] : e.expires > now

\* A load ends: its value is cached unless something fenced it.
Settle(w, key, load, value) ==
    IF Current(w, key, load)
    THEN /\ store' = [store EXCEPT ![w] =
                        {e \in Room(w) : e.key # key} \cup
                        {[key |-> key, value |-> value, expires |-> load.expires]}]
         /\ generation' = [generation EXCEPT ![w] = @ + IF Clears(w) THEN 1 ELSE 0]
    ELSE UNCHANGED cacheVars

\* invalidateConfigValue drops the entry only if it still holds this value.
Invalidate(w, key, value) ==
    IF Entry(w, key) # NoEntry /\ Entry(w, key).value = value
    THEN /\ store' = [store EXCEPT ![w] = {e \in @ : e.key # key}]
         /\ generation' = [generation EXCEPT ![w] = @ + 1]
    ELSE UNCHANGED cacheVars

--------------------------------------------------------------------------------
(* A request with a caller token.                                          *)

Stored(t) == \E i \in DOMAIN tokens : tokens[i].token = t

\* The caller row of a token that a login has answered with is looked up: a hit
\* goes on with it, a miss reads D1.
LookUpCaller(c, t, s) ==
    LET w == IsolateOf[c] IN
    /\ req[c].stage = "idle" /\ login[t].stage = "done"
    /\ req' = [req EXCEPT ![c] =
         [@ EXCEPT !.credential = t, !.scope = s, !.began = now,
                   !.stage = IF Hit(w, CallerKey(t)) THEN "membership" ELSE "reading",
                   !.row = IF Hit(w, CallerKey(t)) THEN Entry(w, CallerKey(t)).value
                           ELSE NoRow,
                   !.load = IF Hit(w, CallerKey(t)) THEN NoLoad
                            ELSE StartLoad(w, CallerKey(t)),
                   !.retired = t \in retired[w]]]
    /\ UNCHANGED <<now, member, d1Vars, cacheVars, login, accessFaults, history>>

\* D1 answers with the caller of the token, if it has one and is active.
ReadCaller(c) ==
    /\ req[c].stage = "reading" /\ req[c].kind = "token"
    /\ \/ /\ Stored(req[c].credential)
          /\ req' = [req EXCEPT ![c].stage = "read", ![c].row =
                       [caller |-> caller.id, verified |-> caller.verified, by |-> c]]
       \/ /\ ~Stored(req[c].credential)
          /\ req' = [req EXCEPT ![c] = Denied]
    /\ UNCHANGED <<now, member, d1Vars, cacheVars, login, accessFaults, history>>

\* Mutant: the lifetime of a cached row starts when its load ends.
SettleCallerLate(c) ==
    LET load == [req[c].load EXCEPT !.expires = now + ConfigTtl] IN
    /\ req[c].stage = "read"
    /\ Settle(IsolateOf[c], CallerKey(req[c].credential), load, req[c].row)
    /\ req' = [req EXCEPT ![c].stage = "membership", ![c].load = NoLoad]
    /\ UNCHANGED <<now, member, d1Vars, login, accessFaults, history>>

\* The answer arrives in the isolate.
SettleCaller(c) ==
    /\ req[c].stage = "read"
    /\ Settle(IsolateOf[c], CallerKey(req[c].credential), req[c].load, req[c].row)
    /\ req' = [req EXCEPT ![c].stage = "membership", ![c].load = NoLoad]
    /\ UNCHANGED <<now, member, d1Vars, login, accessFaults, history>>

FreshMembership(row) == now < row.verified + OrgTtl

\* Every request passes its own protection first; then a membership cached for
\* this very row and protection is accepted, one verified recently is cached,
\* and any other is verified again.
LookUpMembership(c) ==
    LET w == IsolateOf[c]
        key == MembershipKey(req[c].row, req[c].scope)
        load == StartLoad(w, key) IN
    /\ req[c].stage = "membership" /\ req[c].kind = "token"
    /\ \/ /\ Hit(w, key)
          /\ req' = [req EXCEPT ![c] = Grant(@)]
          /\ UNCHANGED cacheVars
       \/ /\ ~Hit(w, key) /\ FreshMembership(req[c].row)
          /\ Settle(w, key, load, NoRow)
          /\ req' = [req EXCEPT ![c] = Grant(@)]
       \/ /\ ~Hit(w, key) /\ ~FreshMembership(req[c].row)
          /\ req' = [req EXCEPT ![c].stage = "verifying", ![c].load = load]
          /\ UNCHANGED cacheVars
    /\ UNCHANGED <<now, member, d1Vars, login, accessFaults, history>>

\* A policy that denies the request leaves the shared row alone.
DenyByPolicy(c) ==
    /\ req[c].stage \in {"membership", "verifying"} /\ req[c].kind = "token"
    /\ req[c].scope # "unprotected"
    /\ req' = [req EXCEPT ![c] = Denied]
    /\ UNCHANGED <<now, member, d1Vars, cacheVars, login, accessFaults, history>>

--------------------------------------------------------------------------------
(* Verification, shared with web sessions.                                 *)

\* GitHub confirms that the enrolled account is a member; the proof is dated.
VerifyMembership(c) ==
    /\ req[c].stage = "verifying"
    /\ member
    /\ req' = [req EXCEPT ![c].stage = "stamping", ![c].stamp = now]
    /\ UNCHANGED <<now, member, d1Vars, cacheVars, login, accessFaults, history>>

\* Mutant: the row is dated when it is written.
StampAtWrite(c) ==
    /\ caller.id = req[c].row.caller
    /\ caller' = [caller EXCEPT !.verified = now]

\* The proof is written to the row the request had read, which may have been
\* disabled and followed by another.
Stamp(c) ==
    /\ caller.id = req[c].row.caller
    /\ caller' = [caller EXCEPT !.verified = req[c].stamp]

StampOldRow(c) == caller.id # req[c].row.caller /\ UNCHANGED caller

RecordMembership(c) ==
    LET w == IsolateOf[c] IN
    /\ req[c].stage = "stamping"
    /\ Stamp(c) \/ StampOldRow(c)
    /\ IF req[c].kind = "token"
       THEN /\ Settle(w, MembershipKey(req[c].row, req[c].scope), req[c].load, NoRow)
            /\ req' = [req EXCEPT ![c] = Grant(@)]
       ELSE /\ req' = [req EXCEPT ![c].stage = "granting"]
            /\ UNCHANGED cacheVars
    /\ UNCHANGED <<now, member, tokens, sessions, login, accessFaults, history>>

\* A request that fails to authenticate drops the row it was given.
Deny(c) ==
    /\ req' = [req EXCEPT ![c] = Denied]
    /\ IF req[c].kind = "token"
       THEN Invalidate(IsolateOf[c], CallerKey(req[c].credential), req[c].row)
       ELSE UNCHANGED cacheVars
    /\ UNCHANGED <<now, member, tokens, sessions, login, history>>

DenyMembership(c) ==
    /\ req[c].stage = "verifying" /\ ~member
    /\ Deny(c)
    /\ UNCHANGED <<caller, accessFaults>>

\* GitHub cannot be asked, or D1 not written; its write may have happened.
VerificationFails(c) ==
    /\ req[c].stage \in {"verifying", "stamping"}
    /\ Fault
    /\ Deny(c)
    /\ \/ UNCHANGED caller
       \/ req[c].stage = "stamping" /\ Stamp(c)

--------------------------------------------------------------------------------
(* A request with a web session reads D1, and nothing of it is cached.     *)

ReadSession(c, l) ==
    LET found == {s \in sessions : /\ s.session = l /\ s.expires > now
                                   /\ s.caller = caller.id /\ caller.active} IN
    /\ req[c].stage = "idle"
    /\ req' = [req EXCEPT ![c] =
         IF found = {} THEN Denied
         ELSE [@ EXCEPT !.kind = "session", !.credential = l, !.began = now,
                        !.stage = "membership",
                        !.row = [caller |-> caller.id, verified |-> caller.verified,
                                 by |-> c]]]
    /\ UNCHANGED <<now, member, d1Vars, cacheVars, login, accessFaults, history>>

CheckSession(c) ==
    /\ req[c].stage = "membership" /\ req[c].kind = "session"
    /\ req' = [req EXCEPT ![c].stage =
                 IF FreshMembership(req[c].row) THEN "granting" ELSE "verifying"]
    /\ UNCHANGED <<now, member, d1Vars, cacheVars, login, accessFaults, history>>

\* The pool's grant is read; touching a session that has gone changes nothing.
GrantSession(c) ==
    /\ req[c].stage = "granting"
    /\ req' = [req EXCEPT ![c] = Grant(@)]
    /\ UNCHANGED <<now, member, d1Vars, cacheVars, login, accessFaults, history>>

LogOut(l) ==
    /\ \E s \in sessions : s.session = l
    /\ sessions' = {s \in sessions : s.session # l}
    /\ UNCHANGED <<now, member, caller, tokens, cacheVars, login, req, accessFaults, history>>

\* Maintenance deletes sessions that have expired.
PruneSessions ==
    /\ \E s \in sessions : s.expires <= now
    /\ sessions' = {s \in sessions : s.expires > now}
    /\ UNCHANGED <<now, member, caller, tokens, cacheVars, login, req, accessFaults, history>>

--------------------------------------------------------------------------------
(* Enrollment.                                                             *)

\* The browser is sent to GitHub with a signed, dated state.
StartWebLogin(l) ==
    /\ l \in WebLogins /\ login[l].stage = "idle"
    /\ login' = [login EXCEPT ![l].stage = "away", ![l].at = now]
    /\ UNCHANGED <<now, member, d1Vars, cacheVars, req, accessFaults, history>>

\* It comes back in time, and the account is a member.
FinishWebLogin(l) ==
    /\ login[l].stage = "away"
    /\ \/ /\ now <= login[l].at + StateTtl /\ member
          /\ login' = [login EXCEPT ![l].stage = "web", ![l].verified = now]
       \/ /\ now > login[l].at + StateTtl \/ ~member
          /\ login' = [login EXCEPT ![l] = Over("refused")]
    /\ UNCHANGED <<now, member, d1Vars, cacheVars, req, accessFaults, history>>

\* A client presents the account's own GitHub token.
StartLogin(l, client) ==
    /\ l \notin WebLogins /\ login[l].stage = "idle"
    /\ login' = [login EXCEPT ![l] =
         IF member THEN [@ EXCEPT !.stage = "cli", !.client = client, !.verified = now]
         ELSE Over("refused")]
    /\ UNCHANGED <<now, member, d1Vars, cacheVars, req, accessFaults, history>>

\* The tokens of other clients: a client has one at most.
Others(client) ==
    LET mine == {i \in DOMAIN tokens : tokens[i].client = client}
        i == CHOOSE i \in mine : TRUE IN
    IF mine = {} THEN tokens
    ELSE SubSeq(tokens, 1, i - 1) \o SubSeq(tokens, i + 1, Len(tokens))

\* The tokens after this client's is rotated: its own, and of the others those
\* issued last.
Rotated(l) ==
    LET client == login[l].client
        others == Others(client)
        kept == IF Len(others) <= KeptTokens THEN others
                ELSE SubSeq(others, Len(others) - KeptTokens + 1, Len(others)) IN
    Append(kept, [client |-> client, token |-> l])

\* The one active row is refreshed, or a new one made.
Enrolled(l) ==
    caller' = [id |-> IF caller.active THEN caller.id ELSE caller.id + 1,
               active |-> TRUE, verified |-> login[l].verified]

\* Tokens that leave D1 at this step, for the history.
MarkGone ==
    gone' = [t \in Logins |->
               IF Stored(t) /\ \A i \in DOMAIN tokens' : tokens'[i].token # t
               THEN now ELSE gone[t]]

\* The batch of a client's login commits as a whole.
Enroll(l) ==
    /\ login[l].stage = "cli"
    /\ Enrolled(l)
    /\ tokens' = Rotated(l)
    /\ MarkGone
    /\ login' = [login EXCEPT ![l] = Over("enrolled")]
    /\ UNCHANGED <<now, member, sessions, cacheVars, req, accessFaults, leftAt,
                   retired>>

\* The batch throws, and has or has not been committed; nothing is cleared.
EnrollFails(l) ==
    /\ login[l].stage = "cli"
    /\ Fault
    /\ \/ Enrolled(l) /\ tokens' = Rotated(l)
       \/ UNCHANGED <<caller, tokens>>
    /\ MarkGone
    /\ login' = [login EXCEPT ![l] = Over("done")]
    /\ UNCHANGED <<now, member, sessions, cacheVars, req, leftAt, retired>>

\* The isolate that served the login forgets everything it had cached.
AnswerLogin(l) ==
    LET w == IsolateOf[l] IN
    /\ login[l].stage = "enrolled"
    /\ store' = [store EXCEPT ![w] = {}]
    /\ generation' = [generation EXCEPT ![w] = @ + 1]
    /\ retired' = [retired EXCEPT ![w] = {t \in Logins : gone[t] # Never}]
    /\ login' = [login EXCEPT ![l] = Over("done")]
    /\ UNCHANGED <<now, member, d1Vars, req, accessFaults, gone, leftAt>>

\* A web login enrolls too, but issues no token.
EnrollWeb(l) ==
    /\ login[l].stage = "web"
    /\ Enrolled(l)
    /\ login' = [login EXCEPT ![l].stage = "session"]
    /\ UNCHANGED <<now, member, tokens, sessions, cacheVars, req, accessFaults, history>>

OpenSession(l) ==
    /\ login[l].stage = "session"
    /\ sessions' = sessions \cup
         {[session |-> l, caller |-> caller.id, expires |-> now + SessionTtl]}
    /\ login' = [login EXCEPT ![l] = Over("done")]
    /\ UNCHANGED <<now, member, caller, tokens, cacheVars, req, accessFaults, history>>

--------------------------------------------------------------------------------
(* The administrator, the organization and time.                           *)

\* A disabled caller keeps its tokens, which nothing accepts or enables again.
Disable ==
    /\ caller.active
    /\ caller' = [caller EXCEPT !.active = FALSE]
    /\ tokens' = <<>>
    /\ MarkGone
    /\ UNCHANGED <<now, member, sessions, cacheVars, login, req, accessFaults,
                   leftAt, retired>>

Leave ==
    /\ member
    /\ member' = FALSE /\ leftAt' = now
    /\ UNCHANGED <<now, d1Vars, cacheVars, login, req, accessFaults, gone, retired>>

AccessTick ==
    /\ now < MaxTime
    /\ now' = now + 1
    /\ UNCHANGED <<member, d1Vars, cacheVars, login, req, accessFaults, history>>

--------------------------------------------------------------------------------

Request(c) ==
    \/ \E t \in Logins \ WebLogins, s \in Scopes : LookUpCaller(c, t, s)
    \/ ReadCaller(c) \/ SettleCaller(c) \/ LookUpMembership(c) \/ DenyByPolicy(c)
    \/ VerifyMembership(c) \/ RecordMembership(c)
    \/ DenyMembership(c) \/ VerificationFails(c)
    \/ \E l \in WebLogins : ReadSession(c, l)
    \/ CheckSession(c) \/ GrantSession(c)

Login(l) ==
    \/ StartWebLogin(l) \/ FinishWebLogin(l) \/ EnrollWeb(l) \/ OpenSession(l)
    \/ \E client \in Clients : StartLogin(l, client)
    \/ Enroll(l) \/ EnrollFails(l) \/ AnswerLogin(l)
    \/ LogOut(l)

AccessNext ==
    \/ \E c \in Requests : Request(c)
    \/ \E l \in Logins : Login(l)
    \/ PruneSessions \/ Disable \/ Leave \/ AccessTick

AccessSpec == AccessInit /\ [][AccessNext]_accessVars

--------------------------------------------------------------------------------
(* Properties.                                                             *)

Times == 0..MaxTime

AccessTypeOK ==
    /\ now \in Times /\ member \in BOOLEAN
    /\ caller \in [id : Nat, active : BOOLEAN, verified : Times]
    /\ \A i, j \in DOMAIN tokens : tokens[i].client = tokens[j].client => i = j
    /\ Len(tokens) <= KeptTokens + 1
    /\ \A w \in Isolates :
          /\ Cardinality(store[w]) <= MaxEntries
          /\ \A e, f \in store[w] : e.key = f.key => e = f
    /\ \A c \in Requests :
          req[c].stage \in {"idle", "reading", "read", "membership", "verifying",
                           "stamping", "granting", "granted", "denied"}
    /\ \A l \in Logins :
          login[l].stage \in {"idle", "away", "web", "session", "cli", "enrolled",
                             "done", "refused"}

Granted(kind) == {c \in Requests : req[c].stage = "granted" /\ req[c].kind = kind}

\* A token that was rotated, pruned or disabled is accepted for at most ConfigTtl
\* more, and not at all by an isolate that has answered a login since: neither a
\* slow load nor one that overlaps the clearing brings it back (config-cache.ts).
RevokedTokensStop ==
    \A c \in Granted("token") :
        LET t == req[c].credential IN
        /\ gone[t] = Never \/ req[c].began < gone[t] + ConfigTtl
        /\ ~req[c].retired

\* An account that leaves the organization is served on a proof made before it
\* left, for OrgTtl, and by its tokens as long as that proof is cached: proofs
\* that are slow to be written, cached or handed to another row do not last longer.
MembershipIsRecent ==
    /\ \A c \in Granted("session") : leftAt = Never \/ req[c].began < leftAt + OrgTtl
    /\ \A c \in Granted("token") :
          leftAt = Never \/ req[c].began < leftAt + OrgTtl + ConfigTtl
================================================================================
