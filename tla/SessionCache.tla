---------------------------- MODULE SessionCache ----------------------------
(***************************************************************************)
(* Bearer-token sessions of the HTTP API (pkg/auth/session.go): the table  *)
(* `sessions` behind a cache of validated tokens.  Requests run in         *)
(* goroutines of their own; each access to the cache and each statement is *)
(* a step.                                                                 *)
(***************************************************************************)
EXTENDS TtlCache

CONSTANTS
  Tokens,     \* tokens that may be issued; random, hence never twice
  Requests,   \* HTTP requests under way
  Expiry,     \* SessionExpiry, in ticks
  NoToken     \* the token of an idle request

ASSUME TokenAssumption == NoToken \notin Tokens /\ IsFiniteSet(Tokens)
ASSUME ExpiryAssumption == Expiry \in Nat

VARIABLES
  row,        \* the row of each token: "none" yet, "live" or "gone"
  life,       \* expires_at minus the current time
  cache,      \* sessionCache: the time each entry has left
  pc,         \* what each request does next
  tok,        \* the token it carries
  answer,     \* what its last ValidateSession returned
  revoked     \* history: tokens whose RevokeSession has succeeded

reqVars == <<pc, tok, answer>>
vars == <<row, life, cache, reqVars, revoked>>

\* How long a session is remembered to be over: long enough to tell when the
\* last cache entry must be gone.
Floor == -(TTL + 1)

TypeOK ==
  /\ row    \in [Tokens -> {"none", "live", "gone"}]
  /\ life   \in [Tokens -> Int]
  /\ cache  \in [Tokens -> Int]
  /\ pc     \in [Requests -> 
                 {"idle", "evict", "query", "check", "purge", "revoke"}]
  /\ tok    \in [Requests -> Tokens \cup {NoToken}]
  /\ answer \in [Requests -> {"none", "ok", "refused"}]
  /\ revoked \subseteq Tokens
  /\ \A t \in Tokens : cache[t] \in Absent..TTL
  /\ \A r \in Requests : (pc[r] # "idle" \/ answer[r] = "ok") => tok[r] \in Tokens

Init ==
  /\ row     = [t \in Tokens |-> "none"]
  /\ life    = [t \in Tokens |-> 0]
  /\ cache   = [t \in Tokens |-> Absent]
  /\ pc      = [r \in Requests |-> "idle"]
  /\ tok     = [r \in Requests |-> NoToken]
  /\ answer  = [r \in Requests |-> "none"]
  /\ revoked = {}

\* A request goes on with token t, and with this answer if it is done.
Goto(r, from, to, t, a) ==
  /\ pc[r] = from
  /\ pc' = [pc EXCEPT ![r] = to]
  /\ tok' = [tok EXCEPT ![r] = t]
  /\ answer' = [answer EXCEPT ![r] = a]

\* handleLogin: CreateSession.
CreateSession(t) ==
  /\ row[t] = "none"
  /\ row' = [row EXCEPT ![t] = "live"]
  /\ life' = [life EXCEPT ![t] = Expiry]
  /\ UNCHANGED <<cache, reqVars, revoked>>

\* Mutant: a hit renews the entry.
ValidateRenews(r, t) ==
  /\ \/ Hit(cache, t) /\ Goto(r, "idle", "idle", t, "ok") /\ AfterSet(cache, t, cache')
     \/ cache[t] = Expired /\ Goto(r, "idle", "evict", t, "none") /\ UNCHANGED cache
     \/ cache[t] = Absent /\ Goto(r, "idle", "query", t, "none") /\ UNCHANGED cache
  /\ UNCHANGED <<row, life, revoked>>

\* requireAuthWithDB calls ValidateSession: a cached token is good without
\* another look.
ValidateSession(r, t) ==
  /\ \/ Hit(cache, t) /\ Goto(r, "idle", "idle", t, "ok")
     \/ cache[t] = Expired /\ Goto(r, "idle", "evict", t, "none")
     \/ cache[t] = Absent /\ Goto(r, "idle", "query", t, "none")
  /\ UNCHANGED <<row, life, cache, revoked>>

\* Get removes the expired entry, if it is still the expired one.
Evict(r) ==
  /\ Goto(r, "evict", "query", tok[r], "none")
  /\ cache' = AfterMiss(cache, tok[r])
  /\ UNCHANGED <<row, life, revoked>>

\* The SELECT; no row, or an error, refuses the request.
Query(r) ==
  /\ pc[r] = "query"
  /\ \/ row[tok[r]] = "live" /\ Goto(r, "query", "check", tok[r], "none")
     \/ Goto(r, "query", "idle", tok[r], "refused")
  /\ UNCHANGED <<row, life, cache, revoked>>

\* Mutant: the expiry is not looked at.
CheckNothing(r) ==
  /\ Goto(r, "check", "idle", tok[r], "ok")
  /\ AfterSet(cache, tok[r], cache')
  /\ UNCHANGED <<row, life, revoked>>

\* The comparison with expires_at: an expired token leaves the cache and, by
\* a statement of its own, the table; a good one is cached.
Check(r) ==
  /\ pc[r] = "check"
  /\ \/ /\ life[tok[r]] < 0
        /\ Goto(r, "check", "purge", tok[r], "none")
        /\ cache' = AfterDelete(cache, tok[r])
     \/ /\ life[tok[r]] >= 0
        /\ Goto(r, "check", "idle", tok[r], "ok")
        /\ AfterSet(cache, tok[r], cache')
  /\ UNCHANGED <<row, life, revoked>>
Purge(r) ==
  /\ Goto(r, "purge", "idle", tok[r], "refused")
  /\ \/ row' = [row EXCEPT ![tok[r]] = "gone"]
     \/ UNCHANGED row                          \* the error is ignored
  /\ UNCHANGED <<life, cache, revoked>>

\* handleLogout, for a request the middleware has let through: RevokeSession
\* empties the cache first ...
RevokeSession(r) ==
  /\ answer[r] = "ok"
  /\ Goto(r, "idle", "revoke", tok[r], "none")
  /\ cache' = AfterDelete(cache, tok[r])
  /\ UNCHANGED <<row, life, revoked>>

\* ... and deletes the row afterwards, unless the statement fails.
RevokeRow(r) ==
  /\ Goto(r, "revoke", "idle", tok[r], "none")
  /\ \/ /\ row' = [row EXCEPT ![tok[r]] = "gone"]
        /\ revoked' = revoked \cup {tok[r]}
     \/ UNCHANGED <<row, revoked>>
  /\ UNCHANGED <<life, cache>>

\* handleDeleteUser: the foreign key removes the sessions of the account;
\* the cache is not told.
DeleteUser(t) ==
  /\ row[t] = "live"
  /\ row' = [row EXCEPT ![t] = "gone"]
  /\ UNCHANGED <<life, cache, reqVars, revoked>>

Tick ==
  /\ life' = [t \in Tokens |->
                IF row[t] # "none" /\ life[t] > Floor THEN life[t] - 1 ELSE life[t]]
  /\ cache' = Aged(cache)
  /\ UNCHANGED <<row, reqVars, revoked>>

Step(r) == Evict(r) \/ Query(r) \/ Check(r) \/ Purge(r) \/ RevokeRow(r)

Next ==
  \/ \E t \in Tokens : CreateSession(t) \/ DeleteUser(t)
  \/ \E r \in Requests, t \in Tokens : row[t] # "none" /\ ValidateSession(r, t)
  \/ \E r \in Requests : RevokeSession(r) \/ Step(r)
  \/ Tick

Spec == Init /\ [][Next]_vars

\* Time passes and a request that has begun goes on.
Fairness == WF_vars(Tick) /\ \A r \in Requests : WF_vars(Step(r))
FairSpec == Spec /\ Fairness
-----------------------------------------------------------------------------
(* Properties.                                                             *)

\* A session is accepted until it expires and at most one cache lifetime
\* longer, however often it is used in between.
AcceptedInTime ==
  [][\A r \in Requests :
       answer'[r] = "ok" /\ (answer[r] # "ok" \/ tok'[r] # tok[r]) =>
         life[tok'[r]] >= -TTL]_vars

\* The cache never holds more than MaxSize entries, refreshed and expired
\* ones included.
CacheBounded == MaxSize > 0 => Cardinality(Present(cache)) <= MaxSize

\* A revoked session is unusable in the end and stays so, whatever
\* validations were under way and however often it is tried.
RevocationTakesEffect ==
  \A t \in Tokens : t \in revoked ~> [](~Hit(cache, t))

\* Behind AcceptedInTime: an entry that has c ticks left was made when the
\* session had not expired, TTL - c ticks ago.
CacheInv == \A t \in Tokens : Hit(cache, t) => life[t] + TTL >= cache[t]

\* Validations that have read the row of t and have yet to come to the cache.
Validating(t) == {r \in Requests : pc[r] = "check" /\ tok[r] = t}

\* Behind RevocationTakesEffect: a revoked row never comes back, ...
GoneInv == \A t \in revoked : row[t] = "gone"

\* ... so no validation of a revoked token begins to pass, and its entry is
\* renewed only at the expense of one that was under way when it was revoked.
RevokedFades ==
  [][\A t \in revoked :
       /\ Validating(t)' \subseteq Validating(t)
       /\ cache'[t] > cache[t] => Validating(t)' # Validating(t)]_vars
=============================================================================
