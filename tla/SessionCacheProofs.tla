------------------------- MODULE SessionCacheProofs -------------------------
(***************************************************************************)
(* What SessionCache promises for any number of requests and tokens, any   *)
(* lifetimes and any cache size.                                           *)
(***************************************************************************)
EXTENDS SessionCache, FiniteSetTheorems, TLAPS

\* The inductive invariant: an entry with c ticks left was made from an
\* unexpired session TTL - c ticks ago, and there are at most MaxSize of them.
SessionInv == TypeOK /\ CacheInv /\ CacheBounded

CacheStates == {c \in [Tokens -> Int] : \A t \in Tokens : c[t] \in Absent..TTL}

\* Set changes one entry to TTL and may drop others.
LEMMA SetShape ==
  ASSUME NEW c \in CacheStates, NEW k \in Tokens, NEW d, AfterSet(c, k, d)
  PROVE  /\ d \in CacheStates
         /\ \A t \in Tokens : d[t] = c[t] \/ d[t] = Absent \/ (t = k /\ d[t] = TTL)
<1>1. TTL \in Nat BY CacheAssumption
<1>2. CASE d = [c EXCEPT ![k] = TTL]
  BY <1>1, <1>2 DEF CacheStates, Absent
<1>3. CASE \E v \in Victims(c) : d = [[c EXCEPT ![v] = Absent] EXCEPT ![k] = TTL]
  <2>1. PICK v \in Victims(c) : d = [[c EXCEPT ![v] = Absent] EXCEPT ![k] = TTL] BY <1>3
  <2>2. v \in Tokens BY DEF Victims, Present, CacheStates
  <2> QED BY <1>1, <2>1, <2>2 DEF CacheStates, Absent
<1> QED BY <1>2, <1>3 DEF AfterSet

\* The entries of a cache are finitely many.
LEMMA PresentFinite ==
  ASSUME NEW c \in CacheStates
  PROVE  IsFiniteSet(Present(c)) /\ Cardinality(Present(c)) \in Nat
<1>1. Present(c) \subseteq Tokens BY DEF Present, CacheStates
<1> QED BY <1>1, TokenAssumption, FS_Subset, FS_CardinalityType

\* An entry that disappears leaves room.
LEMMA FewerFit ==
  ASSUME NEW c \in CacheStates, NEW d \in CacheStates,
         Present(d) \subseteq Present(c)
  PROVE  Cardinality(Present(d)) <= Cardinality(Present(c))
BY PresentFinite, FS_Subset

\* Set keeps the cache within its size.
LEMMA SetFits ==
  ASSUME NEW c \in CacheStates, NEW k \in Tokens, NEW d, AfterSet(c, k, d),
         MaxSize > 0, Cardinality(Present(c)) <= MaxSize
  PROVE  Cardinality(Present(d)) <= MaxSize
<1>0. MaxSize \in Nat /\ TTL \in Nat /\ TTL # Absent BY CacheAssumption DEF Absent
<1>1. IsFiniteSet(Present(c)) /\ Cardinality(Present(c)) \in Nat BY PresentFinite
<1>2. CASE Cardinality(Present(c)) >= MaxSize
  <2>1. PICK v \in Victims(c) : d = [[c EXCEPT ![v] = Absent] EXCEPT ![k] = TTL]
    BY <1>2 DEF AfterSet
  <2>2. v \in Present(c) BY DEF Victims, Present, CacheStates, Absent, Expired
  <2>3. Present(d) = (Present(c) \ {v}) \cup {k}
    BY <1>0, <2>1 DEF Present, CacheStates
  <2>4. IsFiniteSet(Present(c) \ {v}) /\ Cardinality(Present(c) \ {v}) = Cardinality(Present(c)) - 1
    BY <1>1, <2>2, FS_RemoveElement
  <2>5. \/ Cardinality(Present(d)) = Cardinality(Present(c) \ {v})
        \/ Cardinality(Present(d)) = Cardinality(Present(c) \ {v}) + 1
    BY <2>3, <2>4, FS_AddElement
  <2> QED BY <1>0, <1>1, <2>4, <2>5
<1>3. CASE ~(Cardinality(Present(c)) >= MaxSize)
  <2>1. d = [c EXCEPT ![k] = TTL] BY <1>3 DEF AfterSet
  <2>2. Present(d) = Present(c) \cup {k} BY <1>0, <2>1 DEF Present, CacheStates
  <2>3. \/ Cardinality(Present(d)) = Cardinality(Present(c))
        \/ Cardinality(Present(d)) = Cardinality(Present(c)) + 1
    BY <1>1, <2>2, FS_AddElement
  <2> QED BY <1>0, <1>1, <1>3, <2>3
<1> QED BY <1>2, <1>3

\* The initial state satisfies the invariant.
LEMMA InitInv == Init => SessionInv
<1> SUFFICES ASSUME Init PROVE SessionInv OBVIOUS
<1>0. TTL \in Nat /\ MaxSize \in Nat BY CacheAssumption
<1>1. TypeOK BY <1>0 DEF Init, TypeOK, Absent
<1>2. CacheInv BY DEF Init, CacheInv, Hit, Absent
<1>3. Present(cache) = {} BY DEF Init, Present
<1>4. CacheBounded BY <1>0, <1>3, FS_EmptySet DEF CacheBounded
<1> QED BY <1>1, <1>2, <1>4 DEF SessionInv

\* What each step does to the cache, to the sessions and to the accepted
\* requests: the three kinds of step the invariant tells apart.
Shrinks == /\ \A t \in Tokens : cache'[t] = cache[t] \/ cache'[t] = Absent
           /\ \A t \in Tokens : life'[t] = life[t] \/ life'[t] = Expiry
           /\ \A r \in Requests :
                answer'[r] = "ok" => \/ answer[r] = "ok" /\ tok'[r] = tok[r]
                                     \/ tok'[r] \in Tokens /\ Hit(cache, tok'[r])
Fills   == \E k \in Tokens :
             /\ life[k] >= 0
             /\ AfterSet(cache, k, cache')
             /\ life' = life
             /\ \A r \in Requests :
                  answer'[r] = "ok" => \/ answer[r] = "ok" /\ tok'[r] = tok[r]
                                       \/ tok'[r] = k

\* Every step but the clock's has one of the two kinds, and keeps the types.
LEMMA StepKinds ==
  ASSUME TypeOK, Next
  PROVE  /\ TypeOK'
         /\ Shrinks \/ Fills \/ (Tick /\ UNCHANGED <<tok, answer>>)
<1>0. TTL \in Nat /\ Expiry \in Nat /\ cache \in CacheStates
  BY CacheAssumption, ExpiryAssumption DEF TypeOK, CacheStates
<1> USE DEF reqVars
<1>1. ASSUME NEW t \in Tokens, CreateSession(t) PROVE TypeOK' /\ Shrinks
  BY <1>0, <1>1 DEF CreateSession, TypeOK, Shrinks
<1>2. ASSUME NEW t \in Tokens, DeleteUser(t) PROVE TypeOK' /\ Shrinks
  BY <1>0, <1>2 DEF DeleteUser, TypeOK, Shrinks
<1>3. ASSUME NEW r \in Requests, NEW t \in Tokens, ValidateSession(r, t)
      PROVE  TypeOK' /\ Shrinks
  <2>1. TypeOK' BY <1>0, <1>3 DEF ValidateSession, Goto, TypeOK
  <2>2. Shrinks BY <1>0, <1>3 DEF ValidateSession, Goto, TypeOK, Shrinks
  <2> QED BY <2>1, <2>2
<1>4. ASSUME NEW r \in Requests, Evict(r) PROVE TypeOK' /\ Shrinks
  <2>1. TypeOK' BY <1>0, <1>4 DEF Evict, Goto, TypeOK, AfterMiss, Absent
  <2>2. Shrinks BY <1>0, <1>4 DEF Evict, Goto, TypeOK, Shrinks, AfterMiss
  <2> QED BY <2>1, <2>2
<1>5. ASSUME NEW r \in Requests, Query(r) PROVE TypeOK' /\ Shrinks
  <2>1. TypeOK' BY <1>0, <1>5 DEF Query, Goto, TypeOK
  <2>2. Shrinks BY <1>0, <1>5 DEF Query, Goto, TypeOK, Shrinks
  <2> QED BY <2>1, <2>2
<1>6. ASSUME NEW r \in Requests, Check(r) PROVE TypeOK' /\ (Shrinks \/ Fills)
  <2>1. CASE life[tok[r]] < 0
    <3>1. cache' = AfterDelete(cache, tok[r]) /\ Goto(r, "check", "purge", tok[r], "none")
      BY <1>0, <1>6, <2>1 DEF Check, TypeOK
    <3>2. TypeOK' BY <1>0, <1>6, <3>1 DEF Check, Goto, TypeOK, AfterDelete, Absent
    <3>3. Shrinks BY <1>0, <1>6, <3>1 DEF Check, Goto, TypeOK, AfterDelete, Shrinks
    <3> QED BY <3>2, <3>3
  <2>2. CASE life[tok[r]] >= 0
    <3>1. /\ AfterSet(cache, tok[r], cache')
          /\ Goto(r, "check", "idle", tok[r], "ok")
          /\ UNCHANGED <<row, life, revoked>>
          /\ tok[r] \in Tokens
      BY <1>0, <1>6, <2>2 DEF Check, Goto, TypeOK
    <3>2. cache' \in CacheStates BY <1>0, <3>1, SetShape
    <3>3. TypeOK' BY <3>1, <3>2 DEF Goto, TypeOK, CacheStates
    <3>4. Fills BY <2>2, <3>1 DEF Goto, TypeOK, Fills
    <3> QED BY <3>3, <3>4
  <2> QED BY <1>6, <2>1, <2>2 DEF Check, TypeOK
<1>7. ASSUME NEW r \in Requests, Purge(r) PROVE TypeOK' /\ Shrinks
  <2>1. TypeOK' BY <1>0, <1>7 DEF Purge, Goto, TypeOK
  <2>2. Shrinks BY <1>0, <1>7 DEF Purge, Goto, TypeOK, Shrinks
  <2> QED BY <2>1, <2>2
<1>8. ASSUME NEW r \in Requests, RevokeRow(r) PROVE TypeOK' /\ Shrinks
  <2>1. TypeOK' BY <1>0, <1>8 DEF RevokeRow, Goto, TypeOK
  <2>2. Shrinks BY <1>0, <1>8 DEF RevokeRow, Goto, TypeOK, Shrinks
  <2> QED BY <2>1, <2>2
<1>9. ASSUME NEW r \in Requests, RevokeSession(r) PROVE TypeOK' /\ Shrinks
  <2>1. tok[r] \in Tokens BY <1>9 DEF RevokeSession, TypeOK
  <2>2. TypeOK' BY <1>0, <1>9, <2>1 DEF RevokeSession, Goto, TypeOK, AfterDelete, Absent
  <2>3. Shrinks BY <1>0, <1>9 DEF RevokeSession, Goto, TypeOK, Shrinks, AfterDelete
  <2> QED BY <2>2, <2>3
<1>10. ASSUME Tick PROVE TypeOK' /\ UNCHANGED <<tok, answer>>
  BY <1>0, <1>10 DEF Tick, TypeOK, Aged, Absent
<1> QED BY <1>1, <1>2, <1>3, <1>4, <1>5, <1>6, <1>7, <1>8, <1>9, <1>10 DEF Next, Step

\* An entry that goes leaves the others as they are.
LEMMA ShrinkInv ==
  ASSUME SessionInv, TypeOK', Shrinks
  PROVE  SessionInv'
<1>0. /\ TTL \in Nat /\ Expiry \in Nat /\ MaxSize \in Nat
      /\ cache \in CacheStates /\ cache' \in CacheStates
  BY CacheAssumption, ExpiryAssumption DEF SessionInv, TypeOK, CacheStates
<1>1. CacheInv'
  BY <1>0 DEF SessionInv, TypeOK, CacheInv, Shrinks, Hit, Absent
<1>2. Present(cache') \subseteq Present(cache)
  BY <1>0 DEF Shrinks, Present, CacheStates
<1>3. Cardinality(Present(cache')) <= Cardinality(Present(cache))
  BY <1>0, <1>2, FewerFit
<1>4. CacheBounded'
  BY <1>0, <1>3, PresentFinite DEF SessionInv, CacheBounded
<1> QED BY <1>1, <1>4 DEF SessionInv

\* A token that was good when it was cached has its whole lifetime left.
LEMMA FillInv ==
  ASSUME SessionInv, TypeOK', Fills
  PROVE  SessionInv'
<1>0. /\ TTL \in Nat /\ Expiry \in Nat /\ MaxSize \in Nat
      /\ cache \in CacheStates /\ cache' \in CacheStates
  BY CacheAssumption, ExpiryAssumption DEF SessionInv, TypeOK, CacheStates
<1>1. PICK k \in Tokens : life[k] >= 0 /\ AfterSet(cache, k, cache') /\ life' = life
  BY DEF Fills
<1>2. \A t \in Tokens : \/ cache'[t] = cache[t]
                        \/ cache'[t] = Absent
                        \/ t = k /\ cache'[t] = TTL
  BY <1>0, <1>1, SetShape
<1>3. CacheInv'
  BY <1>0, <1>1, <1>2 DEF SessionInv, TypeOK, CacheInv, Hit, Absent
<1>4. CacheBounded'
  BY <1>0, <1>1, SetFits DEF SessionInv, CacheBounded
<1> QED BY <1>3, <1>4 DEF SessionInv

\* So does the clock: session and entry grow old together.
LEMMA TickInv ==
  ASSUME SessionInv, TypeOK', Tick
  PROVE  SessionInv'
<1>0. /\ TTL \in Nat /\ MaxSize \in Nat
      /\ cache \in CacheStates /\ cache' \in CacheStates
  BY CacheAssumption DEF SessionInv, TypeOK, CacheStates
<1>1. \A t \in Tokens : cache'[t] = IF cache[t] >= 0 THEN cache[t] - 1 ELSE cache[t]
  BY <1>0 DEF Tick, Aged, CacheStates
<1>2. CacheInv'
  BY <1>0, <1>1 DEF SessionInv, TypeOK, CacheInv, Hit, Tick, Floor
<1>3. Present(cache') \subseteq Present(cache)
  BY <1>0, <1>1 DEF Present, CacheStates, Absent
<1>4. CacheBounded'
  BY <1>0, <1>3, FewerFit, PresentFinite DEF SessionInv, CacheBounded
<1> QED BY <1>2, <1>4 DEF SessionInv

\* Every step preserves the invariant.
LEMMA NextInv ==
  ASSUME SessionInv, [Next]_vars
  PROVE  SessionInv'
<1>1. CASE Next
  <2>1. TypeOK' /\ (Shrinks \/ Fills \/ Tick) BY <1>1, StepKinds DEF SessionInv
  <2> QED BY <2>1, ShrinkInv, FillInv, TickInv
<1>2. CASE UNCHANGED vars
  BY <1>2 DEF vars, reqVars, SessionInv, TypeOK, CacheInv, CacheBounded, Hit, Present
<1> QED BY <1>1, <1>2

\* A step accepts a token only while it is good or its entry can still live.
LEMMA NextAccepts ==
  ASSUME SessionInv, Next, NEW r \in Requests, answer'[r] = "ok",
         answer[r] # "ok" \/ tok'[r] # tok[r]
  PROVE  life[tok'[r]] >= -TTL
<1>0. TTL \in Nat BY CacheAssumption
<1>1. Shrinks \/ Fills \/ UNCHANGED <<tok, answer>> BY StepKinds DEF SessionInv
<1>2. CASE Shrinks
  <2>1. tok'[r] \in Tokens /\ Hit(cache, tok'[r]) BY <1>2 DEF Shrinks
  <2> QED BY <1>0, <2>1 DEF SessionInv, TypeOK, CacheInv, Hit
<1>3. CASE Fills
  <2>1. PICK k \in Tokens : life[k] >= 0 /\ tok'[r] = k BY <1>3 DEF Fills
  <2> QED BY <1>0, <2>1 DEF SessionInv, TypeOK
<1>4. CASE UNCHANGED <<tok, answer>> BY <1>4
<1> QED BY <1>1, <1>2, <1>3, <1>4

\* The invariant holds in every reachable state.
LEMMA Invariant == Spec => []SessionInv
BY InitInv, NextInv, PTL DEF Spec

\* Type correctness: cached lifetimes stay within one cache lifetime and a
\* request at work carries a token.
THEOREM TypeCorrect == Spec => []TypeOK
<1>1. SessionInv => TypeOK BY DEF SessionInv
<1> QED BY <1>1, Invariant, PTL

\* However the goroutines interleave, the cache stays within its limit.
THEOREM CacheIsBounded == Spec => []CacheBounded
<1>1. SessionInv => CacheBounded BY DEF SessionInv
<1> QED BY <1>1, Invariant, PTL

\* No request is accepted later than one cache lifetime after the session's
\* expiry, for any expiry, lifetime, limit and number of requests.
THEOREM AcceptanceEnds == Spec => AcceptedInTime
<1>1. SessionInv /\ [Next]_vars =>
        [\A r \in Requests :
           answer'[r] = "ok" /\ (answer[r] # "ok" \/ tok'[r] # tok[r]) =>
             life[tok'[r]] >= -TTL]_vars
  BY NextAccepts
<1> QED BY <1>1, Invariant, PTL DEF Spec, AcceptedInTime

\* Revocation holds for the rows, and what each step does to the validations
\* under way and to the entry of a revoked token.
LEMMA RevokedStep ==
  ASSUME TypeOK, GoneInv, Next
  PROVE  /\ GoneInv'
         /\ \A t \in revoked :
              /\ Validating(t)' \subseteq Validating(t)
              /\ cache'[t] > cache[t] => Validating(t)' # Validating(t)
<1> DEFINE Kept(t) == /\ Validating(t)' \subseteq Validating(t)
                      /\ cache'[t] > cache[t] => Validating(t)' # Validating(t)
           Goal == GoneInv' /\ \A t \in revoked : Kept(t)
<1> SUFFICES Goal OBVIOUS
<1>0. TTL \in Nat /\ cache \in CacheStates /\ revoked \subseteq Tokens
  BY CacheAssumption DEF TypeOK, CacheStates
<1> USE DEF reqVars, GoneInv, Validating
<1>1. ASSUME NEW t \in Tokens, CreateSession(t) PROVE Goal
  BY <1>0, <1>1 DEF CreateSession, TypeOK
<1>2. ASSUME NEW t \in Tokens, DeleteUser(t) PROVE Goal
  BY <1>0, <1>2 DEF DeleteUser, TypeOK
<1>3. ASSUME NEW r \in Requests, NEW t \in Tokens, ValidateSession(r, t) PROVE Goal
  BY <1>0, <1>3 DEF ValidateSession, Goto, TypeOK
<1>4. ASSUME NEW r \in Requests, Evict(r) PROVE Goal
  BY <1>0, <1>4 DEF Evict, Goto, TypeOK, AfterMiss, Absent, Expired
<1>5. ASSUME NEW r \in Requests, Query(r) PROVE Goal
  BY <1>0, <1>5 DEF Query, Goto, TypeOK
<1>6. ASSUME NEW r \in Requests, Check(r) PROVE Goal
  <2>1. /\ tok[r] \in Tokens /\ pc[r] = "check" /\ row' = row /\ revoked' = revoked
        /\ tok' = tok /\ pc'[r] # "check"
        /\ \A q \in Requests \ {r} : pc'[q] = pc[q]
    BY <1>6 DEF Check, Goto, TypeOK
  <2>2. \A t \in Tokens : cache'[t] = cache[t] \/ cache'[t] = Absent \/ t = tok[r]
    <3>1. CASE cache' = AfterDelete(cache, tok[r])
      BY <1>0, <3>1, <2>1 DEF AfterDelete, CacheStates
    <3>2. CASE AfterSet(cache, tok[r], cache')
      BY <1>0, <3>2, <2>1, SetShape
    <3> QED BY <1>6, <3>1, <3>2 DEF Check
  <2>3. ASSUME NEW t \in revoked PROVE Kept(t)
    <3>1. Validating(t)' \subseteq Validating(t) BY <2>1
    <3>2. CASE t = tok[r]
      <4>1. r \in Validating(t) /\ r \notin Validating(t)' BY <2>1, <3>2
      <4> QED BY <3>1, <4>1
    <3>3. CASE t # tok[r]
      BY <1>0, <2>2, <3>1, <3>3 DEF CacheStates, Absent
    <3> QED BY <3>2, <3>3
  <2> QED BY <2>1, <2>3
<1>7. ASSUME NEW r \in Requests, Purge(r) PROVE Goal
  BY <1>0, <1>7 DEF Purge, Goto, TypeOK
<1>8. ASSUME NEW r \in Requests, RevokeRow(r) PROVE Goal
  BY <1>0, <1>8 DEF RevokeRow, Goto, TypeOK
<1>9. ASSUME NEW r \in Requests, RevokeSession(r) PROVE Goal
  BY <1>0, <1>9 DEF RevokeSession, Goto, TypeOK, AfterDelete, Absent
<1>10. ASSUME Tick PROVE Goal
  BY <1>0, <1>10 DEF Tick, TypeOK, Aged
<1> QED BY <1>1, <1>2, <1>3, <1>4, <1>5, <1>6, <1>7, <1>8, <1>9, <1>10 DEF Next, Step

\* A revoked token can come back into the cache at most once for each
\* validation that was under way: the safety half of RevocationTakesEffect.
THEOREM RevokedStaysOut == Spec => []GoneInv /\ RevokedFades
<1>1. Init => GoneInv BY DEF Init, GoneInv
<1>2. TypeOK /\ GoneInv /\ [Next]_vars => GoneInv'
  <2>1. UNCHANGED vars /\ GoneInv => GoneInv' BY DEF vars, GoneInv
  <2> QED BY <2>1, RevokedStep
<1>3. TypeOK /\ GoneInv /\ [Next]_vars =>
        [\A t \in revoked :
           /\ Validating(t)' \subseteq Validating(t)
           /\ cache'[t] > cache[t] => Validating(t)' # Validating(t)]_vars
  BY RevokedStep
<1> QED BY <1>1, <1>2, <1>3, TypeCorrect, PTL DEF Spec, RevokedFades
=============================================================================
