--------------------------- MODULE AccountsProofs ---------------------------
(***************************************************************************)
(* Proofs about Accounts: what logins are let in with and how long a copy  *)
(* of a row outlives it, for any accounts, administrators, logins, cache   *)
(* lifetimes and cache sizes.                                              *)
(***************************************************************************)
EXTENDS Accounts, TLAPS

-----------------------------------------------------------------------------
(* The cache.                                                              *)

CacheStates(K) == [K -> Absent..TTL]

\* Set changes one entry to TTL and may drop others.
LEMMA SetShape ==
  ASSUME NEW K, NEW c \in CacheStates(K), NEW k \in K, NEW d, AfterSet(c, k, d)
  PROVE  /\ d \in CacheStates(K)
         /\ d[k] = TTL
         /\ \A t \in K : d[t] = c[t] \/ d[t] = Absent \/ (t = k /\ d[t] = TTL)
<1>1. TTL \in Nat /\ TTL \in Absent..TTL /\ Absent \in Absent..TTL
  BY CacheAssumption DEF Absent
<1>2. CASE d = [c EXCEPT ![k] = TTL]
  BY <1>1, <1>2 DEF CacheStates
<1>3. CASE \E v \in Victims(c) : d = [[c EXCEPT ![v] = Absent] EXCEPT ![k] = TTL]
  <2>1. PICK v \in Victims(c) : d = [[c EXCEPT ![v] = Absent] EXCEPT ![k] = TTL]
    BY <1>3
  <2>2. v \in K
    BY DEF Victims, Present, CacheStates
  <2> QED
    BY <1>1, <2>1, <2>2 DEF CacheStates
<1> QED
  BY <1>2, <1>3 DEF AfterSet

-----------------------------------------------------------------------------
(* Types.                                                                  *)

\* What a SELECT finds is a row that carries the email asked for.
LEMMA CurrentIsLive ==
  ASSUME TypeOK, NEW e \in Emails, Current(e) # NoRow
  PROVE  \E u \in Ids : users[u] # NoRow /\ users[u].email = e /\ Current(e) = users[u]
<1>1. Live(e) # {}
  BY DEF Current
<1>2. PICK u : u = CHOOSE v \in Live(e) : TRUE
  OBVIOUS
<1>3. u \in Live(e)
  BY <1>1, <1>2
<1> QED
  BY <1>1, <1>2, <1>3 DEF Current, Live

\* The part of TypeOK about the table.
TableOK ==
  /\ users \in [Ids -> Row \cup {NoRow}] /\ lastId \in 0..MaxUsers
  /\ \A u \in Ids : users[u] # NoRow => users[u].id = u /\ u <= lastId
  /\ \A u, v \in Ids : users[u] # NoRow /\ users[v] # NoRow /\ users[u].email = users[v].email => u = v
  /\ changes \in 0..MaxChanges

\* The part about the history, which each change of the table brings up to date.
HistoryOK ==
  age \in [Emails -> 0..TTL + 1] /\ raced \subseteq Emails /\ fresh \subseteq Emails

\* The part about the cache and the logins.
LookupOK ==
  /\ cache \in [Emails -> Absent..TTL] /\ held \in [Emails -> Row \cup {NoRow}]
  /\ forget \subseteq Emails
  /\ pc \in [Logins -> {"idle", "evict", "query", "fill", "check"}]
  /\ email \in [Logins -> Emails]
  /\ got \in [Logins -> Row \cup {NoRow}] /\ answer \in [Logins -> Row \cup {NoRow}]

\* These are the parts of TypeOK.
LEMMA TypeParts == TypeOK <=> TableOK /\ HistoryOK /\ LookupOK
BY DEF TypeOK, TableOK, HistoryOK, LookupOK

\* What a change of the table does to the history.
LEMMA ChangedShape ==
  ASSUME TypeOK, NEW t, Changed(t)
  PROVE  /\ users' = t /\ HistoryOK'
         /\ granted \subseteq granted'
         /\ \A u \in Ids : t[u] # NoRow /\ t[u].active => t[u] \in granted'
         /\ \A e \in Emails :
              \/ age'[e] = 0 /\ e \notin fresh'
              \/ /\ Current(e)' = Current(e) /\ age'[e] = age[e]
                 /\ e \in raced => e \in raced'
                 /\ e \in fresh' => e \in fresh
<1> DEFINE touched == {e \in Emails : Current(e) # Current(e)'}
<1>1. /\ users' = t
      /\ granted' = granted \cup {t[u] : u \in {v \in Ids : t[v] # NoRow /\ t[v].active}}
      /\ age' = [e \in Emails |-> IF e \in touched THEN 0 ELSE age[e]]
      /\ raced' = raced \ touched
      /\ fresh' = fresh \ touched
  BY DEF Changed
<1>2. HistoryOK'
  <2>1. 0 \in 0..TTL + 1
    BY CacheAssumption
  <2> QED
    BY <1>1, <2>1 DEF HistoryOK, TypeOK
<1>3. ASSUME NEW e \in Emails
      PROVE  \/ age'[e] = 0 /\ e \notin fresh'
             \/ /\ Current(e)' = Current(e) /\ age'[e] = age[e]
                /\ e \in raced => e \in raced'
                /\ e \in fresh' => e \in fresh
  <2>1. CASE e \in touched
    BY <1>1, <2>1
  <2>2. CASE e \notin touched
    BY <1>1, <2>2
  <2> QED
    BY <2>1, <2>2
<1> QED
  BY <1>1, <1>2, <1>3

\* A change of the table keeps the types: a new row has an id never used and
\* an email nobody has; an updated one takes no email of another.
LEMMA TableTypes ==
  ASSUME TypeOK,
         \/ \E e \in Emails, p \in Passwords : CreateUser(e, p)
         \/ \E u \in Ids : handleUpdateUser(u) \/ DeleteUser(u)
  PROVE  TypeOK'
<1>0. TableOK /\ LookupOK /\ NoRow \notin Row /\ MaxUsers \in Nat /\ MaxChanges \in Nat
  BY TypeParts, NoRowAssumption, AccountAssumption
<1>1. ASSUME NEW e \in Emails, NEW p \in Passwords, CreateUser(e, p) PROVE TypeOK'
  <2> DEFINE new == [id |-> lastId + 1, email |-> e, pass |-> p, active |-> TRUE]
  <2>1. lastId + 1 \in Ids /\ lastId' = lastId + 1 /\ lastId' \in 0..MaxUsers
    BY <1>0, <1>1 DEF CreateUser, TableOK, Ids
  <2>2. users' = [users EXCEPT ![lastId + 1] = new] /\ HistoryOK'
    BY <1>1, ChangedShape DEF CreateUser
  <2>3. new \in Row
    BY <2>1 DEF Row
  <2>4. \A u \in Ids : users[u] # NoRow => users[u].email # e
    BY <1>1 DEF CreateUser, Live
  <2>5. users' \in [Ids -> Row \cup {NoRow}]
    BY <1>0, <2>1, <2>2, <2>3 DEF TableOK
  <2>6. \A u \in Ids : users'[u] = IF u = lastId + 1 THEN new ELSE users[u]
    BY <1>0, <2>1, <2>2 DEF TableOK
  <2>7. \A u \in Ids : users'[u] # NoRow => users'[u].id = u /\ u <= lastId'
    BY <1>0, <2>1, <2>6 DEF TableOK, Ids
  <2>8. \A u, v \in Ids : users'[u] # NoRow /\ users'[v] # NoRow /\ users'[u].email = users'[v].email => u = v
    BY <1>0, <2>4, <2>6 DEF TableOK
  <2>9. TableOK'
    BY <1>0, <1>1, <2>1, <2>5, <2>7, <2>8 DEF TableOK, CreateUser
  <2>10. LookupOK'
    BY <1>0, <1>1 DEF LookupOK, CreateUser, login
  <2> QED
    BY <2>2, <2>9, <2>10 DEF TypeOK, TableOK, HistoryOK, LookupOK
<1>2. ASSUME NEW w \in Ids, handleUpdateUser(w) \/ DeleteUser(w) PROVE TypeOK'
  <2>1. PICK r \in Row \cup {NoRow} :
          /\ changes < MaxChanges /\ changes' = changes + 1 /\ users[w] # NoRow
          /\ r # NoRow => r.id = w /\ Live(r.email) \subseteq {w}
          /\ Changed([users EXCEPT ![w] = r])
          /\ UNCHANGED <<lastId, cache, held, forget, login>>
    <3>1. CASE DeleteUser(w)
      BY <3>1, Zenon DEF DeleteUser
    <3>2. CASE handleUpdateUser(w)
      <4>1. PICK e \in Emails, p \in Passwords, a \in BOOLEAN : UpdateUser(w, e, p, a)
        BY <3>2 DEF handleUpdateUser
      <4>2. PICK r : r = [id |-> w, email |-> e, pass |-> p, active |-> a]
        OBVIOUS
      <4>3. r \in Row /\ r.id = w /\ r.email = e
        BY <4>2, Zenon DEF Row
      <4>4. /\ changes < MaxChanges /\ changes' = changes + 1 /\ users[w] # NoRow
            /\ Live(e) \subseteq {w}
            /\ Changed([users EXCEPT ![w] = r])
            /\ UNCHANGED <<lastId, cache, held, forget, login>>
        BY <4>1, <4>2, Zenon DEF UpdateUser
      <4> QED
        BY <4>3, <4>4, Zenon
    <3> QED
      BY <1>2, <3>1, <3>2
  <2>2. users' = [users EXCEPT ![w] = r] /\ HistoryOK'
    BY <2>1, ChangedShape
  <2>3. users' \in [Ids -> Row \cup {NoRow}]
    BY <1>0, <2>2 DEF TableOK
  <2>4. \A u \in Ids : users'[u] = IF u = w THEN r ELSE users[u]
    BY <1>0, <2>2 DEF TableOK
  <2>5. \A u \in Ids : users'[u] # NoRow => users'[u].id = u /\ u <= lastId'
    BY <1>0, <2>1, <2>4 DEF TableOK
  <2>6. r # NoRow => \A u \in Ids : users[u] # NoRow /\ users[u].email = r.email => u = w
    BY <2>1 DEF Live
  <2>7. \A u, v \in Ids : users'[u] # NoRow /\ users'[v] # NoRow /\ users'[u].email = users'[v].email => u = v
    BY <1>0, <2>4, <2>6 DEF TableOK
  <2>8. lastId' = lastId /\ changes' \in 0..MaxChanges
    BY <1>0, <2>1 DEF TableOK
  <2>9. TableOK'
    BY <1>0, <2>3, <2>5, <2>7, <2>8 DEF TableOK
  <2>10. LookupOK'
    BY <1>0, <2>1 DEF LookupOK, login
  <2> QED
    BY <2>2, <2>9, <2>10 DEF TypeOK, TableOK, HistoryOK, LookupOK
<1> QED
  BY <1>1, <1>2

\* So do the steps of a login, CreateUser's return and the clock.
LEMMA LookupTypes ==
  ASSUME TypeOK, CopyInv,
         \/ \E e \in Emails : Created(e)
         \/ \E l \in Logins, e \in Emails : Authenticate(l, e)
         \/ \E l \in Logins : Step(l)
         \/ Tick
  PROVE  TypeOK'
<1>0. /\ TableOK /\ LookupOK /\ HistoryOK /\ NoRow \notin Row
      /\ TTL \in Nat /\ Absent \in Absent..TTL /\ Expired \in Absent..TTL
  BY TypeParts, NoRowAssumption, CacheAssumption DEF Absent, Expired
<1>1. ASSUME NEW e \in Emails, Created(e) PROVE TypeOK'
  <2>1. LookupOK'
    BY <1>0, <1>1 DEF Created, LookupOK, AfterDelete, login
  <2>2. TableOK' /\ HistoryOK'
    BY <1>0, <1>1 DEF Created, TableOK, HistoryOK, table
  <2> QED
    BY <2>1, <2>2 DEF TypeOK, TableOK, HistoryOK, LookupOK
<1>2. ASSUME NEW l \in Logins, NEW e \in Emails, Authenticate(l, e) PROVE TypeOK'
  <2>1. LookupOK'
    BY <1>0, <1>2 DEF Authenticate, Goto, LookupOK
  <2>2. TableOK' /\ HistoryOK'
    BY <1>0, <1>2 DEF Authenticate, TableOK, HistoryOK, table, ghosts
  <2> QED
    BY <2>1, <2>2 DEF TypeOK, TableOK, HistoryOK, LookupOK
<1>3. ASSUME NEW l \in Logins, Evict(l) PROVE TypeOK'
  <2>1. LookupOK'
    BY <1>0, <1>3 DEF Evict, Goto, LookupOK, AfterMiss
  <2>2. TableOK' /\ HistoryOK'
    BY <1>0, <1>3 DEF Evict, TableOK, HistoryOK, table, ghosts
  <2> QED
    BY <2>1, <2>2 DEF TypeOK, TableOK, HistoryOK, LookupOK
<1>4. ASSUME NEW l \in Logins, Query(l) PROVE TypeOK'
  <2>1. Current(email[l]) \in Row \cup {NoRow}
    BY <1>0, CurrentIsLive DEF TableOK, LookupOK
  <2>2. LookupOK'
    BY <1>0, <1>4, <2>1 DEF Query, Goto, LookupOK
  <2>3. TableOK' /\ HistoryOK'
    BY <1>0, <1>4 DEF Query, TableOK, HistoryOK, table, ghosts
  <2> QED
    BY <2>2, <2>3 DEF TypeOK, TableOK, HistoryOK, LookupOK
<1>5. ASSUME NEW l \in Logins, Fill(l) PROVE TypeOK'
  <2>1. cache' \in [Emails -> Absent..TTL]
    BY <1>0, <1>5, SetShape DEF Fill, LookupOK, CacheStates
  <2>2. LookupOK'
    BY <1>0, <1>5, <2>1 DEF Fill, Goto, LookupOK
  <2>3. TableOK' /\ HistoryOK'
    BY <1>0, <1>5 DEF Fill, TableOK, HistoryOK, LookupOK, table
  <2> QED
    BY <2>2, <2>3 DEF TypeOK, TableOK, HistoryOK, LookupOK
<1>6. ASSUME NEW l \in Logins, NEW p \in Passwords, Check(l, p) PROVE TypeOK'
  <2> DEFINE a == IF got[l].active /\ got[l].pass = p
                    THEN [id |-> got[l].id, email |-> email[l], pass |-> p, active |-> TRUE] ELSE NoRow
  <2>1. got[l] \in Row /\ email[l] \in Emails
    BY <1>0, <1>6 DEF Check, Goto, CopyInv, CopyOf, LookupOK
  <2>2. a \in Row \cup {NoRow}
    BY <2>1 DEF Row
  <2>3. answer' = [answer EXCEPT ![l] = a]
    BY <1>6 DEF Check
  <2>4. LookupOK'
    BY <1>0, <1>6, <2>2, <2>3 DEF Check, Goto, LookupOK
  <2>5. TableOK' /\ HistoryOK'
    BY <1>0, <1>6 DEF Check, TableOK, HistoryOK, table, ghosts
  <2> QED
    BY <2>4, <2>5 DEF TypeOK, TableOK, HistoryOK, LookupOK
<1>7. ASSUME Tick PROVE TypeOK'
  <2>1. cache' \in [Emails -> Absent..TTL]
    BY <1>0, <1>7 DEF Tick, Aged, LookupOK, Absent
  <2>2. LookupOK'
    BY <1>0, <1>7, <2>1 DEF Tick, LookupOK, login
  <2>3. TableOK'
    BY <1>0, <1>7 DEF Tick, TableOK, table
  <2>4. HistoryOK'
    BY <1>0, <1>7 DEF Tick, HistoryOK
  <2> QED
    BY <2>2, <2>3, <2>4 DEF TypeOK, TableOK, HistoryOK, LookupOK
<1> QED
  BY <1>1, <1>2, <1>3, <1>4, <1>5, <1>6, <1>7 DEF Step

-----------------------------------------------------------------------------
(* Copies of rows.                                                         *)

\* The history of live rows only grows, so a copy stays one.
LEMMA CopyKept ==
  ASSUME granted \subseteq granted', NEW e, NEW r, CopyOf(e, r)
  PROVE  CopyOf(e, r)'
BY DEF CopyOf

\* A change of the table makes rows that are copies of themselves; the cache
\* and the logins keep what they have.
LEMMA TableCopies ==
  ASSUME TypeOK, CopyInv, TypeOK', NEW t, Changed(t), UNCHANGED <<cache, held, login>>
  PROVE  CopyInv'
<1>1. /\ users' = t /\ granted \subseteq granted'
      /\ \A u \in Ids : t[u] # NoRow /\ t[u].active => t[u] \in granted'
  BY ChangedShape
<1>2. ASSUME NEW u \in Ids, users'[u] # NoRow PROVE CopyOf(users[u].email, users[u])'
  <2>1. users'[u] \in Row
    BY <1>2 DEF TypeOK
  <2> QED
    BY <1>1, <1>2, <2>1 DEF CopyOf
<1>3. ASSUME NEW e \in Emails
      PROVE  (held'[e] # NoRow => CopyOf(e, held[e])') /\ (cache'[e] # Absent => held'[e] # NoRow)
  <2>1. held[e] # NoRow => CopyOf(e, held[e])'
    BY <1>1, CopyKept DEF CopyInv
  <2> QED
    BY <2>1 DEF CopyInv
<1>4. ASSUME NEW l \in Logins, pc'[l] \in {"fill", "check"} PROVE CopyOf(email[l], got[l])'
  <2>1. pc[l] \in {"fill", "check"} /\ email'[l] = email[l] /\ got'[l] = got[l]
    BY <1>4 DEF login
  <2> QED
    BY <1>1, <2>1 DEF CopyInv, CopyOf
<1> QED
  BY <1>2, <1>3, <1>4 DEF CopyInv

\* Steps that leave the table alone: no row but a copy gets into the cache or
\* into the hands of a login.
LEMMA LookupCopies ==
  ASSUME TypeOK, CopyInv, TypeOK',
         users' = users, granted' = granted,
         \A e \in Emails : /\ held'[e] # NoRow => CopyOf(e, held'[e])
                           /\ cache'[e] # Absent => held'[e] # NoRow,
         \A l \in Logins : pc'[l] \in {"fill", "check"} => CopyOf(email'[l], got'[l])
  PROVE  CopyInv'
BY DEF CopyInv, CopyOf

\* Every step keeps copies what they are.
LEMMA NextCopies ==
  ASSUME TypeOK, CopyInv, TypeOK', Next
  PROVE  CopyInv'
<1>0. LookupOK /\ LookupOK'
  BY DEF TypeOK, LookupOK
<1>1. ASSUME NEW e \in Emails, NEW p \in Passwords, CreateUser(e, p) PROVE CopyInv'
  <2>1. \E t : Changed(t) /\ UNCHANGED <<cache, held, login>>
    BY <1>1 DEF CreateUser
  <2> QED
    BY <2>1, TableCopies
<1>2. ASSUME NEW u \in Ids, handleUpdateUser(u) \/ DeleteUser(u) PROVE CopyInv'
  <2>1. \E t : Changed(t) /\ UNCHANGED <<cache, held, login>>
    BY <1>2 DEF handleUpdateUser, UpdateUser, DeleteUser
  <2> QED
    BY <2>1, TableCopies
<1>3. ASSUME NEW e \in Emails, Created(e) PROVE CopyInv'
  <2>1. UNCHANGED <<users, granted, pc, email, got>>
    BY <1>3 DEF Created, table, login
  <2>2. /\ cache' = [cache EXCEPT ![e] = Absent]
        /\ held' = [held EXCEPT ![e] = NoRow]
    BY <1>3 DEF Created, AfterDelete
  <2>3. \A f \in Emails : /\ held'[f] # NoRow => CopyOf(f, held'[f])
                          /\ cache'[f] # Absent => held'[f] # NoRow
    BY <1>0, <2>2 DEF CopyInv, LookupOK
  <2>4. \A l \in Logins : pc'[l] \in {"fill", "check"} => CopyOf(email'[l], got'[l])
    BY <2>1 DEF CopyInv
  <2> QED
    BY <2>1, <2>3, <2>4, LookupCopies
<1>4. ASSUME NEW l \in Logins, NEW e \in Emails, Authenticate(l, e) PROVE CopyInv'
  <2>1. UNCHANGED <<users, granted, cache, held>>
    BY <1>4 DEF Authenticate, table, ghosts
  <2>2. pc'[l] \in {"fill", "check"} => CopyOf(email'[l], got'[l])
    <3>1. SUFFICES ASSUME pc'[l] \in {"fill", "check"} PROVE CopyOf(email'[l], got'[l])
      OBVIOUS
    <3>2. Hit(cache, e) /\ got'[l] = held[e] /\ email'[l] = e
      BY <1>0, <1>4, <3>1 DEF Authenticate, Goto, LookupOK
    <3>3. cache[e] # Absent
      BY <3>2 DEF Hit, Absent
    <3> QED
      BY <3>2, <3>3 DEF CopyInv
  <2>3. \A m \in Logins \ {l} : pc'[m] = pc[m] /\ got'[m] = got[m] /\ email'[m] = email[m]
    BY <1>0, <1>4 DEF Authenticate, Goto, LookupOK
  <2>4. \A m \in Logins : pc'[m] \in {"fill", "check"} => CopyOf(email'[m], got'[m])
    BY <2>2, <2>3 DEF CopyInv
  <2>5. \A f \in Emails : /\ held'[f] # NoRow => CopyOf(f, held'[f])
                          /\ cache'[f] # Absent => held'[f] # NoRow
    BY <2>1 DEF CopyInv
  <2> QED
    BY <2>1, <2>4, <2>5, LookupCopies
<1>5. ASSUME NEW l \in Logins, Evict(l) PROVE CopyInv'
  <2>1. UNCHANGED <<users, granted, held, email>>
    BY <1>5 DEF Evict, table, ghosts
  <2>2. \A f \in Emails : cache'[f] # Absent => cache[f] # Absent
    BY <1>0, <1>5 DEF Evict, AfterMiss, LookupOK
  <2>3. \A m \in Logins : pc'[m] \in {"fill", "check"} =>
          pc[m] \in {"fill", "check"} /\ got'[m] = got[m]
    BY <1>0, <1>5 DEF Evict, Goto, LookupOK
  <2>4. \A m \in Logins : pc'[m] \in {"fill", "check"} => CopyOf(email'[m], got'[m])
    BY <2>1, <2>3 DEF CopyInv
  <2>5. \A f \in Emails : /\ held'[f] # NoRow => CopyOf(f, held'[f])
                          /\ cache'[f] # Absent => held'[f] # NoRow
    BY <2>1, <2>2 DEF CopyInv
  <2> QED
    BY <2>1, <2>4, <2>5, LookupCopies
<1>6. ASSUME NEW l \in Logins, Query(l) PROVE CopyInv'
  <2>1. UNCHANGED <<users, granted, cache, held, email>>
    BY <1>6 DEF Query, table, ghosts
  <2>2. pc'[l] \in {"fill", "check"} => CopyOf(email'[l], got'[l])
    <3>1. SUFFICES ASSUME pc'[l] \in {"fill", "check"} PROVE CopyOf(email'[l], got'[l])
      OBVIOUS
    <3>2. Current(email[l]) # NoRow /\ got'[l] = Current(email[l])
      BY <1>0, <1>6, <3>1 DEF Query, Goto, LookupOK
    <3>3. email[l] \in Emails
      BY <1>0 DEF LookupOK
    <3>4. PICK u \in Ids : users[u] # NoRow /\ users[u].email = email[l] /\ got'[l] = users[u]
      BY <3>2, <3>3, CurrentIsLive
    <3> QED
      BY <2>1, <3>4 DEF CopyInv
  <2>3. \A m \in Logins \ {l} : pc'[m] = pc[m] /\ got'[m] = got[m]
    BY <1>0, <1>6 DEF Query, Goto, LookupOK
  <2>4. \A m \in Logins : pc'[m] \in {"fill", "check"} => CopyOf(email'[m], got'[m])
    BY <2>1, <2>2, <2>3 DEF CopyInv
  <2>5. \A f \in Emails : /\ held'[f] # NoRow => CopyOf(f, held'[f])
                          /\ cache'[f] # Absent => held'[f] # NoRow
    BY <2>1 DEF CopyInv
  <2> QED
    BY <2>1, <2>4, <2>5, LookupCopies
<1>7. ASSUME NEW l \in Logins, Fill(l) PROVE CopyInv'
  <2>1. UNCHANGED <<users, granted, email>>
    BY <1>7 DEF Fill, table
  <2>2. \A m \in Logins : got'[m] = got[m] /\ (pc'[m] \in {"fill", "check"} => pc[m] \in {"fill", "check"})
    BY <1>0, <1>7 DEF Fill, Goto, LookupOK
  <2>3. \A m \in Logins : pc'[m] \in {"fill", "check"} => CopyOf(email'[m], got'[m])
    BY <2>1, <2>2 DEF CopyInv
  <2>4. email[l] \in Emails /\ CopyOf(email[l], got[l]) /\ got[l] # NoRow
    BY <1>0, <1>7, NoRowAssumption DEF Fill, Goto, LookupOK, CopyInv, CopyOf
  <2>5. \A f \in Emails : held'[f] = IF f = email[l] THEN got[l] ELSE held[f]
    BY <1>0, <1>7 DEF Fill, LookupOK
  <2>6. \A f \in Emails : cache'[f] = cache[f] \/ cache'[f] = Absent \/ f = email[l]
    BY <1>0, <1>7, <2>4, SetShape DEF Fill, LookupOK, CacheStates
  <2>7. \A f \in Emails : /\ held'[f] # NoRow => CopyOf(f, held'[f])
                          /\ cache'[f] # Absent => held'[f] # NoRow
    BY <2>4, <2>5, <2>6 DEF CopyInv
  <2> QED
    BY <2>1, <2>3, <2>7, LookupCopies
<1>8. ASSUME NEW l \in Logins, NEW p \in Passwords, Check(l, p) PROVE CopyInv'
  <2>1. UNCHANGED <<users, granted, cache, held, email>>
    BY <1>8 DEF Check, table, ghosts
  <2>2. \A m \in Logins : pc'[m] \in {"fill", "check"} =>
          pc[m] \in {"fill", "check"} /\ got'[m] = got[m]
    BY <1>0, <1>8 DEF Check, Goto, LookupOK
  <2>3. \A m \in Logins : pc'[m] \in {"fill", "check"} => CopyOf(email'[m], got'[m])
    BY <2>1, <2>2 DEF CopyInv
  <2>4. \A f \in Emails : /\ held'[f] # NoRow => CopyOf(f, held'[f])
                          /\ cache'[f] # Absent => held'[f] # NoRow
    BY <2>1 DEF CopyInv
  <2> QED
    BY <2>1, <2>3, <2>4, LookupCopies
<1>9. ASSUME Tick PROVE CopyInv'
  <2>1. UNCHANGED <<users, granted, held, pc, email, got>>
    BY <1>9 DEF Tick, table, login
  <2>2. \A f \in Emails : cache'[f] # Absent => cache[f] # Absent
    BY <1>0, <1>9 DEF Tick, Aged, LookupOK, Absent
  <2>3. \A m \in Logins : pc'[m] \in {"fill", "check"} => CopyOf(email'[m], got'[m])
    BY <2>1 DEF CopyInv
  <2>4. \A f \in Emails : /\ held'[f] # NoRow => CopyOf(f, held'[f])
                          /\ cache'[f] # Absent => held'[f] # NoRow
    BY <2>1, <2>2 DEF CopyInv
  <2> QED
    BY <2>1, <2>3, <2>4, LookupCopies
<1> QED
  BY <1>1, <1>2, <1>3, <1>4, <1>5, <1>6, <1>7, <1>8, <1>9 DEF Next, Step

\* Types and copies hold in every reachable state.
LEMMA CopyInvariant == Spec => [](TypeOK /\ CopyInv)
<1>1. Init => TypeOK /\ CopyInv
  <2> SUFFICES ASSUME Init PROVE TypeOK /\ CopyInv
    OBVIOUS
  <2>0. TTL \in Nat /\ Absent \in Absent..TTL /\ TTL + 1 \in 0..TTL + 1 /\ MaxUsers \in Nat /\ MaxChanges \in Nat
    BY CacheAssumption, AccountAssumption DEF Absent
  <2>1. TypeOK
    BY <2>0 DEF Init, TypeOK
  <2>2. CopyInv
    BY DEF Init, CopyInv
  <2> QED
    BY <2>1, <2>2
<1>2. TypeOK /\ CopyInv /\ [Next]_vars => TypeOK' /\ CopyInv'
  <2> SUFFICES ASSUME TypeOK, CopyInv, [Next]_vars PROVE TypeOK' /\ CopyInv'
    OBVIOUS
  <2>1. CASE Next
    <3>1. TypeOK'
      BY <2>1, TableTypes, LookupTypes DEF Next
    <3> QED
      BY <2>1, <3>1, NextCopies
  <2>2. CASE UNCHANGED vars
    BY <2>2 DEF vars, table, login, ghosts, TypeOK, CopyInv, CopyOf
  <2> QED
    BY <2>1, <2>2
<1> QED
  BY <1>1, <1>2, PTL DEF Spec

\* Types, for any accounts, changes and logins: ids and emails name one row at
\* most and a login that compares a password has a row to compare with.
THEOREM AccountTypeCorrect == Spec => []TypeOK
BY CopyInvariant, PTL

\* Whoever is let in has given the credentials of one row that was live and
\* active, whatever UpdateUser, DeleteUser and CreateUser did to the email and
\* the id since: no login is answered out of two rows.
THEOREM LoginsAreGranted == Spec => []LoginWasGranted
<1>1. Init => LoginWasGranted
  BY DEF Init, LoginWasGranted
<1>2. TypeOK /\ CopyInv /\ LoginWasGranted /\ [Next]_vars => LoginWasGranted'
  <2> SUFFICES ASSUME TypeOK, CopyInv, LoginWasGranted, [Next]_vars PROVE LoginWasGranted'
    OBVIOUS
  <2>1. ASSUME NEW l \in Logins, NEW p \in Passwords, Check(l, p) PROVE LoginWasGranted'
    <3>1. granted' = granted
      BY <2>1 DEF Check, ghosts
    <3>2. got[l] \in Row /\ got[l].email = email[l] /\ (got[l].active => got[l] \in granted)
      BY <2>1 DEF Check, Goto, CopyInv, CopyOf
    <3>3. answer'[l] # NoRow => answer'[l] \in granted
      <4>1. SUFFICES ASSUME answer'[l] # NoRow PROVE answer'[l] \in granted
        OBVIOUS
      <4>2. /\ got[l].active /\ got[l].pass = p
            /\ answer'[l] = [id |-> got[l].id, email |-> email[l], pass |-> p, active |-> TRUE]
        BY <2>1, <4>1 DEF Check, TypeOK
      <4>3. got[l] = [id |-> got[l].id, email |-> email[l], pass |-> p, active |-> TRUE]
        BY <3>2, <4>2 DEF Row
      <4> QED
        BY <3>2, <4>2, <4>3
    <3>4. \A m \in Logins \ {l} : answer'[m] = answer[m]
      BY <2>1 DEF Check, TypeOK
    <3> QED
      BY <3>1, <3>3, <3>4 DEF LoginWasGranted
  <2>2. ASSUME granted \subseteq granted', \A l \in Logins : answer'[l] = answer[l] \/ answer'[l] = NoRow
        PROVE  LoginWasGranted'
    BY <2>2 DEF LoginWasGranted
  <2>3. ASSUME NEW e \in Emails, NEW p \in Passwords, CreateUser(e, p) PROVE LoginWasGranted'
    BY <2>2, <2>3, ChangedShape DEF CreateUser, login
  <2>4. ASSUME NEW u \in Ids, handleUpdateUser(u) \/ DeleteUser(u) PROVE LoginWasGranted'
    BY <2>2, <2>4, ChangedShape DEF handleUpdateUser, UpdateUser, DeleteUser, login
  <2>5. ASSUME NEW e \in Emails, Created(e) PROVE LoginWasGranted'
    BY <2>2, <2>5 DEF Created, login
  <2>6. ASSUME NEW l \in Logins, NEW e \in Emails, Authenticate(l, e) PROVE LoginWasGranted'
    BY <2>2, <2>6 DEF Authenticate, ghosts, TypeOK
  <2>7. ASSUME NEW l \in Logins, Evict(l) \/ Query(l) \/ Fill(l) PROVE LoginWasGranted'
    BY <2>2, <2>7 DEF Evict, Query, Fill, ghosts
  <2>8. ASSUME Tick \/ UNCHANGED vars PROVE LoginWasGranted'
    BY <2>2, <2>8 DEF Tick, vars, login, ghosts
  <2> QED
    BY <2>1, <2>3, <2>4, <2>5, <2>6, <2>7, <2>8 DEF Next, Step
<1> QED
  BY <1>1, <1>2, CopyInvariant, PTL DEF Spec

-----------------------------------------------------------------------------
(* How long a stale copy lives.                                            *)

\* A step that changes the table: a touched email starts a new lifetime, and
\* no entry has more than one left.
LEMMA ChangeAges ==
  ASSUME TypeOK, TypeOK', StaleForOneLifetime, CreatedIsFound,
         NEW t, Changed(t), UNCHANGED <<cache, held>>
  PROVE  StaleForOneLifetime' /\ CreatedIsFound'
<1>1. \A e \in Emails :
        \/ age'[e] = 0 /\ e \notin fresh'
        \/ /\ Current(e)' = Current(e) /\ age'[e] = age[e]
           /\ e \in raced => e \in raced'
           /\ e \in fresh' => e \in fresh
  BY ChangedShape
<1>2. ASSUME NEW e \in Emails
      PROVE  /\ Stale(e)' /\ e \notin raced' => cache'[e] + age'[e] <= TTL
             /\ e \in fresh' \ raced' => ~Stale(e)'
  <2>1. CASE age'[e] = 0 /\ e \notin fresh'
    <3>1. cache[e] \in Absent..TTL
      BY DEF TypeOK
    <3> QED
      BY <2>1, <3>1, CacheAssumption DEF Absent
  <2>2. CASE /\ Current(e)' = Current(e) /\ age'[e] = age[e]
             /\ e \in raced => e \in raced'
             /\ e \in fresh' => e \in fresh
    <3>1. Stale(e)' <=> Stale(e)
      BY <2>2 DEF Stale, Hit
    <3> QED
      BY <2>2, <3>1 DEF StaleForOneLifetime, CreatedIsFound
  <2> QED
    BY <1>1, <2>1, <2>2
<1>3. fresh' \subseteq Emails
  BY DEF TypeOK
<1> QED
  BY <1>2, <1>3 DEF StaleForOneLifetime, CreatedIsFound

\* A step that leaves the table alone: an entry is the one that was there, is
\* gone, or is in agreement with the table or raced.
LEMMA LookupAges ==
  ASSUME TypeOK, TypeOK', StaleForOneLifetime, CreatedIsFound,
         users' = users, age' = age,
         \A e \in Emails :
           \/ ~Hit(cache', e)
           \/ held'[e] = Current(e)
           \/ e \in raced'
           \/ /\ cache'[e] = cache[e] /\ held'[e] = held[e]
              /\ e \in raced => e \in raced'
              /\ e \in fresh' => e \in fresh
  PROVE  StaleForOneLifetime' /\ CreatedIsFound'
<1>1. \A e \in Emails : Current(e)' = Current(e)
  BY DEF Current, Live
<1>2. ASSUME NEW e \in Emails
      PROVE  /\ Stale(e)' /\ e \notin raced' => cache'[e] + age'[e] <= TTL
             /\ e \in fresh' \ raced' => ~Stale(e)'
  <2>1. CASE ~Hit(cache', e) \/ held'[e] = Current(e)
    BY <1>1, <2>1 DEF Stale, Hit
  <2>2. CASE e \in raced'
    BY <2>2
  <2>3. CASE /\ cache'[e] = cache[e] /\ held'[e] = held[e]
             /\ e \in raced => e \in raced'
             /\ e \in fresh' => e \in fresh
    <3>1. Stale(e)' <=> Stale(e)
      BY <1>1, <2>3 DEF Stale, Hit
    <3> QED
      BY <2>3, <3>1 DEF StaleForOneLifetime, CreatedIsFound
  <2> QED
    BY <2>1, <2>2, <2>3
<1>3. fresh' \subseteq Emails
  BY DEF TypeOK
<1> QED
  BY <1>2, <1>3 DEF StaleForOneLifetime, CreatedIsFound

\* The clock takes from an entry what it adds to the age of the row.
LEMMA TickAges ==
  ASSUME TypeOK, TypeOK', StaleForOneLifetime, CreatedIsFound, Tick
  PROVE  StaleForOneLifetime' /\ CreatedIsFound'
<1>0. TTL \in Nat
  BY CacheAssumption
<1>1. UNCHANGED <<users, held, raced, fresh>>
  BY DEF Tick, table
<1>2. ASSUME NEW e \in Emails
      PROVE  /\ Stale(e)' /\ e \notin raced' => cache'[e] + age'[e] <= TTL
             /\ e \in fresh' \ raced' => ~Stale(e)'
  <2>1. /\ cache[e] \in Int /\ age[e] \in 0..TTL + 1
        /\ cache'[e] = IF cache[e] >= 0 THEN cache[e] - 1 ELSE cache[e]
        /\ age'[e] = IF age[e] > TTL THEN age[e] ELSE age[e] + 1
    BY <1>0 DEF TypeOK, Tick, Aged, Absent
  <2>2. Current(e)' = Current(e)
    BY <1>1 DEF Current, Live
  <2>3. Stale(e)' => Stale(e) /\ cache[e] >= 1 /\ cache'[e] = cache[e] - 1
    BY <1>1, <2>1, <2>2 DEF Stale, Hit
  <2>4. Stale(e)' /\ e \notin raced' => cache'[e] + age'[e] <= TTL
    <3>1. SUFFICES ASSUME Stale(e)', e \notin raced' PROVE cache'[e] + age'[e] <= TTL
      OBVIOUS
    <3>2. cache[e] + age[e] <= TTL
      BY <1>1, <2>3, <3>1 DEF StaleForOneLifetime
    <3> QED
      BY <1>0, <2>1, <2>3, <3>1, <3>2
  <2> QED
    BY <1>1, <2>3, <2>4 DEF CreatedIsFound
<1>3. fresh' \subseteq Emails
  BY DEF TypeOK
<1> QED
  BY <1>2, <1>3 DEF StaleForOneLifetime, CreatedIsFound

\* Every step keeps the two bounds on stale copies.
LEMMA NextAges ==
  ASSUME TypeOK, TypeOK', StaleForOneLifetime, CreatedIsFound, [Next]_vars
  PROVE  StaleForOneLifetime' /\ CreatedIsFound'
<1>0. cache \in [Emails -> Absent..TTL] /\ held \in [Emails -> Row \cup {NoRow}] /\ email \in [Logins -> Emails]
  BY DEF TypeOK
<1>1. ASSUME NEW e \in Emails, NEW p \in Passwords, CreateUser(e, p)
      PROVE  StaleForOneLifetime' /\ CreatedIsFound'
  <2>1. \E t : Changed(t) /\ UNCHANGED <<cache, held>>
    BY <1>1 DEF CreateUser
  <2> QED
    BY <2>1, ChangeAges
<1>2. ASSUME NEW u \in Ids, handleUpdateUser(u) \/ DeleteUser(u)
      PROVE  StaleForOneLifetime' /\ CreatedIsFound'
  <2>1. \E t : Changed(t) /\ UNCHANGED <<cache, held>>
    BY <1>2 DEF handleUpdateUser, UpdateUser, DeleteUser
  <2> QED
    BY <2>1, ChangeAges
<1>3. ASSUME NEW e \in Emails, Created(e) PROVE StaleForOneLifetime' /\ CreatedIsFound'
  <2>1. users' = users /\ age' = age
    BY <1>3 DEF Created, table
  <2>2. ~Hit(cache', e)
    BY <1>0, <1>3 DEF Created, AfterDelete, Hit, Absent
  <2>3. \A f \in Emails \ {e} : /\ cache'[f] = cache[f] /\ held'[f] = held[f]
                                /\ f \in raced => f \in raced'
                                /\ f \in fresh' => f \in fresh
    BY <1>0, <1>3 DEF Created, AfterDelete
  <2> QED
    BY <2>1, <2>2, <2>3, LookupAges
<1>4. ASSUME NEW l \in Logins, Fill(l) PROVE StaleForOneLifetime' /\ CreatedIsFound'
  <2>1. users' = users /\ age' = age /\ fresh' = fresh
    BY <1>4 DEF Fill, table
  <2>2. held'[email[l]] = Current(email[l]) \/ email[l] \in raced'
    BY <1>0, <1>4 DEF Fill
  <2>3. \A f \in Emails \ {email[l]} : /\ held'[f] = held[f]
                                       /\ f \in raced => f \in raced'
    BY <1>0, <1>4 DEF Fill
  <2>4. \A f \in Emails \ {email[l]} : cache'[f] = cache[f] \/ cache'[f] = Absent
    BY <1>0, <1>4, SetShape DEF Fill, CacheStates
  <2>5. \A f \in Emails : cache'[f] = Absent => ~Hit(cache', f)
    BY DEF Hit, Absent
  <2> QED
    BY <2>1, <2>2, <2>3, <2>4, <2>5, LookupAges
<1>5. ASSUME NEW l \in Logins, Evict(l) PROVE StaleForOneLifetime' /\ CreatedIsFound'
  <2>1. UNCHANGED <<users, age, held, raced, fresh>>
    BY <1>5 DEF Evict, table, ghosts
  <2>2. \A f \in Emails : cache'[f] = cache[f] \/ ~Hit(cache', f)
    BY <1>0, <1>5 DEF Evict, AfterMiss, Hit, Absent
  <2> QED
    BY <2>1, <2>2, LookupAges
<1>6. ASSUME UNCHANGED <<users, age, held, raced, fresh, cache>>
      PROVE  StaleForOneLifetime' /\ CreatedIsFound'
  BY <1>6, LookupAges
<1>7. ASSUME NEW l \in Logins, NEW e \in Emails, Authenticate(l, e)
      PROVE  StaleForOneLifetime' /\ CreatedIsFound'
  BY <1>6, <1>7 DEF Authenticate, table, ghosts
<1>8. ASSUME NEW l \in Logins, Query(l) \/ \E p \in Passwords : Check(l, p)
      PROVE  StaleForOneLifetime' /\ CreatedIsFound'
  BY <1>6, <1>8 DEF Query, Check, table, ghosts
<1>9. CASE Tick
  BY <1>9, TickAges
<1>10. CASE UNCHANGED vars
  BY <1>6, <1>10 DEF vars, table, ghosts
<1> QED
  BY <1>1, <1>2, <1>3, <1>4, <1>5, <1>7, <1>8, <1>9, <1>10 DEF Next, Step

\* Both hold in every reachable state.
LEMMA AgeInvariant == Spec => [](StaleForOneLifetime /\ CreatedIsFound)
<1>1. Init => StaleForOneLifetime /\ CreatedIsFound
  BY DEF Init, StaleForOneLifetime, CreatedIsFound, Stale, Hit, Absent
<1> QED
  BY <1>1, NextAges, CopyInvariant, PTL DEF Spec

\* A copy that UpdateUser or DeleteUser made stale is used for one lifetime
\* of the cache at most, for any lifetime and size, unless a lookup that was
\* under way puts it back.
THEOREM StaleCopiesExpire == Spec => []StaleForOneLifetime
BY AgeInvariant, PTL

\* An account whose CreateUser has returned is not hidden by the copy of one
\* that had its email before.
THEOREM CreatedAccountsAreFound == Spec => []CreatedIsFound
BY AgeInvariant, PTL
-----------------------------------------------------------------------------
(* How stale copies run out.                                               *)

\* Whether a step keeps to StalenessFades for one email.
Fades(e) ==
  Current(e)' = Current(e) =>
    /\ StaleLookups(e)' \subseteq StaleLookups(e)
    /\ Stale(e)' /\ (~Stale(e) \/ cache'[e] > cache[e]) => StaleLookups(e)' # StaleLookups(e)

\* A step that fills nothing: what lookups carry to the cache is what they
\* carried before or what the table says, and an entry is older or gone.
LEMMA NoFillFades ==
  ASSUME TypeOK, TypeOK', NEW e \in Emails,
         \A l \in Logins : pc'[l] = "fill" =>
           \/ pc[l] = "fill" /\ email'[l] = email[l] /\ got'[l] = got[l]
           \/ users' = users /\ got'[l] = Current(email'[l]),
         ~Hit(cache', e) \/ (held'[e] = held[e] /\ cache'[e] <= cache[e])
  PROVE  Fades(e)
<1> SUFFICES ASSUME Current(e)' = Current(e)
             PROVE  /\ StaleLookups(e)' \subseteq StaleLookups(e)
                    /\ Stale(e)' => Stale(e) /\ ~(cache'[e] > cache[e])
  BY DEF Fades
<1>1. StaleLookups(e)' \subseteq StaleLookups(e)
  BY DEF StaleLookups
<1>2. cache[e] \in Int /\ cache'[e] \in Int
  BY DEF TypeOK, Absent
<1>3. Stale(e)' => Stale(e) /\ ~(cache'[e] > cache[e])
  BY <1>2 DEF Stale, Hit
<1> QED
  BY <1>1, <1>3

\* A fill puts an end to one lookup, which is a stale one if the entry is.
LEMMA FillFades ==
  ASSUME TypeOK, NEW l \in Logins, Fill(l), NEW e \in Emails
  PROVE  Fades(e)
<1>0. /\ cache \in [Emails -> Absent..TTL] /\ held \in [Emails -> Row \cup {NoRow}]
      /\ email[l] \in Emails
  BY DEF TypeOK
<1>1. /\ pc[l] = "fill" /\ pc'[l] # "fill" /\ users' = users /\ email' = email
      /\ \A m \in Logins : got'[m] = got[m] /\ (pc'[m] = "fill" => pc[m] = "fill")
  BY DEF Fill, Goto, TypeOK, table
<1>2. Current(e)' = Current(e)
  BY <1>1 DEF Current, Live
<1>3. StaleLookups(e)' \subseteq StaleLookups(e)
  BY <1>1, <1>2 DEF StaleLookups
<1>4. CASE e = email[l]
  <2>1. held'[e] = got[l]
    BY <1>0, <1>4 DEF Fill
  <2>2. Stale(e)' => l \in StaleLookups(e) /\ l \notin StaleLookups(e)'
    BY <1>1, <1>2, <1>4, <2>1 DEF Stale, StaleLookups
  <2> QED
    BY <1>3, <2>2 DEF Fades
<1>5. CASE e # email[l]
  <2>1. held'[e] = held[e] /\ (cache'[e] = cache[e] \/ cache'[e] = Absent)
    BY <1>0, <1>5, SetShape DEF Fill, CacheStates
  <2>2. cache[e] \in Int
    BY <1>0 DEF Absent
  <2>3. Stale(e)' => Stale(e) /\ ~(cache'[e] > cache[e])
    BY <1>2, <2>1, <2>2 DEF Stale, Hit, Absent
  <2> QED
    BY <1>3, <2>3 DEF Fades
<1> QED
  BY <1>4, <1>5

\* Every step keeps to StalenessFades.
LEMMA NextFades ==
  ASSUME TypeOK, TypeOK', Next, NEW e \in Emails
  PROVE  Fades(e)
<1>0. cache \in [Emails -> Absent..TTL] /\ held \in [Emails -> Row \cup {NoRow}] /\ cache[e] \in Int
  BY DEF TypeOK, Absent
<1>1. ASSUME UNCHANGED <<pc, email, got, cache, held>> PROVE Fades(e)
  BY <1>0, <1>1, NoFillFades
<1>2. ASSUME NEW f \in Emails, NEW p \in Passwords, CreateUser(f, p) PROVE Fades(e)
  BY <1>1, <1>2 DEF CreateUser, login
<1>3. ASSUME NEW u \in Ids, handleUpdateUser(u) \/ DeleteUser(u) PROVE Fades(e)
  BY <1>1, <1>3 DEF handleUpdateUser, UpdateUser, DeleteUser, login
<1>4. ASSUME NEW f \in Emails, Created(f) PROVE Fades(e)
  <2>1. UNCHANGED <<pc, email, got>>
    BY <1>4 DEF Created, login
  <2>2. ~Hit(cache', e) \/ (held'[e] = held[e] /\ cache'[e] <= cache[e])
    BY <1>0, <1>4 DEF Created, AfterDelete, Hit, Absent
  <2> QED
    BY <2>1, <2>2, NoFillFades
<1>5. ASSUME NEW l \in Logins, NEW f \in Emails, Authenticate(l, f) PROVE Fades(e)
  <2>1. \A m \in Logins : pc'[m] = "fill" => pc[m] = "fill" /\ email'[m] = email[m] /\ got'[m] = got[m]
    BY <1>5 DEF Authenticate, Goto, TypeOK
  <2>2. cache' = cache /\ held' = held
    BY <1>5 DEF Authenticate
  <2> QED
    BY <1>0, <2>1, <2>2, NoFillFades
<1>6. ASSUME NEW l \in Logins, Evict(l) PROVE Fades(e)
  <2>1. \A m \in Logins : pc'[m] = "fill" => pc[m] = "fill" /\ email'[m] = email[m] /\ got'[m] = got[m]
    BY <1>6 DEF Evict, Goto, TypeOK
  <2>2. ~Hit(cache', e) \/ (held'[e] = held[e] /\ cache'[e] <= cache[e])
    BY <1>0, <1>6 DEF Evict, AfterMiss, Hit, Absent
  <2> QED
    BY <2>1, <2>2, NoFillFades
<1>7. ASSUME NEW l \in Logins, Query(l) PROVE Fades(e)
  <2>1. users' = users /\ email' = email /\ cache' = cache /\ held' = held
    BY <1>7 DEF Query, table
  <2>2. \A m \in Logins : pc'[m] = "fill" =>
          (pc[m] = "fill" /\ got'[m] = got[m]) \/ got'[m] = Current(email[m])
    BY <1>7 DEF Query, Goto, TypeOK
  <2> QED
    BY <1>0, <2>1, <2>2, NoFillFades
<1>8. ASSUME NEW l \in Logins, NEW p \in Passwords, Check(l, p) PROVE Fades(e)
  <2>1. \A m \in Logins : pc'[m] = "fill" => pc[m] = "fill" /\ email'[m] = email[m] /\ got'[m] = got[m]
    BY <1>8 DEF Check, Goto, TypeOK
  <2>2. cache' = cache /\ held' = held
    BY <1>8 DEF Check
  <2> QED
    BY <1>0, <2>1, <2>2, NoFillFades
<1>9. ASSUME Tick PROVE Fades(e)
  <2>1. UNCHANGED <<pc, email, got, held>> /\ cache'[e] <= cache[e]
    BY <1>0, <1>9 DEF Tick, Aged, login
  <2> QED
    BY <2>1, NoFillFades
<1> QED
  BY <1>2, <1>3, <1>4, <1>5, <1>6, <1>7, <1>8, <1>9, FillFades DEF Next, Step

\* Once a row is left alone, a stale copy of it can come back into the cache
\* at most once for each lookup that was under way, although UpdateUser and
\* DeleteUser never tell the cache: the safety half of EventuallyCoherent.
THEOREM StaleCopiesRunOut == Spec => StalenessFades
<1>1. TypeOK /\ TypeOK' /\ [Next]_vars => [\A e \in Emails : Fades(e)]_vars
  BY NextFades
<1>2. [\A e \in Emails : Fades(e)]_vars =>
        [\A e \in Emails :
           Current(e)' = Current(e) =>
             /\ StaleLookups(e)' \subseteq StaleLookups(e)
             /\ Stale(e)' /\ (~Stale(e) \/ cache'[e] > cache[e]) =>
                  StaleLookups(e)' # StaleLookups(e)]_vars
  BY DEF Fades
<1> QED
  BY <1>1, <1>2, AccountTypeCorrect, PTL DEF Spec, StalenessFades
=============================================================================
