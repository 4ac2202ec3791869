------------------------------ MODULE Accounts ------------------------------
(***************************************************************************)
(* Accounts (pkg/storage/users.go) and logins (pkg/auth/auth.go): the table *)
(* `users` behind userByEmailCache, a TtlCache whose values are copies of  *)
(* rows.  Administrators change rows; only CreateUser tells the cache.     *)
(* Each statement and each access to the cache is a step.                  *)
(***************************************************************************)
EXTENDS TtlCache

CONSTANTS
  Emails, Passwords,
  MaxUsers,   \* bound on accounts ever created
  MaxChanges, \* bound on updates and deletions
  Logins,     \* login attempts under way, in any of the servers
  NoRow       \* no account, no copy of one

ASSUME AccountAssumption == MaxUsers \in Nat /\ MaxChanges \in Nat

Ids == 1..MaxUsers
Row == [id : Ids, email : Emails, pass : Passwords, active : BOOLEAN]
ASSUME NoRowAssumption == NoRow \notin Row

VARIABLES
  users,      \* the table: each id's row, NoRow before and after its life
  lastId,     \* AUTOINCREMENT
  changes,
  cache,      \* userByEmailCache: the time each entry has left,
  held,       \* and its value
  forget,     \* emails whose CreateUser has yet to delete the entry
  pc,         \* what each login does next
  email,      \* the account it asks for
  got,        \* the row it has read
  answer,     \* the id it was let in to and its credentials, NoRow for none
  granted,    \* history: rows that were live and active
  age,        \* history: ticks since the row under an email last changed
  raced,      \* history: emails cached since then from an older read
  fresh       \* history: emails not changed since their CreateUser returned

table  == <<users, lastId, changes>>
login  == <<pc, email, got, answer>>
ghosts == <<granted, age, raced, fresh>>
vars   == <<table, cache, held, forget, login, ghosts>>

Live(e) == {u \in Ids : users[u] # NoRow /\ users[u].email = e}

\* SELECT ... WHERE email = ?
Current(e) == IF Live(e) = {} THEN NoRow ELSE users[CHOOSE u \in Live(e) : TRUE]

TypeOK ==
  /\ users \in [Ids -> Row \cup {NoRow}] /\ lastId \in 0..MaxUsers
  /\ \A u \in Ids : users[u] # NoRow => users[u].id = u /\ u <= lastId
  /\ \A u, v \in Ids : users[u] # NoRow /\ users[v] # NoRow /\ users[u].email = users[v].email => u = v
  /\ changes \in 0..MaxChanges
  /\ cache \in [Emails -> Absent..TTL] /\ held \in [Emails -> Row \cup {NoRow}]
  /\ forget \subseteq Emails
  /\ pc \in [Logins -> {"idle", "evict", "query", "fill", "check"}]
  /\ email \in [Logins -> Emails]
  /\ got \in [Logins -> Row \cup {NoRow}] /\ answer \in [Logins -> Row \cup {NoRow}]
  /\ age \in [Emails -> 0..TTL + 1] /\ raced \subseteq Emails /\ fresh \subseteq Emails

Init ==
  /\ users = [u \in Ids |-> NoRow] /\ lastId = 0 /\ changes = 0
  /\ cache = [e \in Emails |-> Absent] /\ held = [e \in Emails |-> NoRow]
  /\ forget = {}
  /\ pc = [l \in Logins |-> "idle"]
  /\ email \in [Logins -> Emails]
  /\ got = [l \in Logins |-> NoRow] /\ answer = [l \in Logins |-> NoRow]
  /\ granted = {} /\ age = [e \in Emails |-> TTL + 1] /\ raced = {} /\ fresh = {}

\* The table becomes t: the history takes note.
Changed(t) ==
  /\ users' = t
  /\ granted' = granted \cup {t[u] : u \in {v \in Ids : t[v] # NoRow /\ t[v].active}}
  /\ LET touched == {e \in Emails : Current(e) # Current(e)'}
     IN  /\ age' = [e \in Emails |-> IF e \in touched THEN 0 ELSE age[e]]
         /\ raced' = raced \ touched
         /\ fresh' = fresh \ touched
-----------------------------------------------------------------------------
(* Administration: the handlers of the API.                                *)

\* Mutant: the column email is not UNIQUE.
CreateUserTwice(e, p) ==
  /\ lastId < MaxUsers
  /\ lastId' = lastId + 1
  /\ Changed([users EXCEPT ![lastId + 1] = [id |-> lastId + 1, email |-> e, pass |-> p, active |-> TRUE]])
  /\ forget' = forget \cup {e}
  /\ UNCHANGED <<changes, cache, held, login>>

\* The INSERT of CreateUser; an email in use is refused.
CreateUser(e, p) ==
  /\ lastId < MaxUsers /\ Live(e) = {}
  /\ lastId' = lastId + 1
  /\ Changed([users EXCEPT ![lastId + 1] = [id |-> lastId + 1, email |-> e, pass |-> p, active |-> TRUE]])
  /\ forget' = forget \cup {e}
  /\ UNCHANGED <<changes, cache, held, login>>

\* Mutant: CreateUser does not delete the entry.
CreatedKeeps(e) ==
  /\ e \in forget /\ forget' = forget \ {e}
  /\ fresh' = IF Current(e) # NoRow THEN fresh \cup {e} ELSE fresh
  /\ UNCHANGED <<table, cache, held, login, granted, age, raced>>

\* CreateUser deletes the entry of the email and returns.
Created(e) ==
  /\ e \in forget /\ forget' = forget \ {e}
  /\ cache' = AfterDelete(cache, e)
  /\ held' = [held EXCEPT ![e] = NoRow]
  /\ raced' = raced \ {e}
  /\ fresh' = IF Current(e) # NoRow THEN fresh \cup {e} ELSE fresh
  /\ UNCHANGED <<table, login, granted, age>>

\* UpdateUser: any of the fields, in one statement; the cache is not told.
UpdateUser(u, e, p, a) ==
  /\ changes < MaxChanges /\ users[u] # NoRow /\ Live(e) \subseteq {u}
  /\ changes' = changes + 1
  /\ Changed([users EXCEPT ![u] = [id |-> u, email |-> e, pass |-> p, active |-> a]])
  /\ UNCHANGED <<lastId, cache, held, forget, login>>

\* The handler passes on the fields the request names, the password hashed.
handleUpdateUser(u) ==
  \E e \in Emails, p \in Passwords, a \in BOOLEAN : UpdateUser(u, e, p, a)

DeleteUser(u) ==
  /\ changes < MaxChanges /\ users[u] # NoRow
  /\ changes' = changes + 1
  /\ Changed([users EXCEPT ![u] = NoRow])
  /\ UNCHANGED <<lastId, cache, held, forget, login>>
-----------------------------------------------------------------------------
(* Logins.                                                                 *)

Goto(l, from, to, row) ==
  /\ pc[l] = from
  /\ pc' = [pc EXCEPT ![l] = to]
  /\ got' = [got EXCEPT ![l] = row]

\* Mutant: a hit renews the entry.
AuthenticateRenews(l, e) ==
  /\ \/ Hit(cache, e) /\ Goto(l, "idle", "check", held[e]) /\ AfterSet(cache, e, cache')
     \/ cache[e] = Expired /\ Goto(l, "idle", "evict", NoRow) /\ UNCHANGED cache
     \/ cache[e] = Absent /\ Goto(l, "idle", "query", NoRow) /\ UNCHANGED cache
  /\ email' = [email EXCEPT ![l] = e]
  /\ answer' = [answer EXCEPT ![l] = NoRow]
  /\ UNCHANGED <<table, held, forget, ghosts>>

\* Authenticate asks GetUserByEmail, which looks into the cache ...
Authenticate(l, e) ==
  /\ \/ Hit(cache, e) /\ Goto(l, "idle", "check", held[e])
     \/ cache[e] = Expired /\ Goto(l, "idle", "evict", NoRow)
     \/ cache[e] = Absent /\ Goto(l, "idle", "query", NoRow)
  /\ email' = [email EXCEPT ![l] = e]
  /\ answer' = [answer EXCEPT ![l] = NoRow]
  /\ UNCHANGED <<table, cache, held, forget, ghosts>>
Evict(l) ==
  /\ Goto(l, "evict", "query", NoRow)
  /\ cache' = AfterMiss(cache, email[l])
  /\ UNCHANGED <<table, held, forget, email, answer, ghosts>>

\* ... then into the table; no such row, or an error, ends the login ...
Query(l) ==
  /\ \/ Current(email[l]) # NoRow /\ Goto(l, "query", "fill", Current(email[l]))
     \/ Goto(l, "query", "idle", NoRow)
  /\ UNCHANGED <<table, cache, held, forget, email, answer, ghosts>>

\* ... and caches the row it has read.
Fill(l) ==
  /\ Goto(l, "fill", "check", got[l])
  /\ AfterSet(cache, email[l], cache')
  /\ held' = [held EXCEPT ![email[l]] = got[l]]
  /\ raced' = IF got[l] # Current(email[l]) THEN raced \cup {email[l]} ELSE raced \ {email[l]}
  /\ UNCHANGED <<table, forget, email, answer, granted, age, fresh>>

\* Mutant: an inactive account is let in.
CheckInactive(l, p) ==
  /\ Goto(l, "check", "idle", NoRow)
  /\ answer' = [answer EXCEPT ![l] =
       IF got[l].pass = p
         THEN [id |-> got[l].id, email |-> email[l], pass |-> p, active |-> TRUE] ELSE NoRow]
  /\ UNCHANGED <<table, cache, held, forget, email, ghosts>>

\* Authenticate checks is_active and the password it was given.
Check(l, p) ==
  /\ Goto(l, "check", "idle", NoRow)
  /\ answer' = [answer EXCEPT ![l] =
       IF got[l].active /\ got[l].pass = p
         THEN [id |-> got[l].id, email |-> email[l], pass |-> p, active |-> TRUE] ELSE NoRow]
  /\ UNCHANGED <<table, cache, held, forget, email, ghosts>>

Tick ==
  /\ cache' = Aged(cache)
  /\ age' = [e \in Emails |-> IF age[e] > TTL THEN age[e] ELSE age[e] + 1]
  /\ UNCHANGED <<table, held, forget, login, granted, raced, fresh>>

Step(l) ==
  Evict(l) \/ Query(l) \/ Fill(l) \/ (\E p \in Passwords : Check(l, p))

Next ==
  \/ \E e \in Emails, p \in Passwords : CreateUser(e, p)
  \/ \E e \in Emails : Created(e)
  \/ \E u \in Ids : handleUpdateUser(u) \/ DeleteUser(u)
  \/ \E l \in Logins, e \in Emails : Authenticate(l, e)
  \/ \E l \in Logins : Step(l)
  \/ Tick

\* Time passes; a login and a CreateUser that have begun go on.
Fairness ==
  /\ WF_vars(Tick)
  /\ \A l \in Logins : WF_vars(Step(l))
  /\ \A e \in Emails : WF_vars(Created(e))
Spec == Init /\ [][Next]_vars
FairSpec == Spec /\ Fairness
-----------------------------------------------------------------------------
(* Properties.                                                             *)

\* Whoever is let in to an account has given an email and a password that
\* were this account's, at one time and while it was active: no mixture of an
\* old row with a new one, no account that took over the email or the id.
LoginWasGranted ==
  \A l \in Logins : answer[l] # NoRow => answer[l] \in granted

Stale(e) == Hit(cache, e) /\ held[e] # Current(e)

\* UpdateUser and DeleteUser leave the cached copy alone, but it outlives the
\* change by one cache lifetime at most, however often it is used; only a
\* lookup that was under way can start another.
StaleForOneLifetime ==
  \A e \in Emails : Stale(e) /\ e \notin raced => cache[e] + age[e] <= TTL

\* Once CreateUser has returned, the cache does not give its email to the
\* account that had it before, unless a lookup was under way.
CreatedIsFound == \A e \in fresh \ raced : ~Stale(e)

\* When administrators make no more changes, the cache comes to agree with
\* the table for good.
EventuallyCoherent == <>[](\A e \in Emails : ~Stale(e))
-----------------------------------------------------------------------------
(* The inductive invariant.                                                *)

\* A copy of a row that was live under e, and active if it says so.
CopyOf(e, r) == r \in Row /\ r.email = e /\ (r.active => r \in granted)

\* Behind LoginWasGranted: the rows, the cached copies and the copies logins
\* carry are each filed under their own email, and none that says it is active
\* has been made up of two.
CopyInv ==
  /\ \A u \in Ids : users[u] # NoRow => CopyOf(users[u].email, users[u])
  /\ \A e \in Emails : /\ held[e] # NoRow => CopyOf(e, held[e])
                       /\ cache[e] # Absent => held[e] # NoRow
  /\ \A l \in Logins : pc[l] \in {"fill", "check"} => CopyOf(email[l], got[l])

\* Behind EventuallyCoherent: lookups that carry a row the table no longer has.
StaleLookups(e) == {l \in Logins : pc[l] = "fill" /\ email[l] = e /\ got[l] # Current(e)}

\* While nobody changes the row under an email, no such lookup begins, and a
\* stale entry appears or is renewed only at the expense of one.
StalenessFades ==
  [][\A e \in Emails :
       Current(e)' = Current(e) =>
         /\ StaleLookups(e)' \subseteq StaleLookups(e)
         /\ Stale(e)' /\ (~Stale(e) \/ cache'[e] > cache[e]) =>
              StaleLookups(e)' # StaleLookups(e)]_vars
=============================================================================
