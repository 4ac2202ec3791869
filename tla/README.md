# Verification of marco

marco is a mail server in one Go process: SMTP, IMAP, POP3 and an HTTP API over
one SQLite database and a content-addressed blob store, with a pool of workers
that delivers outbound mail. This directory holds TLA+ models of its components,
TLC configurations that check them on small instances, and TLAPS proofs of the
main properties for every instance. `PROJECT.json` lists the components, the
runs, the hazards behind the properties, the findings, and which definition
models which lines.

## Inventory

The process is `pkg/marco.Run`: it opens the database, starts the queue workers
and one listener per protocol, and waits for a signal. Every connection and
every worker is a goroutine. They share the `*sql.DB`, which is opened with one
connection (`pkg/storage/db.go:21`), the blob store, three in-memory caches and
the metrics. One statement or transaction is therefore atomic; everything
between two of them is not, and most handlers issue several.

| Component | State | Operations | What is hard | What makes it correct |
|---|---|---|---|---|
| Delivery queue (`pkg/queue`, `pkg/storage/queue.go`) | table `queue` (status, attempt_count, next_attempt), each worker's claim | Enqueue, ClaimNext, Complete, Fail, deliverNext, deliverLocal, deliverToMX, deliverViaRelay, BounceMessage | many statements per delivery, workers in parallel, failing statements, shutdown without waiting, rows deleted under a claim | one worker per row, retry budget, no loss, no double delivery, honest bounces, every row leaves |
| Message store (`pkg/storage/messages.go`) | table `messages` (uid, flags) | InsertMessage, ListMessages, UpdateFlags, DeleteMessage, ExpungeMailbox | read-then-write over many rows by IMAP, POP3 and webmail at once | UIDs unique and ascending, no unmarked loss, no lost flags |
| SMTP server (`pkg/smtp`) | envelope of each session, local domains, table `greylist` | AUTH, MAIL, RCPT, DATA, RSET, ReloadDomains | greylist check of four statements, two loops of DATA with partial failures, domains and accounts that change | the delay is kept and ends, each recipient settled once, no relaying |
| Sessions (`pkg/auth/session.go`, `pkg/cache`) | table `sessions`, a cache of 60 s | CreateSession, ValidateSession, RevokeSession | cache filled from a row that is gone by then, expiry, eviction at the limit | a token ends with its expiry, a revoked one stays refused |
| Blob stores (`pkg/blobstore`) | files, or rows with a reference count | Put, Get, Delete | sharing by content, writing in pieces under the final name | a referred body exists and is whole |
| Backup (`pkg/marco/backup.go`) | tarball | Backup, Restore | runs beside the server, in several steps | what restores is complete |
| Accounts and logins (`pkg/storage/users.go`, `pkg/auth/auth.go`) | table `users`, a cache of 30 s that holds copies of rows | CreateUser, UpdateUser, DeleteUser, Authenticate | only CreateUser tells the cache; a lookup under way fills it from a row that has changed | nobody gets in with credentials that were never valid, a change is seen within one lifetime |
| Mailbox names (`pkg/storage/mailboxes.go`, `pkg/imap/user.go`) | table `mailboxes`, a cache of 30 s | SELECT, CREATE, DELETE, RENAME, the target of COPY | the same, with deletions and renames of several steps | a name stands for the mailbox that has it |
| IMAP IDLE notifier (`pkg/imap/notifier.go`) | channels per mailbox | Subscribe, Notify, Unsubscribe | lost wake-ups, a channel closed twice | a change wakes every idler |
| Rate limiter (`pkg/ratelimit`) | a bucket per address | Allow, refill, cleanup, Stop | three goroutines on one map, ticks that come late or are dropped, dropped buckets come back full | at most burst + rate * t admitted, nobody refused for good |
| SPF (`pkg/spf`) | none | Check | order of terms, prefixes inside a byte, failing lookups, circles of redirects | agrees with RFC 7208, ends |
| DMARC reports (`pkg/dmarc/report.go`) | table `dmarc_results` | collect, send, mark sent | rows added while a report is made, a crash before the mark, one address of several failing | each result reported once, none forgotten |
| DKIM, TLS/ACME, MIME, search, audit, metrics, logging | none to speak of | | | library code, parsing or output |

Interactions: SMTP DATA and the API insert messages and queue rows; workers
claim rows, read bodies from the blob store and insert into mailboxes; bounces
come back as messages (and, for DATA, as queue rows); IMAP, POP3 and webmail
change the messages and wake those who wait in IDLE; every server logs in
through the account cache; a new SMTP connection asks the rate limiter, and DATA
the SPF checker; reports enter the queue; administrators change accounts and
delete queue rows and sessions; a SIGHUP replaces the domain list; the backup
command reads files from another process.

## Modules

| Module | Models | Uses |
|---|---|---|
| `LeaseQueue` | what a queue without lease timeout promises: jobs leased to one party at a time, a bounded number of times, possibly lost | |
| `DeliveryQueue` | queue, workers, bounces, blob references, process life cycle | |
| `DeliveryRefinement` | the mapping of `DeliveryQueue` to `LeaseQueue` | both |
| `Mailbox` | the table `messages` under IMAP, POP3, webmail and deliveries | |
| `TtlCache` | `pkg/cache` as operators | |
| `SessionCache` | validation, logout and expiry of sessions | `TtlCache` |
| `SmtpIngress` | SMTP sessions, greylist, DATA, domain reload | |
| `BlobBackup` | the file store under concurrent writers, backup and restore | |
| `Accounts` | accounts, their cache and logins | `TtlCache` |
| `ImapUser` | a user's mailboxes by name, their cache, IDLE and the notifier | `TtlCache` |
| `RateLimit` | the token buckets of the SMTP server | |
| `Spf` | the SPF check, with a reference evaluation after RFC 7208 | |
| `DmarcReport` | the generator of aggregate reports | |
| `*Proofs` | the theorems about the module of that name; `DeliveryQueueProofs` also holds the refinement, and `SmtpIngressProofs` the theorems about `RateLimit`, which stands in front of it. `SenderAuthProofs` holds those about `DmarcReport` and `Spf` | |
| `MC*` | instances for TLC | |

### DeliveryQueue

An item is a queue row with its message row. `status`, `attempts`, `wait` are the
columns; `wait` is next_attempt relative to now, so that time need not be an
unbounded counter. `pc[w]` names the statement worker `w` of the pool runs next
inside `deliverNext`; each of its branches and early returns is a disjunct.
`prod` is where the request that queues an item stands: `StoreBody`,
`InsertMessage` and `Enqueue` are the statements of the API's send and of DATA,
and `UndoStore` is the `blob.Delete` of the API's error exits. A submission may
stop after any of them. `AdminDelete`
and `DeleteMessage` are what others may delete under a worker; `MoveSender`
changes the sender's address or takes away or gives back the INBOX, and a bounce
for a `homeless` sender is not written (`ndr.go:57-66`, recorded in `untold`).
`Shutdown` cancels
the context: from then on statements fail (`DbWorks`); `Exit` ends the process
with workers and submissions wherever they are, since `Run` does not call
`Manager.Stop`; a crash is `Exit` too. With `DbFaults` any statement may fail at any time.
Remote servers are nondeterministic: accept, refuse, or (`LateErrors`) accept
and then fail at QUIT. `refs` counts references in the SQLite store and is 0 or
1 in the file store, where `Delete` removes the file whoever else uses it;
`discarded` remembers the bodies somebody asked to delete. The counter
`QueuePending` is left out: the manager counts in a registry of its own, which
nobody serves, and counts up after the row was inserted.

### Mailbox

IMAP commands list the mailbox (`*Begin`) and then handle one message per step
(`*Step`) with the flags as they were listed; the masks of `UpdateFlags` are the
code's. POP3 keeps `marks` per connection beside the shared flags. A webmail
update is a read and a later write. Row ids are AUTOINCREMENT and UIDs are
`MAX(uid)+1` in the inserting transaction. `Span` bounds how many messages one
STORE or COPY names.

### SmtpIngress

One `pc` per session; the four statements of `checkGreylist` and every database
operation of the two loops of DATA are steps, any of which may fail
(`MaxFaults`). `fate` records what happened to each recipient position. An
account may be live without an INBOX ("bare", by `MoveInbox`), and an
authenticated session may name an address without a domain, which the second
loop passes over: both are lost although the sender is told 250. Time
since first_seen is kept up to the delay, which is all the comparison sees. The
SPF verdict is only logged by the code and is left out.

### SessionCache and TtlCache

A cache entry is the time it has left; `Get` of an expired one is two steps, since
the code unlocks between reading and deleting. `ValidateSession` is a cache
look-up, the query and the comparison with the fill; `RevokeSession` a cache
delete, then the row.

### BlobBackup

A body is two pieces. `Put` is `Stat`, then truncation, then two writes, each a
step; `linked` tells whether an open file still has its name. `Delete` is the
cleanup of a failed local delivery. The backup copies the database in one
stretch (a commit meanwhile makes the copy `torn`: nothing locks it, and the copy
may then outgrow its header and fail), then lists
and copies file by file with the size check of the tar writer. `Restore(fresh)`
verifies every digest before it writes; it runs on the machine of the backup,
where other files stay, or on an empty one (`fresh`), where nothing is there but
what the tarball brings. A failure after the check leaves a mixture
(`broken`). The tarball of a backup that failed is closed like any other and can
be restored too (`salvaged`). The histories `deleted` and `cut` are the bodies
that were deleted and those a crash or a full disk hit. That the server is
stopped while restoring is the operator's part.

### Accounts

`users` is the table, `cache` and `held` are `userByEmailCache`: the time an
entry has left and the copy of the row it holds. `Authenticate` asks the cache,
`Query` reads the row, `Fill` stores it, `Check` compares the password and the
active flag; the entry may have expired (`Evict`), and the row may have changed,
between any two. `CreateUser` inserts and `Created` deletes the entry; `UpdateUser`
and `DeleteUser` are one statement and leave the cache alone. Argon2id is equality
of passwords, the only thing the code uses it for. The histories `granted`, `age`,
`raced` and `fresh` say what was once valid, how long ago a row changed, and
whether a lookup from before the change has filled the cache since.

### ImapUser

`box` gives each mailbox its name. A command that names a mailbox looks it up
through the cache (`GetMailbox`, `Evict`, `Query`, `Fill`) and acts on the id it
found. `DeleteMailbox` reads the name from the row, deletes the row and deletes
that name from the cache (`Drop`); a rename clears the cache (`Clear`). `subs`
and `closed` are the notifier's channels; `Subscribe`, `Unsubscribe` and `Notify`
hold its lock and are one step each. `Change` stands for the commands that end
with `Notify` when they have changed the selected mailbox; `Copy` notifies the
target and the source. Each round of their loops (`ChangeRow`) changes a message,
and from then on `due[s]`, who waits there, is to be woken by session `s`.
`Changed` ends the loop, to `Notify` or with an error, which wakes nobody
(`failed`). What they do to the messages is in `Mailbox`. The library
at the version used never calls `Mailbox.Idle`; the model is of the code as it is
written to be called.

### RateLimit

A token is `Unit` parts and a refill adds `PerTick` parts, in place of floats
(any rational rate is exact in parts of a token). `due` is
the ticker's channel, which holds one tick and drops the rest, so refills may be
late and may be missed; `got` is the tick that the loop has received and waits
for the mutex with. `meter` is a leaky bucket beside each address: it gains
`Unit` for every connection let in and loses `PerTick` with every tick of real
time. A bound on it is a bound on every interval: at most burst + rate * t, and
two refills more, the one in the channel and the one in the loop.
`FillsWhileIdle` is the premise of `RateBound`: ten minutes fill a bucket,
rate * 600 s >= burst + 2 refills. The default, 10/s and 20, is far from the
limit, but nothing in the configuration enforces it, and where it fails
`cleanupLoop` gives tokens away. A burst of 0, which admits nobody, is outside
the model.

### Spf

What the DNS holds is chosen in `SpfInit`, as the addresses, MX hosts and texts of
each name. A term of a record is told apart by how it is written, since the code
takes it by the first of its text tests that fits: `MatchText` are the tests on
the address itself, `MatchAddress` those that look up a name (among them terms
whose text is no name, which the resolver refuses), `LookupMX` and `MXHost` the
loop over hosts, with `matchMXWithCIDR` for `mx/name/24`. `Redirect` enters the
record of another name one deeper; an empty target is permerror, one that is no
name a failed lookup. Each lookup may fail; a failed one ends the check with
temperror, except for an MX host, which is passed over (`failed` records both).
`evaluateInclude` cannot be reached: an earlier
test takes every term that holds a colon and looks up what follows its second
character.

`RfcVerdict` is the reference: `RfcLevels` gives the verdicts on all
names with n levels of nesting left, each level made from the one below
(`RfcStep`). It knows nothing of steps, and compares addresses bit by bit where
`cidrMatch` masks bytes. It is RFC 7208's verdict on the records the code reads
as the RFC does, and the properties are stated for those: `TermOK` lists the
terms (`all`, `ip4:`, `ip6:`, `a`, `a:`, `mx`, `redirect=`, `exp=`, in lower case
and well written), `RecordOK` asks for each modifier once at most, `WellFormed`
for one SPF text a name and not too many MX hosts, and `WithinLimit` for the
RFC's limit of lookups, which `RfcLookups` counts and the code does not. What the
code makes of other records is under Findings. `DnsAssumption` says of the
constants only that names, terms and bytes are such; the texts of the model may
be malformed, circular or missing.

### DmarcReport

One `pc` for `generateReports` and `generateDomainReport`: `GetDMARCDomains`,
then per domain the DNS lookup, the query, one queued report per entry of the
rua list (an address listed twice is two entries), and at
the end one statement that marks every unsent row of the reported domains.
Every statement and lookup may fail and the process may crash between any two
(`MaxFaults` in all), while `InsertDMARCResult` records more. The lookup of a
domain in `Broken` fails at every cycle, as that of a malformed record does.

## Runs

| Run | Shows | Bounds |
|---|---|---|
| `delivery_safety` | `ExclusiveClaim`, `NothingVanishes`, `AtMostOnce`, `HonestBounce`, `ReferencedBlobExists`, refinement of `LeaseQueue` | 2 items of one SMTP transaction sharing a body, 2 workers, 1 retry, relay, the SQLite store, failing statements, 1 shutdown or crash |
| `delivery_live` | `ExhaustedIsBounced`, `ReferencedBlobExists`, `EventuallyLeaves` | a user's message and a report, the file store, 2 workers, 2 MX hosts, late errors, no faults |
| `delivery_restart` | **violated** `EventuallyLeaves` with one restart | 1 item, 1 worker |
| `mailbox_access` | `UidsFollowArrival`, `DeletedWasMarked`, `OthersKeepFlags` | one IMAP, POP3 and webmail client each, 3 messages, 2 flags, 1 message a command |
| `session_cache` | `CacheBounded`, `AcceptedInTime`, `RevocationTakesEffect` | 2 requests, 2 tokens, room for one |
| `smtp_ingress` | `SettledOnce`, `NoRelay`, `HonestReport`, `GreylistWaits`, `GreylistEnds` | 2 connections of one client, 3 addresses (of the host, of a hosted domain, without a domain), 2 recipients in all, 1 failing statement |
| `blob_backup` | `RestoredIsWhole`, `BodyArrives` | 3 writers of one body, 1 crash, restore onto the same and onto an empty machine |
| `spf_check` | `Conforms`, `GrantsOnlyWhatRfcGrants`, `Terminates` | every pair of 26 terms for one name, 5 contents of the other, 3 clients, nesting and lookups limited to 3, any lookup failing |
| `dmarc_report` | `ReportedOnce`, `UnreportedHasCause`, `EventuallySent` | 4 results of 3 domains, with two report addresses, with none and with a malformed record, 2 faults |
| `accounts_cache` | `LoginWasGranted`, `StaleForOneLifetime`, `CreatedIsFound`, `EventuallyCoherent` | 2 emails, 2 passwords, 2 accounts ever, 1 update or deletion, room for one entry |
| `imap_user` | `NameCacheAgrees`, `SubscriptionsExact`, `ChangesReachIdlers` | 2 sessions (symmetric), 2 names, 2 mailboxes ever |
| `rate_limit` | `RateBound`, `NeverStarved` | 2 addresses, bursts of 2, two thirds of a token per tick, dropped after 5 idle ticks |

Type correctness is a theorem of every module; the runs of `SmtpIngress`,
`Accounts` and `ImapUser` check `TypeOK` as well. `AttemptBudget` and
`ActiveHasOwner` of `DeliveryQueue` are theorems; on the instances the refinement of `LeaseQueue` and
`EventuallyLeaves` would show their violation.

Why the bounds are enough: claims, budgets and interleavings need two workers
and two rows, and one retry distinguishes first, last and exhausted attempts;
a third row or worker adds no new pair. The backoff schedule is one tick,
because the code compares only due or not due. The shared body is checked with
the store that counts references; with the file store it is what the first
finding below is about. A stale read needs two actors
and one row; UIDs need three, so that one can be deleted between two arrivals.
A cache of one entry is at its limit at once. Bodies
of different keys meet only in the verdict on a whole backup, so one key with
three writers is worth more than two keys with two. In `smtp_ingress` the
constraint keeps one connection between commands while the other is in DATA or
names the address without a domain: DATA shares no state with another DATA or
with greylisting, and such an address is never greylisted.

The two terms of `spf_check` give every order of two mechanisms, and with the
redirects to oneself, to the other name and back, every kind of nesting up to a
limit of 3 (10 in the code) and over it, and records within and beyond the limit of lookups; bytes of two bits let prefixes end
inside a byte, at its edge, at 0 and past the address. Two faults of
`dmarc_report` are enough for a failed report and a failed mark in one cycle, or
a crash and a failure after it. In `accounts_cache` a mixture of old and new
takes one account, its change and a lookup between them; a second account takes
over a freed email, and a cache of one entry evicts at once. In `imap_user` each
of the two names can be deleted, renamed or taken by the other mailbox while the
other session looks it up. In `rate_limit` a token is no whole number of refills,
so buckets stop short of a token, at it and beyond it, and the bound is met with
equality. The sizes proved are not bounded at all.

Deadlock checking is off where a model can legitimately run dry (all items gone,
all rows used, a check that is done); `session_cache` and `rate_limit` never stop
and are checked.

### Fairness

- `DeliveryQueue`: the clock ticks, a server that was told to stop ends, a stopped
  one is started again, each
  worker's ticker makes it claim when something is due, and a delivery that has
  begun goes on. The last one assumes that a remote server answers or the
  connection breaks: `deliverToMX` sets no deadline after dialling
  (`pkg/queue/worker.go:245`), so a silent server holds a worker for ever.
- `SessionCache`: time passes, and a request that has begun goes on (its
  statements return). Nobody is obliged to log in, validate or log out.
- `BlobBackup`: a writer that has begun goes on, for `BodyArrives` only.
- `Accounts`: time passes, and a login or a `CreateUser` that has begun goes on.
- `Spf`: a lookup returns, if only because the resolver gives up.
- `DmarcReport`: while the generator runs the 24 h ticker
  ticks, and a cycle that has begun goes on. Passing faults are finitely many,
  malformed records fail for ever. Nobody is obliged to start the generator, and
  no code does: `EventuallySent` ends where it does not run.
- `RateLimit`: time passes, and the refill loop gets to receive and, with the
  mutex, to refill after a tick. With the limiter stopped nobody refills, hence `stopped` in `NeverStarved`.

## Findings

`delivery_restart`: rows active at shutdown or crash stay active for ever.
`ClaimNext` takes pending rows only, nothing turns active ones back at start, and
`Run` does not wait for the workers. The trace ends with `Exit` and `Restart` in
the middle of a delivery, and then the row is active and nobody holds it.

Met while modelling, not the subject of a run:

- a failed local delivery deletes a body that the Sent copy and the queue row
  still use, with the file store, the default, which has no reference counts
  (`worker.go:195`, and `api/mail.go:258` for a submission that fails);
  `ReferencedBlobExists` says that nothing else loses a body;
- a UID is assigned again after the newest message is expunged
  (`messages.go:33`), against `root-info.md:320`; POP3's UIDL shows it as well;
- `STORE +FLAGS` writes back the flags it has listed and loses one another
  session has just set (`imap/mailbox.go:267`);
- a validation under way puts a revoked token back into the cache, where it is
  accepted for up to another lifetime (`session.go:65`); `RevocationTakesEffect`
  shows it ends there;
- `FSStore.Put` returns a key whose file another writer has only half written
  (`fs.go:46`); `BodyArrives` shows that the rest follows unless somebody fails;
- an item an administrator deletes while it is being delivered is delivered all
  the same (`handlers.go:273`). `QueuePending` counts in a registry that is not
  the served one (`manager.go:50`), is counted up after the insert, and is not
  counted down by that deletion;
- an item whose body cannot be read is dropped after its last attempt without a
  bounce (`worker.go:54-107`), which `ExhaustedIsBounced` excuses for a body the
  file store has lost;
- no bounce is written for a sender whose address was changed, or whose INBOX was
  renamed or deleted, since the message was sent (`ndr.go:57-66`);
- POP3 QUIT expunges everything that carries `\Deleted`, also what an IMAP client
  marked (`pop3/session.go:533`); EXPUNGE deletes by its listing, although
  another session has cleared the flag since (`imap/mailbox.go:326`). Hence
  `DeletedWasMarked` says "at some time";
- SEARCH can answer sequence number 0 (`imap/mailbox.go:188`), and sequence
  numbers shift under a client when another session expunges
  (`imap/mailbox.go:246`);
- a failing account lookup in DATA makes every local recipient "mailbox does not
  exist" (`smtp/session.go:213`); a recipient without INBOX or with a failing
  insert is lost although the sender gets 250 (`smtp/session.go:223`), and so is
  one without a domain, which an authenticated client may name (`:241`);
- `MAIL FROM:<>` is refused with 553 (`smtp/session.go:34`), so no server can
  return a bounce to marco;
- a domain that is dropped between RCPT and DATA has its mail queued for outside
  (`smtp/backend.go:62`); `NoRelay` allows exactly this;
- the account cache is not told of UpdateUser and DeleteUser (`users.go:97`): a
  changed password or a deactivated account is honoured for up to 30 s, and a
  lookup under way can start another 30 (`StaleForOneLifetime`);
- account creation that fails between its statements leaves an account without
  INBOX (`auth.go:71`);
- DeleteMailbox deletes from the cache the name it read before a concurrent
  rename (`mailboxes.go:122`); `NameCacheAgrees` allows exactly this and a
  lookup that was under way;
- DeleteUser removes an account's mailboxes by a cascade that the cache of
  mailbox names is not told of (`schema.go:34`);
- a backup that fails closes its tarball like any other, and Restore takes it for
  a whole one (`RestoredIsWhole` is about backups that reported success);
- the backup copies the database file without a lock, and a half-written blob in
  the tarball makes Restore refuse all of it; `db.go:16` passes
  `_journal_mode`, a parameter of another driver, so WAL is not switched on;
- deliveries by SMTP, by the queue, by POP3 and by webmail do not notify IDLE,
  although `root-info.md:322` says so, a STORE, COPY or EXPUNGE that fails half
  way returns without notifying, and go-imap v1.2.1 never calls `Mailbox.Idle`;
- SPF terms with a colon or a prefix length (`include:`, `mx:`, `a/24`) end as
  temporary errors, since the text behind the first test that fits is looked up
  as a name (`spf/checker.go:121`), and so does a sender whose name does not
  exist, or a mechanism whose name has no data, where RFC 7208 says no match; a
  prefix length is only read behind `A:` in capitals, may be negative, and is an
  IPv4 length also for IPv6. Lookups are not counted (4.6.4), the first of
  several `redirect=` is followed where section 6 says permerror, and names in
  upper case are unknown or misread. `Conforms` is about the other records;
- results recorded while a report is made are marked as sent with it
  (`storage/dmarc.go:85`), which `UnreportedHasCause` allows; one report record
  mixes results that passed with results that failed (`report.go:57`); a domain
  whose DMARC record is malformed is looked up again at every cycle and its
  results stay unsent for ever (`report.go:215`); nothing
  records results or starts the generator at this commit;
- with a rate so low that ten minutes do not fill a bucket, `cleanupLoop` gives a
  full one in exchange for an empty one (`ratelimit.go:77`);
- a connection over the rate limit is told that authentication is unsupported,
  and neither the API's rate limit nor `Limiter.Stop` is used.

## Proofs

TLAPS checks every theorem with no assumption but the named `ASSUME`s on the
constants, which TLC evaluates on each instance.

**DeliveryQueue** (any items, workers, retries, delays; `DeliveryQueueProofs`).
The inductive invariant is in `DeliveryQueue` itself. `ExclusiveClaim` is not
inductive alone: `OwnerInv` adds that the row of a working worker is `active` or
gone, so that a `pending` row, the only kind ClaimNext takes, belongs to nobody.
`BudgetInv` ties `attempts` to the number of claims; `OutcomeInv` says what a
worker has achieved when it reaches `complete` or `bounce`, which gives
`NothingVanishes` and half of `HonestBounce`; `OnceInv` (no late errors) that
nothing still to be tried was accepted; `OwnedInv` gives `ActiveHasOwner`;
`CountInv` counts the references of the SQLite store: a body has one for each
worker inside deliverLocal, one for each submission that may still give it back,
and one more while a message row refers to it or will (`Owed`; here the items are
assumed to be finitely many). `FileInv` is its counterpart for the file store: a
file is there until it is discarded. Together they give `BodiesSurvive`. The
proofs go action by action.

`VainAttemptsAreBounced`
rests on `SilentInv`: the branches of deliverNext that fail without a bounce are
reached only for a message row that is gone or, with the file store, for a body
that was discarded; who reaches `bounce` stores a report or is on record as
`untold`.

**Refinement** (`DeliveryQueueProofs`): a step of a worker is a step of
`LeaseQueue` or a stutter, using `OwnerInv` and `BudgetInv`: exclusive claims are
what makes the release of one worker the release of the lease.

**Mailbox** (`MailboxProofs`): `UidsInOrder` from `NextUid` exceeding every
existing UID; `NoUnmarkedLoss` from `MarkInv`, which extends the history of marks
to the rows that an EXPUNGE has listed; `FlagsArePrivate` action by action.

**SessionCache** (`SessionCacheProofs`): `AcceptanceEnds` from `CacheInv`, an entry
with c ticks left was made from an unexpired session TTL - c ticks ago;
`CacheIsBounded` from the cardinality of eviction.

**Accounts** (`AccountsProofs`; any emails, passwords, accounts, logins, lifetimes
and sizes). `LoginWasGranted` is about the answer only, which `Check` puts together
from the email asked for and the copy a login carries. `CopyInv` follows that
copy back: rows, cached copies and carried copies are filed under their own
email and, if they say they are active, were live rows as they stand
(`LoginsAreGranted`); an entry that is there has a value, so a login that
compares passwords has a row (`AccountTypeCorrect`). `StaleForOneLifetime` and
`CreatedIsFound` are inductive with the types: a change restarts the age of its
email when no entry has more than a lifetime left, the clock takes from the entry
what it gives to the age, and a fill agrees with the table or is on record as raced.

**ImapUser** (`ImapUserProofs`; any names, mailboxes, sessions, lifetimes and
sizes). `LookupInv` says what a command knows at each step. `NameCacheAgrees` is
not inductive: its excuse, that some session has yet to come to the cache, is no
use if that session will delete another name than the stale one. `CacheInv` has
`WillDrop` in its place, the entry is one that the session does delete
(`CachedNamesAreRight`). `IdleInv` adds to `SubscriptionsExact` and
`ChangesReachIdlers` that whoever has been woken or is due still waits, in a
selected mailbox, and that a session inside its loop or on its way to the notifier
owes it at least one mailbox (`ChannelsAreExact`, `NoWakeupIsLost`: a wake-up that
is due has come, is still owed by whoever changed the mailbox, or was lost by a
command that failed half way, and in no other way).

**SmtpIngress** (`SmtpIngressProofs`): `GreyInv` says that first_seen is the time
of the first attempt and that whoever passed, or is about to be marked, has
waited since; `GreylistIsPatient` and `GreylistIsFinite` follow step by step.
For DATA, `EnvelopeInv` says that outside the loops nothing is settled and that a
recipient being greylisted still has room (`EnvelopeIsBounded`). `LoopInv` is the
loop invariant of both loops at once: `PassedBy` tells whether the loop that is to
settle a position, the first for those the lookup found and the second for the
rest, has passed it, and a position has exactly one outcome if it has and none
if it has not (`RecipientsSettledOnce`); only who was not found is bounced
(`ReportsAreHonest`). `RelayInv` keeps, from RCPT to the end of DATA, that the
recipients of a session that has not authenticated are in domains that were
local at some time, whatever a reload does between (`NoOpenRelay`).

**BlobBackup** (`BlobBackupProofs`): `FileInv`, the body of a row or of a writer
past its truncation has a file until somebody deletes it, and `WalkInv`, every
row of the copied database whose body was not deleted is still to be listed,
being copied or in the tarball, and all of them are in it when `Backup` reports
success. Both rest on the order "database first, blobs second" in `Backup`.
`RestoreIsComplete` covers the restore onto an empty machine, where the tarball is
all there is.

**DmarcReport** (`SenderAuthProofs`; any results, domains, addresses and faults).
`CycleInv`: a domain is to be done, being done or reported, one of them at a
time, and a batch holds unsent results of the domain being done. `CoveredInv`:
an unsent result of a domain that has been read is in the batch, tried or late,
so that the mark, which takes whatever is unsent, finds nothing else
(`MarkedWasReported`). `OnceInv`: a reported result is marked, will be at the end
of the cycle, or belongs to a cycle that failed; hence the batch of a later
cycle cannot hold it (`NoDoubleReport`).

**Spf** (`SenderAuthProofs`; any names, DNS contents, clients, byte and address
sizes and nesting limit). `CidrMatchIsSamePrefix` says that `cidrMatch` compares
exactly the leading bits, for any prefix length, also below 0 and beyond the
address: two bytes that agree after a shift agree in each bit above it, by
induction on the number of bits. `Conforms` speaks of the last state only.
`OnTrack` carries it through the check: the reference's verdict on the sender is
its verdict on the domain and at the depth `evaluate` has come to, and no term
before `pos` matches. A redirect keeps it by unfolding one level of `RfcLevels`, a
term that does not match by moving `pos`, and one that matches is the first hit.
In the loop over MX hosts `HostsInv` adds that a host with the client's address
is still to come. `LoopInv` is where the two properties part: a host that is
passed over leaves the track, and all that can be said from there on is that the
reference passes the client, if mx terms are qualified by `+`; hence `failed` in
`Conforms` and `PlainMX` in `GrantsOnlyWhatRfcGrants` (`SpfConforms`, `SpfGrants`).

The induction theorems of the library take a predicate as parameter, which the
provers cannot instantiate. The proofs use the order of the naturals as a set of
pairs instead (`NatLess`): it is well founded, so a set of naturals that is not
empty has a least element (`Least`), which is induction over sets
(`SetInduction`), and from it follow that the recursive functions `Pow2` and
`RfcLevels` exist and satisfy their equations (`Recursion`, `Pow2Def`,
`LevelsUnfold`).

**RateLimit** (`SmtpIngressProofs`; any sizes with `SizeAssumption`):
`RateIsBounded` from `MeterInv`. The bound alone says nothing
of the tokens still to be had, so `MeterInv` bounds their sum with the meter by
`Allowance`, a full bucket and a refill for each of the two places, channel and
loop, that holds no tick; an address without a bucket has meter 0; and
a meter that has been idle for n ticks has lost n refills, which with the premise
`FillsWhileIdle` is what makes `Cleanup` harmless.

**What liveness rests on.** Fairness is out of the prover's reach, so the seven
liveness properties (`EventuallyLeaves`, `RevocationTakesEffect`, `BodyArrives`,
`Terminates`, `EventuallySent`, `EventuallyCoherent`, `NeverStarved`) are only
model-checked. For each, the part that is about steps is a theorem: what must
happen only finitely often, or may not be undone, whatever the size.

| Liveness | Theorem | What it leaves to fairness |
|---|---|---|
| `EventuallyLeaves` | `AttemptsComeToAnEnd`: `deliverNext` only moves on (`Ahead`, `mx`), and when it returns its row has left or has used one more of the attempts that `BudgetIsKept` bounds | that workers and the clock go on |
| `RevocationTakesEffect` | `RevokedStaysOut`: a revoked row stays gone (`GoneInv`), so the validations that may still cache the token only get fewer, by one with each renewal | that the last of them, and the last entry, run out |
| `BodyArrives` | `BodiesAreOnTheirWay`: who truncated a file last is to write each piece it lacks (`PiecesInv`) | that writers go on |
| `Terminates` | `SpfForward`: each step ends the check, or goes to a deeper record, a later term or a later host, which `SpfTypeCorrect` bounds | that lookups return |
| `EventuallySent` | `NoResultIsForgotten`: a cycle takes in all that is unsent and, while nothing fails, drops none of it unmarked but that of domains in `Broken` (`BetweenInv`) | that a cycle comes that nothing fails in |
| `EventuallyCoherent` | `StaleCopiesRunOut`: without changes, lookups that carry an old row only get fewer, by one with each stale entry made or renewed | as for sessions |
| `NeverStarved` | `RefusalsCostNothing`: tokens are taken only whole and only for who is let in, and each refill adds to them | that refills come |

The properties of the right-hand theorems (`AttemptsEnd`, `RevokedFades`,
`Arriving`, `StepsForward`, `NoneLeftBehind`, `StalenessFades`, `SavingsKept`) and
the invariants behind them hold on the instances of the runs too. Every
invariant and action property a run checks is stated by a theorem.

## Not modelled

Wire protocols (go-smtp, go-imap, the POP3 parser), TLS, cryptography, MIME,
search, the audit report and log lines: libraries, parsing or output without
state of their own. Commands that only read. Aliases, domains and contacts,
which are single statements that nothing modelled depends on; the migrations,
which run once before anything else; `pkg/dmarc/policy.go`, a stateless
comparison nobody calls. The S3 store, which nothing constructs. The SQLite store
in backups (its blobs are rows of the copied database).

## Plan

Done: the delivery queue with its abstract specification and refinement, the
message store, sessions, SMTP ingress, the file store and backup, accounts,
mailbox names and IDLE, the rate limiter, SPF and DMARC reports; proofs of every
safety property the runs check, of the refinement, and of what each liveness
property rests on.

Left, in this order:

1. The composition of `Accounts` with `SessionCache`: a login creates the session
   and an account's deletion removes it.
2. `CreateUser` of `pkg/auth` as the several statements it is, with the default
   mailboxes of `ImapUser`.
3. SEARCH and STORE by sequence number in `Mailbox`, for the two stale listings
   under Findings.

## How to run

    tlc -workers 2 -config MCDeliveryQueue_safety.cfg MCDeliveryQueue
    tlapm DeliveryQueueProofs.tla

and likewise for each run and each `*Proofs` module.
