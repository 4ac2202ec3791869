--------------------------- MODULE DeliveryQueue ---------------------------
(***************************************************************************)
(* The outbound delivery queue of marco: the SQLite table `queue`          *)
(* (pkg/storage/queue.go), the pool of delivery workers that claims its    *)
(* rows (pkg/queue/worker.go), the bounce generator (pkg/queue/ndr.go),    *)
(* the blob store the message bodies live in (pkg/blobstore) and the       *)
(* process life cycle around them (pkg/marco/marco.go).                    *)
(*                                                                         *)
(* A database statement or transaction is one step: the pool is opened     *)
(* with SetMaxOpenConns(1) (pkg/storage/db.go), so statements never        *)
(* overlap.  Between two statements of a worker anything else may happen:  *)
(* another worker, the admin API, a mail client, a shutdown.               *)
(*                                                                         *)
(* An item stands for one queue row together with the one row of           *)
(* `messages` it refers to (every caller of Enqueue inserts a message of   *)
(* its own); row ids are AUTOINCREMENT and never come back.                *)
(***************************************************************************)
EXTENDS Integers, Sequences, FiniteSets

CONSTANTS
  Items,        \* queue rows that may be created (with their message row)
  Workers,      \* delivery goroutines, cfg.Queue.Workers
  Blobs,        \* content-addressed bodies
  BlobOf,       \* the body of each item: [Items -> Blobs]
  Origin,       \* who queued it: [Items -> Origins]
  MaxRetries,   \* cfg.Queue.MaxRetries
  Delays,       \* the backoff schedule of nextAttempt, in ticks
  MaxLag,       \* bound: how long overdue a row is remembered to be
  MaxMX,        \* bound: number of MX hosts a lookup may return
  UseRelay,     \* TRUE iff a smart host is configured
  Backend,      \* "fs" or "sqlite", cfg.Storage.BlobBackend
  LateErrors,   \* TRUE iff a remote may accept and the call still fail
  DbFaults,     \* TRUE iff a statement may fail while the server runs
  MaxCrashes,   \* bound: number of times the process ends
  NoItem        \* the claim of an idle worker

Origins == {"sent", "outbound", "ndr"}

ASSUME ItemsAssumption == /\ NoItem \notin Items
                          /\ IsFiniteSet(Items)
                          /\ BlobOf \in [Items -> Blobs]
                          /\ Origin \in [Items -> Origins]
ASSUME WorkersAssumption == IsFiniteSet(Workers)
ASSUME BoundsAssumption == /\ MaxRetries \in Nat
                           /\ MaxLag \in Nat
                           /\ MaxMX \in Nat \ {0}
                           /\ MaxCrashes \in Nat
ASSUME DelaysAssumption == Delays \in Seq(Nat) /\ Len(Delays) > 0
ASSUME SwitchAssumption == /\ UseRelay \in BOOLEAN
                           /\ LateErrors \in BOOLEAN
                           /\ DbFaults \in BOOLEAN
                           /\ Backend \in {"fs", "sqlite"}

VARIABLES
  \* The database and the blob store: they survive a crash.
  status,     \* state of the queue row
  attempts,   \* queue.attempt_count
  wait,       \* queue.next_attempt minus the current time
  messages,   \* items whose row of `messages` exists
  homeless,   \* items whose sender's address leads to no INBOX now
  refs,       \* blobs.refcount ("sqlite"), 1 for an existing file ("fs")
  \* The process.
  proc,       \* "running", "stopping" (the context is cancelled), "down"
  pc,         \* what each worker does next
  item,       \* the item each worker has claimed
  mx,         \* MX hosts each worker has not tried yet
  prod,       \* where the request that queues an item stands
  \* History, read by the properties and by no guard but `crashes`.
  claims,     \* how often an item was claimed
  accepts,    \* how often an item's body was accepted or stored in an INBOX
  ndrs,       \* bounce messages stored for an item
  removed,    \* items whose row an administrator or a cascade removed
  discarded,  \* bodies whose deletion somebody asked for
  untold,     \* items whose report found no INBOX
  crashes     \* how often the process ended

rowVars  == <<status, attempts, wait>>
procVars == <<proc, crashes>>
histVars == <<claims, accepts, ndrs, removed, discarded, untold>>
vars == <<rowVars, messages, homeless, refs, procVars, pc, item, mx, prod,
          histVars>>

Status == {"new", "pending", "active", "gone"}

Queued == {"pending", "active"}

\* Where a worker stands inside deliverNext: the statement it runs next.
Steps == {"idle", "load", "read", "route", "put", "find", "cleanup",
          "relay", "lookup", "mx", "complete", "failSilent", "failNotify",
          "bounce"}

\* Where handleSendMessage or Session.Data stands with an item: nothing done
\* yet, body stored, message row inserted, body to be given back, returned.
ProdSteps == {"start", "stored", "inserted", "undo", "done"}

\* The worker still works on its claim's queue row.
Holding == Steps \ {"idle", "bounce"}

TypeOK ==
  /\ status   \in [Items -> Status]
  /\ attempts \in [Items -> 0..MaxRetries]
  /\ wait     \in [Items -> Int]
  /\ messages \subseteq Items
  /\ homeless \subseteq Items
  /\ refs     \in [Blobs -> Nat]
  /\ proc     \in {"running", "stopping", "down"}
  /\ pc       \in [Workers -> Steps]
  /\ item     \in [Workers -> Items \cup {NoItem}]
  /\ mx       \in [Workers -> 0..MaxMX]
  /\ prod     \in [Items -> ProdSteps]
  /\ claims   \in [Items -> Nat]
  /\ accepts  \in [Items -> Nat]
  /\ ndrs     \in [Items -> Nat]
  /\ removed  \subseteq Items
  /\ discarded \subseteq Blobs
  /\ untold   \subseteq Items
  /\ crashes  \in 0..MaxCrashes
  /\ \A w \in Workers : /\ pc[w] # "idle" => item[w] \in Items
                        /\ pc[w] = "mx" => mx[w] > 0

Init ==
  /\ status   = [i \in Items |-> "new"]
  /\ attempts = [i \in Items |-> 0]
  /\ wait     = [i \in Items |-> 0]
  /\ messages = {}
  /\ homeless = {}
  /\ refs     = [b \in Blobs |-> 0]
  /\ proc     = "running"
  /\ pc       = [w \in Workers |-> "idle"]
  /\ item     = [w \in Workers |-> NoItem]
  /\ mx       = [w \in Workers |-> 0]
  /\ prod     = [i \in Items |-> "start"]
  /\ claims   = [i \in Items |-> 0]
  /\ accepts  = [i \in Items |-> 0]
  /\ ndrs     = [i \in Items |-> 0]
  /\ removed  = {}
  /\ discarded = {}
  /\ untold   = {}
  /\ crashes  = 0

-----------------------------------------------------------------------------
(* What the steps are made of.                                             *)

\* A statement run with the server's context: it fails once cancel() was
\* called, and may fail earlier when the disk does.
DbWorks == proc = "running"
DbFails == proc = "stopping" \/ (DbFaults /\ proc = "running")

\* Mutant: Delete removes the row whatever its count is.
BlobDeleteUncounted(b) == [refs EXCEPT ![b] = 0]

\* Store.Put and Store.Delete of the two backends.
BlobPut(b) == [refs EXCEPT ![b] = IF Backend = "fs" THEN 1 ELSE @ + 1]
BlobDelete(b) ==
  [refs EXCEPT ![b] = IF Backend = "fs" \/ @ = 0 THEN 0 ELSE @ - 1]

\* The file store ignores the context, the SQLite store runs statements.
BlobWorks == proc # "down" /\ (Backend = "fs" \/ DbWorks)
BlobFails == DbFaults \/ (Backend = "sqlite" /\ DbFails)

\* nextAttempt: the delay after the k-th failure; the last one repeats.
Backoff(k) == Delays[IF k < Len(Delays) THEN k + 1 ELSE Len(Delays)]

\* Mutant: the claim does not look at the status.
ClaimableAgain(i) == status[i] \in Queued /\ wait[i] <= 0

\* WHERE status = 'pending' AND next_attempt <= now.
Claimable(i) == status[i] = "pending" /\ wait[i] <= 0

\* Mutant: one retry too few.
RetriesAlmostUsedUp(i) == attempts[i] + 1 >= MaxRetries

\* Fail's test for the last attempt.
RetriesUsedUp(i) == attempts[i] >= MaxRetries

\* One step of worker w inside deliverNext.
Goto(w, from, to) ==
  /\ proc # "down"
  /\ pc[w] = from
  /\ pc' = [pc EXCEPT ![w] = to]

\* deliverNext returns: the worker waits for its ticker again.
Return(w, from) ==
  /\ Goto(w, from, "idle")
  /\ item' = [item EXCEPT ![w] = NoItem]

Accept(w) == accepts' = [accepts EXCEPT ![item[w]] = @ + 1]

DropRow(i) == status' = [status EXCEPT ![i] = "gone"]

-----------------------------------------------------------------------------
(* Producers.                                                              *)

\* handleSendMessage, the report of Session.Data and its recipients elsewhere
\* are items.  Their statements run with contexts of their own, which a
\* shutdown does not cancel; a submission that dies with the process is over.
\* The counter QueuePending is left out: the manager keeps it in a registry
\* nobody serves.
ProdGoto(i, from, to) ==
  /\ proc # "down"
  /\ prod[i] = from
  /\ prod' = [prod EXCEPT ![i] = to]

\* blob.Put.  The recipients of one SMTP transaction share one Put; their
\* rows follow one by one, in the model in any order.
StoreBody(S) ==
  /\ proc # "down"
  /\ S # {} /\ \A i \in S : prod[i] = "start"
  /\ \E b \in Blobs :
       /\ \A i \in S : BlobOf[i] = b
       /\ refs' = BlobPut(b)
  /\ \A i, j \in S : i # j => Origin[i] = "outbound"
  /\ prod' = [i \in Items |-> IF i \in S THEN "stored" ELSE prod[i]]
  /\ UNCHANGED <<rowVars, messages, homeless, procVars, pc, item, mx, histVars>>

\* GetMailbox and InsertMessage.  The Sent folder may be missing, or the
\* client may have hung up, which cancels the context of its request.  Only
\* handleSendMessage then gives the body back.
InsertMessage(i) ==
  /\ \/ ProdGoto(i, "stored", "inserted") /\ messages' = messages \cup {i}
     \/ /\ ProdGoto(i, "stored", "undo")
        /\ Origin[i] = "sent"
        /\ UNCHANGED messages
     \/ /\ ProdGoto(i, "stored", "done")
        /\ DbFaults /\ Origin[i] # "sent"
        /\ UNCHANGED messages
  /\ UNCHANGED <<rowVars, homeless, refs, procVars, pc, item, mx, histVars>>

\* The error exits of handleSendMessage: blob.Delete, with the context that
\* may have been cancelled; its error is dropped.
UndoStore(i) ==
  /\ ProdGoto(i, "undo", "done")
  /\ \/ refs' = BlobDelete(BlobOf[i])
     \/ (Backend = "sqlite" \/ DbFaults) /\ UNCHANGED refs
  /\ discarded' = discarded \cup {BlobOf[i]}
  /\ UNCHANGED <<rowVars, messages, homeless, procVars, pc, item, mx, claims,
                 accepts, ndrs, removed, untold>>

\* Manager.Enqueue; the foreign key refuses a message deleted meanwhile.
Enqueue(i) ==
  /\ ProdGoto(i, "inserted", "done")
  /\ \/ i \in messages /\ status' = [status EXCEPT ![i] = "pending"]
     \/ (DbFaults \/ i \notin messages) /\ UNCHANGED status
  /\ UNCHANGED <<attempts, wait, messages, homeless, refs, procVars, pc, item,
                 mx, histVars>>

-----------------------------------------------------------------------------
(* A delivery worker: deliverNext, statement by statement.                 *)

\* ClaimNext: the due pending row with the smallest next_attempt.
ClaimNext(w, i) ==
  /\ DbWorks
  /\ Goto(w, "idle", "load")
  /\ Claimable(i)
  /\ \A j \in Items : Claimable(j) => wait[i] <= wait[j]
  /\ status' = [status EXCEPT ![i] = "active"]
  /\ item' = [item EXCEPT ![w] = i]
  /\ claims' = [claims EXCEPT ![i] = @ + 1]
  /\ UNCHANGED <<attempts, wait, messages, homeless, refs, procVars, mx,
                 prod, accepts, ndrs, removed, discarded, untold>>

\* GetMessageByID; without the row the attempt fails and nobody is told.
LoadMessage(w) ==
  /\ \/ /\ Goto(w, "load", "read")
        /\ DbWorks /\ item[w] \in messages
     \/ /\ Goto(w, "load", "failSilent")
        /\ DbFails \/ item[w] \notin messages
  /\ UNCHANGED <<rowVars, messages, homeless, refs, procVars, item, mx, prod,
                 histVars>>

\* blob.Get and ReadAll; again no bounce when the body is missing.  The DKIM
\* signer is never set by NewManager, so the body is sent as it is.
ReadBlob(w) ==
  /\ \/ /\ Goto(w, "read", "route")
        /\ BlobWorks /\ refs[BlobOf[item[w]]] > 0
     \/ /\ Goto(w, "read", "failSilent")
        /\ BlobFails \/ refs[BlobOf[item[w]]] = 0
  /\ UNCHANGED <<rowVars, messages, homeless, refs, procVars, item, mx, prod,
                 histVars>>

\* IsLocalDomain of the recipient's domain.  The domain table may be edited
\* between two attempts, so each attempt may find either answer.  Every
\* producer checks that the address has an "@", so the branch for an address
\* without one is never taken.
Route(w) ==
  /\ \/ DbWorks /\ Goto(w, "route", "put")
     \/ DbWorks /\ Goto(w, "route", IF UseRelay THEN "relay" ELSE "lookup")
     \/ DbFails /\ Goto(w, "route", "failSilent")
  /\ UNCHANGED <<rowVars, messages, homeless, refs, procVars, item, mx, prod,
                 histVars>>

\* deliverLocal, its Put: the same bytes, hence the same key.
LocalPut(w) ==
  /\ \/ /\ Goto(w, "put", "find")
        /\ BlobWorks
        /\ refs' = BlobPut(BlobOf[item[w]])
     \/ /\ Goto(w, "put", "failNotify")
        /\ BlobFails
        /\ UNCHANGED refs
  /\ UNCHANGED <<rowVars, messages, homeless, procVars, item, mx, prod,
                 histVars>>

\* Mutant: the error of InsertMessage is ignored.
LocalInsertUnchecked(w) ==
  /\ Goto(w, "find", "complete")
  /\ (DbWorks /\ Accept(w)) \/ UNCHANGED accepts
  /\ UNCHANGED <<rowVars, messages, homeless, refs, procVars, item, mx, prod,
                 claims, ndrs, removed, discarded, untold>>

\* deliverLocal, the rest: alias, user and INBOX lookups and InsertMessage.
\* The recipient may not exist, or its mailbox may be gone by then.
LocalInsert(w) ==
  /\ \/ /\ Goto(w, "find", "complete")
        /\ DbWorks
        /\ Accept(w)
     \/ /\ Goto(w, "find", "cleanup")
        /\ UNCHANGED accepts
  /\ UNCHANGED <<rowVars, messages, homeless, refs, procVars, item, mx, prod,
                 claims, ndrs, removed, discarded, untold>>

\* deliverLocal, cleanup(): give the body back; its error is dropped.
LocalCleanup(w) ==
  /\ Goto(w, "cleanup", "failNotify")
  /\ \/ BlobWorks /\ refs' = BlobDelete(BlobOf[item[w]])
     \/ BlobFails /\ UNCHANGED refs
  /\ discarded' = discarded \cup {BlobOf[item[w]]}
  /\ UNCHANGED <<rowVars, messages, homeless, procVars, item, mx, prod,
                 claims, accepts, ndrs, removed, untold>>

\* An attempt that ends with an error.  The last command is QUIT, and its
\* error is returned like any other: a message that was sent may have been
\* taken all the same.
Refused(w, sent) ==
  \/ LateErrors /\ sent /\ Accept(w)
  \/ UNCHANGED accepts

\* deliverViaRelay.
Relay(w) ==
  /\ \/ Goto(w, "relay", "complete") /\ Accept(w)
     \/ Goto(w, "relay", "failNotify") /\ Refused(w, TRUE)
  /\ UNCHANGED <<rowVars, messages, homeless, refs, procVars, item, mx, prod,
                 claims, ndrs, removed, discarded, untold>>

\* net.LookupMX: no answer, or between one and MaxMX hosts.
LookupMX(w) ==
  /\ \/ Goto(w, "lookup", "failNotify") /\ UNCHANGED mx
     \/ /\ Goto(w, "lookup", "mx")
        /\ \E n \in 1..MaxMX : mx' = [mx EXCEPT ![w] = n]
  /\ UNCHANGED <<rowVars, messages, homeless, refs, procVars, item, prod,
                 histVars>>

\* deliverToMX for the next host; after an error the loop goes on to the one
\* after it.  The sender of a non-delivery report is empty, which
\* deliverToMX rejects before it sends anything.
TryMX(w) ==
  /\ \/ /\ Goto(w, "mx", "complete")
        /\ Origin[item[w]] # "ndr"
        /\ mx' = [mx EXCEPT ![w] = 0]
        /\ Accept(w)
     \/ /\ Goto(w, "mx", IF mx[w] > 1 THEN "mx" ELSE "failNotify")
        /\ mx' = [mx EXCEPT ![w] = @ - 1]
        /\ Refused(w, Origin[item[w]] # "ndr")
  /\ UNCHANGED <<rowVars, messages, homeless, refs, procVars, item, prod,
                 claims, ndrs, removed, discarded, untold>>

\* Mutant: a delivered item takes its body with it.
CompleteFreesBody(w) ==
  /\ Return(w, "complete")
  /\ DropRow(item[w])
  /\ refs' = BlobDelete(BlobOf[item[w]])
  /\ UNCHANGED <<attempts, wait, messages, homeless, procVars, mx, prod,
                 histVars>>

\* Complete deletes the row.  When it fails, or finds no row, the error is
\* logged and the delivery counts as done all the same.
Complete(w) ==
  /\ Return(w, "complete")
  /\ \/ DbWorks /\ DropRow(item[w])
     \/ DbFails /\ UNCHANGED status
  /\ UNCHANGED <<attempts, wait, messages, homeless, refs, procVars, mx,
                 prod, histVars>>

\* Fail on a row that is still there: back to pending, or deleted when its
\* retries are used up, and then the next step is `last`.
Fail(w, from, last) ==
  LET i == item[w] IN
  /\ pc[w] = from
  /\ DbWorks
  /\ status[i] \in Queued
  /\ \/ /\ RetriesUsedUp(i)
        /\ DropRow(i)
        /\ IF last = "bounce" THEN Goto(w, from, "bounce") /\ UNCHANGED item
                              ELSE Return(w, from)
        /\ UNCHANGED <<attempts, wait>>
     \/ /\ ~RetriesUsedUp(i)
        /\ status' = [status EXCEPT ![i] = "pending"]
        /\ wait' = [wait EXCEPT ![i] = Backoff(attempts[i])]
        /\ attempts' = [attempts EXCEPT ![i] = @ + 1]
        /\ Return(w, from)

\* Fail returns an error: the row is gone, or the statement failed.  The
\* worker goes back to its ticker; the row, if any, stays as it is.
FailError(w, from) ==
  /\ Return(w, from)
  /\ DbFails \/ status[item[w]] \notin Queued
  /\ UNCHANGED rowVars

\* The failure branches that never look at what Fail returned.
FailSilent(w) ==
  /\ Fail(w, "failSilent", "idle") \/ FailError(w, "failSilent")
  /\ UNCHANGED <<messages, homeless, refs, procVars, mx, prod, histVars>>

\* Mutants: the row is left alone; the result of Fail is ignored.
FailNotifyForgets(w) ==
  /\ Return(w, "failNotify")
  /\ UNCHANGED <<rowVars, messages, homeless, refs, procVars, mx, prod,
                 histVars>>
FailNotifyUnheard(w) ==
  /\ Fail(w, "failNotify", "idle") \/ FailError(w, "failNotify")
  /\ UNCHANGED <<messages, homeless, refs, procVars, mx, prod, histVars>>
\* The failure branches that bounce on ErrMaxRetries.
FailNotify(w) ==
  /\ Fail(w, "failNotify", "bounce") \/ FailError(w, "failNotify")
  /\ UNCHANGED <<messages, homeless, refs, procVars, mx, prod, histVars>>

\* BounceMessage runs with a context of its own.  The report goes to the
\* INBOX of the account that has the sender's address now.  A message in a
\* Sent folder has such a sender, unless the address was changed or the INBOX
\* is gone; a report has the empty sender; any other sender may or may not be
\* an account here.
BounceMessage(w) ==
  LET i == item[w] IN
  /\ Return(w, "bounce")
  /\ \/ /\ Origin[i] # "ndr" /\ i \notin homeless
        /\ ndrs' = [ndrs EXCEPT ![i] = @ + 1]
        /\ UNCHANGED untold
     \/ /\ Origin[i] # "sent" \/ i \in homeless \/ i \notin messages
        /\ untold' = untold \cup {i}
        /\ UNCHANGED ndrs
     \/ DbFaults /\ UNCHANGED <<ndrs, untold>>
  /\ UNCHANGED <<rowVars, messages, homeless, refs, procVars, mx, prod,
                 claims, accepts, removed, discarded>>

-----------------------------------------------------------------------------
(* Administrator, mail clients, time and the life of the process.          *)

\* handleDeleteQueue: Complete on whatever row has the id, claimed or not.
AdminDelete(i) ==
  /\ proc # "down"
  /\ status[i] \in Queued
  /\ DropRow(i)
  /\ removed' = removed \cup {i}
  /\ UNCHANGED <<attempts, wait, messages, homeless, refs, procVars, pc,
                 item, mx, prod, claims, accepts, ndrs, discarded, untold>>

\* The owner deletes the message from the Sent folder, or the mailbox or the
\* account goes: the foreign keys cascade to the queue row.
DeleteMessage(i) ==
  /\ proc # "down"
  /\ i \in messages
  /\ Origin[i] = "sent"
  /\ messages' = messages \ {i}
  /\ status' = [status EXCEPT ![i] = IF @ \in Queued THEN "gone" ELSE @]
  /\ removed' = IF status[i] \in Queued THEN removed \cup {i} ELSE removed
  /\ UNCHANGED <<attempts, wait, homeless, refs, procVars, pc, item, mx,
                 prod, claims, accepts, ndrs, discarded, untold>>

\* The sender's account gets another address, or its INBOX is renamed or
\* deleted over IMAP, or either is put right again.
MoveSender(i) ==
  /\ proc # "down"
  /\ i \in messages
  /\ Origin[i] = "sent"
  /\ homeless' = IF i \in homeless THEN homeless \ {i} ELSE homeless \cup {i}
  /\ UNCHANGED <<rowVars, messages, refs, procVars, pc, item, mx, prod,
                 histVars>>

\* Time passes.
Tick ==
  /\ \E i \in Items : status[i] = "pending" /\ wait[i] > -MaxLag
  /\ wait' = [i \in Items |-> IF status[i] = "pending" /\ wait[i] > -MaxLag
                                THEN wait[i] - 1 ELSE wait[i]]
  /\ UNCHANGED <<status, attempts, messages, homeless, refs, procVars, pc,
                 item, mx, prod, histVars>>

\* SIGINT or SIGTERM: Run cancels the context and returns; nobody calls
\* Manager.Stop, so nobody waits for the workers.
Shutdown ==
  /\ proc = "running"
  /\ crashes < MaxCrashes
  /\ proc' = "stopping"
  /\ UNCHANGED <<rowVars, messages, homeless, refs, crashes, pc, item, mx,
                 prod, histVars>>

\* The process ends, after a shutdown or by a crash: all that is in memory
\* is lost.
Exit ==
  /\ proc # "down"
  /\ crashes < MaxCrashes
  /\ proc' = "down"
  /\ crashes' = crashes + 1
  /\ pc' = [w \in Workers |-> "idle"]
  /\ item' = [w \in Workers |-> NoItem]
  /\ mx' = [w \in Workers |-> 0]
  /\ prod' = [i \in Items |-> IF prod[i] = "start" THEN "start" ELSE "done"]
  /\ UNCHANGED <<rowVars, messages, homeless, refs, histVars>>

\* Mutant: at startup every active row is made pending again.
RestartRequeues ==
  /\ proc = "down"
  /\ proc' = "running"
  /\ status' = [i \in Items |-> IF status[i] = "active" THEN "pending"
                                                       ELSE status[i]]
  /\ UNCHANGED <<attempts, wait, messages, homeless, refs, crashes, pc, item,
                 mx, prod, histVars>>

\* Run again: Manager.Start on the table as it was left.
Restart ==
  /\ proc = "down"
  /\ proc' = "running"
  /\ UNCHANGED <<rowVars, messages, homeless, refs, crashes, pc, item, mx,
                 prod, histVars>>

Deliver(w) ==
  \/ LoadMessage(w) \/ ReadBlob(w) \/ Route(w)
  \/ LocalPut(w) \/ LocalInsert(w) \/ LocalCleanup(w)
  \/ Relay(w) \/ LookupMX(w) \/ TryMX(w)
  \/ Complete(w) \/ FailSilent(w) \/ FailNotify(w) \/ BounceMessage(w)

Submit(i) == InsertMessage(i) \/ UndoStore(i) \/ Enqueue(i)

Next ==
  \/ \E S \in SUBSET Items : StoreBody(S)
  \/ \E i \in Items : Submit(i) \/ AdminDelete(i) \/ DeleteMessage(i)
                      \/ MoveSender(i)
  \/ \E w \in Workers, i \in Items : ClaimNext(w, i)
  \/ \E w \in Workers : Deliver(w)
  \/ Tick \/ Shutdown \/ Exit \/ Restart

Spec == Init /\ [][Next]_vars

\* Time passes, the ticker of every worker fires, a started delivery goes on
\* (remote servers answer or the connection breaks), a server that was told
\* to stop ends, and a stopped one is started again.  Nothing obliges anyone
\* to submit, delete or shut down.
Fairness ==
  /\ WF_vars(Tick)
  /\ WF_vars(proc = "stopping" /\ Exit)
  /\ WF_vars(Restart)
  /\ \A w \in Workers : /\ WF_vars(\E i \in Items : ClaimNext(w, i))
                        /\ WF_vars(Deliver(w))

FairSpec == Spec /\ Fairness
-----------------------------------------------------------------------------
(* Properties.                                                             *)

\* ClaimNext's promise that "only one worker claims each item": at no time
\* do two workers work on the same queue row, whatever failures, deletions
\* and restarts came before.
ExclusiveClaim ==
  \A v, w \in Workers :
    v # w /\ pc[v] # "idle" /\ pc[w] # "idle" => item[v] # item[w]

\* The retry budget: attempt_count counts the finished attempts exactly, so
\* an item is claimed at most MaxRetries + 1 times, and a row that leaves by
\* ErrMaxRetries was tried that often.
AttemptBudget ==
  \A i \in Items :
    /\ claims[i] <= MaxRetries + 1
    /\ status[i] = "pending" => claims[i] = attempts[i]
    /\ status[i] = "active"  => claims[i] = attempts[i] + 1

\* No row leaves the queue by accident: it was delivered, or tried as often
\* as the configuration says, or somebody deleted it.
NothingVanishes ==
  \A i \in Items :
    status[i] = "gone" => \/ accepts[i] > 0
                          \/ claims[i] = MaxRetries + 1
                          \/ i \in removed

\* A body is handed over at most once, crashes and failing Complete calls
\* included, unless a remote accepts and the call then reports an error.
AtMostOnce ==
  ~LateErrors => \A i \in Items : accepts[i] <= 1

\* A sender is told at most once that a delivery failed, and then it did:
\* every attempt was used, and (late errors aside) nobody got the message.
HonestBounce ==
  \A i \in Items :
    ndrs[i] > 0 => /\ ndrs[i] = 1
                   /\ status[i] = "gone"
                   /\ claims[i] = MaxRetries + 1
                   /\ ~LateErrors => accepts[i] = 0

\* The process has not been stopped yet and its statements work.
Undisturbed == crashes = 0 /\ proc = "running" /\ ~DbFaults

\* While the process runs undisturbed an `active` row belongs to a worker
\* that will finish it: no branch of deliverNext forgets its row.
ActiveHasOwner ==
  Undisturbed =>
    \A i \in Items : status[i] = "active" =>
      \E w \in Workers : pc[w] \in Holding /\ item[w] = i

\* Every message row has its body.  The reference-counting store keeps it
\* whatever failed deliveries and abandoned submissions give back; in the
\* file store, which counts nothing, a body is missing only because one of
\* them deleted the file.
ReferencedBlobExists ==
  \A i \in messages :
    refs[BlobOf[i]] > 0 \/ (Backend = "fs" /\ BlobOf[i] \in discarded)

\* README, "NDR bounce generation for failed deliveries": when the attempts
\* for a message in a user's Sent folder are used up in vain, that user
\* finds a bounce in the INBOX, unless the address led to no INBOX when the
\* bounce was written or the file store had lost the body (an attempt that
\* cannot read it ends without a bounce).
ExhaustedIsBounced ==
  Undisturbed =>
    \A i \in messages :
      /\ Origin[i] = "sent"
      /\ status[i] = "gone" /\ i \notin removed /\ accepts[i] = 0
      /\ \A w \in Workers : ~(pc[w] = "bounce" /\ item[w] = i)
      /\ i \notin untold
      /\ Backend = "fs" => BlobOf[i] \notin discarded
      => ndrs[i] = 1

\* Every queued item leaves the queue in the end: delivered, bounced,
\* dropped after its last attempt, or deleted.
EventuallyLeaves ==
  \A i \in Items : status[i] = "pending" ~> status[i] = "gone"
-----------------------------------------------------------------------------
(* The inductive invariant behind the properties.                          *)

\* A claimed row is active, or was deleted under the worker; a worker that
\* bounces has deleted it itself.
OwnerInv ==
  /\ ExclusiveClaim
  /\ \A w \in Workers :
       /\ pc[w] \in Holding  => status[item[w]] \in {"active", "gone"}
       /\ pc[w] = "bounce"   => status[item[w]] = "gone"

\* attempt_count and the number of claims agree in every state of a row; the
\* message row comes before the queue row, and both after the body.
BudgetInv ==
  /\ AttemptBudget
  /\ \A i \in Items :
       /\ status[i] = "new" => claims[i] = 0 /\ attempts[i] = 0
       /\ prod[i] # "done" => status[i] = "new"
       /\ prod[i] \in {"start", "stored", "undo"} => i \notin messages
       /\ prod[i] = "undo" => Origin[i] = "sent"

\* What a worker has achieved when it is about to complete or to bounce.
OutcomeInv ==
  /\ NothingVanishes
  /\ \A w \in Workers :
       /\ pc[w] = "complete" => accepts[item[w]] > 0
       /\ pc[w] = "bounce"   => claims[item[w]] = MaxRetries + 1
       /\ pc[w] # "idle"     => ndrs[item[w]] = 0
  /\ \A i \in Items :
       /\ status[i] # "gone" => ndrs[i] = 0
       /\ ndrs[i] > 0 => ndrs[i] = 1 /\ claims[i] = MaxRetries + 1

\* Without late errors, nothing that can still be tried was accepted.
OnceInv ==
  ~LateErrors =>
    /\ \A i \in Items : /\ status[i] \in {"new", "pending"} => accepts[i] = 0
                        /\ accepts[i] <= 1
                        /\ ndrs[i] > 0 => accepts[i] = 0
    /\ \A w \in Workers :
         pc[w] \notin {"idle", "complete"} => accepts[item[w]] = 0

\* Until the first shutdown every active row has its worker.
OwnedInv ==
  /\ ActiveHasOwner
  /\ proc = "down" => crashes > 0

\* Workers between their Put and the end of deliverLocal, per body.
Borrowers(b) ==
  {w \in Workers : pc[w] \in {"find", "cleanup"} /\ BlobOf[item[w]] = b}

\* Submissions that may still give their reference back, per body.
Depositors(b) ==
  {i \in Items : /\ Origin[i] = "sent" /\ prod[i] \in {"stored", "undo"}
                 /\ BlobOf[i] = b}

\* A message row refers to the body, or will.
Kept(b) ==
  \E i \in Items : /\ BlobOf[i] = b
                   /\ i \in messages \/ (Origin[i] # "sent" /\ prod[i] = "stored")

\* With reference counts, a body counts every borrower and depositor, and one
\* more as long as it is kept.
Owed(b) == Cardinality(Borrowers(b)) + Cardinality(Depositors(b))
           + (IF Kept(b) THEN 1 ELSE 0)

CountInv == Backend = "sqlite" => \A b \in Blobs : refs[b] >= Owed(b)

\* A file is there until somebody discards it.
FileInv ==
  Backend = "fs" =>
    \A i \in Items : i \in messages \/ prod[i] = "stored" =>
      refs[BlobOf[i]] > 0 \/ BlobOf[i] \in discarded

\* An attempt ends without telling anybody only when there is no message row
\* any more, and so nobody to tell, or the file store has lost the body.
SilentInv ==
  Undisturbed =>
    \A w \in Workers :
      pc[w] = "failSilent" =>
        \/ item[w] \notin messages
        \/ Backend = "fs" /\ BlobOf[item[w]] \in discarded

\* The most statements a delivery has ahead of it, further MX hosts aside.
Ahead(s) ==
  CASE s = "load" -> 7 [] s = "read" -> 6 [] s = "route" -> 5
    [] s \in {"put", "relay", "lookup"} -> 4
    [] s \in {"find", "mx"} -> 3
    [] s = "cleanup" -> 2
    [] s \in {"complete", "failSilent", "failNotify"} -> 1
    [] OTHER -> 0

\* Behind EventuallyLeaves: a delivery never turns back, and when it returns,
\* with statements that work, its row has left the queue or is pending with one
\* attempt more on its count, which AttemptBudget bounds.
AttemptsEnd ==
  [][\A w \in Workers :
       pc[w] # "idle" /\ (pc'[w] # pc[w] \/ mx'[w] # mx[w]) =>
         \/ /\ pc'[w] # "idle" /\ item'[w] = item[w]
            /\ \/ Ahead(pc'[w]) < Ahead(pc[w])
               \/ pc'[w] = pc[w] /\ mx'[w] < mx[w]
         \/ /\ pc'[w] = "idle"
            /\ proc = "running" /\ proc' = "running" /\ ~DbFaults =>
                 \/ status'[item[w]] = "gone"
                 \/ /\ status'[item[w]] = "pending"
                    /\ attempts'[item[w]] = attempts[item[w]] + 1]_vars
=============================================================================
