------------------------------ MODULE ImapUser ------------------------------
(***************************************************************************)
(* The mailboxes of one user: their names in the table `mailboxes` behind  *)
(* mailboxCache (pkg/storage/mailboxes.go), the IMAP commands that look    *)
(* them up, create, delete and rename them (pkg/imap/user.go), and IDLE    *)
(* with the MailboxNotifier that wakes it (pkg/imap/notifier.go,           *)
(* mailbox.go).  What the commands do to messages is in Mailbox.           *)
(*                                                                         *)
(* Each statement, each access to the cache and each call of the notifier  *)
(* is a step.                                                              *)
(***************************************************************************)
EXTENDS TtlCache

CONSTANTS
  Sessions,
  Names,
  MaxBoxes,   \* bound on mailboxes ever created
  NoName      \* the name of a mailbox before and after its life

ASSUME BoxAssumption == MaxBoxes \in Nat /\ NoName \notin Names

Ids   == 1..MaxBoxes
NoBox == 0
Ops   == {"select", "delete", "rename", "copy"}
Pcs   == {"ready", "evict", "query", "fill", "found", "delete",
          "drop", "clear", "change", "notify", "waiting"}

VARIABLES
  box,      \* the table: each mailbox's name
  lastId,   \* AUTOINCREMENT
  cache,    \* mailboxCache: the time each entry has left,
  held,     \* and its value
  subs,     \* MailboxNotifier.subs: whose channels, by mailbox
  closed,   \* sessions whose channel is closed
  pc,       \* what each session does next
  cmd,      \* its command: what it does, to which name, to which new name
  id,       \* the mailbox its command has looked up
  sel,      \* the mailbox it has selected
  was,      \* the name it will delete from the cache
  owed,     \* mailboxes it has yet to notify of its change
  due,      \* history: for each session, those in IDLE on a mailbox its last
            \* command has changed since they came
  failed,   \* history: sessions whose last change ended in an error
  pend,     \* history: names it has changed and not told the cache
  raced     \* history: names cached from, or deleted after, an older read

table == <<box, lastId>>
names == <<cache, held, pend, raced>>
idle  == <<subs, closed, due, failed>>
sess  == <<sel, owed>>
vars  == <<table, names, idle, pc, cmd, sess, id, was>>

Commands == [op : Ops, name : Names, to : Names]
NoCommand == [op |-> "none", name |-> NoName, to |-> NoName]

\* SELECT ... WHERE user_id = ? AND name = ?
Current(n) ==
  IF \E b \in Ids : box[b] = n THEN CHOOSE b \in Ids : box[b] = n ELSE NoBox

TypeOK ==
  /\ box \in [Ids -> Names \cup {NoName}] /\ lastId \in 0..MaxBoxes
  /\ \A b, c \in Ids : box[b] = box[c] /\ box[b] # NoName => b = c
  /\ \A b \in Ids : box[b] # NoName => b <= lastId
  /\ cache \in [Names -> Absent..TTL] /\ held \in [Names -> 0..MaxBoxes]
  /\ subs \in [Ids -> SUBSET Sessions] /\ closed \subseteq Sessions
  /\ due \in [Sessions -> SUBSET Sessions] /\ failed \subseteq Sessions
  /\ pc \in [Sessions -> Pcs] /\ cmd \in [Sessions -> Commands \cup {NoCommand}]
  /\ id \in [Sessions -> 0..MaxBoxes] /\ sel \in [Sessions -> 0..MaxBoxes]
  /\ was \in [Sessions -> Names \cup {NoName}] /\ owed \in [Sessions -> SUBSET Ids]
  /\ pend \in [Sessions -> SUBSET Names] /\ raced \subseteq Names

Init ==
  /\ box = [b \in Ids |-> NoName] /\ lastId = 0
  /\ cache = [n \in Names |-> Absent] /\ held = [n \in Names |-> NoBox]
  /\ subs = [b \in Ids |-> {}] /\ closed = {}
  /\ due = [s \in Sessions |-> {}] /\ failed = {}
  /\ pc = [s \in Sessions |-> "ready"]
  /\ cmd = [s \in Sessions |-> NoCommand]
  /\ id = [s \in Sessions |-> NoBox] /\ sel = [s \in Sessions |-> NoBox]
  /\ was = [s \in Sessions |-> NoName] /\ owed = [s \in Sessions |-> {}]
  /\ pend = [s \in Sessions |-> {}] /\ raced = {}

\* The session goes on; past its lookup, COPY is a change like any other.
Goto(s, from, to) ==
  /\ pc[s] = from
  /\ pc' = [pc EXCEPT ![s] = to]
  /\ cmd' = [cmd EXCEPT ![s] = IF to \in {"ready", "change"} THEN NoCommand ELSE @]
-----------------------------------------------------------------------------
(* Names.                                                                  *)

\* Mutant: (user_id, name) is not UNIQUE.
CreateMailboxTwice(s, n) ==
  /\ Goto(s, "ready", "drop")
  /\ lastId < MaxBoxes
  /\ lastId' = lastId + 1
  /\ box' = [box EXCEPT ![lastId + 1] = n]
  /\ was' = [was EXCEPT ![s] = n]
  /\ pend' = [pend EXCEPT ![s] = {n}]
  /\ UNCHANGED <<cache, held, raced, idle, sess, id>>

\* storage.CreateMailbox: the INSERT; a name in use is refused.
CreateMailbox(s, n) ==
  /\ Goto(s, "ready", "drop")
  /\ lastId < MaxBoxes /\ Current(n) = NoBox
  /\ lastId' = lastId + 1
  /\ box' = [box EXCEPT ![lastId + 1] = n]
  /\ was' = [was EXCEPT ![s] = n]
  /\ pend' = [pend EXCEPT ![s] = {n}]
  /\ UNCHANGED <<cache, held, raced, idle, sess, id>>

\* CreateMailbox and DeleteMailbox delete the entry of the name they know.
Drop(s) ==
  /\ Goto(s, "drop", "ready")
  /\ cache' = AfterDelete(cache, was[s])
  /\ held' = [held EXCEPT ![was[s]] = NoBox]
  /\ raced' = raced \ {was[s]}
  /\ was' = [was EXCEPT ![s] = NoName]
  /\ pend' = [pend EXCEPT ![s] = {}]
  /\ UNCHANGED <<table, idle, sess, id>>

\* A command that names a mailbox begins with storage.GetMailbox, which looks
\* into the cache ...
GetMailbox(s, c) ==
  /\ pc[s] = "ready"
  /\ c.op = "copy" => sel[s] # NoBox
  /\ c.op = "rename" <=> c.to # c.name
  /\ cmd' = [cmd EXCEPT ![s] = c]
  /\ \/ /\ Hit(cache, c.name)
        /\ pc' = [pc EXCEPT ![s] = "found"]
        /\ id' = [id EXCEPT ![s] = held[c.name]]
     \/ /\ ~Hit(cache, c.name)
        /\ pc' = [pc EXCEPT ![s] = IF cache[c.name] = Expired THEN "evict" ELSE "query"]
        /\ UNCHANGED id
  /\ UNCHANGED <<table, names, idle, sess, was>>
Evict(s) ==
  /\ Goto(s, "evict", "query")
  /\ cache' = AfterMiss(cache, cmd[s].name)
  /\ UNCHANGED <<table, held, pend, raced, idle, sess, id, was>>

\* ... then into the table; no such name, or an error, ends the command ...
Query(s) ==
  /\ \/ /\ Current(cmd[s].name) # NoBox
        /\ Goto(s, "query", "fill")
        /\ id' = [id EXCEPT ![s] = Current(cmd[s].name)]
     \/ Goto(s, "query", "ready") /\ UNCHANGED id
  /\ UNCHANGED <<table, names, idle, sess, was>>

\* ... and caches what it has read.
Fill(s) ==
  LET n == cmd[s].name
  IN  /\ Goto(s, "fill", "found")
      /\ AfterSet(cache, n, cache')
      /\ held' = [held EXCEPT ![n] = id[s]]
      /\ raced' = IF id[s] # Current(n) THEN raced \cup {n} ELSE raced \ {n}
      /\ UNCHANGED <<table, pend, idle, sess, id, was>>

\* The command goes on with the mailbox it has looked up.
Done(s, to) == Goto(s, "found", to) /\ id' = [id EXCEPT ![s] = NoBox]

\* User.GetMailbox for SELECT; deliveries to INBOX look it up the same way.
Select(s) ==
  /\ cmd[s].op = "select" /\ Done(s, "ready")
  /\ sel' = [sel EXCEPT ![s] = id[s]]
  /\ UNCHANGED <<table, names, idle, owed, was>>

\* storage.DeleteMailbox reads the name for the cache ...
ReadName(s) ==
  /\ cmd[s].op = "delete"
  /\ \/ /\ Goto(s, "found", "delete") /\ box[id[s]] # NoName
        /\ was' = [was EXCEPT ![s] = box[id[s]]]
        /\ UNCHANGED id
     \/ Done(s, "ready") /\ UNCHANGED was
  /\ UNCHANGED <<table, names, idle, sess>>

\* ... and deletes the row, whatever its name is by then; a row that is gone
\* already is no error.  If the statement fails, nothing is changed.
DeleteMailbox(s) ==
  LET n == box[id[s]]
  IN  /\ \/ /\ Goto(s, "delete", "drop")
            /\ box' = [box EXCEPT ![id[s]] = NoName]
            /\ pend' = [pend EXCEPT ![s] = {n} \ {NoName}]
            /\ raced' = IF n \notin {was[s], NoName} THEN raced \cup {n} ELSE raced
            /\ UNCHANGED was
         \/ /\ Goto(s, "delete", "ready")
            /\ was' = [was EXCEPT ![s] = NoName]
            /\ UNCHANGED <<box, pend, raced>>
      /\ id' = [id EXCEPT ![s] = NoBox]
      /\ UNCHANGED <<lastId, cache, held, idle, sess>>

\* storage.RenameMailbox: the UPDATE; a name in use, or no row, is an error.
RenameMailbox(s) ==
  LET n == box[id[s]]
  IN  /\ cmd[s].op = "rename"
      /\ \/ /\ Done(s, "clear")
            /\ n # NoName /\ Current(cmd[s].to) \in {NoBox, id[s]}
            /\ box' = [box EXCEPT ![id[s]] = cmd[s].to]
            /\ pend' = [pend EXCEPT ![s] = {n, cmd[s].to}]
         \/ Done(s, "ready") /\ UNCHANGED <<box, pend>>
      /\ UNCHANGED <<lastId, cache, held, raced, idle, sess, was>>

\* Mutant: RenameMailbox deletes the entry of the new name only.
ClearNew(s) ==
  /\ Goto(s, "clear", "ready")
  /\ cache' = AfterDelete(cache, cmd[s].to)
  /\ held' = [held EXCEPT ![cmd[s].to] = NoBox]
  /\ raced' = raced \ {cmd[s].to}
  /\ pend' = [pend EXCEPT ![s] = {}]
  /\ UNCHANGED <<table, idle, sess, id, was>>

\* RenameMailbox clears the cache.
Clear(s) ==
  /\ Goto(s, "clear", "ready")
  /\ cache' = [n \in Names |-> Absent]
  /\ held' = [n \in Names |-> NoBox]
  /\ raced' = {}
  /\ pend' = [pend EXCEPT ![s] = {}]
  /\ UNCHANGED <<table, idle, sess, id, was>>

\* Time passes; what an expired entry held no longer matters.
Tick ==
  /\ cache' = Aged(cache)
  /\ held' = [n \in Names |-> IF cache'[n] >= 0 THEN held[n] ELSE NoBox]
  /\ raced' = {n \in raced : cache'[n] >= 0}
  /\ UNCHANGED <<table, pend, idle, pc, cmd, sess, id, was>>
-----------------------------------------------------------------------------
(* Changes of messages, and IDLE.                                          *)

\* APPEND, STORE and EXPUNGE change the selected mailbox; COPY changes
\* another one, and notifies both.
Begin(s, boxes) ==
  /\ owed' = [owed EXCEPT ![s] = boxes]
  /\ due' = [due EXCEPT ![s] = {}] /\ failed' = failed \ {s}
  /\ UNCHANGED <<subs, closed>>
Change(s) ==
  /\ sel[s] # NoBox /\ Goto(s, "ready", "change")
  /\ Begin(s, {sel[s]})
  /\ UNCHANGED <<table, names, sel, id, was>>
Copy(s) ==
  /\ cmd[s].op = "copy" /\ Done(s, "change")
  /\ Begin(s, {sel[s], id[s]})
  /\ UNCHANGED <<table, names, sel, was>>

\* One round of the command's loop: a message is stored, flagged or deleted.
Touched(s) == IF owed[s] = {sel[s]} THEN owed[s] ELSE owed[s] \ {sel[s]}
ChangeRow(s) ==
  /\ Goto(s, "change", "change")
  /\ due' = [due EXCEPT ![s] = @ \cup {t \in Sessions : pc[t] = "waiting" /\ sel[t] \in Touched(s)}]
  /\ UNCHANGED <<table, names, subs, closed, failed, sess, id, was>>

\* The command has changed all it should, or meets an error, be it after some
\* messages, and returns without telling anyone.
Changed(s) ==
  /\ \/ Goto(s, "change", "notify") /\ UNCHANGED <<owed, failed>>
     \/ /\ Goto(s, "change", "ready")
        /\ owed' = [owed EXCEPT ![s] = {}]
        /\ failed' = failed \cup {s}
  /\ UNCHANGED <<table, names, subs, closed, due, sel, id, was>>

\* Mutant: the destination of COPY is not notified.
NotifySelected(s) ==
  /\ Goto(s, "notify", "ready")
  /\ owed' = [owed EXCEPT ![s] = {}]
  /\ closed' = closed \cup subs[sel[s]]
  /\ subs' = [subs EXCEPT ![sel[s]] = {}]
  /\ UNCHANGED <<table, names, due, failed, sel, id, was>>

\* Notify: every channel of the mailbox is closed; the selected mailbox
\* comes first.
Notify(s) ==
  LET b == IF sel[s] \in owed[s] THEN sel[s] ELSE CHOOSE c \in owed[s] : TRUE
  IN  /\ Goto(s, "notify", IF owed[s] = {b} THEN "ready" ELSE "notify")
      /\ owed' = [owed EXCEPT ![s] = @ \ {b}]
      /\ closed' = closed \cup subs[b]
      /\ subs' = [subs EXCEPT ![b] = {}]
      /\ UNCHANGED <<table, names, due, failed, sel, id, was>>

\* Idle subscribes, with a channel of its own ...
Idle(s) ==
  /\ sel[s] # NoBox /\ Goto(s, "ready", "waiting")
  /\ subs' = [subs EXCEPT ![sel[s]] = @ \cup {s}]
  /\ UNCHANGED <<table, names, closed, due, failed, sess, id, was>>

\* Mutant: Idle does not unsubscribe.
UnsubscribeNever(s) ==
  /\ Goto(s, "waiting", "ready")
  /\ closed' = closed \ {s} /\ due' = [t \in Sessions |-> due[t] \ {s}]
  /\ UNCHANGED <<table, names, subs, failed, sess, id, was>>

\* Idle returns: the channel is unsubscribed, if it is still there.
Unsubscribe(s) ==
  /\ Goto(s, "waiting", "ready")
  /\ subs' = [subs EXCEPT ![sel[s]] = @ \ {s}]
  /\ closed' = closed \ {s} /\ due' = [t \in Sessions |-> due[t] \ {s}]
  /\ UNCHANGED <<table, names, failed, sess, id, was>>

\* ... and waits for the channel or for the client's DONE.
Wake(s) == s \in closed /\ Unsubscribe(s)
Stop(s) == Unsubscribe(s)
-----------------------------------------------------------------------------
Step(s) ==
  \/ Evict(s) \/ Query(s) \/ Fill(s) \/ Select(s)
  \/ ReadName(s) \/ DeleteMailbox(s) \/ Drop(s)
  \/ RenameMailbox(s) \/ Clear(s)
  \/ Copy(s) \/ ChangeRow(s) \/ Changed(s) \/ Notify(s) \/ Wake(s)

Next ==
  \/ \E s \in Sessions :
       \/ \E n \in Names : CreateMailbox(s, n)
       \/ \E c \in Commands : GetMailbox(s, c)
       \/ Change(s) \/ Idle(s) \/ Stop(s)
       \/ Step(s)
  \/ Tick

Spec == Init /\ [][Next]_vars
-----------------------------------------------------------------------------
(* Properties.                                                             *)

\* A name in the cache stands for the mailbox that has it now, except while
\* the command that changed it has not come to the cache, or if a lookup or a
\* deletion had read the name before the change.
NameCacheAgrees ==
  \A n \in Names :
    Hit(cache, n) /\ held[n] # Current(n) =>
      n \in raced \/ \E s \in Sessions : n \in pend[s]

\* The notifier holds the channels of the sessions that wait in IDLE and have
\* not been woken, each under its mailbox, and no other: none is closed twice
\* (a panic), none is left behind.
SubscriptionsExact ==
  \A b \in Ids :
    subs[b] = {s \in Sessions : pc[s] = "waiting" /\ sel[s] = b /\ s \notin closed}

\* Only an error loses a wake-up: whoever waits in IDLE when a command changes
\* a message of the mailbox is woken, or will be by that command, unless it
\* failed half way.
ChangesReachIdlers ==
  \A t \in Sessions : \A s \in due[t] :
    \/ s \in closed \/ t \in failed
    \/ pc[t] \in {"change", "notify"} /\ sel[s] \in owed[t]
-----------------------------------------------------------------------------
(* The inductive invariant.                                                *)

\* A command keeps its arguments while it looks a mailbox up, has found one
\* when it goes on, and knows a name when it comes to the cache.
LookupInv ==
  \A s \in Sessions :
    /\ pc[s] \in {"evict", "query", "fill", "found", "delete"} =>
         cmd[s] \in Commands /\ (cmd[s].op = "copy" => sel[s] # NoBox)
    /\ pc[s] \in {"fill", "found", "delete"} => id[s] \in Ids
    /\ pc[s] \in {"delete", "drop"} => was[s] \in Names

\* Session s has changed name n and will delete its entry: a deletion that
\* found another name than the one it had read will not.
WillDrop(s, n) == n \in pend[s] /\ (pc[s] = "drop" => was[s] = n)

\* What the cache holds is a mailbox; if it is not the right one, the entry
\* is on record as raced, or about to go.
CacheInv ==
  /\ \A n \in Names : Hit(cache, n) => held[n] \in Ids
  /\ \A s \in Sessions : pc[s] \notin {"drop", "clear"} => pend[s] = {}
  /\ \A n \in Names :
       Hit(cache, n) /\ held[n] # Current(n) =>
         n \in raced \/ \E s \in Sessions : WillDrop(s, n)

\* Only a waiting session has a channel, and who has changed something, or
\* notifies, has a mailbox left to notify.
IdleInv ==
  /\ SubscriptionsExact /\ ChangesReachIdlers
  /\ \A s \in closed : pc[s] = "waiting"
  /\ \A t \in Sessions : \A s \in due[t] : pc[s] = "waiting"
  /\ \A s \in Sessions : /\ pc[s] = "waiting" => sel[s] # NoBox
                         /\ pc[s] \in {"change", "notify"} => owed[s] # {}
=============================================================================
