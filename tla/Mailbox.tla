------------------------------ MODULE Mailbox ------------------------------
(***************************************************************************)
(* The rows of the table `messages` (pkg/storage/messages.go) and those    *)
(* who change them at the same time: deliveries, IMAP sessions             *)
(* (pkg/imap/mailbox.go), POP3 sessions (pkg/pop3/session.go) and webmail  *)
(* requests (pkg/api/mail.go).                                             *)
(*                                                                         *)
(* A statement or transaction is one step.  IMAP commands first read the   *)
(* whole mailbox and then change row after row, so other statements come   *)
(* in between.  The set of flags of a row stands for its bitmask.          *)
(* Commands that only read are left out.                                   *)
(***************************************************************************)
EXTENDS Integers, FiniteSets

CONSTANTS
  Imap,         \* IMAP sessions
  Pop,          \* POP3 connections
  Web,          \* webmail requests
  Boxes,        \* mailboxes of the one user
  Inbox,        \* the one POP3 serves
  Flags,        \* bits of messages.flags
  Choices,      \* bound: the flag lists a client may name
  MaxRows,      \* bound: number of rows ever inserted
  Span          \* bound: number of rows one STORE or COPY may name

ASSUME BoxAssumption == Inbox \in Boxes
ASSUME FlagAssumption == {"Seen", "Deleted"} \subseteq Flags
ASSUME ChoiceAssumption == Choices \subseteq SUBSET Flags
ASSUME RowAssumption == MaxRows \in Nat

VARIABLES
  \* The table, and what it was.
  last,     \* sqlite_sequence: the largest messages.id handed out
  live,     \* ids of the rows that exist
  box,      \* messages.mailbox_id
  uid,      \* messages.uid
  flags,    \* messages.flags
  marked,   \* history: rows that were \Deleted at some time
  \* IMAP sessions.
  cmd,      \* the command that is going through a list
  arg,      \* its arguments
  list,     \* the rows, as they were listed, that it has not come to yet
  \* POP3 connections.
  conn,     \* protocol state, or the command under way
  marks,    \* Session.markedDeleted
  goal,     \* the rows that command is about
  \* Webmail requests.
  web       \* what each has read

rowVars  == <<last, live, box, uid, flags, marked>>
imapVars == <<cmd, arg, list>>
popVars  == <<conn, marks, goal>>
vars == <<rowVars, imapVars, popVars, web>>

Ids == 1..MaxRows

\* What ListMessages returns of a row.
Snapshots == [id : Ids, uid : Nat, flags : SUBSET Flags]

Ops == {"set", "add", "remove"}

\* Arguments of STORE and COPY; a command without has NoArg.
Args == [op : Ops, bits : SUBSET Flags, dest : Boxes]
NoArg == [op |-> "set", bits |-> {}, dest |-> Inbox]

NoRequest == [pc |-> "none", id |-> 0, flags |-> {}]
Requests == [pc : {"none", "write"}, id : 0..MaxRows, flags : SUBSET Flags]

TypeOK ==
  /\ last   \in 0..MaxRows
  /\ live   \subseteq 1..last
  /\ box    \in [Ids -> Boxes]
  /\ uid    \in [Ids -> Nat]
  /\ flags  \in [Ids -> SUBSET Flags]
  /\ marked \subseteq 1..last
  /\ cmd    \in [Imap -> {"none", "store", "copy", "expunge"}]
  /\ arg    \in [Imap -> Args]
  /\ list   \in [Imap -> SUBSET Snapshots]
  /\ conn   \in [Pop -> {"auth", "trans", "mark", "reset"}]
  /\ marks  \in [Pop -> SUBSET Ids]
  /\ goal   \in [Pop -> SUBSET Ids]
  /\ web    \in [Web -> Requests]
  /\ \A p \in Pop : conn[p] = "auth" => marks[p] = {}

Init ==
  /\ last   = 0
  /\ live   = {}
  /\ box    = [i \in Ids |-> Inbox]
  /\ uid    = [i \in Ids |-> 0]
  /\ flags  = [i \in Ids |-> {}]
  /\ marked = {}
  /\ cmd    = [s \in Imap |-> "none"]
  /\ arg    = [s \in Imap |-> NoArg]
  /\ list   = [s \in Imap |-> {}]
  /\ conn   = [p \in Pop |-> "auth"]
  /\ marks  = [p \in Pop |-> {}]
  /\ goal   = [p \in Pop |-> {}]
  /\ web    = [w \in Web |-> NoRequest]

-----------------------------------------------------------------------------
(* Statements of pkg/storage/messages.go.                                  *)

Rows(b) == {i \in live : box[i] = b}

\* Mutant: SELECT COUNT(*), plus one.
UidByCount(b, u) == u = Cardinality(Rows(b)) + 1

\* SELECT MAX(uid), plus one; NULL counts as 0.
NextUid(b, u) ==
  \/ Rows(b) = {} /\ u = 1
  \/ \E i \in Rows(b) : /\ u = uid[i] + 1
                        /\ \A j \in Rows(b) : uid[j] <= uid[i]

\* InsertMessage: read the maximum and insert, in one transaction.
InsertMessage(b, F) ==
  /\ last < MaxRows
  /\ last' = last + 1
  /\ live' = live \cup {last'}
  /\ box' = [box EXCEPT ![last'] = b]
  /\ flags' = [flags EXCEPT ![last'] = F]
  /\ \E u \in 1..last' : NextUid(b, u) /\ uid' = [uid EXCEPT ![last'] = u]
  /\ marked' = IF "Deleted" \in F THEN marked \cup {last'} ELSE marked

\* UpdateFlags on a row that exists: the bits of the mask are replaced.
UpdateFlags(i, F, mask) ==
  /\ flags' = [flags EXCEPT ![i] = (@ \ mask) \cup (F \cap mask)]
  /\ marked' = IF "Deleted" \in F \cap mask THEN marked \cup {i} ELSE marked
  /\ UNCHANGED <<last, live, box, uid>>

\* DELETE; the flags of a row that is gone are forgotten.
DeleteRows(S) ==
  /\ live' = live \ S
  /\ flags' = [i \in Ids |-> IF i \in S THEN {} ELSE flags[i]]
  /\ UNCHANGED <<last, box, uid, marked>>

\* ListMessages, restricted to what the command is about.
Listing(S) == {[id |-> i, uid |-> uid[i], flags |-> flags[i]] : i \in S}

-----------------------------------------------------------------------------
(* Deliveries and IMAP.                                                    *)

\* SMTP DATA, a delivery worker or a bounce stores a message.
Deliver(b) ==
  /\ InsertMessage(b, {})
  /\ UNCHANGED <<imapVars, popVars, web>>

\* APPEND: the body is stored before, the notification comes after.
CreateMessage(s, b, F) ==
  /\ cmd[s] = "none"
  /\ InsertMessage(b, F)
  /\ UNCHANGED <<imapVars, popVars, web>>

\* A command that goes through a list: it is read, and the sequence set (of
\* UIDs or of positions in the list) picks the rows S of it.
Begin(s, name, a, S) ==
  /\ cmd[s] = "none"
  /\ S # {}
  /\ cmd' = [cmd EXCEPT ![s] = name]
  /\ arg' = [arg EXCEPT ![s] = a]
  /\ list' = [list EXCEPT ![s] = Listing(S)]
  /\ UNCHANGED <<rowVars, popVars, web>>

StoreBegin(s, S, op, F) ==
  Begin(s, "store", [op |-> op, bits |-> F, dest |-> Inbox], S)
CopyBegin(s, S, b) ==
  Begin(s, "copy", [op |-> "set", bits |-> {}, dest |-> b], S)
ExpungeBegin(s, b) ==
  Begin(s, "expunge", NoArg, {i \in Rows(b) : "Deleted" \in flags[i]})

\* The command goes on with what is left of its list, and ends with it.
Advance(s, rest) ==
  /\ list' = [list EXCEPT ![s] = rest]
  /\ cmd' = [cmd EXCEPT ![s] = IF rest = {} THEN "none" ELSE @]
  /\ arg' = [arg EXCEPT ![s] = IF rest = {} THEN NoArg ELSE @]
  /\ UNCHANGED <<popVars, web>>

\* The next row of the list: upwards, or newest first.
Lowest(s, m)  == m \in list[s] /\ \A n \in list[s] : m.uid <= n.uid
Highest(s, m) == m \in list[s] /\ \A n \in list[s] : n.uid <= m.uid

\* The new flags, computed from the ones in the list.
NewFlags(s, old) ==
  IF arg[s].op = "set" THEN arg[s].bits
  ELSE IF arg[s].op = "add" THEN old \cup arg[s].bits
  ELSE old \ arg[s].bits

\* UpdateMessagesFlags, one UpdateFlags with a mask of all bits; it gives up
\* when the row is gone.
StoreStep(s, m) ==
  /\ cmd[s] = "store"
  /\ Lowest(s, m)
  /\ \/ /\ m.id \in live
        /\ UpdateFlags(m.id, NewFlags(s, m.flags), Flags)
        /\ Advance(s, list[s] \ {m})
     \/ m.id \notin live /\ Advance(s, {}) /\ UNCHANGED rowVars

\* CopyMessages, one InsertMessage with the flags from the list.
CopyStep(s, m) ==
  /\ cmd[s] = "copy"
  /\ Lowest(s, m)
  /\ InsertMessage(arg[s].dest, m.flags)
  /\ Advance(s, list[s] \ {m})

\* Mutant: the row is found by its UID.
ExpungeByUid(s, m) ==
  /\ cmd[s] = "expunge"
  /\ Highest(s, m)
  /\ DeleteRows({i \in Rows(box[m.id]) : uid[i] = m.uid})
  /\ Advance(s, list[s] \ {m})

\* Expunge, one DeleteMessage; it gives up when the row is gone already.
ExpungeStep(s, m) ==
  /\ cmd[s] = "expunge"
  /\ Highest(s, m)
  /\ \/ /\ m.id \in live
        /\ DeleteRows({m.id})
        /\ Advance(s, list[s] \ {m})
     \/ m.id \notin live /\ Advance(s, {}) /\ UNCHANGED rowVars

-----------------------------------------------------------------------------
(* POP3.                                                                   *)

\* The connection goes on, with these marks and these rows still to treat.
PopGoto(p, from, to, M, G) ==
  /\ conn[p] = from
  /\ conn' = [conn EXCEPT ![p] = to]
  /\ marks' = [marks EXCEPT ![p] = M]
  /\ goal' = [goal EXCEPT ![p] = G]
  /\ UNCHANGED <<imapVars, web>>

\* USER and PASS, or APOP.
PopLogin(p) ==
  /\ PopGoto(p, "auth", "trans", {}, {})
  /\ UNCHANGED rowVars

\* DELE: look the UID up, then set the flag; the mark is remembered only if
\* the row was still there.
PopDele(p, i) ==
  /\ i \in Rows(Inbox)
  /\ PopGoto(p, "trans", "mark", marks[p], {i})
  /\ UNCHANGED rowVars
PopMark(p, i) ==
  /\ i \in goal[p]
  /\ \/ /\ i \in live
        /\ PopGoto(p, "mark", "trans", marks[p] \cup {i}, {})
        /\ UpdateFlags(i, {"Deleted"}, {"Deleted"})
     \/ /\ i \notin live
        /\ PopGoto(p, "mark", "trans", marks[p], {})
        /\ UNCHANGED rowVars

\* RSET: clear the flag of every row this connection has marked, in the
\* order of a Go map; a row that is gone is passed over.
PopReset(p) ==
  /\ marks[p] # {}
  /\ PopGoto(p, "trans", "reset", marks[p], marks[p])
  /\ UNCHANGED rowVars
PopUnmark(p, i) ==
  /\ i \in goal[p]
  /\ \/ goal[p] = {i} /\ PopGoto(p, "reset", "trans", {}, {})
     \/ goal[p] # {i} /\ PopGoto(p, "reset", "reset", marks[p], goal[p] \ {i})
  /\ \/ i \in live /\ UpdateFlags(i, {}, {"Deleted"})
     \/ i \notin live /\ UNCHANGED rowVars

\* QUIT: ExpungeMailbox if this connection has marked anything.
PopQuit(p) ==
  /\ PopGoto(p, "trans", "auth", {}, {})
  /\ \/ /\ marks[p] # {}
        /\ DeleteRows({i \in Rows(Inbox) : "Deleted" \in flags[i]})
     \/ marks[p] = {} /\ UNCHANGED rowVars

\* The connection breaks: the loop of handle returns, the flags stay.
PopDrop(p) ==
  /\ PopGoto(p, "trans", "auth", {}, {})
  /\ UNCHANGED rowVars

-----------------------------------------------------------------------------
(* Webmail.                                                                *)

\* handleUpdateFlags reads the row and its mailbox ...
WebRead(w, i) ==
  /\ web[w].pc = "none"
  /\ web' = [web EXCEPT ![w] = [pc |-> "write", id |-> i, flags |-> flags[i]]]
  /\ UNCHANGED <<rowVars, imapVars, popVars>>

WebFlags(w, seen) ==
  IF seen THEN web[w].flags \cup {"Seen"} ELSE web[w].flags \ {"Seen"}

\* Mutant: the whole bitmask is written back.
WebWriteAll(w, seen) ==
  /\ web[w].pc = "write"
  /\ web' = [web EXCEPT ![w] = NoRequest]
  /\ \/ web[w].id \in live /\ UpdateFlags(web[w].id, WebFlags(w, seen), Flags)
     \/ web[w].id \notin live /\ UNCHANGED rowVars
  /\ UNCHANGED <<imapVars, popVars>>

\* ... and writes the bit for \Seen back.
WebWrite(w, seen) ==
  /\ web[w].pc = "write"
  /\ web' = [web EXCEPT ![w] = NoRequest]
  /\ \/ web[w].id \in live /\ UpdateFlags(web[w].id, WebFlags(w, seen), {"Seen"})
     \/ web[w].id \notin live /\ UNCHANGED rowVars
  /\ UNCHANGED <<imapVars, popVars>>

-----------------------------------------------------------------------------
ImapStart(s) ==
  \E b \in Boxes :
    \/ \E F \in Choices : CreateMessage(s, b, F)
    \/ ExpungeBegin(s, b)
    \/ \E S \in SUBSET Rows(b) :
         /\ Cardinality(S) <= Span
         /\ \/ \E op \in Ops, F \in Choices : StoreBegin(s, S, op, F)
            \/ \E d \in Boxes : CopyBegin(s, S, d)

ImapStep(s) ==
  \E m \in list[s] : StoreStep(s, m) \/ CopyStep(s, m) \/ ExpungeStep(s, m)

PopStep(p) ==
  \/ PopLogin(p) \/ PopReset(p) \/ PopQuit(p) \/ PopDrop(p)
  \/ \E i \in live : PopDele(p, i)
  \/ \E i \in goal[p] : PopMark(p, i) \/ PopUnmark(p, i)

Next ==
  \/ \E b \in Boxes : Deliver(b)
  \/ \E s \in Imap : ImapStart(s) \/ ImapStep(s)
  \/ \E p \in Pop : PopStep(p)
  \/ \E w \in Web : \/ \E i \in live : WebRead(w, i)
                    \/ \E seen \in BOOLEAN : WebWrite(w, seen)

Spec == Init /\ [][Next]_vars
-----------------------------------------------------------------------------
(* Properties.                                                             *)

\* The listing by UID is the order of arrival, without ties: no two messages
\* of a mailbox share a UID and a later one has the larger UID, whatever was
\* deleted in between.
UidsFollowArrival ==
  \A i, j \in live : i < j /\ box[i] = box[j] => uid[i] < uid[j]

\* EXPUNGE and QUIT remove no message that nobody has marked: every row that
\* is gone was \Deleted at some time of its life.
DeletedWasMarked == (1..last) \ live \subseteq marked

\* Only the bits of F of a row differ after the step.
OnlyBits(i, F) == flags[i] \ F = flags'[i] \ F

\* A writer changes no flag but its own: outside an IMAP STORE, a webmail
\* request changes \Seen alone and a POP3 command \Deleted alone, so neither
\* writes back a flag that another session has changed since it was read.
OthersKeepFlags ==
  [][\A i \in live \cap live' :
       \/ OnlyBits(i, {})
       \/ OnlyBits(i, {"Seen"}) /\ \E w \in Web : web'[w] # web[w]
       \/ OnlyBits(i, {"Deleted"}) /\ \E p \in Pop : goal'[p] # goal[p]
       \/ \E s \in Imap : cmd[s] = "store" /\ list'[s] # list[s]]_vars

-----------------------------------------------------------------------------
\* What makes DeletedWasMarked inductive: the history of marks covers the
\* rows that have the flag now and the rows an EXPUNGE has listed.
MarkInv ==
  /\ DeletedWasMarked
  /\ \A i \in live : "Deleted" \in flags[i] => i \in marked
  /\ \A s \in Imap : cmd[s] = "expunge" => \A m \in list[s] : m.id \in marked
=============================================================================
