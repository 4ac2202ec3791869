--------------------------- MODULE MailboxProofs ---------------------------
(***************************************************************************)
(* What Mailbox guarantees for any number of sessions, mailboxes, flags    *)
(* and messages.                                                           *)
(*                                                                         *)
(* The rows change in three ways only: InsertMessage, UpdateFlags and      *)
(* DeleteRows.  Every step of a session is sorted into these (or leaves    *)
(* the rows alone) and the invariants are shown for the three.             *)
(***************************************************************************)
EXTENDS Mailbox, TLAPS

RowTypes ==
  /\ last   \in 0..MaxRows
  /\ live   \subseteq 1..last
  /\ box    \in [Ids -> Boxes]
  /\ uid    \in [Ids -> Nat]
  /\ flags  \in [Ids -> SUBSET Flags]
  /\ marked \subseteq 1..last

ImapTypes ==
  /\ cmd   \in [Imap -> {"none", "store", "copy", "expunge"}]
  /\ arg   \in [Imap -> Args]
  /\ list  \in [Imap -> SUBSET Snapshots]

PopTypes ==
  /\ conn  \in [Pop -> {"auth", "trans", "mark", "reset"}]
  /\ marks \in [Pop -> SUBSET Ids]
  /\ goal  \in [Pop -> SUBSET Ids]
  /\ \A p \in Pop : conn[p] = "auth" => marks[p] = {}

\* The three statements that change rows, and none.
Change ==
  \/ \E b \in Boxes, F \in SUBSET Flags : InsertMessage(b, F)
  \/ \E i \in live, F, mask \in SUBSET Flags : UpdateFlags(i, F, mask)
  \/ \E S \in SUBSET live : DeleteRows(S)
  \/ UNCHANGED rowVars

\* Each statement keeps the columns in their types.
LEMMA ChangeKeepsRowTypes ==
  ASSUME RowTypes, Change
  PROVE  RowTypes'
  <1> USE RowAssumption, BoxAssumption DEF RowTypes, Ids
  <1>1. ASSUME NEW b \in Boxes, NEW F \in SUBSET Flags, InsertMessage(b, F)
        PROVE  RowTypes'
    BY <1>1 DEF InsertMessage
  <1>2. ASSUME NEW i \in live, NEW F \in SUBSET Flags,
               NEW mask \in SUBSET Flags, UpdateFlags(i, F, mask)
        PROVE  RowTypes'
    BY <1>2 DEF UpdateFlags
  <1>3. ASSUME NEW S \in SUBSET live, DeleteRows(S)
        PROVE  RowTypes'
    BY <1>3 DEF DeleteRows
  <1>4. CASE UNCHANGED rowVars
    BY <1>4 DEF rowVars
  <1> QED
    BY <1>1, <1>2, <1>3, <1>4 DEF Change

\* A listing has the type of a command's list.
LEMMA ListingType ==
  ASSUME RowTypes, NEW S \in SUBSET live
  PROVE  Listing(S) \in SUBSET Snapshots
  BY RowAssumption DEF Listing, Snapshots, RowTypes, Ids

\* The flags a STORE computes are flags.
LEMMA NewFlagsType ==
  ASSUME ImapTypes, NEW s \in Imap, NEW F \in SUBSET Flags
  PROVE  NewFlags(s, F) \in SUBSET Flags
  <1>1. arg[s].bits \in SUBSET Flags
    BY DEF ImapTypes, Args
  <1> QED
    BY <1>1 DEF NewFlags

\* The start of an IMAP command: nothing but the session changes, or an
\* APPEND inserts a row.
LEMMA ImapStarts ==
  ASSUME TypeOK, NEW s \in Imap, ImapStart(s)
  PROVE  Change /\ ImapTypes' /\ UNCHANGED <<popVars, web>>
  <1>t. RowTypes /\ ImapTypes
    BY DEF TypeOK, RowTypes, ImapTypes
  <1>1. ASSUME NEW b \in Boxes, NEW F \in Choices, CreateMessage(s, b, F)
        PROVE  Change /\ ImapTypes' /\ UNCHANGED <<popVars, web>>
    BY <1>1, <1>t, ChoiceAssumption DEF CreateMessage, Change, ImapTypes, imapVars
  <1>2. ASSUME NEW name \in {"store", "copy", "expunge"},
               NEW a \in Args, NEW S \in SUBSET live, Begin(s, name, a, S)
        PROVE  Change /\ ImapTypes' /\ UNCHANGED <<popVars, web>>
    <2>1. Listing(S) \in SUBSET Snapshots
      BY <1>t, ListingType
    <2> QED
      BY <1>2, <1>t, <2>1 DEF Begin, Change, ImapTypes
  <1>3. NoArg \in Args
    BY BoxAssumption DEF NoArg, Args, Ops
  <1>4. ASSUME NEW b \in Boxes, ExpungeBegin(s, b)
        PROVE  Change /\ ImapTypes' /\ UNCHANGED <<popVars, web>>
    BY <1>2, <1>3, <1>4 DEF ExpungeBegin, Rows
  <1>5. ASSUME NEW b \in Boxes, NEW S \in SUBSET Rows(b), NEW op \in Ops,
               NEW F \in Choices, StoreBegin(s, S, op, F)
        PROVE  Change /\ ImapTypes' /\ UNCHANGED <<popVars, web>>
    <2>1. [op |-> op, bits |-> F, dest |-> Inbox] \in Args
      BY ChoiceAssumption, BoxAssumption DEF Args
    <2> QED
      BY <1>2, <1>5, <2>1 DEF StoreBegin, Rows
  <1>6. ASSUME NEW b \in Boxes, NEW S \in SUBSET Rows(b), NEW d \in Boxes,
               CopyBegin(s, S, d)
        PROVE  Change /\ ImapTypes' /\ UNCHANGED <<popVars, web>>
    <2>1. [op |-> "set", bits |-> {}, dest |-> d] \in Args
      BY DEF Args, Ops
    <2> QED
      BY <1>2, <1>6, <2>1 DEF CopyBegin, Rows
  <1> QED
    BY <1>1, <1>4, <1>5, <1>6 DEF ImapStart

\* The next step of an IMAP command is one statement.
LEMMA ImapSteps ==
  ASSUME TypeOK, NEW s \in Imap, ImapStep(s)
  PROVE  Change /\ ImapTypes' /\ UNCHANGED <<popVars, web>>
  <1>t. RowTypes /\ ImapTypes
    BY DEF TypeOK, RowTypes, ImapTypes
  <1>1. ASSUME NEW rest \in SUBSET list[s], Advance(s, rest)
        PROVE  ImapTypes' /\ UNCHANGED <<popVars, web>>
    <2>1. NoArg \in Args
      BY BoxAssumption DEF NoArg, Args, Ops
    <2> QED
      BY <1>1, <1>t, <2>1 DEF Advance, ImapTypes
  <1>2. ASSUME NEW m \in list[s]
        PROVE  m.flags \in SUBSET Flags /\ arg[s].dest \in Boxes
    BY <1>t DEF ImapTypes, Snapshots, Args
  <1>3. ASSUME NEW m \in list[s], StoreStep(s, m)
        PROVE  Change /\ ImapTypes' /\ UNCHANGED <<popVars, web>>
    <2>1. NewFlags(s, m.flags) \in SUBSET Flags
      BY <1>t, <1>2, NewFlagsType
    <2> QED
      BY <1>3, <1>1, <2>1 DEF StoreStep, Change
  <1>4. ASSUME NEW m \in list[s], CopyStep(s, m)
        PROVE  Change /\ ImapTypes' /\ UNCHANGED <<popVars, web>>
    BY <1>4, <1>1, <1>2 DEF CopyStep, Change
  <1>5. ASSUME NEW m \in list[s], ExpungeStep(s, m)
        PROVE  Change /\ ImapTypes' /\ UNCHANGED <<popVars, web>>
    BY <1>5, <1>1 DEF ExpungeStep, Change
  <1> QED
    BY <1>3, <1>4, <1>5 DEF ImapStep

\* So is a step of a POP3 connection.
LEMMA PopSteps ==
  ASSUME TypeOK, NEW p \in Pop, PopStep(p)
  PROVE  Change /\ PopTypes' /\ UNCHANGED <<imapVars, web>>
  <1>t. PopTypes /\ live \subseteq Ids
    BY RowAssumption DEF TypeOK, PopTypes, Ids
  <1>1. ASSUME NEW from, NEW to \in {"auth", "trans", "mark", "reset"},
               NEW M \in SUBSET Ids, NEW G \in SUBSET Ids,
               PopGoto(p, from, to, M, G), to = "auth" => M = {}
        PROVE  PopTypes' /\ UNCHANGED <<imapVars, web>>
    BY <1>1, <1>t DEF PopGoto, PopTypes
  <1>2. marks[p] \in SUBSET Ids /\ goal[p] \in SUBSET Ids
    BY <1>t DEF PopTypes
  <1>3. ASSUME PopLogin(p) \/ PopDrop(p) \/ PopReset(p)
        PROVE  Change /\ PopTypes' /\ UNCHANGED <<imapVars, web>>
    BY <1>1, <1>2, <1>3 DEF PopLogin, PopDrop, PopReset, Change
  <1>4. ASSUME PopQuit(p)
        PROVE  Change /\ PopTypes' /\ UNCHANGED <<imapVars, web>>
    <2>1. {i \in Rows(Inbox) : "Deleted" \in flags[i]} \in SUBSET live
      BY DEF Rows
    <2> QED
      BY <1>1, <1>4, <2>1 DEF PopQuit, Change
  <1>5. ASSUME NEW i \in live, PopDele(p, i)
        PROVE  Change /\ PopTypes' /\ UNCHANGED <<imapVars, web>>
    BY <1>1, <1>2, <1>5, <1>t DEF PopDele, Change
  <1>6. ASSUME NEW i \in goal[p], PopMark(p, i)
        PROVE  Change /\ PopTypes' /\ UNCHANGED <<imapVars, web>>
    BY <1>1, <1>2, <1>6, FlagAssumption DEF PopMark, Change
  <1>7. ASSUME NEW i \in goal[p], PopUnmark(p, i)
        PROVE  Change /\ PopTypes' /\ UNCHANGED <<imapVars, web>>
    BY <1>1, <1>2, <1>7, FlagAssumption DEF PopUnmark, Change
  <1> QED
    BY <1>3, <1>4, <1>5, <1>6, <1>7 DEF PopStep

\* And of a webmail request.
LEMMA WebSteps ==
  ASSUME TypeOK, NEW w \in Web,
         \/ \E i \in live : WebRead(w, i)
         \/ \E seen \in BOOLEAN : WebWrite(w, seen)
  PROVE  Change /\ web' \in [Web -> Requests] /\ UNCHANGED <<imapVars, popVars>>
  <1> USE FlagAssumption, RowAssumption DEF TypeOK, Requests, NoRequest, Ids
  <1>1. ASSUME NEW i \in live, WebRead(w, i)
        PROVE  Change /\ web' \in [Web -> Requests] /\ UNCHANGED <<imapVars, popVars>>
    BY <1>1 DEF WebRead, Change
  <1>2. ASSUME NEW seen \in BOOLEAN, WebWrite(w, seen)
        PROVE  Change /\ web' \in [Web -> Requests] /\ UNCHANGED <<imapVars, popVars>>
    <2>1. WebFlags(w, seen) \in SUBSET Flags
      BY DEF WebFlags
    <2>2. {"Seen"} \in SUBSET Flags
      OBVIOUS
    <2>3. Change
      BY <1>2, <2>1, <2>2 DEF WebWrite, Change
    <2>4. NoRequest \in Requests
      OBVIOUS
    <2> QED
      BY <1>2, <2>3, <2>4 DEF WebWrite
  <1> QED
    BY <1>1, <1>2

\* Every step changes the rows by one statement or not at all.
LEMMA NextChanges ==
  ASSUME TypeOK, [Next]_vars
  PROVE  Change /\ TypeOK'
  <1>t. RowTypes /\ ImapTypes /\ PopTypes /\ web \in [Web -> Requests]
    BY DEF TypeOK, RowTypes, ImapTypes, PopTypes
  <1>1. ASSUME NEW b \in Boxes, Deliver(b)
        PROVE  Change /\ UNCHANGED <<imapVars, popVars, web>>
    BY <1>1 DEF Deliver, Change
  <1>2. Change /\ ImapTypes' /\ PopTypes' /\ web' \in [Web -> Requests]
    <2> USE DEF ImapTypes, PopTypes, imapVars, popVars
    <2>1. CASE UNCHANGED vars
      BY <2>1, <1>t DEF vars, Change
    <2>2. CASE \E b \in Boxes : Deliver(b)
      BY <2>2, <1>1, <1>t
    <2>3. CASE \E s \in Imap : ImapStart(s) \/ ImapStep(s)
      BY <2>3, <1>t, ImapStarts, ImapSteps
    <2>4. CASE \E p \in Pop : PopStep(p)
      BY <2>4, <1>t, PopSteps
    <2>5. CASE \E w \in Web : \/ \E i \in live : WebRead(w, i)
                              \/ \E seen \in BOOLEAN : WebWrite(w, seen)
      BY <2>5, <1>t, WebSteps
    <2> QED
      BY <2>1, <2>2, <2>3, <2>4, <2>5 DEF Next
  <1>3. RowTypes'
    BY <1>t, <1>2, ChangeKeepsRowTypes
  <1> QED
    BY <1>2, <1>3 DEF TypeOK, RowTypes, ImapTypes, PopTypes

\* TypeOK holds throughout, for any sessions, mailboxes and flags.
THEOREM TypeCorrect == Spec => []TypeOK
  <1>1. Init => TypeOK
    BY BoxAssumption, RowAssumption
    DEF Init, TypeOK, Ids, Args, NoArg, Requests, NoRequest, Ops
  <1>2. TypeOK /\ [Next]_vars => TypeOK'
    BY NextChanges
  <1> QED
    BY <1>1, <1>2, PTL DEF Spec

-----------------------------------------------------------------------------
(* Message numbers.                                                        *)

\* The UID a new row gets is above all UIDs of its mailbox.
LEMMA NextUidIsAbove ==
  ASSUME RowTypes, NEW b \in Boxes, NEW u \in Nat, NextUid(b, u)
  PROVE  \A j \in Rows(b) : uid[j] < u
  <1>1. \A j \in Rows(b) : uid[j] \in Nat
    BY RowAssumption DEF RowTypes, Rows, Ids
  <1>2. CASE Rows(b) = {}
    BY <1>2
  <1>3. ASSUME NEW i \in Rows(b), u = uid[i] + 1,
               \A j \in Rows(b) : uid[j] <= uid[i]
        PROVE  \A j \in Rows(b) : uid[j] < u
    BY <1>1, <1>3
  <1> QED
    BY <1>2, <1>3 DEF NextUid

\* A statement keeps arrival order and UID order together.
LEMMA ChangeKeepsOrder ==
  ASSUME RowTypes, UidsFollowArrival, Change
  PROVE  UidsFollowArrival'
  <1> USE RowAssumption DEF RowTypes, UidsFollowArrival, Ids
  <1>1. ASSUME NEW b \in Boxes, NEW F \in SUBSET Flags, InsertMessage(b, F)
        PROVE  UidsFollowArrival'
    <2> PICK u \in 1..last' : /\ NextUid(b, u)
                              /\ uid' = [uid EXCEPT ![last'] = u]
      BY <1>1 DEF InsertMessage
    <2>1. last' \in Nat /\ u \in Nat /\ last' = last + 1 /\ last' \in Ids
      BY <1>1 DEF InsertMessage
    <2>2. \A j \in Rows(b) : uid[j] < u
      BY <2>1, NextUidIsAbove
    <2>3. \A j \in live : j < last' /\ uid'[j] = uid[j] /\ box'[j] = box[j]
      BY <1>1, <2>1 DEF InsertMessage
    <2>4. uid'[last'] = u /\ box'[last'] = b /\ live' = live \cup {last'}
      BY <1>1, <2>1 DEF InsertMessage
    <2> SUFFICES ASSUME NEW i \in live', NEW j \in live', i < j,
                        box'[i] = box'[j]
                 PROVE  uid'[i] < uid'[j]
      OBVIOUS
    <2>5. i \in live
      BY <2>1, <2>3, <2>4
    <2>6. CASE j \in live
      BY <2>3, <2>5, <2>6
    <2>7. CASE j = last'
      BY <2>2, <2>3, <2>4, <2>5, <2>7 DEF Rows
    <2> QED
      BY <2>4, <2>6, <2>7
  <1>2. ASSUME NEW i \in live, NEW F \in SUBSET Flags,
               NEW mask \in SUBSET Flags, UpdateFlags(i, F, mask)
        PROVE  UidsFollowArrival'
    BY <1>2 DEF UpdateFlags
  <1>3. ASSUME NEW S \in SUBSET live, DeleteRows(S)
        PROVE  UidsFollowArrival'
    BY <1>3 DEF DeleteRows
  <1>4. CASE UNCHANGED rowVars
    BY <1>4 DEF rowVars
  <1> QED
    BY <1>1, <1>2, <1>3, <1>4 DEF Change

\* UIDs are unique in a mailbox and grow with arrival, whatever is deleted
\* and by whom: `UidsFollowArrival` is inductive for MAX(uid) + 1.
THEOREM UidsInOrder == Spec => []UidsFollowArrival
  <1>1. Init => UidsFollowArrival
    BY DEF Init, UidsFollowArrival
  <1>2. TypeOK /\ UidsFollowArrival /\ [Next]_vars => UidsFollowArrival'
    BY NextChanges, ChangeKeepsOrder DEF TypeOK, RowTypes
  <1> QED
    BY <1>1, <1>2, TypeCorrect, PTL DEF Spec

-----------------------------------------------------------------------------
(* Nothing is lost that nobody marked.                                     *)

\* Inserting and updating keep the history of marks ahead of the flags; a
\* deletion may only concern rows of that history.
LEMMA ChangeKeepsMarks ==
  ASSUME RowTypes, Change, DeletedWasMarked,
         \A i \in live : "Deleted" \in flags[i] => i \in marked,
         live \ live' \subseteq marked
  PROVE  /\ DeletedWasMarked'
         /\ \A i \in live' : "Deleted" \in flags'[i] => i \in marked'
         /\ marked \subseteq marked'
  <1> USE RowAssumption DEF RowTypes, DeletedWasMarked, Ids
  <1>1. ASSUME NEW b \in Boxes, NEW F \in SUBSET Flags, InsertMessage(b, F)
        PROVE  /\ DeletedWasMarked'
               /\ \A i \in live' : "Deleted" \in flags'[i] => i \in marked'
               /\ marked \subseteq marked'
    <2>1. last' = last + 1 /\ live' = live \cup {last'} /\ marked \subseteq marked'
      BY <1>1 DEF InsertMessage
    <2>2. DeletedWasMarked'
      BY <2>1
    <2>3. \A i \in live' : "Deleted" \in flags'[i] => i \in marked'
      BY <1>1, <2>1 DEF InsertMessage
    <2> QED
      BY <2>1, <2>2, <2>3
  <1>2. ASSUME NEW i \in live, NEW F \in SUBSET Flags,
               NEW mask \in SUBSET Flags, UpdateFlags(i, F, mask)
        PROVE  /\ DeletedWasMarked'
               /\ \A j \in live' : "Deleted" \in flags'[j] => j \in marked'
               /\ marked \subseteq marked'
    BY <1>2 DEF UpdateFlags
  <1>3. ASSUME NEW S \in SUBSET live, DeleteRows(S)
        PROVE  /\ DeletedWasMarked'
               /\ \A j \in live' : "Deleted" \in flags'[j] => j \in marked'
               /\ marked \subseteq marked'
    BY <1>3 DEF DeleteRows
  <1>4. CASE UNCHANGED rowVars
    BY <1>4 DEF rowVars
  <1> QED
    BY <1>1, <1>2, <1>3, <1>4 DEF Change

\* Only EXPUNGE and QUIT delete: a row its session has listed as \Deleted,
\* or rows that are \Deleted now; and only the start of an EXPUNGE gives a
\* session rows to expunge.
LEMMA OnlyMarkedRowsGo ==
  ASSUME TypeOK, MarkInv, [Next]_vars
  PROVE  /\ live \ live' \subseteq marked
         /\ \A s \in Imap : cmd'[s] = "expunge" =>
              \A m \in list'[s] : m.id \in marked
  <1> DEFINE Good == /\ live \ live' \subseteq marked
                     /\ \A s \in Imap : cmd'[s] = "expunge" =>
                          \A m \in list'[s] : m.id \in marked
  <1>l. ASSUME UNCHANGED imapVars, live \ live' \subseteq marked
        PROVE  Good
    BY <1>l DEF MarkInv, imapVars
  <1>u. ASSUME NEW i, NEW F, NEW mask, UpdateFlags(i, F, mask)
        PROVE  live' = live
    BY <1>u DEF UpdateFlags
  <1>i. ASSUME NEW b, NEW F, InsertMessage(b, F)
        PROVE  live \subseteq live'
    BY <1>i DEF InsertMessage
  <1>q. ASSUME UNCHANGED rowVars
        PROVE  live' = live
    BY <1>q DEF rowVars
  <1>a. ASSUME NEW s \in Imap, NEW rest \in SUBSET list[s], Advance(s, rest),
               live \ live' \subseteq marked
        PROVE  Good
    BY <1>a DEF Advance, MarkInv, TypeOK
  <1>1. ASSUME NEW b \in Boxes, Deliver(b) PROVE Good
    BY <1>1, <1>l, <1>i DEF Deliver
  <1>2. ASSUME NEW s \in Imap, NEW b \in Boxes, NEW F, CreateMessage(s, b, F)
        PROVE  Good
    BY <1>2, <1>l, <1>i DEF CreateMessage
  <1>3. ASSUME NEW s \in Imap, NEW name, NEW a, NEW S, Begin(s, name, a, S),
               name = "expunge" => \A i \in S : i \in marked
        PROVE  Good
    <2>1. live' = live /\ \A t \in Imap \ {s} : cmd'[t] = cmd[t] /\ list'[t] = list[t]
      BY <1>3, <1>q DEF Begin, TypeOK
    <2>2. cmd'[s] = name /\ list'[s] = Listing(S)
      BY <1>3 DEF Begin, TypeOK
    <2>3. \A m \in Listing(S) : m.id \in S
      BY DEF Listing
    <2> QED
      BY <1>3, <2>1, <2>2, <2>3 DEF MarkInv
  <1>4. ASSUME NEW s \in Imap, ImapStart(s) PROVE Good
    <2>1. ASSUME NEW b \in Boxes, ExpungeBegin(s, b) PROVE Good
      BY <2>1, <1>3 DEF ExpungeBegin, Rows, MarkInv
    <2>2. ASSUME NEW S, NEW op, NEW F, StoreBegin(s, S, op, F) PROVE Good
      BY <2>2, <1>3 DEF StoreBegin
    <2>3. ASSUME NEW S, NEW d, CopyBegin(s, S, d) PROVE Good
      BY <2>3, <1>3 DEF CopyBegin
    <2> QED
      BY <1>2, <1>4, <2>1, <2>2, <2>3 DEF ImapStart
  <1>5. ASSUME NEW s \in Imap, ImapStep(s) PROVE Good
    <2>1. ASSUME NEW m \in list[s], StoreStep(s, m) PROVE Good
      BY <2>1, <1>a, <1>u, <1>q DEF StoreStep
    <2>2. ASSUME NEW m \in list[s], CopyStep(s, m) PROVE Good
      BY <2>2, <1>a, <1>i DEF CopyStep
    <2>3. ASSUME NEW m \in list[s], ExpungeStep(s, m) PROVE Good
      <3>1. m.id \in marked
        BY <2>3 DEF ExpungeStep, MarkInv
      <3>2. live \ live' \subseteq marked
        BY <2>3, <3>1, <1>q DEF ExpungeStep, DeleteRows
      <3> QED
        BY <2>3, <3>2, <1>a DEF ExpungeStep
    <2> QED
      BY <1>5, <2>1, <2>2, <2>3 DEF ImapStep
  <1>6. ASSUME NEW p \in Pop, PopStep(p) PROVE Good
    <2>1. UNCHANGED imapVars
      BY <1>6, PopSteps
    <2>2. CASE PopLogin(p) \/ PopReset(p) \/ PopDrop(p)
      BY <2>1, <2>2, <1>l, <1>q DEF PopLogin, PopReset, PopDrop
    <2>3. CASE PopQuit(p)
      BY <2>1, <2>3, <1>l, <1>q DEF PopQuit, DeleteRows, Rows, MarkInv
    <2>4. ASSUME NEW i \in live, PopDele(p, i) PROVE Good
      BY <2>1, <2>4, <1>l, <1>q DEF PopDele
    <2>5. ASSUME NEW i \in goal[p], PopMark(p, i) PROVE Good
      BY <2>1, <2>5, <1>l, <1>q, <1>u DEF PopMark
    <2>6. ASSUME NEW i \in goal[p], PopUnmark(p, i) PROVE Good
      BY <2>1, <2>6, <1>l, <1>q, <1>u DEF PopUnmark
    <2> QED
      BY <1>6, <2>2, <2>3, <2>4, <2>5, <2>6 DEF PopStep
  <1>7. ASSUME NEW w \in Web, NEW i \in live, WebRead(w, i) PROVE Good
    BY <1>7, <1>l, <1>q DEF WebRead
  <1>8. ASSUME NEW w \in Web, NEW seen \in BOOLEAN, WebWrite(w, seen) PROVE Good
    BY <1>8, <1>l, <1>q, <1>u DEF WebWrite
  <1>9. CASE UNCHANGED vars
    BY <1>9, <1>l, <1>q DEF vars
  <1>10. CASE Next
    BY <1>10, <1>1, <1>4, <1>5, <1>6, <1>7, <1>8 DEF Next
  <1> QED
    BY <1>9, <1>10

\* A message is gone only if it was \Deleted at some time: stale listings
\* and concurrent QUITs never remove one that nobody has marked.
THEOREM NoUnmarkedLoss == Spec => []DeletedWasMarked
  <1>1. Init => MarkInv
    BY DEF Init, MarkInv, DeletedWasMarked
  <1>2. TypeOK /\ MarkInv /\ [Next]_vars => MarkInv'
    <2> SUFFICES ASSUME TypeOK, MarkInv, [Next]_vars PROVE MarkInv'
      OBVIOUS
    <2>1. RowTypes /\ Change
      BY NextChanges DEF TypeOK, RowTypes
    <2>2. /\ live \ live' \subseteq marked
          /\ \A s \in Imap : cmd'[s] = "expunge" =>
               \A m \in list'[s] : m.id \in marked
      BY OnlyMarkedRowsGo
    <2>3. /\ DeletedWasMarked'
          /\ \A i \in live' : "Deleted" \in flags'[i] => i \in marked'
          /\ marked \subseteq marked'
      BY <2>1, <2>2, ChangeKeepsMarks DEF MarkInv
    <2> QED
      BY <2>2, <2>3 DEF MarkInv
  <1>3. MarkInv => DeletedWasMarked
    BY DEF MarkInv
  <1> QED
    BY <1>1, <1>2, <1>3, TypeCorrect, PTL DEF Spec

-----------------------------------------------------------------------------
(* Who may change which flag.                                              *)

\* An update under a mask changes no bit outside it.
LEMMA MaskedUpdate ==
  ASSUME RowTypes, NEW j \in live, NEW F, NEW mask, UpdateFlags(j, F, mask),
         NEW i \in live
  PROVE  OnlyBits(i, mask)
  <1>1. i \in Ids /\ j \in Ids
    BY RowAssumption DEF RowTypes, Ids
  <1>2. CASE i # j
    BY <1>1, <1>2 DEF RowTypes, UpdateFlags, OnlyBits
  <1>3. CASE i = j
    <2>1. flags'[i] = (flags[i] \ mask) \cup (F \cap mask)
      BY <1>1, <1>3 DEF RowTypes, UpdateFlags
    <2> QED
      BY <2>1 DEF OnlyBits
  <1> QED
    BY <1>2, <1>3

\* Whatever a webmail request or a POP3 connection has read before, it
\* writes back no flag but its own: \Seen, or \Deleted.
THEOREM FlagsArePrivate == Spec => OthersKeepFlags
  <1> DEFINE Kept == \A i \in live \cap live' : OnlyBits(i, {})
             ByWeb == /\ \A i \in live \cap live' : OnlyBits(i, {"Seen"})
                      /\ \E w \in Web : web'[w] # web[w]
             ByPop == /\ \A i \in live \cap live' : OnlyBits(i, {"Deleted"})
                      /\ \E p \in Pop : goal'[p] # goal[p]
             Store == \E s \in Imap : cmd[s] = "store" /\ list'[s] # list[s]
  <1>1. ASSUME TypeOK, [Next]_vars PROVE Kept \/ ByWeb \/ ByPop \/ Store
    <2>t. RowTypes
      BY <1>1 DEF TypeOK, RowTypes
    <2>q. ASSUME UNCHANGED rowVars PROVE Kept
      BY <2>q DEF rowVars, OnlyBits
    <2>i. ASSUME NEW b \in Boxes, NEW F \in SUBSET Flags, InsertMessage(b, F)
          PROVE  Kept
      BY <2>i, <2>t, RowAssumption DEF InsertMessage, RowTypes, Ids, OnlyBits
    <2>d. ASSUME NEW S, DeleteRows(S) PROVE Kept
      BY <2>d, <2>t, RowAssumption DEF DeleteRows, RowTypes, Ids, OnlyBits
    <2>1. ASSUME NEW b \in Boxes, Deliver(b) PROVE Kept
      BY <2>1, <2>i DEF Deliver
    <2>2. ASSUME NEW s \in Imap, ImapStart(s) PROVE Kept
      <3>1. ASSUME NEW b \in Boxes, NEW F \in Choices, CreateMessage(s, b, F)
            PROVE  Kept
        BY <3>1, <2>i, ChoiceAssumption DEF CreateMessage
      <3>2. ASSUME NEW name, NEW a, NEW S, Begin(s, name, a, S) PROVE Kept
        BY <3>2, <2>q DEF Begin
      <3> QED
        BY <2>2, <3>1, <3>2
        DEF ImapStart, StoreBegin, CopyBegin, ExpungeBegin
    <2>3. ASSUME NEW s \in Imap, ImapStep(s) PROVE Kept \/ Store
      <3>1. ASSUME NEW m \in list[s], StoreStep(s, m) PROVE Store
        BY <3>1, <1>1 DEF StoreStep, Advance, TypeOK
      <3>2. ASSUME NEW m \in list[s], CopyStep(s, m) PROVE Kept
        <4>1. arg[s].dest \in Boxes /\ m.flags \in SUBSET Flags
          BY <1>1 DEF TypeOK, Args, Snapshots
        <4> QED
          BY <3>2, <4>1, <2>i DEF CopyStep
      <3>3. ASSUME NEW m \in list[s], ExpungeStep(s, m) PROVE Kept
        BY <3>3, <2>d, <2>q DEF ExpungeStep
      <3> QED
        BY <2>3, <3>1, <3>2, <3>3 DEF ImapStep
    <2>4. ASSUME NEW p \in Pop, PopStep(p) PROVE Kept \/ ByPop
      <3>1. CASE PopLogin(p) \/ PopReset(p) \/ PopDrop(p)
        BY <3>1, <2>q DEF PopLogin, PopReset, PopDrop
      <3>2. CASE PopQuit(p)
        BY <3>2, <2>q, <2>d DEF PopQuit
      <3>3. ASSUME NEW i \in live, PopDele(p, i) PROVE Kept
        BY <3>3, <2>q DEF PopDele
      <3>4. ASSUME NEW i \in goal[p], PopMark(p, i) PROVE Kept \/ ByPop
        <4>1. goal'[p] # goal[p]
          BY <3>4, <1>1 DEF PopMark, PopGoto, TypeOK
        <4> QED
          BY <3>4, <4>1, <2>q, <2>t, MaskedUpdate DEF PopMark
      <3>5. ASSUME NEW i \in goal[p], PopUnmark(p, i) PROVE Kept \/ ByPop
        <4>1. goal'[p] # goal[p]
          BY <3>5, <1>1 DEF PopUnmark, PopGoto, TypeOK
        <4> QED
          BY <3>5, <4>1, <2>q, <2>t, MaskedUpdate DEF PopUnmark
      <3> QED
        BY <2>4, <3>1, <3>2, <3>3, <3>4, <3>5 DEF PopStep
    <2>5. ASSUME NEW w \in Web, NEW i \in live, WebRead(w, i) PROVE Kept
      BY <2>5, <2>q DEF WebRead
    <2>6. ASSUME NEW w \in Web, NEW seen \in BOOLEAN, WebWrite(w, seen)
          PROVE  Kept \/ ByWeb
      <3>1. web'[w] # web[w]
        BY <2>6, <1>1 DEF WebWrite, NoRequest, TypeOK
      <3> QED
        BY <2>6, <3>1, <2>q, <2>t, MaskedUpdate DEF WebWrite
    <2>7. CASE UNCHANGED vars
      BY <2>7, <2>q DEF vars
    <2>8. CASE Next
      BY <2>8, <2>1, <2>2, <2>3, <2>4, <2>5, <2>6 DEF Next
    <2> QED
      BY <1>1, <2>7, <2>8
  <1>2. TypeOK /\ [Next]_vars =>
          [\A i \in live \cap live' :
             \/ OnlyBits(i, {})
             \/ OnlyBits(i, {"Seen"}) /\ \E w \in Web : web'[w] # web[w]
             \/ OnlyBits(i, {"Deleted"}) /\ \E p \in Pop : goal'[p] # goal[p]
             \/ \E s \in Imap : cmd[s] = "store" /\ list'[s] # list[s]]_vars
    BY <1>1
  <1> QED
    BY <1>2, TypeCorrect, PTL DEF Spec, OthersKeepFlags
=============================================================================
