--------------------------- MODULE ImapUserProofs ---------------------------
(***************************************************************************)
(* Theorems about ImapUser, for any number of sessions, names and          *)
(* mailboxes, any lifetime and any size of the cache: types, the cache of  *)
(* mailbox names, and the notifier behind IDLE.                            *)
(***************************************************************************)
EXTENDS ImapUser, TLAPS

-----------------------------------------------------------------------------
(* The operators of the model.                                             *)

\* The cache's operations keep its type, and a lookup finds no more than
\* before, but for the key that was set.
LEMMA SetKeeps ==
  ASSUME NEW c \in [Names -> Absent..TTL], NEW k \in Names, NEW d, AfterSet(c, k, d)
  PROVE  /\ d \in [Names -> Absent..TTL]
         /\ \A n \in Names \ {k} : Hit(d, n) => Hit(c, n)
<1>1. TTL \in Absent..TTL /\ Absent \in Absent..TTL
  BY CacheAssumption DEF Absent
<1>2. CASE d = [c EXCEPT ![k] = TTL]
  BY <1>1, <1>2 DEF Hit
<1>3. ASSUME NEW v \in Victims(c), d = [[c EXCEPT ![v] = Absent] EXCEPT ![k] = TTL]
      PROVE  /\ d \in [Names -> Absent..TTL]
             /\ \A n \in Names \ {k} : Hit(d, n) => Hit(c, n)
  <2>1. v \in Names BY <1>3 DEF Victims, Present
  <2>2. [c EXCEPT ![v] = Absent] \in [Names -> Absent..TTL] BY <1>1, <2>1
  <2>3. d \in [Names -> Absent..TTL] BY <1>1, <1>3, <2>2
  <2>4. \A n \in Names \ {k} : d[n] = c[n] \/ d[n] = Absent BY <1>3, <2>1, <2>2
  <2>5. ~(Absent >= 0) BY DEF Absent
  <2> QED BY <2>3, <2>4, <2>5 DEF Hit
<1> QED BY <1>2, <1>3 DEF AfterSet

\* The same for removal and for time.
LEMMA RemovalKeeps ==
  ASSUME NEW c \in [Names -> Absent..TTL], NEW k \in Names
  PROVE  /\ AfterDelete(c, k) \in [Names -> Absent..TTL] /\ ~Hit(AfterDelete(c, k), k)
         /\ AfterMiss(c, k) \in [Names -> Absent..TTL]
         /\ Aged(c) \in [Names -> Absent..TTL]
         /\ \A n \in Names : Hit(AfterDelete(c, k), n) => Hit(c, n)
         /\ \A n \in Names : Hit(AfterMiss(c, k), n) => Hit(c, n)
         /\ \A n \in Names : Hit(Aged(c), n) => Hit(c, n)
<1> USE CacheAssumption DEF Hit, Absent
<1>1. /\ AfterDelete(c, k) \in [Names -> Absent..TTL] /\ ~Hit(AfterDelete(c, k), k)
      /\ \A n \in Names : Hit(AfterDelete(c, k), n) => Hit(c, n)
  BY DEF AfterDelete
<1>2. /\ AfterMiss(c, k) \in [Names -> Absent..TTL]
      /\ \A n \in Names : Hit(AfterMiss(c, k), n) => Hit(c, n)
  BY DEF AfterMiss, Expired
<1>3. /\ Aged(c) \in [Names -> Absent..TTL]
      /\ \A n \in Names : Hit(Aged(c), n) => Hit(c, n)
  BY DEF Aged
<1> QED BY <1>1, <1>2, <1>3

\* A name that is in use is found, with the one mailbox that has it; a name
\* that is not is not.
LEMMA CurrentIs ==
  ASSUME TypeOK, NEW n \in Names
  PROVE  /\ Current(n) \in Ids => box[Current(n)] = n
         /\ Current(n) \in Ids \/ Current(n) = NoBox
         /\ \A b \in Ids : box[b] = n => Current(n) = b
<1>1. CASE \E b \in Ids : box[b] = n
  <2>1. Current(n) = CHOOSE b \in Ids : box[b] = n BY <1>1 DEF Current
  <2>2. Current(n) \in Ids /\ box[Current(n)] = n BY <1>1, <2>1
  <2> QED BY <2>2, BoxAssumption DEF TypeOK
<1>2. CASE ~\E b \in Ids : box[b] = n
  <2>1. Current(n) = NoBox BY <1>2 DEF Current
  <2>2. NoBox \notin Ids BY DEF NoBox, Ids
  <2> QED BY <1>2, <2>1, <2>2
<1> QED BY <1>1, <1>2

\* Who has a name depends on the rows that have it.
LEMMA CurrentFrame ==
  ASSUME NEW n \in Names, \A b \in Ids : box'[b] = n <=> box[b] = n
  PROVE  Current(n)' = Current(n)
<1>1. (CHOOSE b \in Ids : box'[b] = n) = (CHOOSE b \in Ids : box[b] = n)
  OBVIOUS
<1>2. (\E b \in Ids : box'[b] = n) <=> (\E b \in Ids : box[b] = n)
  OBVIOUS
<1> QED BY <1>1, <1>2 DEF Current

\* A step of a session moves no other session.
LEMMA GotoFacts ==
  ASSUME TypeOK, NEW s \in Sessions, NEW from, NEW to \in Pcs, Goto(s, from, to)
  PROVE  /\ pc' \in [Sessions -> Pcs] /\ cmd' \in [Sessions -> Commands \cup {NoCommand}]
         /\ pc[s] = from /\ pc'[s] = to
         /\ to \notin {"ready", "change"} => cmd'[s] = cmd[s]
         /\ \A q \in Sessions \ {s} : pc'[q] = pc[q] /\ cmd'[q] = cmd[q]
<1>1. pc \in [Sessions -> Pcs] /\ cmd \in [Sessions -> Commands \cup {NoCommand}]
  BY DEF TypeOK
<1>2. CASE to \in {"ready", "change"}
  <2>1. cmd' = [cmd EXCEPT ![s] = NoCommand] BY <1>2 DEF Goto
  <2> QED BY <1>1, <1>2, <2>1 DEF Goto
<1>3. CASE to \notin {"ready", "change"}
  <2>1. cmd' = [cmd EXCEPT ![s] = cmd[s]] BY <1>3 DEF Goto
  <2> QED BY <1>1, <1>3, <2>1 DEF Goto
<1> QED BY <1>2, <1>3
-----------------------------------------------------------------------------
(* Types and lookups.                                                      *)

\* Changes of one session concern the lookup of no other.
LEMMA LookupFrame ==
  ASSUME LookupInv, NEW s \in Sessions,
         \A q \in Sessions \ {s} : /\ pc'[q] = pc[q] /\ cmd'[q] = cmd[q] /\ sel'[q] = sel[q]
                                   /\ id'[q] = id[q] /\ was'[q] = was[q],
         pc'[s] \in {"evict", "query", "fill", "found", "delete"} =>
           cmd'[s] \in Commands /\ (cmd'[s].op = "copy" => sel'[s] # NoBox),
         pc'[s] \in {"fill", "found", "delete"} => id'[s] \in Ids,
         pc'[s] \in {"delete", "drop"} => was'[s] \in Names
  PROVE  LookupInv'
BY DEF LookupInv

\* Commands on names.
LEMMA NamesType ==
  ASSUME TypeOK, LookupInv, CacheInv, NEW s \in Sessions,
         \/ \E n \in Names : CreateMailbox(s, n)
         \/ \E c \in Commands : GetMailbox(s, c)
         \/ Evict(s) \/ Query(s) \/ Fill(s) \/ Select(s) \/ Drop(s) \/ Clear(s)
  PROVE  TypeOK' /\ LookupInv'
<1> USE DEF table, names, idle, sess
<1>0. /\ cache \in [Names -> Absent..TTL] /\ held \in [Names -> 0..MaxBoxes]
      /\ id \in [Sessions -> 0..MaxBoxes] /\ sel \in [Sessions -> 0..MaxBoxes]
      /\ was \in [Sessions -> Names \cup {NoName}] /\ pend \in [Sessions -> SUBSET Names]
      /\ box \in [Ids -> Names \cup {NoName}] /\ lastId \in 0..MaxBoxes /\ raced \subseteq Names
      /\ 0 \in 0..MaxBoxes /\ Ids \subseteq 0..MaxBoxes
  BY BoxAssumption DEF TypeOK, Ids
<1>1. ASSUME NEW n \in Names, CreateMailbox(s, n) PROVE TypeOK' /\ LookupInv'
  <2>1. Goto(s, "ready", "drop") /\ "drop" \in Pcs BY <1>1 DEF CreateMailbox, Pcs
  <2>2. lastId + 1 \in Ids /\ lastId + 1 \in 0..MaxBoxes
    BY <1>1, BoxAssumption DEF CreateMailbox, TypeOK, Ids
  <2>3. \A b \in Ids : box[b] # n
    BY <1>1, CurrentIs DEF CreateMailbox, NoBox, Ids
  <2>4. box' \in [Ids -> Names \cup {NoName}] /\ lastId' \in 0..MaxBoxes
    BY <1>1, <2>2 DEF CreateMailbox, TypeOK
  <2>5. /\ \A b, c \in Ids : box'[b] = box'[c] /\ box'[b] # NoName => b = c
        /\ \A b \in Ids : box'[b] # NoName => b <= lastId'
    BY <1>1, <2>2, <2>3, BoxAssumption DEF CreateMailbox, TypeOK, Ids
  <2>6. was' \in [Sessions -> Names \cup {NoName}] /\ pend' \in [Sessions -> SUBSET Names]
        /\ was'[s] = n /\ \A q \in Sessions \ {s} : was'[q] = was[q]
    BY <1>1 DEF CreateMailbox, TypeOK
  <2>7. TypeOK' BY <1>1, <2>1, <2>4, <2>5, <2>6, GotoFacts DEF CreateMailbox, TypeOK
  <2>8. pc'[s] = "drop" BY <2>1, GotoFacts
  <2>9. LookupInv'
    <3>1. \A q \in Sessions \ {s} : /\ pc'[q] = pc[q] /\ cmd'[q] = cmd[q] /\ sel'[q] = sel[q]
                                    /\ id'[q] = id[q] /\ was'[q] = was[q]
      BY <1>1, <2>1, <2>6, GotoFacts DEF CreateMailbox
    <3> QED BY <2>6, <2>8, <3>1, LookupFrame
  <2> QED BY <2>7, <2>9
<1>2. ASSUME NEW c \in Commands, GetMailbox(s, c) PROVE TypeOK' /\ LookupInv'
  <2>1. c.name \in Names BY DEF Commands
  <2>2. cmd' = [cmd EXCEPT ![s] = c] /\ UNCHANGED <<table, names, idle, sess, was>>
        /\ (c.op = "copy" => sel[s] # NoBox)
    BY <1>2 DEF GetMailbox
  <2>3. \/ pc' = [pc EXCEPT ![s] = "found"] /\ id' = [id EXCEPT ![s] = held[c.name]]
           /\ held[c.name] \in Ids
        \/ \E to \in {"evict", "query"} : pc' = [pc EXCEPT ![s] = to] /\ UNCHANGED id
    BY <1>2, <2>1 DEF GetMailbox, CacheInv
  <2>4. cmd' \in [Sessions -> Commands \cup {NoCommand}] /\ cmd'[s] = c
        /\ \A q \in Sessions \ {s} : cmd'[q] = cmd[q]
    BY <2>2 DEF TypeOK
  <2>5. pc' \in [Sessions -> Pcs] /\ id' \in [Sessions -> 0..MaxBoxes]
        /\ pc'[s] \in {"found", "evict", "query"} /\ (pc'[s] = "found" => id'[s] \in Ids)
        /\ \A q \in Sessions \ {s} : pc'[q] = pc[q] /\ id'[q] = id[q]
    BY <1>0, <2>3 DEF TypeOK, Pcs
  <2>6. TypeOK' BY <2>2, <2>4, <2>5 DEF TypeOK
  <2>7. LookupInv' BY <2>2, <2>4, <2>5, LookupFrame
  <2> QED BY <2>6, <2>7
<1>3. CASE Evict(s)
  <2>1. Goto(s, "evict", "query") /\ "query" \in Pcs BY <1>3 DEF Evict, Pcs
  <2>2. pc[s] = "evict" /\ cmd[s].name \in Names
    BY <2>1 DEF Goto, LookupInv, Commands
  <2>3. cache' \in [Names -> Absent..TTL] BY <1>0, <1>3, <2>2, RemovalKeeps DEF Evict
  <2>4. TypeOK' BY <1>3, <2>1, <2>3, GotoFacts DEF Evict, TypeOK
  <2>5. LookupInv'
    <3>1. cmd'[s] = cmd[s] /\ pc'[s] = "query" BY <2>1, GotoFacts
    <3> QED BY <1>3, <2>1, <2>2, <3>1, GotoFacts, LookupFrame DEF Evict, LookupInv
  <2> QED BY <2>4, <2>5
<1>4. CASE Query(s)
  <2>0. pc[s] = "query" /\ cmd[s] \in Commands /\ cmd[s].name \in Names
    BY <1>4 DEF Query, Goto, LookupInv, Commands
  <2>1. CASE Goto(s, "query", "fill") /\ id' = [id EXCEPT ![s] = Current(cmd[s].name)]
             /\ Current(cmd[s].name) # NoBox
    <3>1. Current(cmd[s].name) \in Ids BY <2>0, <2>1, CurrentIs
    <3>2. id' \in [Sessions -> 0..MaxBoxes] /\ id'[s] \in Ids
          /\ \A q \in Sessions \ {s} : id'[q] = id[q]
      BY <1>0, <2>1, <3>1
    <3>3. "fill" \in Pcs BY DEF Pcs
    <3>4. cmd'[s] = cmd[s] /\ pc'[s] = "fill" BY <2>1, <3>3, GotoFacts
    <3>5. TypeOK' BY <1>4, <2>1, <3>2, <3>3, GotoFacts DEF Query, TypeOK
    <3>6. LookupInv'
      BY <1>4, <2>0, <2>1, <3>2, <3>3, <3>4, GotoFacts, LookupFrame DEF Query, LookupInv
    <3> QED BY <3>5, <3>6
  <2>2. CASE Goto(s, "query", "ready") /\ UNCHANGED id
    <3>1. "ready" \in Pcs BY DEF Pcs
    <3>2. TypeOK' BY <1>4, <2>2, <3>1, GotoFacts DEF Query, TypeOK
    <3>3. LookupInv' BY <1>4, <2>2, <3>1, GotoFacts, LookupFrame DEF Query
    <3> QED BY <3>2, <3>3
  <2> QED BY <1>4, <2>1, <2>2 DEF Query
<1>5. CASE Fill(s)
  <2>1. Goto(s, "fill", "found") /\ "found" \in Pcs BY <1>5 DEF Fill, Pcs
  <2>2. pc[s] = "fill" /\ cmd[s] \in Commands /\ cmd[s].name \in Names /\ id[s] \in Ids
    BY <2>1 DEF Goto, LookupInv, Commands
  <2>3. cache' \in [Names -> Absent..TTL] BY <1>0, <1>5, <2>2, SetKeeps DEF Fill
  <2>4. held' \in [Names -> 0..MaxBoxes] BY <1>0, <1>5, <2>2 DEF Fill
  <2>5. raced' \subseteq Names BY <1>0, <1>5, <2>2 DEF Fill
  <2>6. TypeOK' BY <1>5, <2>1, <2>3, <2>4, <2>5, GotoFacts DEF Fill, TypeOK
  <2>7. cmd'[s] = cmd[s] /\ pc'[s] = "found" BY <2>1, GotoFacts
  <2>8. LookupInv' BY <1>5, <2>1, <2>2, <2>7, GotoFacts, LookupFrame DEF Fill, LookupInv
  <2> QED BY <2>6, <2>8
<1>6. CASE Select(s)
  <2>1. Goto(s, "found", "ready") /\ "ready" \in Pcs BY <1>6 DEF Select, Done, Pcs
  <2>2. id' \in [Sessions -> 0..MaxBoxes] /\ sel' \in [Sessions -> 0..MaxBoxes]
        /\ \A q \in Sessions \ {s} : id'[q] = id[q] /\ sel'[q] = sel[q]
    BY <1>0, <1>6 DEF Select, Done, NoBox
  <2>3. TypeOK' BY <1>6, <2>1, <2>2, GotoFacts DEF Select, TypeOK
  <2>4. LookupInv' BY <1>6, <2>1, <2>2, GotoFacts, LookupFrame DEF Select
  <2> QED BY <2>3, <2>4
<1>7. CASE Drop(s)
  <2>1. Goto(s, "drop", "ready") /\ "ready" \in Pcs BY <1>7 DEF Drop, Pcs
  <2>2. was[s] \in Names BY <2>1 DEF Goto, LookupInv
  <2>3. cache' \in [Names -> Absent..TTL] BY <1>0, <1>7, <2>2, RemovalKeeps DEF Drop
  <2>4. held' \in [Names -> 0..MaxBoxes] /\ raced' \subseteq Names
    BY <1>0, <1>7 DEF Drop, NoBox
  <2>5. was' \in [Sessions -> Names \cup {NoName}] /\ pend' \in [Sessions -> SUBSET Names]
        /\ \A q \in Sessions \ {s} : was'[q] = was[q]
    BY <1>0, <1>7 DEF Drop
  <2>6. TypeOK' BY <1>7, <2>1, <2>3, <2>4, <2>5, GotoFacts DEF Drop, TypeOK
  <2>7. LookupInv' BY <1>7, <2>1, <2>5, GotoFacts, LookupFrame DEF Drop
  <2> QED BY <2>6, <2>7
<1>8. CASE Clear(s)
  <2>1. Goto(s, "clear", "ready") /\ "ready" \in Pcs BY <1>8 DEF Clear, Pcs
  <2>2. Absent \in Absent..TTL BY CacheAssumption DEF Absent
  <2>3. cache' \in [Names -> Absent..TTL] /\ held' \in [Names -> 0..MaxBoxes]
        /\ raced' \subseteq Names /\ pend' \in [Sessions -> SUBSET Names]
    BY <1>0, <1>8, <2>2 DEF Clear, NoBox
  <2>4. TypeOK' BY <1>8, <2>1, <2>3, GotoFacts DEF Clear, TypeOK
  <2>5. LookupInv' BY <1>8, <2>1, GotoFacts, LookupFrame DEF Clear
  <2> QED BY <2>4, <2>5
<1> QED BY <1>1, <1>2, <1>3, <1>4, <1>5, <1>6, <1>7, <1>8

\* Deletion and renaming.
LEMMA RowsType ==
  ASSUME TypeOK, LookupInv, NEW s \in Sessions,
         ReadName(s) \/ DeleteMailbox(s) \/ RenameMailbox(s)
  PROVE  TypeOK' /\ LookupInv'
<1> USE DEF table, names, idle, sess
<1>0. /\ id \in [Sessions -> 0..MaxBoxes] /\ was \in [Sessions -> Names \cup {NoName}]
      /\ box \in [Ids -> Names \cup {NoName}] /\ raced \subseteq Names
      /\ pend \in [Sessions -> SUBSET Names] /\ 0 \in 0..MaxBoxes
  BY BoxAssumption DEF TypeOK
<1>1. pc[s] \in {"found", "delete"} /\ cmd[s] \in Commands /\ cmd[s].to \in Names /\ id[s] \in Ids
      /\ (pc[s] = "delete" => was[s] \in Names)
  BY DEF ReadName, DeleteMailbox, RenameMailbox, Done, Goto, LookupInv, Commands
<1>2. {"ready", "delete", "drop", "clear"} \subseteq Pcs BY DEF Pcs
<1>3. CASE ReadName(s)
  <2>1. CASE Goto(s, "found", "delete") /\ box[id[s]] # NoName
             /\ was' = [was EXCEPT ![s] = box[id[s]]] /\ UNCHANGED id
    <3>1. was' \in [Sessions -> Names \cup {NoName}] /\ was'[s] \in Names
          /\ \A q \in Sessions \ {s} : was'[q] = was[q]
      BY <1>0, <1>1, <2>1
    <3>2. TypeOK' BY <1>2, <1>3, <2>1, <3>1, GotoFacts DEF ReadName, TypeOK
    <3>3. cmd'[s] = cmd[s] BY <1>2, <2>1, GotoFacts
    <3>4. cmd[s].op # "copy" BY <1>3 DEF ReadName
    <3>5. LookupInv'
      BY <1>1, <1>2, <1>3, <2>1, <3>1, <3>3, <3>4, GotoFacts, LookupFrame DEF ReadName
    <3> QED BY <3>2, <3>5
  <2>2. CASE Done(s, "ready") /\ UNCHANGED was
    <3>1. id' \in [Sessions -> 0..MaxBoxes] /\ \A q \in Sessions \ {s} : id'[q] = id[q]
      BY <1>0, <2>2 DEF Done, NoBox
    <3>2. TypeOK' BY <1>2, <1>3, <2>2, <3>1, GotoFacts DEF ReadName, TypeOK, Done
    <3>3. LookupInv' BY <1>2, <1>3, <2>2, <3>1, GotoFacts, LookupFrame DEF ReadName, Done
    <3> QED BY <3>2, <3>3
  <2> QED BY <1>3, <2>1, <2>2 DEF ReadName
<1>4. CASE DeleteMailbox(s)
  <2>1. id' \in [Sessions -> 0..MaxBoxes] /\ \A q \in Sessions \ {s} : id'[q] = id[q]
    BY <1>0, <1>4 DEF DeleteMailbox, NoBox
  <2>2. box[id[s]] \in Names \cup {NoName} BY <1>0, <1>1
  <2>3. CASE /\ Goto(s, "delete", "drop")
             /\ box' = [box EXCEPT ![id[s]] = NoName]
             /\ pend' = [pend EXCEPT ![s] = {box[id[s]]} \ {NoName}]
             /\ raced' = IF box[id[s]] \notin {was[s], NoName} THEN raced \cup {box[id[s]]}
                                                               ELSE raced
             /\ UNCHANGED was
    <3>1. box' \in [Ids -> Names \cup {NoName}] BY <1>0, <1>1, <2>3
    <3>2. /\ \A b, c \in Ids : box'[b] = box'[c] /\ box'[b] # NoName => b = c
          /\ \A b \in Ids : box'[b] # NoName => b <= lastId
      BY <1>1, <2>3 DEF TypeOK
    <3>3. pend' \in [Sessions -> SUBSET Names] /\ raced' \subseteq Names BY <1>0, <2>2, <2>3
    <3>4. TypeOK'
      BY <1>2, <1>4, <2>1, <2>3, <3>1, <3>2, <3>3, GotoFacts DEF DeleteMailbox, TypeOK
    <3>5. LookupInv'
      BY <1>1, <1>2, <1>4, <2>1, <2>3, GotoFacts, LookupFrame DEF DeleteMailbox
    <3> QED BY <3>4, <3>5
  <2>4. CASE /\ Goto(s, "delete", "ready")
             /\ was' = [was EXCEPT ![s] = NoName]
             /\ UNCHANGED <<box, pend, raced>>
    <3>1. was' \in [Sessions -> Names \cup {NoName}] /\ \A q \in Sessions \ {s} : was'[q] = was[q]
      BY <1>0, <2>4
    <3>2. TypeOK' BY <1>2, <1>4, <2>1, <2>4, <3>1, GotoFacts DEF DeleteMailbox, TypeOK
    <3>3. LookupInv' BY <1>2, <1>4, <2>1, <2>4, <3>1, GotoFacts, LookupFrame DEF DeleteMailbox
    <3> QED BY <3>2, <3>3
  <2> QED BY <1>4, <2>3, <2>4 DEF DeleteMailbox
<1>5. CASE RenameMailbox(s)
  <2>1. PICK to \in {"clear", "ready"} : Done(s, to) BY <1>5 DEF RenameMailbox
  <2>2. id' \in [Sessions -> 0..MaxBoxes] /\ \A q \in Sessions \ {s} : id'[q] = id[q]
    BY <1>0, <2>1 DEF Done, NoBox
  <2>3. Goto(s, "found", to) /\ to \in Pcs BY <1>2, <2>1 DEF Done
  <2>4. /\ box' \in [Ids -> Names \cup {NoName}] /\ pend' \in [Sessions -> SUBSET Names]
        /\ \A b, c \in Ids : box'[b] = box'[c] /\ box'[b] # NoName => b = c
        /\ \A b \in Ids : box'[b] # NoName => b <= lastId
    <3>1. CASE UNCHANGED <<box, pend>> BY <3>1 DEF TypeOK
    <3>2. CASE /\ box[id[s]] # NoName /\ Current(cmd[s].to) \in {NoBox, id[s]}
               /\ box' = [box EXCEPT ![id[s]] = cmd[s].to]
               /\ pend' = [pend EXCEPT ![s] = {box[id[s]], cmd[s].to}]
      <4>1. \A b \in Ids : box[b] = cmd[s].to => b = id[s]
        BY <1>1, <3>2, CurrentIs DEF NoBox, Ids
      <4>2. {box[id[s]], cmd[s].to} \subseteq Names BY <1>0, <1>1, <3>2
      <4>3. box' \in [Ids -> Names \cup {NoName}] /\ pend' \in [Sessions -> SUBSET Names]
        BY <1>0, <1>1, <3>2, <4>2
      <4>4. /\ \A b, c \in Ids : box'[b] = box'[c] /\ box'[b] # NoName => b = c
            /\ \A b \in Ids : box'[b] # NoName => b <= lastId
        BY <1>1, <3>2, <4>1 DEF TypeOK
      <4> QED BY <4>3, <4>4
    <3> QED BY <1>5, <3>1, <3>2 DEF RenameMailbox
  <2>5. TypeOK' BY <1>5, <2>2, <2>3, <2>4, GotoFacts DEF RenameMailbox, TypeOK
  <2>6. LookupInv' BY <1>5, <2>1, <2>2, <2>3, GotoFacts, LookupFrame DEF RenameMailbox
  <2> QED BY <2>5, <2>6
<1> QED BY <1>3, <1>4, <1>5

\* Changes of messages and IDLE.
LEMMA IdleType ==
  ASSUME TypeOK, LookupInv, IdleInv, NEW s \in Sessions,
         \/ Change(s) \/ Copy(s) \/ ChangeRow(s) \/ Changed(s)
         \/ Notify(s) \/ Idle(s) \/ Stop(s) \/ Wake(s)
  PROVE  TypeOK' /\ LookupInv'
<1> USE DEF table, names, idle, sess
<1>0. /\ sel \in [Sessions -> 0..MaxBoxes] /\ id \in [Sessions -> 0..MaxBoxes]
      /\ owed \in [Sessions -> SUBSET Ids] /\ subs \in [Ids -> SUBSET Sessions]
      /\ closed \subseteq Sessions /\ due \in [Sessions -> SUBSET Sessions]
      /\ failed \subseteq Sessions /\ 0 \in 0..MaxBoxes
      /\ \A b \in 0..MaxBoxes : b # NoBox => b \in Ids
  BY BoxAssumption DEF TypeOK, Ids, NoBox
<1>1. {"ready", "change", "notify", "waiting"} \subseteq Pcs BY DEF Pcs
<1>2. CASE Change(s)
  <2>1. /\ owed' \in [Sessions -> SUBSET Ids] /\ due' \in [Sessions -> SUBSET Sessions]
        /\ failed' \subseteq Sessions /\ UNCHANGED <<subs, closed>>
    BY <1>0, <1>2 DEF Change, Begin
  <2>2. TypeOK' BY <1>1, <1>2, <2>1, GotoFacts DEF Change, TypeOK
  <2>3. LookupInv' BY <1>1, <1>2, GotoFacts, LookupFrame DEF Change
  <2> QED BY <2>2, <2>3
<1>3. CASE Copy(s)
  <2>0. pc[s] = "found" /\ cmd[s].op = "copy" BY <1>3 DEF Copy, Done, Goto
  <2>1. sel[s] \in Ids /\ id[s] \in Ids BY <1>0, <2>0 DEF LookupInv
  <2>2. /\ owed' \in [Sessions -> SUBSET Ids] /\ due' \in [Sessions -> SUBSET Sessions]
        /\ failed' \subseteq Sessions /\ UNCHANGED <<subs, closed>>
    BY <1>0, <1>3, <2>1 DEF Copy, Begin
  <2>3. id' \in [Sessions -> 0..MaxBoxes] /\ \A q \in Sessions \ {s} : id'[q] = id[q]
    BY <1>0, <1>3 DEF Copy, Done, NoBox
  <2>4. TypeOK' BY <1>1, <1>3, <2>2, <2>3, GotoFacts DEF Copy, Done, TypeOK
  <2>5. LookupInv' BY <1>1, <1>3, <2>3, GotoFacts, LookupFrame DEF Copy, Done
  <2> QED BY <2>4, <2>5
<1>4. CASE Changed(s)
  <2>1. PICK to \in {"notify", "ready"} : Goto(s, "change", to) BY <1>4 DEF Changed
  <2>2. owed' \in [Sessions -> SUBSET Ids] /\ failed' \subseteq Sessions BY <1>0, <1>4 DEF Changed
  <2>3. TypeOK' BY <1>1, <1>4, <2>1, <2>2, GotoFacts DEF Changed, TypeOK
  <2>4. LookupInv' BY <1>1, <1>4, <2>1, GotoFacts, LookupFrame DEF Changed
  <2> QED BY <2>3, <2>4
<1>5. CASE Notify(s)
  <2>1. PICK to \in {"notify", "ready"} : Goto(s, "notify", to) BY <1>5 DEF Notify
  <2>2. PICK b \in owed[s] : /\ owed' = [owed EXCEPT ![s] = @ \ {b}]
                             /\ closed' = closed \cup subs[b]
                             /\ subs' = [subs EXCEPT ![b] = {}]
    <3>1. owed[s] # {} BY <2>1 DEF Goto, IdleInv
    <3> QED BY <1>5, <3>1 DEF Notify
  <2>3. b \in Ids BY <1>0, <2>2
  <2>4. owed' \in [Sessions -> SUBSET Ids] /\ subs' \in [Ids -> SUBSET Sessions]
        /\ closed' \subseteq Sessions
    BY <1>0, <2>2, <2>3
  <2>5. TypeOK' BY <1>1, <1>5, <2>1, <2>4, GotoFacts DEF Notify, TypeOK
  <2>6. LookupInv' BY <1>1, <1>5, <2>1, GotoFacts, LookupFrame DEF Notify
  <2> QED BY <2>5, <2>6
<1>6. CASE Idle(s)
  <2>1. subs' \in [Ids -> SUBSET Sessions] BY <1>0, <1>6 DEF Idle
  <2>2. TypeOK' BY <1>1, <1>6, <2>1, GotoFacts DEF Idle, TypeOK
  <2>3. LookupInv' BY <1>1, <1>6, GotoFacts, LookupFrame DEF Idle
  <2> QED BY <2>2, <2>3
<1>7. CASE Unsubscribe(s)
  <2>1. subs' \in [Ids -> SUBSET Sessions] /\ closed' \subseteq Sessions
        /\ due' \in [Sessions -> SUBSET Sessions]
    BY <1>0, <1>7 DEF Unsubscribe
  <2>2. TypeOK' BY <1>1, <1>7, <2>1, GotoFacts DEF Unsubscribe, TypeOK
  <2>3. LookupInv' BY <1>1, <1>7, GotoFacts, LookupFrame DEF Unsubscribe
  <2> QED BY <2>2, <2>3
<1>8. CASE ChangeRow(s)
  <2>1. due' \in [Sessions -> SUBSET Sessions] BY <1>0, <1>8 DEF ChangeRow
  <2>2. TypeOK' BY <1>1, <1>8, <2>1, GotoFacts DEF ChangeRow, TypeOK
  <2>3. LookupInv' BY <1>1, <1>8, GotoFacts, LookupFrame DEF ChangeRow
  <2> QED BY <2>2, <2>3
<1> QED BY <1>2, <1>3, <1>4, <1>5, <1>6, <1>7, <1>8 DEF Stop, Wake

\* The clock.
LEMMA TickType ==
  ASSUME TypeOK, LookupInv, Tick \/ UNCHANGED vars
  PROVE  TypeOK' /\ LookupInv'
<1> USE DEF table, names, idle, sess
<1>1. CASE Tick
  <2>1. cache' \in [Names -> Absent..TTL]
    <3>1. cache \in [Names -> Absent..TTL] BY DEF TypeOK
    <3>2. CASE Names = {} BY <1>1, <3>1, <3>2 DEF Tick, Aged
    <3>3. CASE Names # {} BY <1>1, <3>1, <3>3, RemovalKeeps DEF Tick
    <3> QED BY <3>2, <3>3
  <2>2. held' \in [Names -> 0..MaxBoxes] BY <1>1, BoxAssumption DEF Tick, TypeOK, NoBox
  <2>3. raced' \subseteq Names BY <1>1 DEF Tick, TypeOK
  <2> QED BY <1>1, <2>1, <2>2, <2>3 DEF Tick, TypeOK, LookupInv
<1>2. CASE UNCHANGED vars
  BY <1>2 DEF vars, TypeOK, LookupInv
<1> QED BY <1>1, <1>2
-----------------------------------------------------------------------------
(* The cache of names.                                                     *)

\* The entry of n does not stand for the mailbox of that name.
Wrong(n) == Hit(cache, n) /\ held[n] # Current(n)

\* A session between two changes of names neither spoils an entry nor owes
\* the removal of one.
LEMMA CacheFrame ==
  ASSUME TypeOK, CacheInv, NEW s \in Sessions, UNCHANGED <<box, held, pend, raced>>,
         \A n \in Names : Hit(cache', n) => Hit(cache, n),
         {pc[s], pc'[s]} \cap {"drop", "clear"} = {},
         \A q \in Sessions \ {s} : pc'[q] = pc[q] /\ was'[q] = was[q]
  PROVE  CacheInv'
<1>1. \A n \in Names : Current(n)' = Current(n)
  BY CurrentFrame
<1>2. \A q \in Sessions, n \in Names : WillDrop(q, n) => WillDrop(q, n)'
  BY DEF WillDrop
<1> QED BY <1>1, <1>2 DEF CacheInv

\* A step of session s that changes the rows or the entry of names in N, and
\* no other, is to be examined for these and for what s owed.
LEMMA CacheChange ==
  ASSUME TypeOK, CacheInv, NEW s \in Sessions, NEW N \in SUBSET Names,
         \A q \in Sessions \ {s} : pc'[q] = pc[q] /\ was'[q] = was[q] /\ pend'[q] = pend[q],
         pc'[s] \notin {"drop", "clear"} => pend'[s] = {},
         \A n \in Names \ N : /\ Hit(cache', n) => Hit(cache, n)
                              /\ held'[n] = held[n]
                              /\ \A b \in Ids : box'[b] = n <=> box[b] = n
                              /\ n \in raced => n \in raced'
                              /\ ~WillDrop(s, n),
         \A n \in N : /\ Hit(cache', n) => held'[n] \in Ids
                      /\ Wrong(n)' => n \in raced' \/ \E q \in Sessions : WillDrop(q, n)'
  PROVE  CacheInv'
<1>1. ASSUME NEW n \in Names \ N, Hit(cache', n)
      PROVE  /\ held'[n] \in Ids
             /\ Wrong(n)' => n \in raced' \/ \E q \in Sessions : WillDrop(q, n)'
  <2>1. Hit(cache, n) /\ held'[n] = held[n] /\ held[n] \in Ids BY <1>1 DEF CacheInv
  <2>2. Current(n)' = Current(n) BY CurrentFrame
  <2>3. Wrong(n)' => Wrong(n) BY <2>1, <2>2 DEF Wrong
  <2>4. \A q \in Sessions : WillDrop(q, n) => WillDrop(q, n)' BY DEF WillDrop
  <2>5. Wrong(n) => n \in raced \/ \E q \in Sessions : WillDrop(q, n) BY DEF CacheInv, Wrong
  <2> QED BY <2>1, <2>3, <2>4, <2>5
<1>2. \A q \in Sessions : pc'[q] \notin {"drop", "clear"} => pend'[q] = {}
  BY DEF CacheInv
<1>3. \A n \in Names : Hit(cache', n) => held'[n] \in Ids BY <1>1
<1>4. \A n \in Names : Wrong(n)' => n \in raced' \/ \E q \in Sessions : WillDrop(q, n)'
  BY <1>1 DEF Wrong
<1> QED BY <1>2, <1>3, <1>4 DEF CacheInv, Wrong

\* Every command leaves the cache with entries that are right, raced, or
\* about to go.
LEMMA CacheStep ==
  ASSUME TypeOK, TypeOK', LookupInv, CacheInv, [Next]_vars
  PROVE  CacheInv'
<1> USE DEF table, names, idle, sess
<1>0. /\ cache \in [Names -> Absent..TTL] /\ held \in [Names -> 0..MaxBoxes]
      /\ was \in [Sessions -> Names \cup {NoName}] /\ pend \in [Sessions -> SUBSET Names]
      /\ box \in [Ids -> Names \cup {NoName}]
      /\ {"ready", "evict", "query", "fill", "found", "delete", "drop", "clear",
          "change", "notify", "waiting"} \subseteq Pcs
  BY DEF TypeOK, Pcs
<1>1. ASSUME NEW s \in Sessions, NEW n \in Names, CreateMailbox(s, n) PROVE CacheInv'
  <2>1. pc[s] = "ready" /\ pc'[s] = "drop" /\ \A q \in Sessions \ {s} : pc'[q] = pc[q]
    BY <1>0, <1>1, GotoFacts DEF CreateMailbox
  <2>2. /\ was'[s] = n /\ pend'[s] = {n}
        /\ \A q \in Sessions \ {s} : was'[q] = was[q] /\ pend'[q] = pend[q]
    BY <1>0, <1>1 DEF CreateMailbox
  <2>3. WillDrop(s, n)' BY <2>1, <2>2 DEF WillDrop
  <2>4. lastId + 1 \in Ids /\ box[lastId + 1] = NoName
    BY <1>1, BoxAssumption DEF CreateMailbox, TypeOK, Ids
  <2>5. \A m \in Names \ {n}, b \in Ids : box'[b] = m <=> box[b] = m
    BY <1>0, <1>1, <2>4, BoxAssumption DEF CreateMailbox
  <2>6. \A m \in Names : ~WillDrop(s, m) BY <2>1 DEF WillDrop, CacheInv
  <2>7. UNCHANGED <<cache, held, raced>> BY <1>1 DEF CreateMailbox
  <2>8. Hit(cache', n) => held'[n] \in Ids BY <2>7 DEF CacheInv
  <2> QED BY <2>1, <2>2, <2>3, <2>5, <2>6, <2>7, <2>8, CacheChange
<1>2. ASSUME NEW s \in Sessions, NEW c \in Commands, GetMailbox(s, c) PROVE CacheInv'
  <2>1. /\ pc[s] = "ready" /\ pc'[s] \in {"found", "evict", "query"}
        /\ \A q \in Sessions \ {s} : pc'[q] = pc[q]
    BY <1>2 DEF GetMailbox, TypeOK
  <2> QED BY <1>2, <2>1, CacheFrame DEF GetMailbox
<1>3. ASSUME NEW s \in Sessions, Evict(s) PROVE CacheInv'
  <2>1. /\ pc[s] = "evict" /\ pc'[s] = "query" /\ \A q \in Sessions \ {s} : pc'[q] = pc[q]
    BY <1>0, <1>3, GotoFacts DEF Evict
  <2>2. cmd[s].name \in Names BY <2>1 DEF LookupInv, Commands
  <2>3. \A n \in Names : Hit(cache', n) => Hit(cache, n)
    BY <1>0, <1>3, <2>2, RemovalKeeps DEF Evict
  <2> QED BY <1>3, <2>1, <2>3, CacheFrame DEF Evict
<1>4. ASSUME NEW s \in Sessions, Fill(s) PROVE CacheInv'
  <2>0. PICK n : n = cmd[s].name OBVIOUS
  <2>1. /\ pc[s] = "fill" /\ pc'[s] = "found" /\ \A q \in Sessions \ {s} : pc'[q] = pc[q]
    BY <1>0, <1>4, GotoFacts DEF Fill
  <2>2. n \in Names /\ id[s] \in Ids BY <2>0, <2>1 DEF LookupInv, Commands
  <2>3. AfterSet(cache, n, cache') /\ held' = [held EXCEPT ![n] = id[s]]
        /\ UNCHANGED <<box, was, pend>>
        /\ raced' = IF id[s] # Current(n) THEN raced \cup {n} ELSE raced \ {n}
    BY <1>4, <2>0 DEF Fill
  <2>4. \A m \in Names \ {n} : Hit(cache', m) => Hit(cache, m) BY <1>0, <2>2, <2>3, SetKeeps
  <2>5. held'[n] = id[s] /\ \A m \in Names \ {n} : held'[m] = held[m] BY <1>0, <2>2, <2>3
  <2>6. \A m \in Names \ {n} : m \in raced => m \in raced' BY <2>3
  <2>7. Current(n)' = Current(n) BY <2>2, <2>3, CurrentFrame
  <2>8. Wrong(n)' => n \in raced' BY <2>3, <2>5, <2>7 DEF Wrong
  <2>9. \A m \in Names : ~WillDrop(s, m) BY <2>1 DEF WillDrop, CacheInv
  <2>10. pend'[s] = {} BY <2>1, <2>3 DEF CacheInv
  <2>11. PICK N : N = {n} OBVIOUS
  <2>12. \A m \in Names \ N : /\ Hit(cache', m) => Hit(cache, m)
                              /\ held'[m] = held[m]
                              /\ \A b \in Ids : box'[b] = m <=> box[b] = m
                              /\ m \in raced => m \in raced'
                              /\ ~WillDrop(s, m)
    <3>1. box' = box BY <2>3
    <3>2. \A m \in Names, b \in Ids : box'[b] = m <=> box[b] = m BY <3>1
    <3> QED BY <2>4, <2>5, <2>6, <2>9, <2>11, <3>2
  <2>13. \A m \in N : /\ Hit(cache', m) => held'[m] \in Ids
                      /\ Wrong(m)' => m \in raced' \/ \E q \in Sessions : WillDrop(q, m)'
    BY <2>2, <2>5, <2>8, <2>11
  <2>14. \A q \in Sessions \ {s} : pc'[q] = pc[q] /\ was'[q] = was[q] /\ pend'[q] = pend[q]
    BY <2>1, <2>3
  <2>15. N \in SUBSET Names BY <2>2, <2>11
  <2> QED BY <2>10, <2>12, <2>13, <2>14, <2>15, CacheChange
<1>5. ASSUME NEW s \in Sessions, Drop(s) PROVE CacheInv'
  <2>0. PICK n : n = was[s] OBVIOUS
  <2>1. /\ pc[s] = "drop" /\ pc'[s] = "ready" /\ \A q \in Sessions \ {s} : pc'[q] = pc[q]
    BY <1>0, <1>5, GotoFacts DEF Drop
  <2>2. n \in Names BY <2>0, <2>1 DEF LookupInv
  <2>3. /\ ~Hit(cache', n) /\ \A m \in Names : Hit(cache', m) => Hit(cache, m)
    BY <1>0, <1>5, <2>0, <2>2, RemovalKeeps DEF Drop
  <2>4. \A m \in Names \ {n} : held'[m] = held[m] /\ (m \in raced => m \in raced')
    BY <1>0, <1>5, <2>0 DEF Drop
  <2>5. pend'[s] = {} /\ \A q \in Sessions \ {s} : was'[q] = was[q] /\ pend'[q] = pend[q]
    BY <1>0, <1>5 DEF Drop
  <2>6. \A m \in Names \ {n} : ~WillDrop(s, m) BY <2>0, <2>1 DEF WillDrop
  <2>7. ~Wrong(n)' BY <2>3 DEF Wrong
  <2>8. UNCHANGED box BY <1>5 DEF Drop
  <2>9. PICK N : N = {n} OBVIOUS
  <2>10. \A m \in Names \ N : /\ Hit(cache', m) => Hit(cache, m)
                              /\ held'[m] = held[m]
                              /\ \A b \in Ids : box'[b] = m <=> box[b] = m
                              /\ m \in raced => m \in raced'
                              /\ ~WillDrop(s, m)
    <3>1. box' = box BY <2>8
    <3>2. \A m \in Names, b \in Ids : box'[b] = m <=> box[b] = m BY <3>1
    <3> QED BY <2>3, <2>4, <2>6, <2>9, <3>2
  <2>11. \A m \in N : /\ Hit(cache', m) => held'[m] \in Ids
                      /\ Wrong(m)' => m \in raced' \/ \E q \in Sessions : WillDrop(q, m)'
    BY <2>3, <2>7, <2>9
  <2>12. \A q \in Sessions \ {s} : pc'[q] = pc[q] /\ was'[q] = was[q] /\ pend'[q] = pend[q]
    BY <2>1, <2>5
  <2>13. N \in SUBSET Names BY <2>2, <2>9
  <2> QED BY <2>5, <2>10, <2>11, <2>12, <2>13, CacheChange
<1>6. ASSUME NEW s \in Sessions, DeleteMailbox(s) PROVE CacheInv'
  <2>0. PICK n : n = box[id[s]] OBVIOUS
  <2>1. /\ pc[s] = "delete" /\ pc'[s] \in {"drop", "ready"}
        /\ \A q \in Sessions \ {s} : pc'[q] = pc[q]
    BY <1>0, <1>6, GotoFacts DEF DeleteMailbox
  <2>2. id[s] \in Ids /\ n \in Names \cup {NoName} BY <1>0, <2>0, <2>1 DEF LookupInv
  <2>3. CASE Goto(s, "delete", "ready") /\ was' = [was EXCEPT ![s] = NoName]
             /\ UNCHANGED <<box, pend, raced>>
    <3>1. pc'[s] = "ready" BY <1>0, <2>3, GotoFacts
    <3>2. \A q \in Sessions \ {s} : was'[q] = was[q] BY <1>0, <2>3
    <3> QED BY <1>6, <2>1, <2>3, <3>1, <3>2, CacheFrame DEF DeleteMailbox
  <2>4. CASE /\ Goto(s, "delete", "drop")
             /\ box' = [box EXCEPT ![id[s]] = NoName]
             /\ pend' = [pend EXCEPT ![s] = {n} \ {NoName}]
             /\ raced' = IF n \notin {was[s], NoName} THEN raced \cup {n} ELSE raced
             /\ UNCHANGED was
    <3>1. pc'[s] = "drop" BY <1>0, <2>4, GotoFacts
    <3>2. pend'[s] = {n} \ {NoName} /\ \A q \in Sessions \ {s} : pend'[q] = pend[q]
      BY <1>0, <2>4
    <3>3. \A m \in Names \ {n}, b \in Ids : box'[b] = m <=> box[b] = m
      BY <1>0, <2>0, <2>2, <2>4, BoxAssumption
    <3>4. \A m \in Names : ~WillDrop(s, m) BY <2>1 DEF WillDrop, CacheInv
    <3>5. UNCHANGED <<cache, held>> BY <1>6 DEF DeleteMailbox
    <3>6. \A m \in Names : Hit(cache', m) => held'[m] \in Ids BY <3>5 DEF CacheInv
    <3>7. n \in Names => n \in raced' \/ WillDrop(s, n)'
      <4>1. n \in Names => n # NoName BY BoxAssumption
      <4>2. CASE n = was[s] BY <2>4, <3>1, <3>2, <4>1, <4>2 DEF WillDrop
      <4>3. CASE n # was[s] BY <2>4, <4>1, <4>3
      <4> QED BY <4>2, <4>3
    <3>8. \A m \in Names : m \in raced => m \in raced' BY <2>4
    <3>0. PICK N : N = {n} \cap Names OBVIOUS
    <3>9. N \in SUBSET Names /\ \A m \in Names \ N : m \in Names \ {n} BY <3>0
    <3>10. \A m \in N : m = n /\ n \in Names BY <3>0
    <3>11. \A m \in Names \ N : /\ Hit(cache', m) => Hit(cache, m)
                                /\ held'[m] = held[m]
                                /\ \A b \in Ids : box'[b] = m <=> box[b] = m
                                /\ m \in raced => m \in raced'
                                /\ ~WillDrop(s, m)
      BY <3>3, <3>4, <3>5, <3>8, <3>9
    <3>12. \A m \in N : /\ Hit(cache', m) => held'[m] \in Ids
                        /\ Wrong(m)' => m \in raced' \/ \E q \in Sessions : WillDrop(q, m)'
      BY <3>6, <3>7, <3>9, <3>10
    <3>13. \A q \in Sessions \ {s} : pc'[q] = pc[q] /\ was'[q] = was[q] /\ pend'[q] = pend[q]
      BY <2>1, <2>4, <3>2
    <3> QED BY <3>1, <3>9, <3>11, <3>12, <3>13, CacheChange
  <2> QED BY <1>6, <2>0, <2>3, <2>4 DEF DeleteMailbox
<1>7. ASSUME NEW s \in Sessions, RenameMailbox(s) PROVE CacheInv'
  <2>0. PICK N : N = {box[id[s]], cmd[s].to} OBVIOUS
  <2>1. /\ pc[s] = "found" /\ pc'[s] \in {"clear", "ready"}
        /\ \A q \in Sessions \ {s} : pc'[q] = pc[q]
    BY <1>0, <1>7, GotoFacts DEF RenameMailbox, Done
  <2>2. id[s] \in Ids /\ cmd[s].to \in Names BY <2>1 DEF LookupInv, Commands
  <2>3. CASE Done(s, "ready") /\ UNCHANGED <<box, pend>>
    <3>1. pc'[s] = "ready" BY <1>0, <2>3, GotoFacts DEF Done
    <3> QED BY <1>7, <2>1, <2>3, <3>1, CacheFrame DEF RenameMailbox
  <2>4. CASE /\ Done(s, "clear") /\ box[id[s]] # NoName
             /\ box' = [box EXCEPT ![id[s]] = cmd[s].to]
             /\ pend' = [pend EXCEPT ![s] = N]
    <3>1. pc'[s] = "clear" BY <1>0, <2>4, GotoFacts DEF Done
    <3>2. N \in SUBSET Names BY <1>0, <2>0, <2>2, <2>4
    <3>3. pend'[s] = N /\ \A q \in Sessions \ {s} : pend'[q] = pend[q] BY <1>0, <2>4
    <3>4. \A m \in Names \ N, b \in Ids : box'[b] = m <=> box[b] = m BY <1>0, <2>0, <2>2, <2>4
    <3>5. \A m \in Names : ~WillDrop(s, m) BY <2>1 DEF WillDrop, CacheInv
    <3>6. UNCHANGED <<cache, held, raced, was>> BY <1>7 DEF RenameMailbox
    <3>7. \A m \in Names : Hit(cache', m) => held'[m] \in Ids BY <3>6 DEF CacheInv
    <3>8. \A m \in N : WillDrop(s, m)' BY <3>1, <3>3 DEF WillDrop
    <3> QED BY <2>1, <3>1, <3>2, <3>3, <3>4, <3>5, <3>6, <3>7, <3>8, CacheChange
  <2> QED BY <1>7, <2>0, <2>3, <2>4 DEF RenameMailbox
<1>8. ASSUME NEW s \in Sessions, Clear(s) PROVE CacheInv'
  <2>1. /\ pc[s] = "clear" /\ pc'[s] = "ready" /\ \A q \in Sessions \ {s} : pc'[q] = pc[q]
    BY <1>0, <1>8, GotoFacts DEF Clear
  <2>2. \A n \in Names : ~Hit(cache', n) BY <1>8 DEF Clear, Hit, Absent
  <2>3. pend'[s] = {} /\ \A q \in Sessions \ {s} : pend'[q] = pend[q] BY <1>0, <1>8 DEF Clear
  <2>4. \A q \in Sessions : pc'[q] \notin {"drop", "clear"} => pend'[q] = {}
    BY <2>1, <2>3 DEF CacheInv
  <2> QED BY <2>2, <2>4 DEF CacheInv
<1>9. ASSUME NEW s \in Sessions, Query(s) \/ Select(s) \/ ReadName(s) \/ Change(s) \/ Copy(s)
             \/ ChangeRow(s) \/ Changed(s) \/ Notify(s) \/ Idle(s) \/ Unsubscribe(s)
      PROVE  CacheInv'
  <2>1. /\ {pc[s], pc'[s]} \cap {"drop", "clear"} = {}
        /\ \A q \in Sessions \ {s} : pc'[q] = pc[q]
    BY <1>0, <1>9, GotoFacts
    DEF Query, Select, ReadName, Change, Copy, ChangeRow, Changed, Notify, Idle, Unsubscribe, Done
  <2>2. UNCHANGED <<box, held, pend, raced, cache>>
    BY <1>9
    DEF Query, Select, ReadName, Change, Copy, ChangeRow, Changed, Notify, Idle, Unsubscribe
  <2>3. \A q \in Sessions \ {s} : was'[q] = was[q]
    BY <1>0, <1>9
    DEF Query, Select, ReadName, Change, Copy, ChangeRow, Changed, Notify, Idle, Unsubscribe
  <2> QED BY <2>1, <2>2, <2>3, CacheFrame
<1>10. CASE Tick
  <2>1. UNCHANGED <<box, pend, pc, was>> BY <1>10 DEF Tick
  <2>2. \A n \in Names : Hit(cache', n) => Hit(cache, n)
    BY <1>0, <1>10, RemovalKeeps DEF Tick
  <2>3. \A n \in Names : Hit(cache', n) => held'[n] = held[n] /\ (n \in raced => n \in raced')
    BY <1>10 DEF Tick, Hit
  <2>4. \A n \in Names : Current(n)' = Current(n) BY <2>1, CurrentFrame
  <2>5. \A q \in Sessions, n \in Names : WillDrop(q, n)' <=> WillDrop(q, n) BY <2>1 DEF WillDrop
  <2> QED BY <2>1, <2>2, <2>3, <2>4, <2>5 DEF CacheInv
<1>11. CASE UNCHANGED vars
  <2>1. \A n \in Names : Current(n)' = Current(n) BY <1>11, CurrentFrame DEF vars
  <2>2. \A q \in Sessions, n \in Names : WillDrop(q, n)' <=> WillDrop(q, n)
    BY <1>11 DEF vars, WillDrop
  <2> QED BY <1>11, <2>1, <2>2 DEF vars, CacheInv
<1> QED
  BY <1>1, <1>2, <1>3, <1>4, <1>5, <1>6, <1>7, <1>8, <1>9, <1>10, <1>11 DEF Next, Step, Stop, Wake
-----------------------------------------------------------------------------
(* IDLE and the notifier.                                                  *)

\* The sessions whose channel the notifier holds under b.
Listeners(b) == {q \in Sessions : pc[q] = "waiting" /\ sel[q] = b /\ q \notin closed}

\* A session that neither waits nor notifies, before or after its step, moves
\* nothing here; it begins a change with no debts and ends it in an error.
LEMMA IdleFrame ==
  ASSUME TypeOK, IdleInv, NEW s \in Sessions, UNCHANGED <<subs, closed>>,
         \/ UNCHANGED <<due, failed>> /\ pc[s] # "change"
         \/ due' = [due EXCEPT ![s] = {}] /\ failed' = failed \ {s}
         \/ due' = due /\ failed' = failed \cup {s},
         {pc[s], pc'[s]} \cap {"waiting", "notify"} = {},
         pc'[s] = "change" => owed'[s] # {},
         \A q \in Sessions \ {s} : pc'[q] = pc[q] /\ sel'[q] = sel[q] /\ owed'[q] = owed[q]
  PROVE  IdleInv'
<1>1. SubscriptionsExact'
  <2>1. \A b \in Ids : Listeners(b)' = Listeners(b) BY DEF Listeners
  <2> QED BY <2>1 DEF IdleInv, SubscriptionsExact, Listeners
<1>2. ChangesReachIdlers'
  <2> SUFFICES ASSUME NEW t \in Sessions, NEW q \in due'[t], q \notin closed, t \notin failed'
               PROVE  pc'[t] \in {"change", "notify"} /\ sel'[q] \in owed'[t]
    BY DEF ChangesReachIdlers
  <2>1. q \in due[t] /\ t # s
    <3>1. q \in due[t] /\ (t = s => UNCHANGED <<due, failed>> /\ pc[s] # "change")
      BY DEF TypeOK
    <3>2. ASSUME t = s PROVE FALSE
      <4>1. q \in due[s] /\ s \notin failed /\ pc[s] \notin {"change", "notify"} BY <3>1, <3>2
      <4> QED BY <4>1 DEF IdleInv, ChangesReachIdlers
    <3> QED BY <3>1, <3>2
  <2>2. q \in Sessions \ {s} BY <2>1 DEF IdleInv, TypeOK
  <2>3. t \notin failed BY <2>1
  <2>4. pc[t] \in {"change", "notify"} /\ sel[q] \in owed[t]
    BY <2>1, <2>3 DEF IdleInv, ChangesReachIdlers
  <2> QED BY <2>1, <2>2, <2>4
<1>3. /\ \A q \in closed' : pc'[q] = "waiting"
      /\ \A t \in Sessions : \A q \in due'[t] : pc'[q] = "waiting"
  <2>1. \A t \in Sessions : \A q \in due'[t] : q \in due[t] BY DEF TypeOK
  <2>2. /\ \A q \in closed : q \in Sessions \ {s}
        /\ \A t \in Sessions : \A q \in due[t] : q \in Sessions \ {s}
    BY DEF IdleInv, TypeOK
  <2> QED BY <2>1, <2>2 DEF IdleInv
<1>4. \A q \in Sessions : /\ pc'[q] = "waiting" => sel'[q] # NoBox
                          /\ pc'[q] \in {"change", "notify"} => owed'[q] # {}
  BY DEF IdleInv
<1> QED BY <1>1, <1>2, <1>3, <1>4 DEF IdleInv

\* Whoever waits for a mailbox that is changed is owed a notification.
LEMMA RowInv ==
  ASSUME TypeOK, IdleInv, NEW s \in Sessions, ChangeRow(s)
  PROVE  IdleInv'
<1>0. "change" \in Pcs /\ UNCHANGED <<sel, owed, subs, closed, failed>>
  BY DEF Pcs, ChangeRow, sess
<1>1. pc[s] = "change" /\ \A q \in Sessions : pc'[q] = pc[q]
  BY <1>0, GotoFacts DEF ChangeRow
<1>2. \A q \in due'[s] : q \in due[s] \/ (q \in Sessions /\ pc[q] = "waiting" /\ sel[q] \in owed[s])
  BY DEF ChangeRow, Touched, TypeOK
<1>3. \A t \in Sessions \ {s} : due'[t] = due[t]
  BY DEF ChangeRow, TypeOK
<1>4. SubscriptionsExact'
  <2>1. \A b \in Ids : Listeners(b)' = Listeners(b) BY <1>0, <1>1 DEF Listeners
  <2> QED BY <1>0, <2>1 DEF IdleInv, SubscriptionsExact, Listeners
<1>5. ChangesReachIdlers'
  <2> SUFFICES ASSUME NEW t \in Sessions, NEW q \in due'[t], q \notin closed, t \notin failed
               PROVE  pc[t] \in {"change", "notify"} /\ sel[q] \in owed[t]
    BY <1>0, <1>1 DEF ChangesReachIdlers
  <2>1. CASE q \in due[t] BY <2>1 DEF IdleInv, ChangesReachIdlers
  <2>2. CASE q \notin due[t] BY <1>1, <1>2, <1>3, <2>2
  <2> QED BY <2>1, <2>2
<1>6. \A t \in Sessions : \A q \in due'[t] : q \in Sessions /\ pc[q] = "waiting"
  BY <1>2, <1>3 DEF IdleInv, TypeOK
<1>7. \A q \in closed' : pc'[q] = "waiting"
  BY <1>0, <1>1 DEF IdleInv, TypeOK
<1> QED BY <1>0, <1>1, <1>4, <1>5, <1>6, <1>7 DEF IdleInv

\* The command comes to the notifier with its debts, or fails.
LEMMA ChangedInv ==
  ASSUME TypeOK, IdleInv, NEW s \in Sessions, Changed(s)
  PROVE  IdleInv'
<1>0. {"ready", "notify"} \subseteq Pcs /\ UNCHANGED <<sel, subs, closed, due>>
  BY DEF Pcs, Changed
<1>1. CASE Goto(s, "change", "ready") /\ owed' = [owed EXCEPT ![s] = {}] /\ failed' = failed \cup {s}
  <2>1. pc[s] = "change" /\ pc'[s] = "ready" /\ \A q \in Sessions \ {s} : pc'[q] = pc[q]
    BY <1>0, <1>1, GotoFacts
  <2>2. \A q \in Sessions \ {s} : owed'[q] = owed[q] BY <1>1 DEF TypeOK
  <2> QED BY <1>0, <1>1, <2>1, <2>2, IdleFrame
<1>2. CASE Goto(s, "change", "notify") /\ UNCHANGED <<owed, failed>>
  <2>1. pc[s] = "change" /\ pc'[s] = "notify" /\ \A q \in Sessions \ {s} : pc'[q] = pc[q]
    BY <1>0, <1>2, GotoFacts
  <2>2. SubscriptionsExact'
    <3>1. \A b \in Ids : Listeners(b)' = Listeners(b) BY <1>0, <2>1 DEF Listeners
    <3> QED BY <1>0, <3>1 DEF IdleInv, SubscriptionsExact, Listeners
  <2>3. ChangesReachIdlers'
    <3>1. \A t \in Sessions : pc[t] \in {"change", "notify"} => pc'[t] \in {"change", "notify"}
      BY <2>1
    <3> QED BY <1>0, <1>2, <3>1 DEF IdleInv, ChangesReachIdlers
  <2>4. /\ \A q \in closed' : pc'[q] = "waiting"
        /\ \A t \in Sessions : \A q \in due'[t] : pc'[q] = "waiting"
    <3>1. \A q \in Sessions : pc[q] = "waiting" => pc'[q] = "waiting" BY <2>1
    <3> QED BY <1>0, <3>1 DEF IdleInv, TypeOK
  <2>5. \A q \in Sessions : /\ pc'[q] = "waiting" => sel'[q] # NoBox
                            /\ pc'[q] \in {"change", "notify"} => owed'[q] # {}
    BY <1>0, <1>2, <2>1 DEF IdleInv
  <2> QED BY <2>2, <2>3, <2>4, <2>5 DEF IdleInv
<1> QED BY <1>1, <1>2 DEF Changed

\* Notify closes the channels of everybody who waits for the mailbox.
LEMMA NotifyInv ==
  ASSUME TypeOK, IdleInv, NEW s \in Sessions, Notify(s)
  PROVE  IdleInv'
<1>0. pc[s] = "notify" /\ owed[s] # {} /\ {"ready", "notify"} \subseteq Pcs /\ UNCHANGED <<sel, due, failed>>
  BY DEF Notify, Goto, IdleInv, Pcs
<1>1. PICK b \in owed[s] : /\ Goto(s, "notify", IF owed[s] = {b} THEN "ready" ELSE "notify")
                           /\ owed' = [owed EXCEPT ![s] = @ \ {b}]
                           /\ closed' = closed \cup subs[b]
                           /\ subs' = [subs EXCEPT ![b] = {}]
  BY <1>0 DEF Notify
<1>2. b \in Ids BY DEF TypeOK
<1>3. /\ pc'[s] = IF owed[s] = {b} THEN "ready" ELSE "notify"
      /\ \A q \in Sessions \ {s} : pc'[q] = pc[q]
  BY <1>0, <1>1, GotoFacts
<1>4. /\ owed'[s] = owed[s] \ {b} /\ \A q \in Sessions \ {s} : owed'[q] = owed[q]
      /\ subs'[b] = {} /\ \A c \in Ids \ {b} : subs'[c] = subs[c]
  BY <1>1, <1>2 DEF TypeOK
<1>5. subs[b] = Listeners(b)
  BY <1>2 DEF IdleInv, SubscriptionsExact, Listeners
<1>6. \A q \in Sessions : pc'[q] = "waiting" <=> pc[q] = "waiting"
  BY <1>0, <1>3
<1>7. SubscriptionsExact'
  <2>1. Listeners(b)' = {} BY <1>0, <1>1, <1>5, <1>6 DEF Listeners
  <2>2. ASSUME NEW c \in Ids \ {b} PROVE Listeners(c)' = subs'[c]
    <3>1. subs[c] = Listeners(c) BY DEF IdleInv, SubscriptionsExact, Listeners
    <3>2. \A q \in subs[b] : sel[q] = b BY <1>5 DEF Listeners
    <3>3. Listeners(c)' = Listeners(c) BY <1>0, <1>1, <1>6, <2>2, <3>2 DEF Listeners
    <3> QED BY <1>4, <3>1, <3>3
  <2> QED BY <1>4, <2>1, <2>2 DEF SubscriptionsExact, Listeners
<1>8. ChangesReachIdlers'
  <2> SUFFICES ASSUME NEW t \in Sessions, NEW q \in due[t], q \notin closed', t \notin failed
               PROVE  pc'[t] \in {"change", "notify"} /\ sel[q] \in owed'[t]
    BY <1>0 DEF ChangesReachIdlers
  <2>1. q \in Sessions /\ pc[q] = "waiting" /\ q \notin closed
    BY <1>1 DEF IdleInv, TypeOK
  <2>2. sel[q] # b
    BY <1>1, <1>5, <2>1 DEF Listeners
  <2>3. pc[t] \in {"change", "notify"} /\ sel[q] \in owed[t]
    BY <2>1 DEF IdleInv, ChangesReachIdlers
  <2>4. CASE t # s BY <1>3, <1>4, <2>3, <2>4
  <2>5. CASE t = s BY <1>3, <1>4, <2>2, <2>3, <2>5
  <2> QED BY <2>4, <2>5
<1>9. /\ \A q \in closed' : pc'[q] = "waiting"
      /\ \A t \in Sessions : \A q \in due'[t] : pc'[q] = "waiting"
  <2>1. /\ \A q \in closed' : q \in Sessions /\ pc[q] = "waiting"
        /\ \A t \in Sessions : \A q \in due'[t] : q \in Sessions /\ pc[q] = "waiting"
    BY <1>0, <1>1, <1>5 DEF IdleInv, TypeOK, Listeners
  <2> QED BY <1>6, <2>1
<1>10. \A q \in Sessions : /\ pc'[q] = "waiting" => sel'[q] # NoBox
                           /\ pc'[q] \in {"change", "notify"} => owed'[q] # {}
  <2>1. pc'[s] \in {"change", "notify"} => owed'[s] # {} BY <1>3, <1>4
  <2> QED BY <1>0, <1>3, <1>4, <1>6, <2>1 DEF IdleInv
<1> QED BY <1>7, <1>8, <1>9, <1>10 DEF IdleInv

\* Idle adds a channel, its end removes it.
LEMMA SubscribeInv ==
  ASSUME TypeOK, IdleInv, NEW s \in Sessions, Idle(s) \/ Unsubscribe(s)
  PROVE  IdleInv'
<1>0. {"ready", "waiting"} \subseteq Pcs /\ UNCHANGED <<sel, owed>>
  BY DEF Pcs, Idle, Unsubscribe, sess
<1>1. sel[s] \in Ids
  BY DEF Idle, Unsubscribe, Goto, IdleInv, TypeOK, Ids, NoBox
<1>2. CASE Idle(s)
  <2>1. pc[s] = "ready" /\ pc'[s] = "waiting" /\ \A q \in Sessions \ {s} : pc'[q] = pc[q]
    BY <1>0, <1>2, GotoFacts DEF Idle
  <2>2. UNCHANGED <<closed, due, failed>> /\ s \notin closed /\ \A t \in Sessions : s \notin due[t]
    BY <1>2, <2>1 DEF Idle, IdleInv
  <2>3. subs'[sel[s]] = subs[sel[s]] \cup {s} /\ \A b \in Ids \ {sel[s]} : subs'[b] = subs[b]
    BY <1>1, <1>2 DEF Idle, TypeOK
  <2>4. SubscriptionsExact'
    <3>1. \A b \in Ids : subs[b] = Listeners(b) BY DEF IdleInv, SubscriptionsExact, Listeners
    <3>2. ASSUME NEW b \in Ids \ {sel[s]} PROVE Listeners(b)' = Listeners(b)
      BY <1>0, <2>1, <2>2, <3>2 DEF Listeners
    <3>3. ASSUME NEW b, b = sel[s] PROVE Listeners(b)' = Listeners(b) \cup {s}
      BY <1>0, <2>1, <2>2, <3>3 DEF Listeners
    <3>4. \A b \in Ids : subs'[b] = Listeners(b)' BY <1>1, <2>3, <3>1, <3>2, <3>3
    <3> QED BY <3>4 DEF SubscriptionsExact, Listeners
  <2>5. ChangesReachIdlers'
    <3>1. \A t \in Sessions : pc[t] \in {"change", "notify"} => pc'[t] \in {"change", "notify"}
      BY <2>1
    <3> QED BY <1>0, <2>2, <3>1 DEF IdleInv, ChangesReachIdlers
  <2>6. /\ \A q \in closed' : pc'[q] = "waiting"
        /\ \A t \in Sessions : \A q \in due'[t] : pc'[q] = "waiting"
    <3>1. \A q \in Sessions : pc[q] = "waiting" => pc'[q] = "waiting" BY <2>1
    <3> QED BY <2>2, <3>1 DEF IdleInv, TypeOK
  <2>7. \A q \in Sessions : /\ pc'[q] = "waiting" => sel'[q] # NoBox
                            /\ pc'[q] \in {"change", "notify"} => owed'[q] # {}
    <3>1. sel[s] # NoBox BY <1>2 DEF Idle
    <3> QED BY <1>0, <2>1, <3>1 DEF IdleInv
  <2> QED BY <2>4, <2>5, <2>6, <2>7 DEF IdleInv
<1>3. CASE Unsubscribe(s)
  <2>1. pc[s] = "waiting" /\ pc'[s] = "ready" /\ \A q \in Sessions \ {s} : pc'[q] = pc[q]
    BY <1>0, <1>3, GotoFacts DEF Unsubscribe
  <2>2. closed' = closed \ {s} /\ failed' = failed /\ \A t \in Sessions : due'[t] = due[t] \ {s}
    BY <1>3 DEF Unsubscribe
  <2>3. subs'[sel[s]] = subs[sel[s]] \ {s} /\ \A b \in Ids \ {sel[s]} : subs'[b] = subs[b]
    BY <1>1, <1>3 DEF Unsubscribe, TypeOK
  <2>4. SubscriptionsExact'
    <3>1. \A b \in Ids : subs[b] = Listeners(b) BY DEF IdleInv, SubscriptionsExact, Listeners
    <3>2. ASSUME NEW b \in Ids \ {sel[s]} PROVE Listeners(b)' = Listeners(b)
      BY <1>0, <2>1, <2>2, <3>2 DEF Listeners
    <3>3. ASSUME NEW b, b = sel[s] PROVE Listeners(b)' = Listeners(b) \ {s}
      BY <1>0, <2>1, <2>2, <3>3 DEF Listeners
    <3>4. \A b \in Ids : subs'[b] = Listeners(b)' BY <1>1, <2>3, <3>1, <3>2, <3>3
    <3> QED BY <3>4 DEF SubscriptionsExact, Listeners
  <2>5. ChangesReachIdlers'
    <3>1. \A t \in Sessions : pc[t] \in {"change", "notify"} => pc'[t] \in {"change", "notify"}
      BY <2>1
    <3> QED BY <1>0, <2>2, <3>1 DEF IdleInv, ChangesReachIdlers
  <2>6. /\ \A q \in closed' : pc'[q] = "waiting"
        /\ \A t \in Sessions : \A q \in due'[t] : pc'[q] = "waiting"
    <3>1. /\ \A q \in closed' : q \in Sessions \ {s} /\ pc[q] = "waiting"
          /\ \A t \in Sessions : \A q \in due'[t] : q \in Sessions \ {s} /\ pc[q] = "waiting"
      BY <2>2 DEF IdleInv, TypeOK
    <3> QED BY <2>1, <3>1
  <2>7. \A q \in Sessions : /\ pc'[q] = "waiting" => sel'[q] # NoBox
                            /\ pc'[q] \in {"change", "notify"} => owed'[q] # {}
    BY <1>0, <2>1 DEF IdleInv
  <2> QED BY <2>4, <2>5, <2>6, <2>7 DEF IdleInv
<1> QED BY <1>2, <1>3

\* Every step keeps the notifier's books.
LEMMA IdleStep ==
  ASSUME TypeOK, LookupInv, IdleInv, [Next]_vars
  PROVE  IdleInv'
<1> USE DEF table, names, idle, sess
<1>0. {"ready", "evict", "query", "fill", "found", "delete", "drop", "clear",
       "change", "notify", "waiting"} \subseteq Pcs
  BY DEF Pcs
<1>1. ASSUME NEW s \in Sessions, NEW c \in Commands, GetMailbox(s, c) PROVE IdleInv'
  <2>1. /\ pc[s] = "ready" /\ pc'[s] \in {"found", "evict", "query"}
        /\ \A q \in Sessions \ {s} : pc'[q] = pc[q]
    BY <1>1 DEF GetMailbox, TypeOK
  <2> QED BY <1>1, <2>1, IdleFrame DEF GetMailbox
<1>2. ASSUME NEW s \in Sessions,
             \/ \E n \in Names : CreateMailbox(s, n)
             \/ Evict(s) \/ Query(s) \/ Fill(s) \/ ReadName(s) \/ DeleteMailbox(s) \/ Drop(s)
             \/ RenameMailbox(s) \/ Clear(s) \/ Select(s)
      PROVE  IdleInv'
  <2>1. /\ {pc[s], pc'[s]} \cap {"waiting", "notify", "change"} = {}
        /\ \A q \in Sessions \ {s} : pc'[q] = pc[q]
    BY <1>0, <1>2, GotoFacts DEF CreateMailbox, Evict, Query, Fill, ReadName, DeleteMailbox, Drop,
       RenameMailbox, Clear, Select, Done
  <2>2. UNCHANGED <<subs, closed, due, failed, owed>>
    BY <1>2 DEF CreateMailbox, Evict, Query, Fill, ReadName, DeleteMailbox, Drop, RenameMailbox,
       Clear, Select
  <2>3. \A q \in Sessions \ {s} : sel'[q] = sel[q]
    BY <1>2 DEF CreateMailbox, Evict, Query, Fill, ReadName, DeleteMailbox, Drop, RenameMailbox,
       Clear, Select, TypeOK
  <2> QED BY <2>1, <2>2, <2>3, IdleFrame
<1>3. ASSUME NEW s \in Sessions, Change(s) \/ Copy(s) PROVE IdleInv'
  <2>1. /\ pc[s] \in {"ready", "found"} /\ pc'[s] = "change"
        /\ \A q \in Sessions \ {s} : pc'[q] = pc[q]
    BY <1>0, <1>3, GotoFacts DEF Change, Copy, Done
  <2>2. owed'[s] # {} /\ \A q \in Sessions \ {s} : owed'[q] = owed[q]
    <3>1. PICK boxes : boxes # {} /\ Begin(s, boxes) BY <1>3 DEF Change, Copy
    <3> QED BY <3>1 DEF Begin, TypeOK
  <2>3. /\ due' = [due EXCEPT ![s] = {}] /\ failed' = failed \ {s}
        /\ UNCHANGED <<subs, closed, sel>>
    BY <1>3 DEF Change, Copy, Begin
  <2> QED BY <2>1, <2>2, <2>3, IdleFrame
<1>4. ASSUME NEW s \in Sessions, ChangeRow(s) \/ Changed(s) \/ Notify(s) \/ Idle(s) \/ Unsubscribe(s)
      PROVE  IdleInv'
  BY <1>4, RowInv, ChangedInv, NotifyInv, SubscribeInv
<1>5. CASE Tick \/ UNCHANGED vars
  BY <1>5 DEF Tick, vars, IdleInv, SubscriptionsExact, ChangesReachIdlers
<1> QED
  BY <1>1, <1>2, <1>3, <1>4, <1>5 DEF Next, Step, Stop, Wake
-----------------------------------------------------------------------------
(* The theorems.                                                           *)

\* An account without mailboxes, an empty cache and nobody in IDLE.
LEMMA UserInit == Init => TypeOK /\ LookupInv /\ CacheInv /\ IdleInv
<1> SUFFICES ASSUME Init PROVE TypeOK /\ LookupInv /\ CacheInv /\ IdleInv OBVIOUS
<1>1. 0 \in 0..MaxBoxes /\ Absent \in Absent..TTL /\ ~(Absent >= 0) /\ "ready" \in Pcs
  BY BoxAssumption, CacheAssumption DEF Absent, Pcs
<1>2. TypeOK BY <1>1 DEF Init, TypeOK, NoBox
<1>3. LookupInv BY DEF Init, LookupInv
<1>4. CacheInv BY <1>1 DEF Init, CacheInv, Hit
<1>5. IdleInv BY DEF Init, IdleInv, SubscriptionsExact, ChangesReachIdlers
<1> QED BY <1>2, <1>3, <1>4, <1>5

\* The invariant of the mailboxes of one user: types, lookups, cache, IDLE.
LEMMA UserInvariant == Spec => [](TypeOK /\ LookupInv /\ CacheInv /\ IdleInv)
<1> DEFINE I == TypeOK /\ LookupInv /\ CacheInv /\ IdleInv
<1>1. I /\ [Next]_vars => I'
  <2> SUFFICES ASSUME I, [Next]_vars PROVE I' OBVIOUS
  <2>1. TypeOK' /\ LookupInv'
    BY NamesType, RowsType, IdleType, TickType DEF Next, Step
  <2>2. CacheInv' BY <2>1, CacheStep
  <2>3. IdleInv' BY IdleStep
  <2> QED BY <2>1, <2>2, <2>3
<1> QED BY <1>1, UserInit, PTL DEF Spec

\* Every row, entry and session keeps its type; no two mailboxes of a user
\* ever have the same name, whatever is created and renamed at once.
THEOREM UserTypeCorrect == Spec => []TypeOK
BY UserInvariant, PTL

\* GetMailbox answers from the cache with the mailbox of that name, unless
\* the command that changed the name is still on its way to the cache or a
\* lookup or deletion raced the change.
THEOREM CachedNamesAreRight == Spec => []NameCacheAgrees
<1>1. CacheInv => NameCacheAgrees
  BY DEF CacheInv, NameCacheAgrees, WillDrop
<1> QED BY <1>1, UserInvariant, PTL

\* The notifier holds exactly the open channels of the sessions in IDLE: none
\* is closed twice, which would panic, and none stays behind.
THEOREM ChannelsAreExact == Spec => []SubscriptionsExact
<1>1. IdleInv => SubscriptionsExact BY DEF IdleInv
<1> QED BY <1>1, UserInvariant, PTL

\* A session that is in IDLE when a command changes its mailbox is woken, or
\* the command has not come to Notify yet, or it failed before it did.
THEOREM NoWakeupIsLost == Spec => []ChangesReachIdlers
<1>1. IdleInv => ChangesReachIdlers BY DEF IdleInv
<1> QED BY <1>1, UserInvariant, PTL
=============================================================================
