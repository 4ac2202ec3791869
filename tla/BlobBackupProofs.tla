-------------------------- MODULE BlobBackupProofs --------------------------
(***************************************************************************)
(* Type correctness of BlobBackup, and the proof that a backup which       *)
(* restores is complete, for any bodies, writers and crashes.              *)
(***************************************************************************)
EXTENDS BlobBackup, TLAPS

\* The server starts on an empty store, and nobody has asked for a backup.
LEMMA InitType == Init => TypeOK
<1> SUFFICES ASSUME Init PROVE TypeOK
  OBVIOUS
<1> USE DEF Init
<1>1. parts \in [Keys -> SUBSET Body] /\ tar \in [Keys -> SUBSET Body]
  OBVIOUS
<1>2. /\ pc \in [Writers -> {"idle", "open", "begin", "write", "insert"}]
      /\ key \in [Writers -> Keys \cup {NoKey}]
      /\ \A w \in Writers : pc[w] # "idle" => key[w] \in Keys
  OBVIOUS
<1>3. crashes \in 0..MaxCrashes /\ size \in 0..2
  BY CrashAssumption
<1> QED
  BY <1>1, <1>2, <1>3, Zenon DEF TypeOK

\* TypeOK holds of every reachable state.
LEMMA TypeInductive == TypeOK /\ [Next]_vars => TypeOK'
<1> SUFFICES ASSUME TypeOK, [Next]_vars PROVE TypeOK'
  OBVIOUS
<1> USE KeysAssumption, CrashAssumption DEF TypeOK, Goto, Return, Ended, Body,
      writerVars, backupVars, serverVars
<1>1. ASSUME NEW w \in Writers, NEW k \in Keys, Put(w, k) PROVE TypeOK'
  BY <1>1 DEF Put
<1>2. ASSUME NEW w \in Writers, OpenFile(w) PROVE TypeOK'
  BY <1>2 DEF OpenFile
<1>3. ASSUME NEW w \in Writers, WriteSome(w) PROVE TypeOK'
  BY <1>3 DEF WriteSome, Fill
<1>4. ASSUME NEW w \in Writers, WriteRest(w) PROVE TypeOK'
  BY <1>4 DEF WriteRest, Fill
<1>5. ASSUME NEW w \in Writers, InsertMessage(w) PROVE TypeOK'
  BY <1>5 DEF InsertMessage
<1>6. ASSUME NEW w \in Writers, Delete(w) PROVE TypeOK'
  BY <1>6 DEF Delete
<1>7. CASE Crash
  BY <1>7 DEF Crash
<1>8. CASE Backup \/ BackupDb \/ BackupEnd
  BY <1>8 DEF Backup, BackupDb, BackupEnd
<1>9. ASSUME NEW k \in Keys, ListBlob(k) PROVE TypeOK'
  BY <1>9 DEF ListBlob, Size
<1>10. CASE CopyBlob
  BY <1>10 DEF CopyBlob
<1>11. ASSUME NEW fresh \in BOOLEAN, Restore(fresh) PROVE TypeOK'
  BY <1>11 DEF Restore, Replace
<1>12. CASE UNCHANGED vars
  BY <1>12 DEF vars
<1> QED
  BY <1>1, <1>2, <1>3, <1>4, <1>5, <1>6, <1>7, <1>8, <1>9, <1>10, <1>11, <1>12
  DEF Next, Step

\* FSStore, Backup and Restore keep every variable in its type.
THEOREM TypeCorrect == Spec => []TypeOK
BY InitType, TypeInductive, PTL DEF Spec
-----------------------------------------------------------------------------
(* The body of a row, or of a row to come, has a file until somebody       *)
(* deletes it; so Walk, which starts after the database was copied, finds  *)
(* a file for every row in the copy.                                       *)

Storing(w) == pc[w] \in {"begin", "write", "insert"}

FileInv == ~Ended =>
  /\ rows \ deleted \subseteq files
  /\ \A w \in Writers : Storing(w) /\ key[w] \notin deleted => key[w] \in files

WalkInv ==
  /\ phase \in {"walk", "done"} => db \subseteq rows
  /\ phase = "walk" => db \ deleted \subseteq todo \cup archived \cup {found}
  /\ phase = "done" => db \ deleted \subseteq archived

BackupInv == TypeOK /\ FileInv /\ WalkInv /\ RestoredIsWhole

\* Steps that write keep the files that others rely on.
LEMMA BackupInductive == BackupInv /\ [Next]_vars => BackupInv'
<1> SUFFICES ASSUME BackupInv, [Next]_vars PROVE FileInv' /\ WalkInv' /\ RestoredIsWhole'
  BY TypeInductive DEF BackupInv
<1>0. TypeOK /\ FileInv /\ WalkInv /\ RestoredIsWhole
  BY DEF BackupInv
<1> USE <1>0 DEF TypeOK, FileInv, WalkInv, RestoredIsWhole, Whole, Storing, Goto, Return,
      Ended, writerVars, backupVars, serverVars
<1>1. ASSUME NEW w \in Writers, NEW k \in Keys, Put(w, k)
      PROVE FileInv' /\ WalkInv' /\ RestoredIsWhole'
  BY <1>1 DEF Put
<1>2. ASSUME NEW w \in Writers, OpenFile(w) \/ WriteSome(w) \/ WriteRest(w)
      PROVE FileInv' /\ WalkInv' /\ RestoredIsWhole'
  BY <1>2 DEF OpenFile, WriteSome, WriteRest
<1>3. ASSUME NEW w \in Writers, InsertMessage(w)
      PROVE FileInv' /\ WalkInv' /\ RestoredIsWhole'
  BY <1>3 DEF InsertMessage
<1>4. ASSUME NEW w \in Writers, Delete(w)
      PROVE FileInv' /\ WalkInv' /\ RestoredIsWhole'
  BY <1>4 DEF Delete
<1>5. CASE Crash
  BY <1>5 DEF Crash
<1>6. CASE Backup \/ BackupDb
  BY <1>6 DEF Backup, BackupDb
<1>7. ASSUME NEW k \in Keys, ListBlob(k)
      PROVE FileInv' /\ WalkInv' /\ RestoredIsWhole'
  <2>1. FileInv' /\ RestoredIsWhole'
    BY <1>7 DEF ListBlob
  <2>2. db \ deleted \subseteq todo \cup archived
    BY KeysAssumption, <1>7 DEF ListBlob
  <2>3. k \in db \ deleted => k \in files
    BY <1>7 DEF ListBlob
  <2>4. db' \ deleted' \subseteq todo' \cup archived' \cup {found'}
    BY <1>7, <2>2, <2>3 DEF ListBlob
  <2> QED
    BY <1>7, <2>1, <2>4 DEF ListBlob
<1>8. CASE CopyBlob
  BY <1>8 DEF CopyBlob
<1>9. CASE BackupEnd
  BY KeysAssumption, <1>9 DEF BackupEnd
<1>10. ASSUME NEW fresh \in BOOLEAN, Restore(fresh)
       PROVE FileInv' /\ WalkInv' /\ RestoredIsWhole'
  <2>1. CASE phase' = "restored"
    <3>1. /\ phase = "done" /\ Replace(fresh, archived)
          /\ \A k \in archived : tar[k] = Body
      BY <1>10, <2>1 DEF Restore
    <3>2. \A k \in archived : k \in files' /\ parts'[k] = Body
      BY <3>1 DEF Replace
    <3>3. ~torn' => \A k \in rows' : k \in archived \/ k \in deleted \ archived
      BY <1>10, <3>1 DEF Restore, Replace
    <3> QED
      BY <1>10, <2>1, <3>2, <3>3 DEF Restore
  <2>2. CASE phase' # "restored"
    BY <1>10, <2>2 DEF Restore
  <2> QED
    BY <2>1, <2>2
<1>11. CASE UNCHANGED vars
  BY <1>11 DEF vars
<1> QED
  BY <1>1, <1>2, <1>3, <1>4, <1>5, <1>6, <1>7, <1>8, <1>9, <1>10, <1>11 DEF Next, Step

\* A backup taken beside the running server that reports success has the body
\* of every message in its database: restored on any machine it brings all of
\* them back whole, or is refused.  Excepted are a torn marco.db and a body
\* deleted before Walk came to it.
THEOREM RestoreIsComplete == Spec => []RestoredIsWhole
<1>1. Init => BackupInv
  BY InitType DEF Init, BackupInv, FileInv, WalkInv, RestoredIsWhole, Storing, Ended
<1>2. BackupInv => RestoredIsWhole
  BY DEF BackupInv
<1> QED
  BY <1>1, <1>2, BackupInductive, PTL DEF Spec
-----------------------------------------------------------------------------
(* A piece that is missing from a file is still going to be written.       *)

\* Truncation makes the writer responsible for both pieces, each write takes
\* one off, and a writer that loses its file or its life leaves a harmed body.
LEMMA PiecesInductive == TypeOK /\ PiecesInv /\ [Next]_vars => PiecesInv'
<1> SUFFICES ASSUME TypeOK, PiecesInv, [Next]_vars PROVE PiecesInv'
  OBVIOUS
<1> USE DEF TypeOK, PiecesInv, harmed, Goto, Return, Ended, writerVars, backupVars, serverVars
<1>1. ASSUME NEW w \in Writers, NEW k \in Keys, Put(w, k) PROVE PiecesInv'
  BY <1>1 DEF Put
<1>2. ASSUME NEW w \in Writers, OpenFile(w) PROVE PiecesInv'
  BY <1>2 DEF OpenFile
<1>3. ASSUME NEW w \in Writers, WriteSome(w) PROVE PiecesInv'
  BY <1>3 DEF WriteSome, Fill
<1>4. ASSUME NEW w \in Writers, WriteRest(w) PROVE PiecesInv'
  BY <1>4 DEF WriteRest, Fill
<1>5. ASSUME NEW w \in Writers, InsertMessage(w) PROVE PiecesInv'
  BY <1>5 DEF InsertMessage
<1>6. ASSUME NEW w \in Writers, Delete(w) PROVE PiecesInv'
  BY <1>6 DEF Delete
<1>7. CASE Crash
  BY <1>7 DEF Crash
<1>8. CASE Backup \/ BackupDb \/ BackupEnd \/ CopyBlob
  BY <1>8 DEF Backup, BackupDb, BackupEnd, CopyBlob
<1>9. ASSUME NEW k \in Keys, ListBlob(k) PROVE PiecesInv'
  BY <1>9 DEF ListBlob
<1>10. ASSUME NEW fresh \in BOOLEAN, Restore(fresh) PROVE PiecesInv'
  BY <1>10 DEF Restore, Replace
<1>11. CASE UNCHANGED vars
  BY <1>11 DEF vars
<1> QED
  BY <1>1, <1>2, <1>3, <1>4, <1>5, <1>6, <1>7, <1>8, <1>9, <1>10, <1>11 DEF Next, Step

\* A committed message whose body is not whole has a writer at its file,
\* although Put trusts any file with something in it and WriteFile truncates
\* what another has written: the safety half of BodyArrives.
THEOREM BodiesAreOnTheirWay == Spec => []Arriving
<1>1. Init => BackupInv /\ PiecesInv
  BY InitType DEF Init, BackupInv, FileInv, WalkInv, RestoredIsWhole, Storing, Ended, PiecesInv
<1>2. BackupInv => TypeOK
  BY DEF BackupInv
<1>3. BackupInv /\ PiecesInv => Arriving
  BY DEF BackupInv, TypeOK, FileInv, PiecesInv, Arriving, Whole, Body, harmed
<1> QED
  BY <1>1, <1>2, <1>3, BackupInductive, PiecesInductive, PTL DEF Spec
=============================================================================
