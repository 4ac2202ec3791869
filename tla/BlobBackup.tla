----------------------------- MODULE BlobBackup -----------------------------
(***************************************************************************)
(* The file blob store (pkg/blobstore/fs.go) under concurrent writers, and *)
(* the backup and restore commands (pkg/marco/backup.go) that run beside   *)
(* the server.  Writers store a body and then insert the message that      *)
(* refers to it; a delivery that fails deletes the body it put instead.  A *)
(* body is two pieces, since os.WriteFile does not write it at once.       *)
(***************************************************************************)
EXTENDS Integers, FiniteSets

CONSTANTS
  Keys,        \* bodies, named by their digest
  Writers,     \* goroutines that store a message
  NoKey,       \* no body
  MaxCrashes   \* how often the server may crash

ASSUME KeysAssumption == NoKey \notin Keys /\ IsFiniteSet(Keys)
ASSUME CrashAssumption == MaxCrashes \in Nat

VARIABLES
  files,     \* keys whose file exists
  parts,     \* the pieces of the body in each file
  rows,      \* keys that committed messages refer to
  pc,        \* what each writer does next
  key,       \* the body it stores
  linked,    \* writers whose open file still has its name
  crashes,
  phase,     \* what the backup command does next
  db,        \* the rows in the tarball's marco.db
  torn,      \* a commit hit marco.db while it was copied
  todo,      \* keys that Walk has not come to
  found,     \* the one it has listed, or NoKey ...
  size,      \* ... and the size in its header
  tar,       \* the tarball's copy of each blob
  archived,  \* keys that are in the tarball
  deleted,   \* history: bodies somebody has deleted
  cut        \* history: bodies hit by a crash or a full disk

writerVars == <<pc, key, linked>>
backupVars == <<phase, db, torn, todo, found, size, tar, archived>>
vars == <<files, parts, rows, writerVars, crashes, backupVars, deleted, cut>>

Body == {1, 2}
harmed == deleted \cup cut
Whole(k) == k \in files /\ parts[k] = Body
Size(p) == IF p = {} THEN 0 ELSE IF 2 \in p THEN 2 ELSE 1   \* holes count

TypeOK ==
  /\ files \subseteq Keys /\ rows \subseteq Keys
  /\ parts \in [Keys -> SUBSET Body]
  /\ pc \in [Writers -> {"idle", "open", "begin", "write", "insert"}]
  /\ key \in [Writers -> Keys \cup {NoKey}]
  /\ linked \subseteq {w \in Writers : pc[w] \in {"begin", "write"}}
  /\ crashes \in 0..MaxCrashes
  /\ phase \in {"off", "db", "walk", "failed", "done", "refused",
               "restored", "salvaged", "broken"}
  /\ db \subseteq Keys /\ todo \subseteq Keys /\ archived \subseteq Keys
  /\ found \in Keys \cup {NoKey} /\ size \in 0..2
  /\ tar \in [Keys -> SUBSET Body]
  /\ torn \in BOOLEAN
  /\ deleted \subseteq Keys /\ cut \subseteq Keys
  /\ \A w \in Writers : pc[w] # "idle" => key[w] \in Keys

Init ==
  /\ files = {} /\ parts = [k \in Keys |-> {}] /\ rows = {}
  /\ pc = [w \in Writers |-> "idle"] /\ key = [w \in Writers |-> NoKey]
  /\ linked = {} /\ crashes = 0
  /\ phase = "off" /\ db = {} /\ torn = FALSE
  /\ todo = {} /\ found = NoKey /\ size = 0
  /\ tar = [k \in Keys |-> {}] /\ archived = {}
  /\ deleted = {} /\ cut = {}

\* A restore needs a stopped server; one that got to the data ends the story.
Ended == phase \in {"restored", "salvaged", "broken"}

Goto(w, from, to) ==
  /\ pc[w] = from /\ ~Ended
  /\ pc' = [pc EXCEPT ![w] = to]
Return(w, from) == Goto(w, from, "idle") /\ key' = [key EXCEPT ![w] = NoKey]
-----------------------------------------------------------------------------
(* FSStore.                                                                *)

\* Put: Stat finds a file with something in it, or WriteFile must make one.
Put(w, k) ==
  /\ \/ k \in files /\ parts[k] # {} /\ Goto(w, "idle", "insert")
     \/ (k \notin files \/ parts[k] = {}) /\ Goto(w, "idle", "open")
  /\ key' = [key EXCEPT ![w] = k]
  /\ UNCHANGED <<files, parts, rows, linked, crashes, backupVars, deleted, cut>>

\* WriteFile truncates the file, whatever has become of it since, ...
OpenFile(w) ==
  /\ Goto(w, "open", "begin")
  /\ files' = files \cup {key[w]}
  /\ parts' = [parts EXCEPT ![key[w]] = {}]
  /\ linked' = linked \cup {w}
  /\ UNCHANGED <<rows, key, crashes, backupVars, deleted, cut>>

\* ... and fills it piece by piece.
Fill(w, piece) ==
  parts' = IF w \in linked THEN [parts EXCEPT ![key[w]] = @ \cup {piece}] ELSE parts

WriteSome(w) ==
  /\ Goto(w, "begin", "write")
  /\ Fill(w, 1)
  /\ UNCHANGED <<files, rows, key, linked, crashes, backupVars, deleted, cut>>

\* Mutant: a short write goes unnoticed.
WriteShort(w) ==
  /\ Goto(w, "write", "insert")
  /\ linked' = linked \ {w}
  /\ UNCHANGED <<files, parts, rows, key, crashes, backupVars, deleted, cut>>

WriteRest(w) ==
  /\ \/ Goto(w, "write", "insert") /\ Fill(w, 2) /\ UNCHANGED <<key, cut>>
     \/ /\ Return(w, "write")              \* the disk is full
        /\ cut' = cut \cup {key[w]}
        /\ UNCHANGED parts
  /\ linked' = linked \ {w}
  /\ UNCHANGED <<files, rows, crashes, backupVars, deleted>>

\* The caller commits the message, ...
InsertMessage(w) ==
  /\ Return(w, "insert")
  /\ rows' = rows \cup {key[w]}
  /\ torn' = (torn \/ phase = "db")
  /\ UNCHANGED <<files, parts, linked, crashes, phase, db, todo, found, size, tar,
                 archived, deleted, cut>>

\* ... or fails to, and deletes the body, whoever else refers to it.
Delete(w) ==
  /\ Return(w, "insert")
  /\ files' = files \ {key[w]}
  /\ parts' = [parts EXCEPT ![key[w]] = {}]
  /\ linked' = {v \in linked : key[v] # key[w]}
  /\ deleted' = deleted \cup {key[w]}
  /\ UNCHANGED <<rows, crashes, backupVars, cut>>

\* The server dies; what was written stays.
Crash ==
  /\ crashes < MaxCrashes /\ ~Ended
  /\ crashes' = crashes + 1
  /\ cut' = cut \cup {key[w] : w \in {v \in Writers : pc[v] \in {"begin", "write"}}}
  /\ pc' = [w \in Writers |-> "idle"] /\ key' = [w \in Writers |-> NoKey]
  /\ linked' = {}
  /\ UNCHANGED <<files, parts, rows, backupVars, deleted>>
-----------------------------------------------------------------------------
(* The commands.                                                           *)

serverVars == <<files, parts, rows, writerVars, crashes, deleted, cut>>

\* Backup copies marco.db first; the copy takes its time.
Backup ==
  /\ phase = "off" /\ phase' = "db"
  /\ UNCHANGED <<serverVars, db, torn, todo, found, size, tar, archived>>

\* A copy that a commit has hit may have outgrown its header, which fails it.
BackupDb ==
  /\ phase = "db"
  /\ phase' = "walk" \/ (torn /\ phase' = "failed")
  /\ db' = rows
  /\ todo' = Keys
  /\ UNCHANGED <<serverVars, torn, found, size, tar, archived>>

\* Mutant: an empty file is passed over.
ListFilled(k) ==
  /\ phase = "walk" /\ found = NoKey /\ k \in todo
  /\ todo' = todo \ {k}
  /\ found' = IF k \in files /\ parts[k] # {} THEN k ELSE NoKey
  /\ size' = IF k \in files THEN Size(parts[k]) ELSE 0
  /\ UNCHANGED <<serverVars, phase, db, torn, tar, archived>>

\* Walk lists the next file, if it is there, and its header takes its size.
ListBlob(k) ==
  /\ phase = "walk" /\ found = NoKey /\ k \in todo
  /\ todo' = todo \ {k}
  /\ found' = IF k \in files THEN k ELSE NoKey
  /\ size' = IF k \in files THEN Size(parts[k]) ELSE 0
  /\ UNCHANGED <<serverVars, phase, db, torn, tar, archived>>

\* addFileToTar: a file that is gone fails the backup, and so does one that is
\* longer than its header says, cut to that size; a shorter one fails it at the
\* next header or, if there is none, is left to Restore.
CopyBlob ==
  /\ phase = "walk" /\ found # NoKey
  /\ \/ /\ found \in files
        /\ tar' = [tar EXCEPT ![found] = {p \in parts[found] : p <= size}]
        /\ archived' = archived \cup {found}
        /\ \/ Size(parts[found]) <= size /\ UNCHANGED phase
           \/ Size(parts[found]) # size /\ phase' = "failed"
     \/ found \notin files /\ phase' = "failed" /\ UNCHANGED <<tar, archived>>
  /\ found' = NoKey /\ size' = 0
  /\ UNCHANGED <<serverVars, db, torn, todo>>

BackupEnd ==
  /\ phase = "walk" /\ found = NoKey /\ todo = {}
  /\ phase' = "done"
  /\ UNCHANGED <<serverVars, db, torn, todo, found, size, tar, archived>>

Stopped == \A w \in Writers : pc[w] = "idle"

\* Restore replaces the database, then writes the blobs.  It runs on the
\* machine of the backup, where it writes over what is there and leaves other
\* files alone, or on one that has nothing yet (fresh).  A torn database may
\* hold anything.
Replace(fresh, written) ==
  /\ files' = IF fresh THEN written ELSE files \cup written
  /\ parts' = [k \in Keys |-> IF k \in written THEN tar[k]
                             ELSE IF fresh THEN {} ELSE parts[k]]
  /\ rows' \in IF torn THEN SUBSET Keys ELSE {db}

\* A blob that does not have the digest in its name refuses the whole backup
\* before anything is written; a write or migration that fails later does not
\* undo what was.  A backup that failed has closed its tarball like any other:
\* what it had copied until then is restored too ("salvaged").
Restore(fresh) ==
  /\ phase \in {"done", "failed"}
  /\ fresh \/ Stopped
  /\ \/ /\ \A k \in archived : tar[k] = Body
        /\ \/ /\ phase' = IF phase = "done" THEN "restored" ELSE "salvaged"
              /\ Replace(fresh, archived)
           \/ /\ phase' = "broken"
              /\ \E written \in SUBSET archived : Replace(fresh, written)
     \/ /\ \E k \in archived : tar[k] # Body
        /\ phase' = "refused"
        /\ UNCHANGED <<files, parts, rows>>
  /\ UNCHANGED <<writerVars, crashes, db, torn, todo, found, size, tar, archived,
                 deleted, cut>>

Step(w) ==
  OpenFile(w) \/ WriteSome(w) \/ WriteRest(w) \/ InsertMessage(w) \/ Delete(w)

Next ==
  \/ \E w \in Writers : Step(w) \/ \E k \in Keys : Put(w, k)
  \/ Crash
  \/ Backup \/ BackupDb \/ CopyBlob \/ BackupEnd
  \/ \E k \in Keys : ListBlob(k)
  \/ \E fresh \in BOOLEAN : Restore(fresh)

Spec == Init /\ [][Next]_vars

\* A writer that has begun goes on.
FairSpec == Spec /\ \A w \in Writers : WF_vars(Step(w))
-----------------------------------------------------------------------------
(* Properties.                                                             *)

\* A backup that reported success and restores, be it on an empty machine, is
\* complete: every message it brings back has its whole body, although the
\* server kept writing while the tarball was made, and although crashes and
\* full disks have left parts of bodies under their names.  Only a body that
\* was deleted before Walk came to it is missing.
RestoredIsWhole ==
  phase = "restored" /\ ~torn =>
    \A k \in rows : Whole(k) \/ k \in deleted \ archived

\* Whatever concurrent writers of one body do to the file, the body of a
\* committed message is whole in the end.
BodyArrives ==
  \A k \in Keys : k \in rows ~> (Whole(k) \/ k \in harmed \/ Ended)

\* Behind BodyArrives: while a committed body is not whole, somebody is writing
\* to its file.
Arriving ==
  ~Ended => \A k \in rows \ harmed : Whole(k) \/ \E w \in linked : key[w] = k

\* ... since whoever truncated the file last will write each piece it lacks.
PiecesInv ==
  ~Ended => \A k \in files \ harmed :
    /\ 1 \notin parts[k] => \E w \in linked : key[w] = k /\ pc[w] = "begin"
    /\ 2 \notin parts[k] => \E w \in linked : key[w] = k
=============================================================================
