------------------------------- MODULE Backup -------------------------------
(***************************************************************************)
(* Backup: the files of the credentials system are copied to a directory   *)
(* beside them, from where a backup application takes them, and copied     *)
(* back.  The system is closed meanwhile, and the calls run to their end   *)
(* without serving others; a step here is one file, for the process may    *)
(* end between two of them.                                                *)
(***************************************************************************)
EXTENDS Naturals, Sequences, SequencesExt

CONSTANTS
  DB, Secrets,   \* the metadata DB; the files that hold the secrets
  Version,       \* states of a file that clients have changed
  Missing, Empty, Fresh,  \* no file; one without a byte; a new DB
  Setups         \* what is listed for backups, and the disorder that a run allows

DisorderKinds ==
  {"copy", "rename", "back", "tree", "umount", "open", "crash", "unbrought", "mode"}

File == {DB} \cup Secrets
Content == Version \cup {Missing, Empty, Fresh}

\* listed: m_dbName and CryptoManager::backupFiles(); absolute: those listed by an
\* absolute path.
IsSetup(s) ==
  /\ s.listed \in Seq(File) /\ Len(s.listed) > 0 /\ s.listed[1] = DB
  /\ IsInjective(s.listed)
  /\ s.absolute \subseteq ToSet(s.listed) \ {DB}
  /\ s.disorder \subseteq DisorderKinds

ASSUME BackupAssumption ==
  /\ DB \notin Secrets
  /\ Missing # Empty /\ Missing # Fresh /\ Empty # Fresh
  /\ Version \cap {Missing, Empty, Fresh} = {}
  /\ \A s \in Setups : IsSetup(s)

VARIABLES
  setup,           \* what is listed, and what may interfere; it never changes
  storage, bak,    \* the files in the storage directory, and their ".bak" files
  saved,           \* the files in the backup directory
  archive,         \* what the backup application has taken from there
  process,         \* "off", "normal", "backup" (signond -backup), or "dead"
  systemOpened,    \* credentialsSystemOpened()
  call, step, todo,  \* the call that runs or was the last, and how far it is
  moved, copied,   \* movedFiles, copiedFiles
  code,            \* what the call replied
  before           \* history: storage when the call came

files == <<storage, bak, saved, archive>>
backupVars == <<setup, storage, bak, saved, archive, process, systemOpened, call, step,
                todo, moved, copied, code, before>>

Listed == setup.listed
Absolute == setup.absolute
Names == ToSet(Listed)
May(kind) == kind \in setup.disorder

NoFiles == [f \in File |-> Missing]

BackupTypeOK ==
  /\ setup \in Setups
  /\ {storage, bak, saved, archive, before} \subseteq [File -> Content]
  /\ process \in {"off", "normal", "backup", "dead"}
  /\ systemOpened \in BOOLEAN
  /\ call \in {"none", "backup", "restore"}
  /\ step \in {"idle", "tree", "copy", "move", "fetch", "recover", "clean"}
  /\ {todo, moved, copied} \subseteq Seq(Names)
  /\ code \in {"none", "ok", "failed"}
  \* the files are touched only by a call, with the system closed, and one at a time
  /\ systemOpened => process = "normal" /\ step = "idle"
  /\ step # "idle" => process = "normal"
  /\ step = "idle" => todo = <<>> /\ moved = <<>> /\ copied = <<>>

\* A daemon that has never been used, or one whose secrets are not set up.
BackupInit ==
  /\ setup \in Setups
  /\ storage = NoFiles /\ bak = NoFiles /\ saved = NoFiles /\ archive = NoFiles
  /\ process = "off" /\ systemOpened = FALSE
  /\ call = "none" /\ step = "idle" /\ todo = <<>>
  /\ moved = <<>> /\ copied = <<>> /\ code = "none" /\ before = NoFiles

Idle == process = "normal" /\ step = "idle"

Forget == call' = "none" /\ code' = "none" /\ before' = NoFiles

-----------------------------------------------------------------------------
\* openCredentialsSystem(): a DB that has no tables is given them.
Initialized(s) == IF s[DB] \in {Missing, Empty} THEN [s EXCEPT ![DB] = Fresh] ELSE s

Opens == systemOpened' = TRUE /\ storage' = Initialized(storage)

OpenFails == May("open") /\ systemOpened' = FALSE /\ UNCHANGED storage

Reply(result) ==
  /\ code' = result /\ step' = "idle" /\ todo' = <<>>
  /\ moved' = <<>> /\ copied' = <<>>
  /\ UNCHANGED <<process, call, before>>

GoTo(next) == step' = next /\ UNCHANGED <<process, systemOpened, call, code, before>>

\* In the backup mode the access manager has no CryptoManager to ask for its files.
NullCryptoManager ==
  /\ process = "backup" /\ step = "idle"
  /\ process' = "dead"
  /\ UNCHANGED <<files, systemOpened, call, step, todo, moved, copied, code, before>>

-----------------------------------------------------------------------------
\* closeCredentialsSystem()
Close == systemOpened' = FALSE

BackupStarts ==
  /\ Idle /\ Close
  /\ call' = "backup" /\ step' = "tree" /\ todo' = Listed
  /\ code' = "none" /\ before' = storage
  /\ UNCHANGED <<files, process, moved, copied>>

(* A file whose name is absolute is sought where it is, and created below the storage
   directory, in a directory that does not exist. *)
CreateFile(f) ==
  \/ /\ storage[f] # Missing
     /\ GoTo("tree") /\ todo' = Tail(todo)
     /\ UNCHANGED <<files, moved, copied>>
  \/ /\ storage[f] = Missing /\ f \notin Absolute
     /\ storage' = [storage EXCEPT ![f] = Empty]
     /\ GoTo("tree") /\ todo' = Tail(todo)
     /\ UNCHANGED <<bak, saved, archive, moved, copied>>
  \/ /\ storage[f] = Missing /\ (f \in Absolute \/ May("tree"))
     /\ Reply("failed")
     /\ UNCHANGED <<files, systemOpened>>

CreateStorageFileTree ==
  /\ process = "normal" /\ step = "tree"
  /\ IF todo # <<>>
       THEN CreateFile(Head(todo))
       ELSE /\ saved' = NoFiles
            /\ GoTo("copy") /\ todo' = Listed
            /\ UNCHANGED <<storage, bak, archive, moved, copied>>

\* Variant: the call returns without opening the system again, as it does in CreateFile().
CopyFailsClosed(f) ==
  /\ May("copy")
  /\ Reply("failed")
  /\ UNCHANGED <<files, systemOpened>>

CopyFails(f) ==
  /\ May("copy")
  /\ Opens \/ OpenFails
  /\ Reply("failed")
  /\ UNCHANGED <<bak, saved, archive>>

(* The "target file" that is removed before the copy is the source if its name is
   absolute, and then there is none to copy. *)
Copy(f) ==
  IF f \in Absolute
    THEN storage' = [storage EXCEPT ![f] = Missing] /\ UNCHANGED saved
    ELSE saved' = [saved EXCEPT ![f] = storage[f]] /\ UNCHANGED storage

CopyToBackupDir ==
  /\ process = "normal" /\ step = "copy"
  /\ \/ /\ todo # <<>>
        /\ Copy(Head(todo))
        /\ GoTo("copy") /\ todo' = Tail(todo)
        /\ UNCHANGED <<bak, archive, moved, copied>>
     \/ /\ todo # <<>> /\ Head(todo) \notin Absolute
        /\ CopyFails(Head(todo))
     \/ /\ todo = <<>>
        /\ Opens \/ OpenFails
        /\ Reply("ok")
        /\ UNCHANGED <<bak, saved, archive>>

BackupFinished ==
  /\ process \in {"normal", "backup"} /\ step = "idle"
  /\ saved' = NoFiles
  /\ process' = IF process = "backup" THEN "off" ELSE process
  /\ Forget
  /\ UNCHANGED <<storage, bak, archive, systemOpened, step, todo, moved, copied>>

-----------------------------------------------------------------------------
(* Called when the application has brought nothing back only if "unbrought" is allowed:
   what is in the directory may then be nothing, or the rest of a backup that failed. *)
RestoreFinished ==
  /\ Idle /\ Close
  /\ saved = NoFiles \/ saved # archive => May("unbrought")
  /\ call' = "restore" /\ before' = storage
  /\ \/ step' = "move" /\ todo' = Listed /\ code' = "none"
     \/ /\ systemOpened /\ May("umount")
        /\ code' = "failed" /\ UNCHANGED <<step, todo>>
  /\ UNCHANGED <<files, process, moved, copied>>

RenameTarget(f) ==
  /\ storage[f] # Missing /\ bak[f] = Missing
  /\ bak' = [bak EXCEPT ![f] = storage[f]]
  /\ storage' = [storage EXCEPT ![f] = Missing]
  /\ moved' = Append(moved, f)

MoveTarget ==
  /\ process = "normal" /\ step = "move"
  /\ IF todo = <<>>
       THEN GoTo("clean") /\ UNCHANGED <<files, todo, moved, copied>>
       ELSE /\ LET f == Head(todo)
               IN \/ RenameTarget(f)
                  \/ /\ storage[f] # Missing => bak[f] # Missing \/ May("rename")
                     /\ UNCHANGED <<storage, bak, moved>>
            /\ GoTo("fetch")
            /\ UNCHANGED <<saved, archive, todo, copied>>

\* QFile::copy() does not write over a file.
CopyFromBackupDir ==
  /\ process = "normal" /\ step = "fetch"
  /\ LET f == Head(todo)
         source == IF f \in Absolute THEN Missing ELSE saved[f]
     IN \/ /\ source = Missing
           /\ GoTo("move") /\ todo' = Tail(todo) /\ UNCHANGED <<storage, copied>>
        \/ /\ source # Missing /\ storage[f] = Missing
           /\ storage' = [storage EXCEPT ![f] = source]
           /\ copied' = Append(copied, f)
           /\ GoTo("move") /\ todo' = Tail(todo)
        \/ /\ source # Missing
           /\ storage[f] # Missing \/ May("copy")
           /\ GoTo("recover") /\ UNCHANGED <<storage, todo, copied>>
  /\ UNCHANGED <<bak, saved, archive, moved>>

RemoveCopied ==
  /\ copied # <<>>
  /\ storage' = [storage EXCEPT ![Head(copied)] = Missing]
  /\ copied' = Tail(copied)
  /\ GoTo("recover")
  /\ UNCHANGED <<bak, saved, archive, todo, moved>>

RenameBack ==
  /\ copied = <<>> /\ moved # <<>>
  /\ LET f == Head(moved)
     IN \/ /\ storage[f] = Missing
           /\ storage' = [storage EXCEPT ![f] = bak[f]]
           /\ bak' = [bak EXCEPT ![f] = Missing]
        \/ /\ storage[f] # Missing \/ May("back")
           /\ UNCHANGED <<storage, bak>>
  /\ moved' = Tail(moved)
  /\ GoTo("recover")
  /\ UNCHANGED <<saved, archive, todo, copied>>

\* "Restore failed, recovering previous DB"
Recover ==
  /\ process = "normal" /\ step = "recover"
  /\ \/ RemoveCopied
     \/ RenameBack
     \/ /\ copied = <<>> /\ moved = <<>>
        /\ Opens \/ OpenFails
        /\ Reply("failed")
        /\ UNCHANGED <<bak, saved, archive>>

(* The ".bak" files are deleted, then the backup directory, and the DB is opened. *)
Clean ==
  /\ process = "normal" /\ step = "clean"
  /\ \/ /\ moved # <<>>
        /\ bak' = [bak EXCEPT ![Head(moved)] = Missing]
        /\ moved' = Tail(moved)
        /\ GoTo("clean")
        /\ UNCHANGED <<storage, saved, archive, todo, copied>>
     \/ /\ moved = <<>>
        /\ saved' = NoFiles
        /\ (Opens /\ Reply("ok")) \/ (OpenFails /\ Reply("failed"))
        /\ UNCHANGED <<bak, archive>>

-----------------------------------------------------------------------------
(* initStorage(), or the backup mode, in which nothing is initialized *)
Start ==
  /\ process \in {"off", "dead"}
  /\ \/ process' = "normal" /\ (Opens \/ OpenFails)
     \/ process' = "backup" /\ May("mode") /\ UNCHANGED <<systemOpened, storage>>
  /\ UNCHANGED <<bak, saved, archive, call, step, todo, moved, copied, code, before>>

Crash ==
  /\ May("crash")
  /\ process \in {"normal", "backup"}
  /\ process' = "off" /\ systemOpened' = FALSE
  /\ step' = "idle" /\ todo' = <<>> /\ moved' = <<>> /\ copied' = <<>>
  /\ UNCHANGED <<files, call, code, before>>

(* An identity is stored, with secrets if the storage for them is open. *)
Store(v) ==
  /\ Idle /\ systemOpened
  /\ \E S \in SUBSET Secrets :
       storage' = [f \in File |-> IF f \in {DB} \cup S THEN v ELSE storage[f]]
  /\ Forget
  /\ UNCHANGED <<bak, saved, archive, process, systemOpened, step, todo, moved, copied>>

(* onLastAuthorizedKeyRemoved() asks the CredentialsDB object. *)
LastKeyRemovedWhileClosed ==
  /\ Idle /\ ~systemOpened /\ Secrets \cap Names # {}
  /\ process' = "dead"
  /\ UNCHANGED <<files, systemOpened, call, step, todo, moved, copied, code, before>>

(* The backup application takes the copies away, and brings them back. *)
TakeAway ==
  /\ Idle /\ call = "backup" /\ code = "ok"
  /\ archive' = saved
  /\ UNCHANGED <<storage, bak, saved, process, systemOpened, call, step, todo, moved, copied,
                 code, before>>

BringBack ==
  /\ Idle /\ archive # NoFiles
  /\ saved' = archive
  /\ Forget
  /\ UNCHANGED <<storage, bak, archive, process, systemOpened, step, todo, moved, copied>>

BackupNext ==
  /\ UNCHANGED setup
  /\ \/ NullCryptoManager
     \/ BackupStarts \/ CreateStorageFileTree \/ CopyToBackupDir \/ BackupFinished
     \/ RestoreFinished \/ MoveTarget \/ CopyFromBackupDir \/ Recover \/ Clean
     \/ Start \/ Crash
     \/ \E v \in Version : Store(v)
     \/ LastKeyRemovedWhileClosed
     \/ TakeAway \/ BringBack

BackupSpec == BackupInit /\ [][BackupNext]_backupVars

-----------------------------------------------------------------------------
(* What is said here of the files of the list is so of those that are listed by a name only. *)
Relative == Names \ Absolute

Without(kinds) == setup.disorder \cap kinds = {}

(* A backup that was reported done holds every file of the list as it was; one that did
   not exist, as an empty one. *)
CopyOf(f) == IF before[f] = Missing THEN Empty ELSE before[f]

BackupHolds(names) ==
  call = "backup" /\ step = "idle" /\ code = "ok" => \A f \in names : saved[f] = CopyOf(f)

BackupFaithful == BackupHolds(Relative)

(* It holds all that the credentials system consists of (backupFiles(): the files which
   need to be backed up). *)
BackupComplete == BackupHolds(File)

(* To take a backup changes nothing in the storage that is there. *)
OnlyRead ==
  call' = "backup" /\ call = "backup" =>
    \A f \in File \ Absolute : storage[f] \in Version => storage'[f] = storage[f]
BackupOnlyReads == [][OnlyRead]_backupVars

(* backupStarts() creates what does not exist, and succeeds. *)
BackupSucceeds == ~(call = "backup" /\ code = "failed")

(* A restore puts all the files of the archive in their places if it says so, and leaves
   all the files as they were if it says that it failed. *)
RestoreAllOrNothing ==
  /\ call = "restore" /\ code = "ok" =>
       \A f \in Relative : storage[f] = Initialized(archive)[f]
  /\ call = "restore" /\ code = "failed" => storage = Initialized(before)

(* At no moment of a restore, nor after a crash in it, are files lost that are not
   replaced: what was there is in the storage or beside it, or all that was in the
   backup is there. *)
NothingLost ==
  call = "restore" =>
    \/ \A f \in Relative : before[f] \in Version => before[f] \in {storage[f], bak[f]}
    \/ \A f \in Relative : Initialized(storage)[f] = Initialized(archive)[f]

(* A restore leaves a file that is not in the backup alone ("Ignoring file not present in
   backup"). *)
IgnoredStay ==
  [][step = "clean" /\ step' = "idle" =>
       \A f \in Names : saved[f] = Missing /\ before[f] \in Version => storage'[f] = before[f]]_backupVars

(* After a call the credentials system is open again, and the daemon serves clients. *)
OpenAgain == Idle => systemOpened

(* No call takes the daemon down. *)
NoCrash == process # "dead"

(* What the files and the daemon are after the calls of a backup application, and in the
   midst of them: a backup is a copy, whatever fails; a restore is all or nothing as long as
   what failed can be undone and the application brings the backup; and the credentials
   system is open again after either, as long as it can be closed and opened, files can
   be made, and none is listed by an absolute path. *)
FilesInv ==
  /\ BackupTypeOK
  /\ BackupFaithful
  /\ Without({"unbrought"}) => NothingLost
  /\ Without({"unbrought", "back", "open"}) => RestoreAllOrNothing
  /\ Without({"tree", "umount", "open"}) /\ Absolute = {} =>
       OpenAgain /\ (Without({"mode"}) => NoCrash)
=============================================================================
