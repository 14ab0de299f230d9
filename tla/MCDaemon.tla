------------------------------ MODULE MCDaemon ------------------------------
(***************************************************************************)
(* Parts of the daemon that have no liveness property, each on small       *)
(* instances of its own.                                                   *)
(*                                                                         *)
(* "sessions": sessions on D-Bus, also with requests that wait while lists *)
(* and identities change, and accesses that are granted late.              *)
(* "one", "two", "faulty", "crashed": the metadata DB with one identity    *)
(* and old databases, with two identities, with failing statements, and    *)
(* with old databases whose upgrade is interrupted.                        *)
(* "files": backups with a crypto manager that lists its files by name,    *)
(* the same with everything failing, the default crypto manager, and that  *)
(* of the repository, with one storage of secrets.                         *)
(* "failing secrets": stored credentials whose storage option is changed   *)
(* and whose secrets cannot be written, with objects whose copies are not  *)
(* what is stored.                                                         *)
(***************************************************************************)
EXTENDS AuthSessions, Backup, TLC

CONSTANTS
  client1, client2, method1, method2, word1,    \* members of the constants of sessions
  method, mechanism, token1, token2, realm, ref,   \* names in the metadata DB
  wallet,                                 \* the file that holds the secrets
  user, pass, data, row1, Absent, NoRow,  \* stored credentials
  Blank

VARIABLES
  instance,     \* which of the instances; it never changes
  db, schema, running, result, wanted,
  metadata, lastId, secrets, blobs, open, cachedSecrets, cachedBlobs, atWork,
  copies, deaf, created, lastPassword, lastData

dbVars == <<db, schema, running, result, wanted>>
credVars == <<metadata, lastId, secrets, blobs, open, cachedSecrets, cachedBlobs, atWork,
              copies, deaf, created, lastPassword, lastData>>
daemonVars == <<instance, vars, dbVars, backupVars, credVars>>

-----------------------------------------------------------------------------
\* An identity of one client alone, one that another may use with a method and a
\* mechanism, one without an owner, and of another method.
ListsOfIdentities ==
  {[owners |-> {client1}, acl |-> {}, methods |-> <<>>],
   [owners |-> {client1}, acl |-> {client2}, methods |-> method1 :> {word1}],
   [owners |-> {}, acl |-> {Everyone}, methods |-> method2 :> {}]}

\* Lists and disorder of backups: listed by name, the same with everything failing, the
\* default, and by an absolute path.
SetupsOfBackups ==
  {[listed |-> <<DB, wallet>>, absolute |-> {}, disorder |-> {"copy", "rename", "crash"}],
   [listed |-> <<DB, wallet>>, absolute |-> {},
    disorder |-> {"copy", "rename", "tree", "umount", "open", "back", "crash", "mode"}],
   [listed |-> <<DB>>, absolute |-> {}, disorder |-> {"copy", "rename", "crash"}],
   [listed |-> <<DB, wallet>>, absolute |-> {wallet},
    disorder |-> {"copy", "rename", "crash", "umount"}]}

\* Without interference one identity is used, and with it one session at a time with
\* one request.
Bound ==
  IF interference = {}
    THEN /\ \A k \in Core : core[k].id # 2
         /\ \A c \in Client : request[c] # Null => request[c][1] # 2
         /\ lists[2] = CHOOSE l \in Infos : TRUE
    ELSE /\ \A k \in Core : core[k].queue # <<>> =>
              Len(core[k].queue) = 1 /\ core[k].queue[1].words = {word1}
         /\ Cardinality({s \in Session : session[s].status # "none"}) <= 1

One == INSTANCE MetaDataDB WITH
  MaxId <- 1, Method <- {method}, Mechanism <- {mechanism}, Token <- {token1, token2}, Realm <- {realm},
  Ref <- {ref}, MaxFault <- 0, Interference <- {"old"}, None <- Null
Two == INSTANCE MetaDataDB WITH
  MaxId <- 2, Method <- {method}, Mechanism <- {}, Token <- {token1}, Realm <- {realm},
  Ref <- {ref}, MaxFault <- 0, Interference <- {}, None <- Null
Faulty == INSTANCE MetaDataDB WITH
  MaxId <- 1, Method <- {method}, Mechanism <- {}, Token <- {token1}, Realm <- {},
  Ref <- {ref}, MaxFault <- 8, Interference <- {"faults"}, None <- Null
Crashed == INSTANCE MetaDataDB WITH
  MaxId <- 1, Method <- {method}, Mechanism <- {mechanism}, Token <- {token1}, Realm <- {realm},
  Ref <- {ref}, MaxFault <- 0, Interference <- {"old", "crash"}, None <- Null

FailingSecrets == INSTANCE StoredCredentials WITH
  MaxId <- 1, Name <- {user}, Password <- {pass}, Data <- {data}, TooLarge <- {}, Session <- {row1},
  SecretNames <- {}, Interference <- {"options", "copy", "write"}, session <- atWork,
  copy <- copies, Empty <- Blank

ASSUME Assumptions ==
  /\ One!MetaDataAssumption /\ Two!MetaDataAssumption
  /\ Faulty!MetaDataAssumption /\ Crashed!MetaDataAssumption

\* Cores are alike, and so are sessions.
Symmetric == Permutations(Core) \cup Permutations(Session)

-----------------------------------------------------------------------------
\* The variables that an instance leaves alone have no value, or their first.
NoSessions == Init /\ interference = {} /\ \A i \in Ids : lists[i] = CHOOSE l \in Infos : TRUE
NoDB ==
  /\ db = Null /\ schema = Null /\ running = Null
  /\ result = Null /\ wanted = Null
NoFile == BackupInit /\ setup = CHOOSE s \in Setups : TRUE
NoCredentials ==
  /\ metadata = Null /\ lastId = Null /\ secrets = Null /\ blobs = Null
  /\ open = Null /\ cachedSecrets = Null /\ cachedBlobs = Null /\ atWork = Null
  /\ copies = Null /\ deaf = Null /\ created = Null /\ lastPassword = Null /\ lastData = Null

DaemonInit ==
  \/ /\ NoDB /\ NoFile /\ NoCredentials
     /\ instance = "sessions" /\ Init
  \/ /\ NoSessions /\ NoFile /\ NoCredentials
     /\ \/ instance = "one" /\ One!Init
        \/ instance = "two" /\ Two!Init
        \/ instance = "faulty" /\ Faulty!Init
        \/ instance = "crashed" /\ Crashed!Init
  \/ /\ NoSessions /\ NoDB /\ NoCredentials
     /\ instance = "files" /\ BackupInit
  \/ /\ NoSessions /\ NoDB /\ NoFile
     /\ instance = "failing secrets" /\ FailingSecrets!Init

OfSessions == UNCHANGED <<instance, dbVars, backupVars, credVars>>
OfDB == UNCHANGED <<instance, vars, backupVars, credVars>>
OfFiles == UNCHANGED <<instance, vars, dbVars, credVars>>
OfCredentials == UNCHANGED <<instance, vars, dbVars, backupVars>>

DaemonNext ==
  \/ instance = "sessions" /\ Next /\ OfSessions
  \/ instance = "one" /\ One!Next /\ OfDB
  \/ instance = "two" /\ Two!Next /\ OfDB
  \/ instance = "faulty" /\ Faulty!Next /\ OfDB
  \/ instance = "crashed" /\ Crashed!Next /\ OfDB
  \/ instance = "files" /\ BackupNext /\ OfFiles
  \/ instance = "failing secrets" /\ FailingSecrets!Next /\ OfCredentials

DaemonSpec == DaemonInit /\ [][DaemonNext]_daemonVars

-----------------------------------------------------------------------------
\* RoundTrip holds as long as no statement fails.
RoundTrip ==
  /\ instance = "one" => One!RoundTrip
  /\ instance = "two" => Two!RoundTrip

\* NoOrphans holds of identities that are not stored after they were removed.
NoOrphans ==
  /\ instance = "one" => One!NoOrphans
  /\ instance = "two" => Two!NoOrphans
  /\ instance = "faulty" => Faulty!NoOrphans
  /\ instance = "crashed" => Crashed!NoOrphans

\* NamesKept holds although statements fail.
NamesKept ==
  /\ instance = "one" => One!NamesKept
  /\ instance = "two" => Two!NamesKept
  /\ instance = "faulty" => Faulty!NamesKept

\* OwnersMigrated holds as long as no upgrade is interrupted.
OwnersMigrated == instance = "one" => One!OwnersMigrated

\* The tables say what was stored, and nothing of identities that are gone.
TablesInv ==
  /\ instance = "one" => One!TypeOK
  /\ instance = "two" => Two!TypeOK
  /\ instance = "faulty" => Faulty!TypeOK
  /\ instance = "crashed" => Crashed!TypeOK
  /\ RoundTrip
  /\ NoOrphans
  /\ NamesKept
  /\ OwnersMigrated

-----------------------------------------------------------------------------
\* What is stored changes only when it should: the tables survive a start as long as no process
\* ends while it makes them (DataSurvives), an operation that fails leaves them as they were
\* (FailureChangesNothing), an interrupted upgrade keeps the old ones (UpgradeKeepsOld), and a
\* backup only reads the files that are listed by name (BackupOnlyReads).
StorageIsKept ==
  [][/\ instance = "one" => One!KeptAtStart
     /\ instance = "faulty" => Faulty!SameIfFailed
     /\ instance = "crashed" => Crashed!KeptByUpgrade
     /\ OnlyRead]_daemonVars

-----------------------------------------------------------------------------
\* RemovedIsGone of StoredCredentials holds although secrets cannot be written, the
\* storage option of an identity is changed and objects store what they have read before.
RemovedIsGone ==
  instance = "failing secrets" => FailingSecrets!TypeOK /\ FailingSecrets!RemovedIsGone
=============================================================================
