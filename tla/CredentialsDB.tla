----------------------------- MODULE CredentialsDB -----------------------------
(***************************************************************************)
(* CredentialsDB: the metadata of the identities in one database, their    *)
(* secrets in another one that lies on an encrypted file system and is     *)
(* open only while that is mounted, and the cache that takes the secrets   *)
(* meanwhile.  No transaction spans any two of the three.                  *)
(*                                                                         *)
(* The operators are the methods of CredentialsDB as pieces of actions;    *)
(* StoredCredentials makes actions of them for each caller in the daemon.  *)
(* Tables are functions on the identifiers.  The authentication data of    *)
(* all methods is one value, for methods do not interact; user names are   *)
(* those that are secret, for the others share the metadata's transaction. *)
(***************************************************************************)
EXTENDS Naturals

CONSTANTS
  MaxId,      \* bound: identities inserted in a behaviour
  Name,       \* user names of identities whose user name is secret
  Password,
  Data,       \* authentication data of plug-ins
  TooLarge,   \* data that exceeds SSO_MAX_TOKEN_STORAGE
  Empty,      \* the empty string, the empty map
  Absent,     \* the value of a key that a map does not contain
  NoRow       \* a table or cache has no entry

Id == 1 .. MaxId
NewId == 0   \* SIGNOND_NEW_IDENTITY

Identity == [secretName : BOOLEAN, storePassword : BOOLEAN, validated : BOOLEAN]
Row == [user : Name \cup {Empty}, password : Password \cup {Empty}]
CachedRow == [user : Name \cup {Empty}, password : Password \cup {Empty},
              storePassword : BOOLEAN]

ASSUME DBAssumption ==
  /\ MaxId \in Nat
  /\ TooLarge \subseteq Data
  /\ {Empty, Absent, NoRow} \cap (Name \cup Password \cup Data) = {}
  /\ Empty # Absent /\ Empty # NoRow /\ Absent # NoRow
  /\ NoRow \notin Identity \cup Row \cup CachedRow

VARIABLES
  metadata,      \* MetaDataDB: table CREDENTIALS
  lastId,        \* the last identifier its AUTOINCREMENT has given
  secrets,       \* SecretsDB: table CREDENTIALS
  blobs,         \* SecretsDB: table STORE
  open,          \* isSecretsDBOpen()
  cachedSecrets, \* m_secretsCache: user names and passwords
  cachedBlobs    \* m_secretsCache: m_blobData

diskVars == <<metadata, lastId, secrets, blobs>>
dbVars == <<diskVars, open, cachedSecrets, cachedBlobs>>

DBInit ==
  /\ metadata = [id \in Id |-> NoRow]
  /\ lastId = 0
  /\ secrets = [id \in Id |-> NoRow]
  /\ blobs = [id \in Id |-> Empty]
  /\ open = FALSE
  /\ cachedSecrets = [id \in Id |-> NoRow]
  /\ cachedBlobs = [id \in Id |-> Empty]

Known == {id \in Id : metadata[id] # NoRow}

--------------------------------------------------------------------------------
(* Reading. *)

(* SecretsStorage::loadCredentials() and SecretsCache::lookupCredentials():
   the strings stay empty where there is no entry. *)
Found(table, id) ==
  IF table[id] = NoRow THEN [user |-> Empty, password |-> Empty]
  ELSE [user |-> table[id].user, password |-> table[id].password]

Lookup(id) == IF metadata[id].storePassword /\ open
                THEN Found(secrets, id) ELSE Found(cachedSecrets, id)

NewInfo == [id |-> NewId, user |-> Empty, password |-> Absent,
            secretName |-> FALSE, storePassword |-> FALSE, validated |-> FALSE]

Info(id) ==
  [id |-> id,
   user |-> IF metadata[id].secretName THEN Lookup(id).user ELSE Empty,
   password |-> Lookup(id).password,
   secretName |-> metadata[id].secretName,
   storePassword |-> metadata[id].storePassword,
   validated |-> metadata[id].validated]

(* credentials(id, true): a SignonIdentityInfo, a new one if there is no such
   identity. *)
Credentials(id) == IF metadata[id] = NoRow THEN NewInfo ELSE Info(id)

LoadData(id) == IF open THEN blobs[id] ELSE cachedBlobs[id]

--------------------------------------------------------------------------------
(* Writing.  A statement of either database may fail; its transaction is then
   rolled back.  A failure that leaves everything as it was and is reported to
   the caller is no step of its own. *)

HasUser(info) == info.secretName /\ info.user # Absent

(* hasSecrets(): a key counts, whatever its value. *)
HasSecrets(info) == info.password # Absent \/ HasUser(info)

(* The identifier that updateIdentity() returns for an info. *)
IdOf(info) == IF info.id = NewId THEN lastId + 1 ELSE info.id

UpdateIdentity(info) ==
  LET row == [secretName |-> info.secretName,
              storePassword |-> info.storePassword,
              validated |-> info.validated]
  IN IF info.id = NewId
       THEN /\ lastId < MaxId
            /\ lastId' = lastId + 1
            /\ metadata' = [metadata EXCEPT ![lastId + 1] = row]
       ELSE /\ metadata' = [metadata EXCEPT
                               ![info.id] = IF @ = NoRow THEN @ ELSE row]
            /\ UNCHANGED lastId

(* The user name and the password that updateCredentials() hands on. *)
SecretsOf(info) ==
  [user |-> IF HasUser(info) THEN info.user ELSE Empty,
   password |-> IF info.password = Absent THEN Empty ELSE info.password]

CacheSecrets(id, s, store) ==
  cachedSecrets' = [cachedSecrets EXCEPT
                      ![id] = [user |-> s.user, password |-> s.password,
                               storePassword |-> store]]

(* updateCredentials() once the metadata is written.  The secrets storage has
   no way of reporting the error of its database, so that a failing statement
   goes unnoticed. *)
UpdateSecrets(info, written) ==
  LET id == IdOf(info)
  IN CASE ~HasSecrets(info) ->
            UNCHANGED <<secrets, cachedSecrets>>
       [] HasSecrets(info) /\ info.storePassword /\ open ->
            /\ secrets' = IF written
                            THEN [secrets EXCEPT ![id] = SecretsOf(info)]
                            ELSE secrets
            /\ UNCHANGED cachedSecrets
       [] HasSecrets(info) /\ ~(info.storePassword /\ open) ->
            /\ CacheSecrets(id, SecretsOf(info), info.storePassword)
            /\ UNCHANGED secrets

UpdateCredentials(info, written) ==
  /\ UpdateIdentity(info)
  /\ UpdateSecrets(info, written)
  /\ UNCHANGED <<blobs, open, cachedBlobs>>

(* Empty the rows of some identities, the data of signOut() included. *)
DropSecrets(ids) ==
  /\ secrets' = [id \in Id |-> IF id \in ids THEN NoRow ELSE secrets[id]]
  /\ blobs' = [id \in Id |-> IF id \in ids THEN Empty ELSE blobs[id]]

(* removeCredentials() for one identity, clear() for all: the secrets first,
   the metadata if that succeeds.  The cache is not touched. *)
RemoveCredentials(ids) ==
  /\ open
  /\ DropSecrets(ids)
  /\ metadata' = [id \in Id |-> IF id \in ids THEN NoRow ELSE metadata[id]]
  /\ UNCHANGED <<lastId, open, cachedSecrets, cachedBlobs>>

\* Variant: the metadata first.
RemoveMetadataOnly(ids) ==
  /\ open
  /\ metadata' = [id \in Id |-> IF id \in ids THEN NoRow ELSE metadata[id]]
  /\ UNCHANGED <<lastId, secrets, blobs, open, cachedSecrets, cachedBlobs>>

(* The statement of the metadata fails. *)
RemoveSecretsOnly(ids) ==
  /\ open
  /\ DropSecrets(ids)
  /\ UNCHANGED <<metadata, lastId, open, cachedSecrets, cachedBlobs>>

\* Variant: all data goes to the cache.
StoreDataCached(id, data) ==
  /\ cachedBlobs' = [cachedBlobs EXCEPT ![id] = data]
  /\ UNCHANGED <<metadata, lastId, secrets, blobs, open, cachedSecrets>>

(* storeData(): data that is too large is refused by the secrets DB, not by
   the cache. *)
StoreData(id, data) ==
  /\ IF open
       THEN /\ data \notin TooLarge
            /\ blobs' = [blobs EXCEPT ![id] = data]
            /\ UNCHANGED cachedBlobs
       ELSE /\ cachedBlobs' = [cachedBlobs EXCEPT ![id] = data]
            /\ UNCHANGED blobs
  /\ UNCHANGED <<metadata, lastId, secrets, open, cachedSecrets>>

RemoveData(id) ==
  /\ open
  /\ blobs' = [blobs EXCEPT ![id] = Empty]
  /\ UNCHANGED <<metadata, lastId, secrets, open, cachedSecrets, cachedBlobs>>

--------------------------------------------------------------------------------
\* Variant: the passwords of all entries are stored.
ToStoreAlways(entry) == [user |-> entry.user, password |-> entry.password]

(* SecretsCache::storeToDB(): what an entry becomes in the secrets DB. *)
ToStore(entry) == [user |-> entry.user,
                   password |-> IF entry.storePassword THEN entry.password
                                                       ELSE Empty]

\* Variant: entries that hold nothing are stored too.
FlushedAlways(id) == cachedSecrets[id] # NoRow

(* An entry that holds nothing is passed over. *)
Flushed(id) ==
  /\ cachedSecrets[id] # NoRow
  /\ \/ ToStore(cachedSecrets[id]).user # Empty
     \/ ToStore(cachedSecrets[id]).password # Empty

(* SecretsCache::clear() *)
ClearCache ==
  /\ cachedSecrets' = [id \in Id |-> NoRow]
  /\ cachedBlobs' = [id \in Id |-> Empty]

(* openSecretsDB(): the cache is written over the secrets DB and emptied,
   whatever became of its entries; `lost` are those whose statement fails. *)
OpenSecretsDB(lost) ==
  /\ ~open
  /\ open' = TRUE
  /\ secrets' = [id \in Id |-> IF Flushed(id) /\ id \notin lost
                                 THEN ToStore(cachedSecrets[id])
                                 ELSE secrets[id]]
  /\ blobs' = [id \in Id |-> IF cachedBlobs[id] \in Data \ TooLarge
                                  /\ id \notin lost
                               THEN cachedBlobs[id] ELSE blobs[id]]
  /\ ClearCache
  /\ UNCHANGED <<metadata, lastId>>

CloseSecretsDB ==
  /\ open
  /\ open' = FALSE
  /\ UNCHANGED <<diskVars, cachedSecrets, cachedBlobs>>

(* The object is deleted and made again, for a backup or because the daemon
   ends: closeCredentialsSystem() and openCredentialsSystem().  The secrets DB
   is opened with it if its file system can be mounted at once. *)
RecreateDB ==
  /\ open' \in BOOLEAN
  /\ ClearCache
  /\ UNCHANGED diskVars

DBTypeOK ==
  /\ metadata \in [Id -> Identity \cup {NoRow}]
  /\ lastId \in 0 .. MaxId
  /\ secrets \in [Id -> Row \cup {NoRow}]
  /\ blobs \in [Id -> Data \cup {Empty}]
  /\ open \in BOOLEAN
  /\ cachedSecrets \in [Id -> CachedRow \cup {NoRow}]
  /\ cachedBlobs \in [Id -> Data \cup {Empty}]

================================================================================
