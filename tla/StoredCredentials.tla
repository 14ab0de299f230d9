--------------------------- MODULE StoredCredentials ---------------------------
(***************************************************************************)
(* The callers of CredentialsDB: identity objects (store, remove, sign     *)
(* out), session cores (which read an identity when a request starts and   *)
(* write it back when the plug-in has answered), the access manager (which *)
(* opens and closes the secrets DB as the file system comes and goes), and *)
(* what ends the object: a backup or the end of the daemon.                *)
(*                                                                         *)
(* Each handler is atomic on the daemon's event loop.  A session spans     *)
(* several, and what it has read at its start is used at its end; so does  *)
(* the object of an identity, which stores what it has read before with    *)
(* what a client gives it.                                                 *)
(***************************************************************************)
EXTENDS CredentialsDB

CONSTANTS
  Session,      \* session cores
  SecretNames,  \* identities that clients store with UserNameSecret
  Interference  \* what may happen besides orderly use

(* options  a client changes whether an identity's password is to be stored
   store    an identity is stored, or used by a second session, during a session
   remove   an identity is removed during a session
   name     a secret user name is given without its password
   erase    a client stores the empty password
   copy     the copy an identity object keeps is not, or does not stay, what is
            stored: it is read while the password is out of reach, it is there
            when a removal fails halfway, the object lives through a backup
   write    statements of the secrets DB fail although the caller is not told *)
Kinds == {"options", "store", "remove", "name", "erase", "copy", "write"}

ASSUME StoredAssumption ==
  /\ SecretNames \subseteq Id
  /\ Interference \subseteq Kinds

VARIABLES
  session,  \* m_id, m_tmpUsername and m_tmpPassword of a core at work;
            \* `own`: the password came from the client or the user
  copy,     \* m_pInfo of the object of each identity: its secrets, where a
            \* key it does not contain, or no m_pInfo, is Absent
  deaf      \* identities with an object made before the last backup, which the
            \* signal credentialsUpdated() of the new CredentialsDB does not reach

\* History variables, read by no guard of the code.
VARIABLES
  created,       \* identities that a client has stored
  lastPassword,  \* the password last stored for each identity
  lastData       \* the data last stored for each identity

ghostVars == <<created, lastPassword, lastData>>
copyVars == <<copy, deaf>>
vars == <<dbVars, session, copyVars, ghostVars>>

NoCopy == [user |-> Absent, password |-> Absent]

Init ==
  /\ DBInit
  /\ session = [c \in Session |-> NoRow]
  /\ copy = [id \in Id |-> NoCopy]
  /\ deaf = {}
  /\ created = {}
  /\ lastPassword = [id \in Id |-> Empty]
  /\ lastData = [id \in Id |-> Empty]

Busy(id) == \E c \in Session : session[c] # NoRow /\ session[c].id = id

(* Something that is of one of the kinds happens only if that kind may. *)
Orderly(kind, disorder) == disorder => kind \in Interference

(* updateCredentials() for an info; a failing secrets statement is an event
   of its own kind. *)
Update(info) ==
  \/ UpdateCredentials(info, TRUE)
  \/ /\ "write" \in Interference
     /\ HasSecrets(info) /\ info.storePassword /\ open
     /\ UpdateCredentials(info, FALSE)

Remember(id, password) == lastPassword' = [lastPassword EXCEPT ![id] = password]

--------------------------------------------------------------------------------
(* Identity objects. *)

(* The infos a client may store for an identity, new or existing: secrets and
   user names of secret names may be missing.  The info the object has cached
   supplies Validated. *)
ClientInfo(id) ==
  {info \in [id : {id}, user : Name \cup {Absent},
             password : Password \cup {Empty, Absent},
             secretName : BOOLEAN, storePassword : BOOLEAN,
             validated : BOOLEAN] :
     /\ info.secretName <=> IdOf(info) \in SecretNames
     /\ info.user # Absent => info.secretName
     /\ info.validated =>
          id # NewId /\ metadata[id] # NoRow /\ metadata[id].validated
     /\ Orderly("erase", info.password = Empty)
     /\ id # NewId /\ metadata[id] # NoRow =>
          Orderly("options",
                  info.storePassword # metadata[id].storePassword)}

(* SignonIdentityInfo::update(): the keys that the client does not give stay
   those of the copy. *)
Updated(given) ==
  LET Or(value, key) == IF value = Absent THEN key ELSE value
  IN IF given.id = NewId THEN given
     ELSE [given EXCEPT !.user = Or(@, copy[given.id].user),
                        !.password = Or(@, copy[given.id].password)]

\* The password a client gives is to be what is stored.
Asked(id, given) == IF given.password = Absent THEN UNCHANGED lastPassword
                                               ELSE Remember(id, given.password)

(* store(), and queryUiSlot() with the password that the user has typed.  The
   object deletes its copy. *)
StoreCredentials(id) ==
  \E given \in ClientInfo(id) :
    LET info == Updated(given)
    IN /\ Orderly("name", info.user \in Name /\ info.password \in {Absent, Empty})
       /\ Update(info)
       /\ copy' = [copy EXCEPT ![IdOf(info)] = NoCopy]
       /\ created' = created \cup {IdOf(info)}
       /\ Asked(IdOf(info), given)
       /\ UNCHANGED <<session, deaf, lastData>>

(* The statements of the metadata fail: the object goes on with the copy, and
   tells the client the identifier as if it had stored it. *)
StoreFails(id) ==
  /\ "write" \in Interference
  /\ \E given \in ClientInfo(id) :
       LET info == Updated(given)
       IN /\ copy' = [copy EXCEPT ![id] = [user |-> info.user,
                                          password |-> info.password]]
          /\ Asked(id, given)
  /\ UNCHANGED <<dbVars, session, deaf, created, lastData>>

StoreNew == StoreCredentials(NewId)

Store(id) ==
  /\ id \in Known
  /\ Orderly("store", Busy(id))
  /\ StoreCredentials(id) \/ StoreFails(id)

(* queryInfo() does not read the database again for this copy. *)
HasCopy(id) == copy[id].password \notin {Absent, Empty}

(* verifyUser() and verifySecret(): queryInfo() with the password. *)
QueryInfo(id) ==
  /\ id \in Known
  /\ ~HasCopy(id)
  /\ Orderly("copy", ~open /\ Credentials(id).password = Empty)
  /\ copy' = [copy EXCEPT
       ![id] = [user |-> IF Credentials(id).secretName THEN Credentials(id).user
                                                       ELSE Absent,
                password |-> Credentials(id).password]]
  /\ UNCHANGED <<dbVars, session, deaf, ghostVars>>

(* verifyUiSlot(): the copy has been compared with what the user has typed. *)
VerifyUiSlot(id) ==
  /\ HasCopy(id)
  /\ copy' = [copy EXCEPT ![id] = NoCopy]
  /\ UNCHANGED <<dbVars, session, deaf, ghostVars>>

(* The object is disposed of. *)
Destroy(id) ==
  /\ copy[id] # NoCopy \/ id \in deaf
  /\ copy' = [copy EXCEPT ![id] = NoCopy]
  /\ deaf' = deaf \ {id}
  /\ UNCHANGED <<dbVars, session, ghostVars>>

(* remove(), and SignonDaemon::clear() for all of them.  The metadata may stay
   behind if its statement fails; the client is told of the error.  The cache
   keeps a password that is not to be stored, and the object its copy. *)
Forget(ids) ==
  /\ Orderly("remove", \E id \in ids : Busy(id))
  /\ \/ RemoveCredentials(ids)
     \/ /\ Orderly("copy", \E id \in ids : HasCopy(id))
        /\ RemoveSecretsOnly(ids)
  /\ lastPassword' = [id \in Id |-> IF id \in ids
                        THEN Found(cachedSecrets, id).password
                        ELSE lastPassword[id]]
  /\ lastData' = [id \in Id |-> IF id \in ids THEN Empty ELSE lastData[id]]
  /\ UNCHANGED <<session, copyVars, created>>

Remove(id) == id \in Known /\ Forget({id})

Clear == Forget(Id)

SignOut(id) ==
  /\ id \in Known
  /\ RemoveData(id)
  /\ lastData' = [lastData EXCEPT ![id] = Empty]
  /\ UNCHANGED <<session, copyVars, created, lastPassword>>

--------------------------------------------------------------------------------
(* Session cores. *)

\* Variant: the client's parameters are taken as they are.
Given(id, user, password) ==
  [id |-> id, user |-> user, password |-> password, own |-> password # Absent]

(* The client's parameters are completed from the database. *)
Completed(id, user, password) ==
  LET info == Credentials(id)
      Or(value, default) == IF value = Absent THEN default ELSE value
  IN IF info.id = NewId
       THEN [id |-> id, user |-> Or(user, Empty),
             password |-> Or(password, Empty), own |-> password # Absent]
       ELSE [id |-> id,
             user |-> IF info.validated THEN info.user ELSE Or(user, info.user),
             password |-> Or(password, info.password),
             own |-> password # Absent]

(* startProcess(): an Empty password is that of a request with
   RequestPasswordPolicy. *)
StartProcess(c, id, user, password) ==
  LET info == Credentials(id)
  IN /\ session[c] = NoRow
     /\ id \in created
     /\ Orderly("remove", id \notin Known)
     /\ Orderly("store", Busy(id))
     /\ user # Absent => info.secretName
     /\ Orderly("name", info.secretName /\ (user # Absent \/ password = Empty))
     /\ session' = [session EXCEPT ![c] = Completed(id, user, password)]
     /\ UNCHANGED <<dbVars, copyVars, ghostVars>>

(* queryUiSlot(): what the user has typed, or nothing if there was no dialog
   or it was dismissed. *)
QueryUiSlot(c, user, password) ==
  /\ session[c] # NoRow
  /\ \/ user = Empty /\ password = Empty
     \/ /\ password \in Password
        /\ user \in Name <=> Credentials(session[c].id).secretName
  /\ session' = [session EXCEPT ![c] = [id |-> @.id, user |-> user,
                                        password |-> password, own |-> TRUE]]
  /\ UNCHANGED <<dbVars, copyVars, ghostVars>>

(* processStore(): data of the plug-in. *)
ProcessStore(c, data) ==
  /\ session[c] # NoRow
  /\ StoreData(session[c].id, data)
  /\ lastData' = [lastData EXCEPT ![session[c].id] = data]
  /\ UNCHANGED <<session, copyVars, created, lastPassword>>

(* The info that processResultReply() stores: what the database says of the
   identity now, with the user name and the password of the session. *)
Validated(c) ==
  LET info == Credentials(session[c].id)
  IN [info EXCEPT
        !.user = IF ~info.validated /\ session[c].user # Empty
                   THEN session[c].user ELSE @,
        !.password = IF session[c].password # Empty
                       THEN session[c].password ELSE @,
        !.validated = TRUE]

\* Variant: an object does not listen to the signal.
CredentialsUpdatedUnheard(id) == UNCHANGED copy

(* onCredentialsUpdated() *)
CredentialsUpdated(id) ==
  copy' = [copy EXCEPT ![id] = IF id \in deaf THEN @ ELSE NoCopy]

ProcessResultReply(c) ==
  /\ session[c] # NoRow
  /\ Update(Validated(c))
  /\ CredentialsUpdated(IdOf(Validated(c)))
  /\ IF session[c].own /\ session[c].password # Empty
       THEN Remember(IdOf(Validated(c)), session[c].password)
       ELSE UNCHANGED lastPassword
  /\ session' = [session EXCEPT ![c] = NoRow]
  /\ UNCHANGED <<deaf, created, lastData>>

(* processError(), or a cancellation: nothing is stored. *)
ProcessError(c) ==
  /\ session[c] # NoRow
  /\ session' = [session EXCEPT ![c] = NoRow]
  /\ UNCHANGED <<dbVars, copyVars, ghostVars>>

--------------------------------------------------------------------------------
(* The access manager and the daemon. *)

OnEncryptedFSMounted ==
  /\ \E lost \in SUBSET Id :
       Orderly("write", lost # {}) /\ OpenSecretsDB(lost)
  /\ UNCHANGED <<session, copyVars, ghostVars>>

OnEncryptedFSUnmounting ==
  /\ CloseSecretsDB
  /\ UNCHANGED <<session, copyVars, ghostVars>>

(* What was stored in the cache only is undone when the cache is lost. *)
LoseCache ==
  /\ RecreateDB
  /\ lastPassword' = [id \in Id |-> IF cachedSecrets[id] # NoRow
                                      THEN Found(secrets, id).password
                                      ELSE lastPassword[id]]
  /\ lastData' = [id \in Id |-> IF cachedBlobs[id] # Empty
                                  THEN blobs[id] ELSE lastData[id]]
  /\ UNCHANGED created

(* A backup closes the databases while sessions are at work: they may hold
   the only copy of a password that was in the cache.  So may objects that live
   on (`kept`), which nothing connects to the new CredentialsDB. *)
Backup ==
  /\ LoseCache
  /\ session' = [c \in Session |->
                   IF session[c] # NoRow /\ cachedSecrets[session[c].id] # NoRow
                     THEN [session[c] EXCEPT !.own = TRUE] ELSE session[c]]
  /\ \E kept \in SUBSET Id :
       /\ Orderly("copy", kept # {})
       /\ copy' = [id \in Id |-> IF id \in kept THEN copy[id] ELSE NoCopy]
       /\ deaf' = kept

Restart ==
  /\ LoseCache
  /\ session' = [c \in Session |-> NoRow]
  /\ copy' = [id \in Id |-> NoCopy]
  /\ deaf' = {}

--------------------------------------------------------------------------------
Next ==
  \/ StoreNew
  \/ \E id \in Id : Store(id)
  \/ \E id \in Id : QueryInfo(id)
  \/ \E id \in Id : VerifyUiSlot(id)
  \/ \E id \in Id : Destroy(id)
  \/ \E id \in Id : Remove(id)
  \/ Clear
  \/ \E id \in Id : SignOut(id)
  \/ \E c \in Session, id \in Id, user \in Name \cup {Absent},
        password \in Password \cup {Empty, Absent} :
       StartProcess(c, id, user, password)
  \/ \E c \in Session, user \in Name \cup {Empty},
        password \in Password \cup {Empty} : QueryUiSlot(c, user, password)
  \/ \E c \in Session, data \in Data : ProcessStore(c, data)
  \/ \E c \in Session : ProcessResultReply(c)
  \/ \E c \in Session : ProcessError(c)
  \/ OnEncryptedFSMounted
  \/ OnEncryptedFSUnmounting
  \/ Backup
  \/ Restart

Spec == Init /\ [][Next]_vars

--------------------------------------------------------------------------------
TypeOK ==
  /\ DBTypeOK
  /\ session \in [Session -> [id : Id, user : Name \cup {Empty},
                              password : Password \cup {Empty},
                              own : BOOLEAN] \cup {NoRow}]
  /\ copy \in [Id -> [user : Name \cup {Empty, Absent},
                      password : Password \cup {Empty, Absent}]]
  /\ deaf \subseteq Id
  /\ created \subseteq Id
  /\ lastPassword \in [Id -> Password \cup {Empty}]
  /\ lastData \in [Id -> Data \cup {Empty}]

(* A reader gets the password that was stored last, never an older one, or
   none if the storage is closed or the identity's password is not kept:
   whichever of the secrets DB and the cache it lies in, and through whatever
   openings, closings, backups and ends of the daemon. *)
PasswordIsLastStored ==
  \A id \in Known :
    LET p == Credentials(id).password
    IN \/ p = lastPassword[id]
       \/ p = Empty /\ ~(open /\ metadata[id].storePassword)

(* The same for the data of plug-ins. *)
DataIsLastStored ==
  \A id \in Known : \/ LoadData(id) = lastData[id]
                    \/ LoadData(id) = Empty /\ ~open

(* A password that is not to be stored is not in the secrets DB. *)
NotOnDisk ==
  \A id \in Known :
    ~metadata[id].storePassword => Found(secrets, id).password = Empty

(* Neither password nor data of a removed identity are left on disk. *)
RemovedIsGone ==
  \A id \in created \ Known :
    Found(secrets, id).password = Empty /\ blobs[id] = Empty

(* Every identity in the database is one that a client has stored. *)
OnlyStoredIdentities == Known \subseteq created

(* The two databases and the cache together are one vault. *)
V == INSTANCE Vault WITH
  Value <- Password,
  Nothing <- Empty,
  unlocked <- open,
  durable <- [id \in Id |-> Found(secrets, id).password],
  volatile <- [id \in Id |-> IF id \in Known
                               THEN Found(cachedSecrets, id).password
                               ELSE Empty],
  keeps <- {id \in Known : metadata[id].storePassword}

ImplementsVault == V!Spec

================================================================================
