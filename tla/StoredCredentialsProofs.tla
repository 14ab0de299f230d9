------------------------ MODULE StoredCredentialsProofs ------------------------
(***************************************************************************)
(* What is proved of StoredCredentials for any number of identities,       *)
(* passwords, data and sessions: types; where clients do not change what   *)
(* is to be stored, no password lies on disk that is not to be stored;     *)
(* where identities are not removed during their sessions, nothing of a    *)
(* removed one is left on disk; where nothing interferes, a reader gets    *)
(* the password that was stored last; where statements do not fail         *)
(* unnoticed, the data that was stored last; and the two databases and the *)
(* cache implement Vault, also if identities are stored and removed during *)
(* their sessions.                                                         *)
(***************************************************************************)
EXTENDS StoredCredentials, TLAPS

InfoType == [id : Id \cup {NewId}, user : Name \cup {Empty, Absent},
             password : Password \cup {Empty, Absent},
             secretName : BOOLEAN, storePassword : BOOLEAN, validated : BOOLEAN]

--------------------------------------------------------------------------------
(* The infos that are handed to updateCredentials() are well typed: what the
   database returns of an identity (credentials()). *)
LEMMA CredentialsType ==
  ASSUME DBTypeOK, NEW id \in Id
  PROVE  /\ Credentials(id) \in InfoType
         /\ Credentials(id).user \in Name \cup {Empty}
         /\ id \in Known => Credentials(id).id = id
         /\ id \in Known => Credentials(id).password # Absent
         /\ id \notin Known => Credentials(id) = NewInfo
         /\ id \in Known =>
              Credentials(id).storePassword = metadata[id].storePassword
<1>1. Found(secrets, id) \in Row /\ Found(cachedSecrets, id) \in Row
  BY DEF DBTypeOK, Found, Row, CachedRow
<1>2. metadata[id] # NoRow => Lookup(id) \in Row
  BY <1>1 DEF Lookup
<1>3. NewInfo \in InfoType /\ NewInfo.user = Empty
  BY DEF NewInfo, InfoType
<1>4. CASE metadata[id] = NoRow
  BY <1>3, <1>4 DEF Credentials, Known
<1>5. CASE metadata[id] # NoRow
  <2>1. metadata[id] \in Identity
    BY <1>5 DEF DBTypeOK
  <2>2. Credentials(id) = Info(id)
    BY <1>5 DEF Credentials
  <2>3. Info(id) \in InfoType /\ Info(id).user \in Name \cup {Empty}
    BY <1>2, <1>5, <2>1 DEF Info, InfoType, Row, Identity
  <2>4. Absent \notin Password \cup {Empty}
    BY DBAssumption
  <2>5. Info(id).password # Absent
    BY <1>2, <1>5, <2>4 DEF Info, Row
  <2>6. Info(id).id = id /\ Info(id).storePassword = metadata[id].storePassword
    BY DEF Info
  <2> QED
    BY <1>5, <2>2, <2>3, <2>5, <2>6 DEF Known
<1> QED
  BY <1>4, <1>5

(* What a client may store (store()), and what a session writes back
   (processResultReply()), are such infos. *)
LEMMA ClientInfoType ==
  ASSUME TypeOK, NEW id \in Id \cup {NewId}, NEW given \in ClientInfo(id)
  PROVE  LET info == Updated(given)
         IN /\ given \in InfoType
            /\ info \in InfoType
            /\ info.id = id
            /\ (id # NewId /\ metadata[id] # NoRow) =>
                 Orderly("options", info.storePassword # metadata[id].storePassword)
<1>1. /\ given \in InfoType /\ given.id = id
      /\ (id # NewId /\ metadata[id] # NoRow) =>
           Orderly("options", given.storePassword # metadata[id].storePassword)
  BY DEF ClientInfo, InfoType
<1>2. CASE id = NewId
  BY <1>1, <1>2 DEF Updated
<1>3. CASE id # NewId
  <2>1. copy[id] \in [user : Name \cup {Empty, Absent},
                      password : Password \cup {Empty, Absent}]
    BY <1>3 DEF TypeOK
  <2> QED
    BY <1>1, <1>3, <2>1 DEF Updated, InfoType
<1> QED
  BY <1>2, <1>3

LEMMA ValidatedType ==
  ASSUME TypeOK, NEW c \in Session, session[c] # NoRow
  PROVE  /\ Validated(c) \in InfoType
         /\ Validated(c).id = Credentials(session[c].id).id
         /\ Validated(c).storePassword = Credentials(session[c].id).storePassword
<1>1. session[c] \in [id : Id, user : Name \cup {Empty},
                      password : Password \cup {Empty}, own : BOOLEAN]
  BY DEF TypeOK
<1>2. Credentials(session[c].id) \in InfoType
  BY <1>1, CredentialsType DEF TypeOK
<1> QED
  BY <1>1, <1>2 DEF Validated, InfoType

(* What updateCredentials() does to each table, whichever way it went. *)
LEMMA UpdateEffect ==
  ASSUME DBTypeOK, NEW info \in InfoType, Update(info)
  PROVE  /\ DBTypeOK'
         /\ IdOf(info) \in Id
         /\ info.id = NewId =>
              /\ IdOf(info) = lastId + 1
              /\ lastId' = lastId + 1
              /\ metadata'[lastId + 1] =
                   [secretName |-> info.secretName,
                    storePassword |-> info.storePassword,
                    validated |-> info.validated]
         /\ info.id # NewId =>
              /\ IdOf(info) = info.id
              /\ lastId' = lastId
              /\ metadata[info.id] = NoRow => metadata'[info.id] = NoRow
              /\ metadata[info.id] # NoRow =>
                   metadata'[info.id] =
                     [secretName |-> info.secretName,
                      storePassword |-> info.storePassword,
                      validated |-> info.validated]
         /\ \A id \in Id : id # IdOf(info) =>
              /\ metadata'[id] = metadata[id]
              /\ secrets'[id] = secrets[id]
              /\ cachedSecrets'[id] = cachedSecrets[id]
         /\ \/ secrets'[IdOf(info)] = secrets[IdOf(info)]
            \/ /\ secrets'[IdOf(info)] \in Row
               /\ info.storePassword /\ open
         /\ \/ cachedSecrets'[IdOf(info)] = cachedSecrets[IdOf(info)]
            \/ /\ cachedSecrets'[IdOf(info)] \in CachedRow
               /\ cachedSecrets'[IdOf(info)].storePassword = info.storePassword
               /\ ~(info.storePassword /\ open)
         /\ UNCHANGED <<blobs, open, cachedBlobs>>
<1> DEFINE row == [secretName |-> info.secretName,
                   storePassword |-> info.storePassword,
                   validated |-> info.validated]
           entry == [user |-> SecretsOf(info).user,
                     password |-> SecretsOf(info).password,
                     storePassword |-> info.storePassword]
<1>1. PICK written \in BOOLEAN : UpdateCredentials(info, written)
  BY DEF Update
<1>2. MaxId \in Nat /\ lastId \in Nat /\ NewId \notin Id
  BY DBAssumption DEF DBTypeOK, Id, NewId
<1>3. row \in Identity
  BY DEF InfoType, Identity
<1>4. SecretsOf(info) \in Row /\ entry \in CachedRow
  BY DEF SecretsOf, HasUser, Row, CachedRow, InfoType
<1>5. IdOf(info) \in Id /\ lastId' \in 0 .. MaxId
  BY <1>1, <1>2 DEF UpdateCredentials, UpdateIdentity, IdOf, InfoType, Id, DBTypeOK
<1>6. \/ metadata' = metadata
      \/ metadata' = [metadata EXCEPT ![IdOf(info)] = row]
  <2>1. CASE info.id = NewId
    BY <1>1, <2>1 DEF UpdateCredentials, UpdateIdentity, IdOf
  <2>2. CASE info.id # NewId /\ metadata[info.id] = NoRow
    BY <1>1, <2>2 DEF UpdateCredentials, UpdateIdentity, DBTypeOK
  <2>3. CASE info.id # NewId /\ metadata[info.id] # NoRow
    BY <1>1, <2>3 DEF UpdateCredentials, UpdateIdentity, IdOf
  <2> QED
    BY <2>1, <2>2, <2>3
<1>7. \/ /\ secrets' = secrets
         /\ cachedSecrets' = cachedSecrets
      \/ /\ secrets' = [secrets EXCEPT ![IdOf(info)] = SecretsOf(info)]
         /\ info.storePassword /\ open
         /\ cachedSecrets' = cachedSecrets
      \/ /\ cachedSecrets' = [cachedSecrets EXCEPT ![IdOf(info)] = entry]
         /\ ~(info.storePassword /\ open)
         /\ secrets' = secrets
  BY <1>1 DEF UpdateCredentials, UpdateSecrets, CacheSecrets
<1>8. UNCHANGED <<blobs, open, cachedBlobs>>
  BY <1>1 DEF UpdateCredentials
<1>9. DBTypeOK'
  BY <1>3, <1>4, <1>5, <1>6, <1>7, <1>8 DEF DBTypeOK
<1>10. /\ info.id = NewId =>
            /\ IdOf(info) = lastId + 1
            /\ lastId' = lastId + 1
            /\ metadata' = [metadata EXCEPT ![lastId + 1] = row]
       /\ info.id # NewId =>
            /\ IdOf(info) = info.id
            /\ lastId' = lastId
            /\ metadata' = [metadata EXCEPT
                              ![info.id] = IF @ = NoRow THEN @ ELSE row]
  BY <1>1 DEF UpdateCredentials, UpdateIdentity, IdOf
<1>11. \A id \in Id : id # IdOf(info) =>
         /\ metadata'[id] = metadata[id]
         /\ secrets'[id] = secrets[id]
         /\ cachedSecrets'[id] = cachedSecrets[id]
  BY <1>5, <1>6, <1>7 DEF DBTypeOK
<1>12. /\ \/ secrets'[IdOf(info)] = secrets[IdOf(info)]
          \/ /\ secrets'[IdOf(info)] \in Row
             /\ info.storePassword /\ open
       /\ \/ cachedSecrets'[IdOf(info)] = cachedSecrets[IdOf(info)]
          \/ /\ cachedSecrets'[IdOf(info)] \in CachedRow
             /\ cachedSecrets'[IdOf(info)].storePassword = info.storePassword
             /\ ~(info.storePassword /\ open)
  BY <1>4, <1>5, <1>7 DEF DBTypeOK
<1> QED
  BY <1>5, <1>8, <1>9, <1>10, <1>11, <1>12 DEF DBTypeOK

(* The steps, those of removals, of backups and of restarts joined. *)
LEMMA NextCases ==
  ASSUME Next
  PROVE  \/ \E id \in Id \cup {NewId} :
              (id = NewId \/ id \in Known) /\ StoreCredentials(id)
         \/ \E id \in Id : StoreFails(id)
         \/ \E id \in Id : QueryInfo(id)
         \/ \E id \in Id : VerifyUiSlot(id) \/ Destroy(id)
         \/ \E ids \in SUBSET Id : Forget(ids)
         \/ \E id \in Id : SignOut(id)
         \/ \E c \in Session, id \in Id, user \in Name \cup {Absent},
               password \in Password \cup {Empty, Absent} :
              StartProcess(c, id, user, password)
         \/ \E c \in Session, user \in Name \cup {Empty},
               password \in Password \cup {Empty} :
              QueryUiSlot(c, user, password)
         \/ \E c \in Session, data \in Data : ProcessStore(c, data)
         \/ \E c \in Session : ProcessResultReply(c)
         \/ \E c \in Session : ProcessError(c)
         \/ OnEncryptedFSMounted
         \/ OnEncryptedFSUnmounting
         \/ LoseCache /\ (Backup \/ Restart)
BY DEF Next, StoreNew, Store, Remove, Clear, Known, Backup, Restart

--------------------------------------------------------------------------------
LEMMA InitType ==
  ASSUME Init
  PROVE  TypeOK
<1>1. 0 \in 0 .. MaxId
  BY DBAssumption
<1>2. DBTypeOK
  BY <1>1 DEF Init, DBInit, DBTypeOK
<1> QED
  BY <1>2 DEF Init, TypeOK, NoCopy

SessionType == [id : Id, user : Name \cup {Empty}, password : Password \cup {Empty},
                own : BOOLEAN]

CopyType == [user : Name \cup {Empty, Absent}, password : Password \cup {Empty, Absent}]

LEMMA CompletedType ==
  ASSUME DBTypeOK, NEW id \in Id, NEW user \in Name \cup {Absent},
         NEW password \in Password \cup {Empty, Absent}
  PROVE  Completed(id, user, password) \in SessionType
<1>1. Credentials(id) \in InfoType /\ Credentials(id).user \in Name \cup {Empty}
  BY CredentialsType
<1>2. NewInfo.id = NewId /\ NewId \notin Id
  BY DEF NewInfo, NewId, Id
<1>3. CASE Credentials(id).id = NewId
  BY <1>1, <1>3, DBAssumption DEF Completed, SessionType, InfoType
<1>4. CASE Credentials(id).id # NewId
  <2>1. id \in Known
    BY <1>2, <1>4, CredentialsType
  <2>2. Credentials(id).password \in Password \cup {Empty}
    BY <1>1, <2>1, CredentialsType DEF InfoType
  <2>3. Credentials(id).user \in Name \cup {Empty}
    BY <1>1 DEF InfoType
  <2> QED
    BY <1>4, <2>2, <2>3 DEF Completed, SessionType
<1> QED
  BY <1>3, <1>4

(* Every step keeps the types. *)
LEMMA NextType ==
  ASSUME TypeOK, Next
  PROVE  TypeOK'
<1> USE DEF TypeOK
<1>1. ASSUME NEW id \in Id \cup {NewId}, StoreCredentials(id)
      PROVE  TypeOK'
  <2>1. PICK given \in ClientInfo(id) :
          LET info == Updated(given)
          IN /\ Update(info)
             /\ copy' = [copy EXCEPT ![IdOf(info)] = NoCopy]
             /\ created' = created \cup {IdOf(info)}
             /\ Asked(IdOf(info), given)
             /\ UNCHANGED <<session, deaf, lastData>>
    BY <1>1 DEF StoreCredentials
  <2> DEFINE info == Updated(given)
  <2>2. given \in InfoType /\ info \in InfoType
    BY ClientInfoType
  <2>3. DBTypeOK' /\ IdOf(info) \in Id
    BY <2>1, <2>2, UpdateEffect
  <2>4. lastPassword' \in [Id -> Password \cup {Empty}]
    BY <2>1, <2>2, <2>3 DEF Asked, Remember, InfoType
  <2>5. copy' \in [Id -> CopyType]
    BY <2>1 DEF NoCopy, CopyType
  <2> QED
    BY <2>1, <2>3, <2>4, <2>5 DEF CopyType
<1>c. ASSUME NEW id \in Id, StoreFails(id) \/ QueryInfo(id) \/ VerifyUiSlot(id) \/ Destroy(id)
      PROVE  TypeOK'
  <2>1. DBTypeOK' /\ UNCHANGED <<session, created, lastData>> /\ deaf' \subseteq Id
    BY <1>c DEF StoreFails, QueryInfo, VerifyUiSlot, Destroy, ghostVars, dbVars, diskVars,
                DBTypeOK
  <2>2. CASE StoreFails(id)
    <3>1. PICK given \in ClientInfo(id) :
            /\ copy' = [copy EXCEPT ![id] = [user |-> Updated(given).user,
                                             password |-> Updated(given).password]]
            /\ Asked(id, given)
      BY <2>2 DEF StoreFails
    <3>2. given \in InfoType /\ Updated(given) \in InfoType
      BY ClientInfoType
    <3>3. copy' \in [Id -> CopyType]
      BY <3>1, <3>2 DEF InfoType, CopyType
    <3>4. lastPassword' \in [Id -> Password \cup {Empty}]
      BY <3>1, <3>2 DEF Asked, Remember, InfoType
    <3> QED
      BY <2>1, <3>3, <3>4 DEF CopyType
  <2>3. CASE QueryInfo(id)
    <3>1. Credentials(id) \in InfoType
      BY CredentialsType
    <3>2. copy' \in [Id -> CopyType]
      BY <2>3, <3>1 DEF QueryInfo, InfoType, CopyType
    <3> QED
      BY <2>1, <2>3, <3>2 DEF QueryInfo, ghostVars, CopyType
  <2>4. CASE VerifyUiSlot(id) \/ Destroy(id)
    <3>1. copy' \in [Id -> CopyType]
      BY <2>4 DEF VerifyUiSlot, Destroy, NoCopy, CopyType
    <3> QED
      BY <2>1, <2>4, <3>1 DEF VerifyUiSlot, Destroy, ghostVars, CopyType
  <2> QED
    BY <1>c, <2>2, <2>3, <2>4
<1>2. ASSUME NEW ids \in SUBSET Id, Forget(ids)
      PROVE  TypeOK'
  <2>1. \A id \in Id : Found(cachedSecrets, id).password \in Password \cup {Empty}
    BY DEF Found, DBTypeOK, CachedRow
  <2>2. DBTypeOK'
    BY <1>2 DEF Forget, RemoveCredentials, RemoveSecretsOnly, DropSecrets, DBTypeOK
  <2>3. lastPassword' \in [Id -> Password \cup {Empty}]
    BY <1>2, <2>1 DEF Forget
  <2> QED
    BY <1>2, <2>2, <2>3 DEF Forget, copyVars
<1>3. ASSUME NEW id \in Id, SignOut(id)
      PROVE  TypeOK'
  BY <1>3 DEF SignOut, RemoveData, DBTypeOK, copyVars
<1>4. ASSUME NEW c \in Session, NEW id \in Id, NEW user \in Name \cup {Absent},
             NEW password \in Password \cup {Empty, Absent},
             StartProcess(c, id, user, password)
      PROVE  TypeOK'
  <2>1. Completed(id, user, password) \in SessionType
    BY CompletedType
  <2>2. session' = [session EXCEPT ![c] = Completed(id, user, password)]
        /\ UNCHANGED <<dbVars, copyVars, ghostVars>>
    BY <1>4 DEF StartProcess
  <2> QED
    BY <2>1, <2>2 DEF SessionType, DBTypeOK, dbVars, diskVars, copyVars, ghostVars
<1>5. ASSUME NEW c \in Session, NEW user \in Name \cup {Empty},
             NEW password \in Password \cup {Empty},
             QueryUiSlot(c, user, password)
      PROVE  TypeOK'
  <2>1. session[c] \in SessionType
    BY <1>5 DEF QueryUiSlot, SessionType
  <2>2. DBTypeOK' /\ UNCHANGED <<copyVars, ghostVars>>
    BY <1>5 DEF QueryUiSlot, DBTypeOK, dbVars, diskVars
  <2>3. session' = [session EXCEPT
                      ![c] = [id |-> session[c].id, user |-> user,
                              password |-> password, own |-> TRUE]]
    BY <1>5 DEF QueryUiSlot
  <2>4. session' \in [Session -> SessionType \cup {NoRow}]
    BY <2>1, <2>3 DEF SessionType
  <2> QED
    BY <2>2, <2>4 DEF SessionType, copyVars, ghostVars
<1>6. ASSUME NEW c \in Session, NEW data \in Data, ProcessStore(c, data)
      PROVE  TypeOK'
  BY <1>6 DEF ProcessStore, StoreData, DBTypeOK, copyVars
<1>7. ASSUME NEW c \in Session, ProcessResultReply(c)
      PROVE  TypeOK'
  <2>1. Validated(c) \in InfoType
    BY <1>7, ValidatedType DEF ProcessResultReply
  <2>2. DBTypeOK' /\ IdOf(Validated(c)) \in Id
    BY <1>7, <2>1, UpdateEffect DEF ProcessResultReply
  <2>3. lastPassword' \in [Id -> Password \cup {Empty}]
    BY <1>7, <2>2 DEF ProcessResultReply, Remember
  <2>4. copy' \in [Id -> CopyType]
    BY <1>7 DEF ProcessResultReply, CredentialsUpdated, NoCopy, CopyType
  <2> QED
    BY <1>7, <2>2, <2>3, <2>4 DEF ProcessResultReply, CopyType
<1>8. ASSUME NEW c \in Session, ProcessError(c)
      PROVE  TypeOK'
  BY <1>8 DEF ProcessError, DBTypeOK, dbVars, diskVars, copyVars, ghostVars
<1>9. ASSUME OnEncryptedFSMounted
      PROVE  TypeOK'
  <2>1. PICK lost \in SUBSET Id : OpenSecretsDB(lost)
    BY <1>9 DEF OnEncryptedFSMounted
  <2>2. \A id \in Id : Flushed(id) => ToStore(cachedSecrets[id]) \in Row
    BY DEF Flushed, ToStore, DBTypeOK, CachedRow, Row
  <2>3. DBTypeOK'
    BY <2>1, <2>2 DEF OpenSecretsDB, ClearCache, DBTypeOK
  <2> QED
    BY <1>9, <2>3 DEF OnEncryptedFSMounted, copyVars, ghostVars
<1>10. ASSUME OnEncryptedFSUnmounting
       PROVE  TypeOK'
  BY <1>10 DEF OnEncryptedFSUnmounting, CloseSecretsDB, DBTypeOK, diskVars, copyVars,
               ghostVars
<1>11. ASSUME LoseCache, Backup \/ Restart
       PROVE  TypeOK'
  <2>1. DBTypeOK'
    BY <1>11 DEF LoseCache, RecreateDB, ClearCache, DBTypeOK, diskVars
  <2>2. \A id \in Id : Found(secrets, id).password \in Password \cup {Empty}
    BY DEF Found, DBTypeOK, Row
  <2>3. /\ lastPassword' \in [Id -> Password \cup {Empty}]
        /\ lastData' \in [Id -> Data \cup {Empty}]
        /\ created' \subseteq Id
    BY <1>11, <2>2 DEF LoseCache, DBTypeOK
  <2>4. session' \in [Session -> SessionType \cup {NoRow}]
    <3>1. CASE Restart
      BY <3>1 DEF Restart
    <3>2. CASE Backup
      <4> DEFINE kept(c) ==
            IF session[c] # NoRow /\ cachedSecrets[session[c].id] # NoRow
              THEN [session[c] EXCEPT !.own = TRUE] ELSE session[c]
      <4>1. ASSUME NEW c \in Session
            PROVE  kept(c) \in SessionType \cup {NoRow}
        <5>1. session[c] \in SessionType \cup {NoRow}
          BY DEF SessionType
        <5>2. CASE session[c] \in SessionType
          <6>1. [session[c] EXCEPT !.own = TRUE] \in SessionType
            BY <5>2 DEF SessionType
          <6> QED
            BY <5>2, <6>1
        <5>3. CASE session[c] = NoRow
          BY <5>3
        <5> QED
          BY <5>1, <5>2, <5>3
      <4>2. session' = [c \in Session |-> kept(c)]
        BY <3>2 DEF Backup
      <4> HIDE DEF kept
      <4> QED
        BY <4>1, <4>2
    <3> QED
      BY <1>11, <3>1, <3>2
  <2>5. copy' \in [Id -> CopyType] /\ deaf' \subseteq Id
    <3>1. CASE Restart
      BY <3>1 DEF Restart, NoCopy, CopyType
    <3>2. CASE Backup
      BY <3>2 DEF Backup, NoCopy, CopyType
    <3> QED
      BY <1>11, <3>1, <3>2
  <2> QED
    BY <2>1, <2>3, <2>4, <2>5 DEF SessionType, CopyType
<1> QED
  BY NextCases, <1>c, <1>1, <1>2, <1>3, <1>4, <1>5, <1>6, <1>7, <1>8, <1>9, <1>10, <1>11

(* Tables, cache and sessions are well typed in every reachable state. *)
THEOREM StoredTypeCorrect == Spec => []TypeOK
<1>1. TypeOK /\ UNCHANGED vars => TypeOK'
  BY DEF TypeOK, DBTypeOK, vars, dbVars, diskVars, copyVars, ghostVars
<1>2. TypeOK /\ [Next]_vars => TypeOK'
  BY <1>1, NextType
<1> QED
  BY <1>2, InitType, PTL DEF Spec

--------------------------------------------------------------------------------
(* No trace of an identifier that has not been given yet, and an entry of the
   cache agrees with the metadata on whether its password is to be stored. *)
Fresh == \A id \in Id : id > lastId =>
  metadata[id] = NoRow /\ secrets[id] = NoRow /\ cachedSecrets[id] = NoRow

CacheAgrees == \A id \in Known :
  cachedSecrets[id] # NoRow =>
    cachedSecrets[id].storePassword = metadata[id].storePassword

DiskInv == NotOnDisk /\ Fresh /\ CacheAgrees

(* updateCredentials() for a new identity, or for one whose storePassword is
   not changed. *)
LEMMA UpdateKeepsDisk ==
  ASSUME TypeOK, DiskInv, NEW info \in InfoType, Update(info),
         \/ info.id = NewId
         \/ /\ info.id \in Known
            /\ info.storePassword = metadata[info.id].storePassword
  PROVE  DiskInv'
<1> DEFINE new == IdOf(info)
           row == [secretName |-> info.secretName,
                   storePassword |-> info.storePassword,
                   validated |-> info.validated]
<1>1. DBTypeOK
  BY DEF TypeOK
<1>2. MaxId \in Nat /\ lastId \in Nat /\ NewId \notin Id /\ NewId = 0
  BY <1>1, DBAssumption DEF DBTypeOK, Id, NewId
<1>3. /\ new \in Id
      /\ metadata'[new] = row
      /\ lastId' \in Nat /\ lastId <= lastId' /\ new <= lastId'
      /\ new <= lastId => new = info.id
      /\ new > lastId => info.id = NewId
  <2>1. CASE info.id = NewId
    BY <1>1, <1>2, <2>1, UpdateEffect
  <2>2. CASE info.id # NewId
    <3>1. info.id \in Known
      BY <2>2
    <3>2. info.id \in Id /\ info.id <= lastId
      BY <3>1, <1>2 DEF Known, DiskInv, Fresh, Id
    <3>3. /\ new \in Id /\ new = info.id /\ lastId' = lastId
          /\ metadata[info.id] # NoRow => metadata'[info.id] = row
      BY <1>1, <2>2, UpdateEffect
    <3> QED
      BY <1>2, <2>2, <3>1, <3>2, <3>3 DEF Known, Id
  <2> QED
    BY <2>1, <2>2
<1>5. /\ \A id \in Id : id # new => /\ metadata'[id] = metadata[id]
                                   /\ secrets'[id] = secrets[id]
                                   /\ cachedSecrets'[id] = cachedSecrets[id]
      /\ secrets'[new] = secrets[new] \/ info.storePassword
      /\ \/ cachedSecrets'[new] = cachedSecrets[new]
         \/ cachedSecrets'[new].storePassword = info.storePassword
  <2>1. ASSUME NEW id \in Id, id # new
        PROVE  /\ metadata'[id] = metadata[id]
               /\ secrets'[id] = secrets[id]
               /\ cachedSecrets'[id] = cachedSecrets[id]
    BY <1>1, <2>1, UpdateEffect
  <2>2. secrets'[new] = secrets[new] \/ info.storePassword
    BY <1>1, UpdateEffect
  <2>3. \/ cachedSecrets'[new] = cachedSecrets[new]
        \/ cachedSecrets'[new].storePassword = info.storePassword
    BY <1>1, UpdateEffect
  <2> QED
    BY <2>1, <2>2, <2>3
<1>6. CASE info.id = NewId
  <2>1. new = lastId + 1
    BY <1>1, <1>6, UpdateEffect
  <2>2. secrets[new] = NoRow /\ cachedSecrets[new] = NoRow
    BY <1>2, <1>3, <2>1 DEF DiskInv, Fresh, Id
  <2>3. NotOnDisk'
    BY <1>3, <1>5, <2>2 DEF DiskInv, NotOnDisk, Known, Found
  <2>4. CacheAgrees'
    BY <1>3, <1>5, <2>2 DEF DiskInv, CacheAgrees, Known
  <2>5. Fresh'
    BY <1>2, <1>3, <1>5 DEF DiskInv, Fresh, Id
  <2> QED
    BY <2>3, <2>4, <2>5 DEF DiskInv
<1>7. CASE info.id # NewId
  <2>1. new = info.id /\ new \in Known
        /\ info.storePassword = metadata[new].storePassword
    BY <1>1, <1>7, UpdateEffect
  <2>2. NotOnDisk'
    BY <1>3, <1>5, <2>1 DEF DiskInv, NotOnDisk, Known, Found
  <2>3. CacheAgrees'
    BY <1>3, <1>5, <2>1 DEF DiskInv, CacheAgrees, Known
  <2>4. Fresh'
    BY <1>2, <1>3, <1>5 DEF DiskInv, Fresh, Id
  <2> QED
    BY <2>2, <2>3, <2>4 DEF DiskInv
<1> QED
  BY <1>6, <1>7

(* Every step keeps passwords that are not to be stored off the disk, unless a
   client changes that. *)
LEMMA NextKeepsDisk ==
  ASSUME "options" \notin Interference, TypeOK, DiskInv, Next
  PROVE  DiskInv'
<1>t. DBTypeOK
  BY DEF TypeOK
<1>u. ASSUME UNCHANGED <<metadata, lastId, secrets, cachedSecrets>>
      PROVE  DiskInv'
  BY <1>u DEF DiskInv, NotOnDisk, Fresh, CacheAgrees, Known, Found
<1>1. ASSUME NEW id \in Id \cup {NewId}, id = NewId \/ id \in Known,
             StoreCredentials(id)
      PROVE  DiskInv'
  <2>1. PICK given \in ClientInfo(id) : Update(Updated(given))
    BY <1>1 DEF StoreCredentials
  <2> DEFINE info == Updated(given)
  <2>2. /\ info \in InfoType /\ info.id = id
        /\ id # NewId => info.storePassword = metadata[id].storePassword
    BY <1>1, ClientInfoType DEF Orderly, Known
  <2> HIDE DEF info
  <2>3. Update(info)
    BY <2>1 DEF info
  <2> QED
    BY <1>1, <2>2, <2>3, UpdateKeepsDisk
<1>2. ASSUME NEW ids \in SUBSET Id, Forget(ids)
      PROVE  DiskInv'
  <2>1. /\ \A id \in Id : metadata'[id] \in {metadata[id], NoRow}
        /\ \A id \in Id : secrets'[id] \in {secrets[id], NoRow}
        /\ UNCHANGED <<lastId, cachedSecrets>>
    BY <1>2 DEF Forget, RemoveCredentials, RemoveSecretsOnly, DropSecrets
  <2>2. NotOnDisk'
    BY <2>1 DEF DiskInv, NotOnDisk, Known, Found
  <2> QED
    BY <2>1, <2>2 DEF DiskInv, Fresh, CacheAgrees, Known
<1>3. ASSUME NEW id \in Id, SignOut(id)
      PROVE  DiskInv'
  BY <1>3, <1>u DEF SignOut, RemoveData
<1>4. ASSUME UNCHANGED dbVars
      PROVE  DiskInv'
  BY <1>4, <1>u DEF dbVars, diskVars
<1>5. ASSUME NEW c \in Session, NEW data \in Data, ProcessStore(c, data)
      PROVE  DiskInv'
  BY <1>5, <1>u DEF ProcessStore, StoreData
<1>6. ASSUME NEW c \in Session, ProcessResultReply(c)
      PROVE  DiskInv'
  <2>1. session[c] # NoRow /\ session[c].id \in Id /\ Update(Validated(c))
    BY <1>6 DEF ProcessResultReply, TypeOK
  <2>2. /\ Validated(c) \in InfoType
        /\ Validated(c).id = Credentials(session[c].id).id
        /\ Validated(c).storePassword = Credentials(session[c].id).storePassword
    BY <2>1, ValidatedType
  <2>3. CASE session[c].id \in Known
    BY <1>t, <2>1, <2>2, <2>3, CredentialsType, UpdateKeepsDisk
  <2>4. CASE session[c].id \notin Known
    <3>1. Validated(c).id = NewId
      BY <1>t, <2>1, <2>2, <2>4, CredentialsType DEF NewInfo
    <3> QED
      BY <2>1, <2>2, <3>1, UpdateKeepsDisk
  <2> QED
    BY <2>3, <2>4
<1>7. ASSUME OnEncryptedFSMounted
      PROVE  DiskInv'
  <2>1. PICK lost \in SUBSET Id : OpenSecretsDB(lost)
    BY <1>7 DEF OnEncryptedFSMounted
  <2>2. /\ \A id \in Id : \/ secrets'[id] = secrets[id]
                          \/ /\ Flushed(id)
                             /\ secrets'[id] = ToStore(cachedSecrets[id])
        /\ \A id \in Id : cachedSecrets'[id] = NoRow
        /\ UNCHANGED <<metadata, lastId>>
    BY <2>1 DEF OpenSecretsDB, ClearCache
  <2>3. Fresh'
    BY <2>2 DEF DiskInv, Fresh, Flushed
  <2>4. CacheAgrees'
    BY <2>2 DEF CacheAgrees, Known
  <2>5. ASSUME NEW id \in Id, id \in Known, ~metadata[id].storePassword
        PROVE  Found(secrets, id)'.password = Empty
    <3>1. CASE secrets'[id] = secrets[id]
      BY <2>5, <3>1 DEF DiskInv, NotOnDisk, Found
    <3>2. CASE Flushed(id) /\ secrets'[id] = ToStore(cachedSecrets[id])
      <4>1. cachedSecrets[id] # NoRow /\ ~cachedSecrets[id].storePassword
        BY <2>5, <3>2 DEF Flushed, DiskInv, CacheAgrees
      <4> QED
        BY <3>2, <4>1 DEF ToStore, Found
    <3> QED
      BY <2>2, <3>1, <3>2
  <2>6. NotOnDisk'
    BY <2>2, <2>5 DEF NotOnDisk, Known
  <2> QED
    BY <2>3, <2>4, <2>6 DEF DiskInv
<1>8. ASSUME OnEncryptedFSUnmounting
      PROVE  DiskInv'
  BY <1>8, <1>u DEF OnEncryptedFSUnmounting, CloseSecretsDB, diskVars
<1>9. ASSUME LoseCache
      PROVE  DiskInv'
  <2>1. /\ \A id \in Id : cachedSecrets'[id] = NoRow
        /\ UNCHANGED <<metadata, lastId, secrets>>
    BY <1>9 DEF LoseCache, RecreateDB, ClearCache, diskVars
  <2> QED
    BY <2>1 DEF DiskInv, NotOnDisk, Fresh, CacheAgrees, Known, Found
<1> QED
  BY NextCases, <1>1, <1>2, <1>3, <1>4, <1>5, <1>6, <1>7, <1>8, <1>9
     DEF StoreFails, QueryInfo, VerifyUiSlot, Destroy, StartProcess, QueryUiSlot,
         ProcessError

(* Where clients do not change whether an identity's password is to be stored,
   a password that is not to be stored is never in the secrets DB, whatever
   else interferes. *)
THEOREM NothingToHideOnDisk ==
  ASSUME "options" \notin Interference
  PROVE  Spec => []NotOnDisk
<1>1. Init => TypeOK /\ DiskInv
  BY InitType DEF Init, DBInit, DiskInv, NotOnDisk, Fresh, CacheAgrees, Known
<1>2. TypeOK /\ DiskInv /\ [Next]_vars => (TypeOK /\ DiskInv)'
  <2>1. CASE Next
    BY <2>1, NextType, NextKeepsDisk
  <2>2. CASE UNCHANGED vars
    BY <2>2 DEF TypeOK, DBTypeOK, DiskInv, NotOnDisk, Fresh, CacheAgrees, Known,
                Found, vars, dbVars, diskVars, copyVars, ghostVars
  <2> QED
    BY <2>1, <2>2
<1>3. DiskInv => NotOnDisk
  BY DEF DiskInv
<1> QED
  BY <1>1, <1>2, <1>3, PTL DEF Spec

--------------------------------------------------------------------------------
(* A session at work has an identity that exists. *)
SessionsKnown == \A c \in Session :
  session[c] # NoRow => session[c].id \in Known

(* The cache holds nothing of an identity that would be written to the disk:
   no data, and a password only if it is not to be stored. *)
NothingToFlush(id) ==
  /\ cachedBlobs[id] = Empty
  /\ cachedSecrets[id] # NoRow => ~cachedSecrets[id].storePassword

(* So it is of a removed identity, because it was so of all identities when
   the secrets DB was open, as it must be for a removal. *)
GoneInv ==
  /\ RemovedIsGone
  /\ OnlyStoredIdentities
  /\ SessionsKnown
  /\ open => \A id \in Id : NothingToFlush(id)
  /\ \A id \in created \ Known : NothingToFlush(id)

(* updateCredentials() for a new identity that a client stores, or for one
   that exists. *)
LEMMA UpdateKeepsGone ==
  ASSUME TypeOK, GoneInv, NEW info \in InfoType, Update(info),
         info.id = NewId \/ info.id \in Known,
         \/ created' = created \cup {IdOf(info)}
         \/ info.id # NewId /\ created' = created,
         \A c \in Session : session'[c] \in {session[c], NoRow}
  PROVE  GoneInv'
<1> DEFINE new == IdOf(info)
           row == [secretName |-> info.secretName,
                   storePassword |-> info.storePassword,
                   validated |-> info.validated]
<1>1. DBTypeOK
  BY DEF TypeOK
<1>2. /\ new \in Id /\ UNCHANGED <<blobs, open, cachedBlobs>>
      /\ info.id # NewId => new = info.id
      /\ metadata'[new] = row
  <2>1. new \in Id /\ UNCHANGED <<blobs, open, cachedBlobs>>
    BY <1>1, UpdateEffect
  <2>2. info.id # NewId => new = info.id
    BY <1>1, UpdateEffect
  <2>3. CASE info.id = NewId
    BY <1>1, <2>1, <2>2, <2>3, UpdateEffect
  <2>4. CASE info.id # NewId
    <3>1. metadata[info.id] # NoRow
      BY <2>4 DEF Known
    <3> QED
      BY <1>1, <2>1, <2>2, <2>4, <3>1, UpdateEffect
  <2> QED
    BY <2>1, <2>2, <2>3, <2>4
<1>3. ASSUME NEW id \in Id, id # new
      PROVE  /\ metadata'[id] = metadata[id]
             /\ secrets'[id] = secrets[id]
             /\ cachedSecrets'[id] = cachedSecrets[id]
  BY <1>1, <1>3, UpdateEffect
<1>4. \/ cachedSecrets'[new] = cachedSecrets[new]
      \/ cachedSecrets'[new].storePassword = info.storePassword
         /\ ~(info.storePassword /\ open)
  BY <1>1, UpdateEffect
<1>5. created' \ Known' \subseteq created \ Known /\ new \notin created' \ Known'
      /\ Known \subseteq Known' /\ Known' \subseteq Known \cup {new}
  <2>1. row # NoRow
    <3>1. DBTypeOK' /\ row \in Identity
      BY <1>1, UpdateEffect DEF InfoType, Identity
    <3> QED
      BY <3>1, DBAssumption
  <2>2. new \in Known'
    BY <1>2, <2>1 DEF Known
  <2> QED
    BY <1>2, <1>3, <2>2 DEF Known, TypeOK
<1>6. RemovedIsGone'
  <2>1. ASSUME NEW id \in created' \ Known'
        PROVE  /\ id \in created \ Known /\ id \in Id
               /\ secrets'[id] = secrets[id] /\ blobs' = blobs
    BY <1>2, <1>3, <1>5, <2>1 DEF TypeOK
  <2> QED
    BY <2>1 DEF GoneInv, RemovedIsGone, Found
<1>7. OnlyStoredIdentities'
  <2>1. new \in created'
    BY <1>2 DEF GoneInv, OnlyStoredIdentities
  <2> QED
    BY <1>5, <2>1 DEF GoneInv, OnlyStoredIdentities
<1>8. SessionsKnown'
  BY <1>5 DEF GoneInv, SessionsKnown
<1>9. ASSUME open'
      PROVE  \A id \in Id : NothingToFlush(id)'
  <2>1. open /\ \A id \in Id : NothingToFlush(id)
    BY <1>2, <1>9 DEF GoneInv
  <2>2. ASSUME NEW id \in Id
        PROVE  NothingToFlush(id)'
    <3>1. cachedBlobs'[id] = Empty
      BY <1>2, <2>1 DEF NothingToFlush
    <3>2. CASE id # new
      <4>1. cachedSecrets'[id] = cachedSecrets[id]
        BY <1>3, <3>2
      <4> QED
        BY <2>1, <3>1, <4>1 DEF NothingToFlush
    <3>3. CASE id = new
      <4>1. \/ cachedSecrets'[id] = cachedSecrets[id]
            \/ ~cachedSecrets'[id].storePassword
        BY <1>4, <2>1, <3>3
      <4> QED
        BY <2>1, <3>1, <4>1 DEF NothingToFlush
    <3> QED
      BY <3>2, <3>3
  <2> QED
    BY <2>2
<1>10. \A id \in created' \ Known' : NothingToFlush(id)'
  <2>1. ASSUME NEW id \in created' \ Known'
        PROVE  /\ id \in created \ Known
               /\ cachedSecrets'[id] = cachedSecrets[id] /\ cachedBlobs' = cachedBlobs
    BY <1>2, <1>3, <1>5, <2>1 DEF TypeOK
  <2> QED
    BY <2>1 DEF GoneInv, NothingToFlush
<1> QED
  BY <1>6, <1>7, <1>8, <1>9, <1>10 DEF GoneInv

(* Every step keeps it so, unless an identity is removed during a session. *)
LEMMA NextKeepsGone ==
  ASSUME "remove" \notin Interference, TypeOK, GoneInv, Next
  PROVE  GoneInv'
<1>t. DBTypeOK
  BY DEF TypeOK
<1>u. ASSUME UNCHANGED <<dbVars, created>>, SessionsKnown'
      PROVE  GoneInv'
  BY <1>u DEF GoneInv, RemovedIsGone, OnlyStoredIdentities, NothingToFlush, Known,
              Found, dbVars, diskVars
<1>1. ASSUME NEW id \in Id \cup {NewId}, id = NewId \/ id \in Known,
             StoreCredentials(id)
      PROVE  GoneInv'
  <2>1. PICK given \in ClientInfo(id) :
          /\ Update(Updated(given))
          /\ created' = created \cup {IdOf(Updated(given))}
          /\ UNCHANGED session
    BY <1>1 DEF StoreCredentials
  <2> DEFINE info == Updated(given)
  <2>2. info \in InfoType /\ info.id = id
    BY ClientInfoType
  <2> HIDE DEF info
  <2>3. Update(info) /\ created' = created \cup {IdOf(info)} /\ UNCHANGED session
    BY <2>1 DEF info
  <2> QED
    BY <1>1, <2>2, <2>3, UpdateKeepsGone
<1>c. ASSUME UNCHANGED <<dbVars, session, created>>
      PROVE  GoneInv'
  BY <1>c, <1>u DEF GoneInv, SessionsKnown, Known, dbVars, diskVars
<1>2. ASSUME NEW ids \in SUBSET Id, Forget(ids)
      PROVE  GoneInv'
  <2>1. /\ open /\ UNCHANGED <<open, cachedSecrets, cachedBlobs, session, created>>
        /\ \A id \in Id : id \in ids => secrets'[id] = NoRow /\ blobs'[id] = Empty
        /\ \A id \in Id : id \notin ids =>
             secrets'[id] = secrets[id] /\ blobs'[id] = blobs[id]
    BY <1>2 DEF Forget, RemoveCredentials, RemoveSecretsOnly, DropSecrets
  <2>2. Known \ ids \subseteq Known' /\ Known' \subseteq Known
    BY <1>2 DEF Forget, RemoveCredentials, RemoveSecretsOnly, Known
  <2>3. \A c \in Session : session[c] # NoRow => session[c].id \notin ids
    BY <1>2 DEF Forget, Orderly, Busy
  <2>4. \A id \in Id : NothingToFlush(id)
    BY <2>1 DEF GoneInv
  <2>5. RemovedIsGone'
    <3>1. ASSUME NEW id \in created \ Known'
          PROVE  Found(secrets, id)'.password = Empty /\ blobs'[id] = Empty
      <4>1. id \in Id
        BY DEF TypeOK
      <4>2. CASE id \in ids
        BY <2>1, <4>1, <4>2 DEF Found
      <4>3. CASE id \notin ids
        BY <2>1, <2>2, <3>1, <4>1, <4>3 DEF Found, GoneInv, RemovedIsGone
      <4> QED
        BY <4>2, <4>3
    <3> QED
      BY <2>1, <3>1 DEF RemovedIsGone
  <2>6. OnlyStoredIdentities' /\ SessionsKnown'
    BY <2>1, <2>2, <2>3 DEF GoneInv, OnlyStoredIdentities, SessionsKnown
  <2>7. \A id \in Id : NothingToFlush(id)'
    BY <2>1, <2>4 DEF NothingToFlush
  <2> QED
    BY <2>1, <2>5, <2>6, <2>7 DEF GoneInv, TypeOK
<1>3. ASSUME NEW id \in Id, SignOut(id)
      PROVE  GoneInv'
  <2>1. /\ blobs' = [blobs EXCEPT ![id] = Empty]
        /\ UNCHANGED <<metadata, secrets, open, cachedSecrets, cachedBlobs,
                       session, created>>
    BY <1>3 DEF SignOut, RemoveData
  <2> QED
    BY <1>t, <2>1 DEF GoneInv, RemovedIsGone, OnlyStoredIdentities, SessionsKnown,
                      NothingToFlush, Known, Found, TypeOK, DBTypeOK
<1>4. ASSUME NEW c \in Session, NEW id \in Id, NEW user \in Name \cup {Absent},
             NEW password \in Password \cup {Empty, Absent},
             StartProcess(c, id, user, password)
      PROVE  GoneInv'
  <2>1. /\ id \in Known /\ UNCHANGED <<dbVars, created>>
        /\ session' = [session EXCEPT ![c] = Completed(id, user, password)]
    BY <1>4 DEF StartProcess, Orderly, ghostVars
  <2>2. Completed(id, user, password).id = id
    BY DEF Completed
  <2>3. SessionsKnown'
    BY <2>1, <2>2 DEF GoneInv, SessionsKnown, TypeOK, Known, dbVars, diskVars
  <2> QED
    BY <1>u, <2>1, <2>3
<1>5. ASSUME NEW c \in Session, NEW user \in Name \cup {Empty},
             NEW password \in Password \cup {Empty},
             QueryUiSlot(c, user, password)
      PROVE  GoneInv'
  <2>1. /\ UNCHANGED <<dbVars, created>> /\ session[c] # NoRow
        /\ session' = [session EXCEPT
                         ![c] = [id |-> session[c].id, user |-> user,
                                 password |-> password, own |-> TRUE]]
    BY <1>5 DEF QueryUiSlot, ghostVars
  <2>2. SessionsKnown'
    BY <2>1 DEF GoneInv, SessionsKnown, TypeOK, Known, dbVars, diskVars
  <2> QED
    BY <1>u, <2>1, <2>2
<1>6. ASSUME NEW c \in Session, NEW data \in Data, ProcessStore(c, data)
      PROVE  GoneInv'
  <2>1. session[c].id \in Known
    BY <1>6 DEF ProcessStore, GoneInv, SessionsKnown
  <2>2. /\ \A id \in Id \ {session[c].id} :
             blobs'[id] = blobs[id] /\ cachedBlobs'[id] = cachedBlobs[id]
        /\ open => cachedBlobs' = cachedBlobs
        /\ UNCHANGED <<metadata, secrets, open, cachedSecrets, session, created>>
    BY <1>t, <1>6 DEF ProcessStore, StoreData, DBTypeOK
  <2>3. ASSUME NEW id \in created \ Known
        PROVE  blobs'[id] = blobs[id] /\ cachedBlobs'[id] = cachedBlobs[id]
    BY <2>1, <2>2 DEF TypeOK
  <2>4. RemovedIsGone' /\ \A id \in created \ Known : NothingToFlush(id)'
    BY <2>2, <2>3 DEF GoneInv, RemovedIsGone, NothingToFlush, Known, Found
  <2> QED
    BY <2>2, <2>4 DEF GoneInv, OnlyStoredIdentities, SessionsKnown, NothingToFlush,
                      Known
<1>7. ASSUME NEW c \in Session, ProcessResultReply(c)
      PROVE  GoneInv'
  <2>1. /\ session[c] # NoRow /\ Update(Validated(c)) /\ UNCHANGED created
        /\ session' = [session EXCEPT ![c] = NoRow]
    BY <1>7 DEF ProcessResultReply
  <2>2. session[c].id \in Known /\ session[c].id \in Id
    BY <2>1 DEF GoneInv, SessionsKnown, TypeOK, Known
  <2>3. Validated(c) \in InfoType /\ Validated(c).id = session[c].id
    BY <1>t, <2>1, <2>2, ValidatedType, CredentialsType
  <2>4. NewId \notin Id
    BY DEF NewId, Id
  <2>5. \A d \in Session : session'[d] \in {session[d], NoRow}
    BY <2>1 DEF TypeOK
  <2> QED
    BY <2>1, <2>2, <2>3, <2>4, <2>5, UpdateKeepsGone
<1>8. ASSUME NEW c \in Session, ProcessError(c)
      PROVE  GoneInv'
  <2>1. /\ UNCHANGED <<dbVars, created>>
        /\ session' = [session EXCEPT ![c] = NoRow]
    BY <1>8 DEF ProcessError, ghostVars
  <2>2. SessionsKnown'
    BY <2>1 DEF GoneInv, SessionsKnown, TypeOK, Known, dbVars, diskVars
  <2> QED
    BY <1>u, <2>1, <2>2
<1>9. ASSUME OnEncryptedFSMounted
      PROVE  GoneInv'
  <2>1. PICK lost \in SUBSET Id : OpenSecretsDB(lost)
    BY <1>9 DEF OnEncryptedFSMounted
  <2>2. /\ \A id \in Id : \/ secrets'[id] = secrets[id]
                          \/ /\ Flushed(id)
                             /\ secrets'[id] = ToStore(cachedSecrets[id])
        /\ \A id \in Id : \/ blobs'[id] = blobs[id]
                          \/ cachedBlobs[id] \in Data
        /\ \A id \in Id : cachedSecrets'[id] = NoRow /\ cachedBlobs'[id] = Empty
        /\ UNCHANGED <<metadata, session, created>>
    BY <1>9, <2>1 DEF OpenSecretsDB, ClearCache, OnEncryptedFSMounted, ghostVars
  <2>3. \A id \in Id : NothingToFlush(id)'
    BY <2>2 DEF NothingToFlush
  <2>4. ASSUME NEW id \in created \ Known
        PROVE  Found(secrets, id)'.password = Empty /\ blobs'[id] = Empty
    <3>1. /\ id \in Id /\ Found(secrets, id).password = Empty /\ blobs[id] = Empty
          /\ NothingToFlush(id)
      BY DEF GoneInv, RemovedIsGone, TypeOK
    <3>2. blobs'[id] = Empty
      BY <2>2, <3>1, DBAssumption DEF NothingToFlush
    <3>3. CASE secrets'[id] = secrets[id]
      BY <3>1, <3>2, <3>3 DEF Found
    <3>4. CASE Flushed(id) /\ secrets'[id] = ToStore(cachedSecrets[id])
      BY <3>1, <3>2, <3>4 DEF Flushed, NothingToFlush, ToStore, Found
    <3> QED
      BY <2>2, <3>1, <3>3, <3>4
  <2>5. RemovedIsGone'
    BY <2>2, <2>4 DEF RemovedIsGone, Known
  <2> QED
    BY <2>2, <2>3, <2>5 DEF GoneInv, OnlyStoredIdentities, SessionsKnown, Known, TypeOK
<1>10. ASSUME OnEncryptedFSUnmounting
       PROVE  GoneInv'
  BY <1>10 DEF OnEncryptedFSUnmounting, CloseSecretsDB, diskVars, ghostVars, GoneInv,
               RemovedIsGone, OnlyStoredIdentities, SessionsKnown, NothingToFlush,
               Known, Found
<1>11. ASSUME LoseCache, Backup \/ Restart
       PROVE  GoneInv'
  <2>1. /\ \A id \in Id : cachedSecrets'[id] = NoRow /\ cachedBlobs'[id] = Empty
        /\ UNCHANGED <<metadata, secrets, blobs, created>>
    BY <1>11 DEF LoseCache, RecreateDB, ClearCache, diskVars
  <2>2. \A id \in Id : NothingToFlush(id)'
    BY <2>1 DEF NothingToFlush
  <2>3. \A c \in Session : session'[c] # NoRow =>
                            session[c] # NoRow /\ session'[c].id = session[c].id
    <3>1. CASE Restart
      BY <3>1 DEF Restart
    <3>2. CASE Backup
      <4>1. ASSUME NEW c \in Session, session[c] # NoRow
            PROVE  [session[c] EXCEPT !.own = TRUE].id = session[c].id
        BY <4>1 DEF TypeOK
      <4> QED
        BY <3>2, <4>1 DEF Backup
    <3> QED
      BY <1>11, <3>1, <3>2
  <2>4. SessionsKnown'
    BY <2>1, <2>3 DEF GoneInv, SessionsKnown, Known
  <2>5. RemovedIsGone' /\ OnlyStoredIdentities'
    BY <2>1 DEF GoneInv, RemovedIsGone, OnlyStoredIdentities, Known, Found
  <2> QED
    BY <2>1, <2>2, <2>4, <2>5 DEF GoneInv, TypeOK
<1> QED
  BY NextCases, <1>1, <1>2, <1>3, <1>4, <1>5, <1>6, <1>7, <1>8, <1>9, <1>10, <1>11, <1>c
     DEF StoreFails, QueryInfo, VerifyUiSlot, Destroy, ghostVars

(* Where identities are not removed during their sessions, only identities that
   clients have stored exist, and neither password nor data of a removed one
   is on disk, whatever else interferes. *)
THEOREM RemovalIsFinal ==
  ASSUME "remove" \notin Interference
  PROVE  Spec => [](RemovedIsGone /\ OnlyStoredIdentities)
<1>1. Init => TypeOK /\ GoneInv
  <2>1. ASSUME Init
        PROVE  Known = {} /\ created = {} /\ ~open /\ SessionsKnown
    BY <2>1 DEF Init, DBInit, Known, SessionsKnown
  <2> QED
    BY <2>1, InitType DEF GoneInv, RemovedIsGone, OnlyStoredIdentities
<1>2. TypeOK /\ GoneInv /\ [Next]_vars => (TypeOK /\ GoneInv)'
  <2>1. CASE Next
    BY <2>1, NextType, NextKeepsGone
  <2>2. CASE UNCHANGED vars
    BY <2>2 DEF TypeOK, DBTypeOK, GoneInv, RemovedIsGone, OnlyStoredIdentities,
                SessionsKnown, NothingToFlush, Known, Found, vars, dbVars, diskVars,
                copyVars, ghostVars
  <2> QED
    BY <2>1, <2>2
<1>3. GoneInv => RemovedIsGone /\ OnlyStoredIdentities
  BY DEF GoneInv
<1> QED
  BY <1>1, <1>2, <1>3, PTL DEF Spec

--------------------------------------------------------------------------------
(* What an object has read stays with it until it stores it.  Where copies stay
   what is stored, no object misses the signal, and the empty password in a copy
   is that of an identity that has none. *)
CopyHolds(id) ==
  /\ copy[id].password = Absent => copy[id].user = Absent
  /\ copy[id].password = Empty =>
       /\ Found(cachedSecrets, id).password = Empty
       /\ metadata[id].storePassword => Found(secrets, id).password = Empty

CopyInv == deaf = {} /\ \A id \in Known : CopyHolds(id)

(* The cache of an identity that is to be kept is empty while the DB is open. *)
CacheDrained == \A id \in Known :
  open /\ metadata[id].storePassword => cachedSecrets[id] = NoRow

(* No name without its password. *)
Named(found) == found.password = Empty => found.user = Empty

(* updateCredentials(), after which the identity has no copy. *)
LEMMA UpdateKeepsCopies ==
  ASSUME TypeOK, CopyInv, NEW info \in InfoType, Update(info),
         copy' = [copy EXCEPT ![IdOf(info)] = NoCopy], UNCHANGED deaf
  PROVE  CopyInv'
<1>t. DBTypeOK
  BY DEF TypeOK
<1>1. /\ IdOf(info) \in Id
      /\ \A id \in Id : id # IdOf(info) =>
           /\ metadata'[id] = metadata[id]
           /\ secrets'[id] = secrets[id]
           /\ cachedSecrets'[id] = cachedSecrets[id]
  BY <1>t, UpdateEffect
<1>2. ASSUME NEW id \in Known'
      PROVE  CopyHolds(id)'
  <2>1. id \in Id
    BY DEF Known
  <2>2. CASE id # IdOf(info)
    <3>1. /\ metadata'[id] = metadata[id] /\ secrets'[id] = secrets[id]
          /\ cachedSecrets'[id] = cachedSecrets[id]
      BY <1>1, <2>1, <2>2
    <3>2. copy'[id] = copy[id]
      BY <1>1, <2>1, <2>2 DEF TypeOK
    <3>3. CopyHolds(id)
      BY <2>1, <3>1 DEF CopyInv, Known
    <3> QED
      BY <3>1, <3>2, <3>3 DEF CopyHolds, Found
  <2>3. CASE id = IdOf(info)
    <3>1. copy'[id] = NoCopy
      BY <1>1, <2>3 DEF TypeOK
    <3>2. NoCopy.user = Absent /\ NoCopy.password # Empty
      BY DBAssumption DEF NoCopy
    <3> QED
      BY <3>1, <3>2 DEF CopyHolds
  <2> QED
    BY <2>2, <2>3
<1> QED
  BY <1>2 DEF CopyInv

(* Every step keeps the copies so. *)
LEMMA NextKeepsCopies ==
  ASSUME Interference \subseteq {"store", "remove"}, TypeOK, CopyInv, CacheDrained, Next
  PROVE  CopyInv'
<1>t. DBTypeOK /\ copy \in [Id -> CopyType]
  BY DEF TypeOK, CopyType
<1>n. NoCopy.user = Absent /\ NoCopy.password = Absent /\ Absent # Empty
  BY DBAssumption DEF NoCopy
<1>u. ASSUME UNCHANGED <<metadata, secrets, cachedSecrets, copy, deaf>>
      PROVE  CopyInv'
  BY <1>u DEF CopyInv, CopyHolds, Known, Found
<1>1. ASSUME NEW id \in Id \cup {NewId}, StoreCredentials(id)
      PROVE  CopyInv'
  <2>1. PICK given \in ClientInfo(id) :
          /\ Update(Updated(given))
          /\ copy' = [copy EXCEPT ![IdOf(Updated(given))] = NoCopy]
          /\ UNCHANGED deaf
    BY <1>1 DEF StoreCredentials
  <2> QED
    BY <2>1, ClientInfoType, UpdateKeepsCopies
<1>2. ASSUME NEW id \in Id, QueryInfo(id)
      PROVE  CopyInv'
  <2> DEFINE info == Credentials(id)
  <2>1. /\ id \in Known /\ (open \/ info.password # Empty)
        /\ copy' = [copy EXCEPT ![id] = [user |-> IF info.secretName THEN info.user
                                                                     ELSE Absent,
                                         password |-> info.password]]
        /\ UNCHANGED <<metadata, secrets, open, cachedSecrets, deaf>>
    BY <1>2 DEF QueryInfo, Orderly, dbVars, diskVars
  <2>2. info.password # Absent
    BY <1>t, <2>1, CredentialsType
  <2>3. info.password = Empty =>
          /\ Found(cachedSecrets, id).password = Empty
          /\ metadata[id].storePassword => Found(secrets, id).password = Empty
    <3>1. ASSUME info.password = Empty
          PROVE  Lookup(id).password = Empty /\ open
      BY <2>1, <3>1 DEF Credentials, Info, Known
    <3>2. CASE metadata[id].storePassword
      BY <2>1, <3>1, <3>2 DEF Lookup, CacheDrained, Found
    <3>3. CASE ~metadata[id].storePassword
      BY <3>1, <3>3 DEF Lookup
    <3> QED
      BY <3>2, <3>3
  <2> HIDE DEF info
  <2>4. /\ copy'[id].password = info.password
        /\ \A other \in Id : other # id => copy'[other] = copy[other]
    BY <1>t, <2>1
  <2>5. ASSUME NEW other \in Known'
        PROVE  CopyHolds(other)'
    <3>1. other \in Known /\ other \in Id /\ CopyHolds(other)
      BY <2>1 DEF CopyInv, Known
    <3>2. CASE other = id
      BY <2>1, <2>2, <2>3, <2>4, <3>2 DEF CopyHolds, Found
    <3>3. CASE other # id
      BY <2>1, <2>4, <3>1, <3>3 DEF CopyHolds, Found
    <3> QED
      BY <3>2, <3>3
  <2> QED
    BY <2>1, <2>5 DEF CopyInv
<1>3. ASSUME NEW id \in Id, VerifyUiSlot(id) \/ Destroy(id)
      PROVE  CopyInv'
  <2>1. /\ copy' = [copy EXCEPT ![id] = NoCopy] /\ deaf' \subseteq deaf
        /\ UNCHANGED <<metadata, secrets, cachedSecrets>>
    BY <1>3 DEF VerifyUiSlot, Destroy, dbVars, diskVars
  <2>2. ASSUME NEW other \in Known
        PROVE  CopyHolds(other)'
    <3>1. other \in Id /\ CopyHolds(other)
      BY DEF CopyInv, Known
    <3>2. copy'[other] = NoCopy \/ copy'[other] = copy[other]
      BY <1>t, <2>1, <3>1
    <3> QED
      BY <1>n, <2>1, <3>1, <3>2 DEF CopyHolds, Found
  <2> QED
    BY <2>1, <2>2 DEF CopyInv, Known
<1>4. ASSUME NEW ids \in SUBSET Id, Forget(ids)
      PROVE  CopyInv'
  <2>1. /\ \A id \in Id : metadata'[id] \in {metadata[id], NoRow}
        /\ \A id \in Id : secrets'[id] \in {secrets[id], NoRow}
        /\ UNCHANGED <<cachedSecrets, copy, deaf>>
    BY <1>4 DEF Forget, RemoveCredentials, RemoveSecretsOnly, DropSecrets, copyVars
  <2>2. ASSUME NEW id \in Known'
        PROVE  CopyHolds(id)'
    <3>1. id \in Id /\ metadata'[id] = metadata[id] /\ CopyHolds(id)
      BY <2>1 DEF CopyInv, Known
    <3> QED
      BY <2>1, <3>1 DEF CopyHolds, Found
  <2> QED
    BY <2>1, <2>2 DEF CopyInv
<1>5. ASSUME NEW id \in Id, SignOut(id)
      PROVE  CopyInv'
  BY <1>5, <1>u DEF SignOut, RemoveData, copyVars
<1>6. ASSUME UNCHANGED <<dbVars, copyVars>>
      PROVE  CopyInv'
  BY <1>6, <1>u DEF dbVars, diskVars, copyVars
<1>7. ASSUME NEW c \in Session, NEW data \in Data, ProcessStore(c, data)
      PROVE  CopyInv'
  BY <1>7, <1>u DEF ProcessStore, StoreData, copyVars
<1>8. ASSUME NEW c \in Session, ProcessResultReply(c)
      PROVE  CopyInv'
  <2>1. Validated(c) \in InfoType /\ Update(Validated(c))
    BY <1>8, ValidatedType DEF ProcessResultReply
  <2>2. copy' = [copy EXCEPT ![IdOf(Validated(c))] = NoCopy] /\ UNCHANGED deaf
    BY <1>8 DEF ProcessResultReply, CredentialsUpdated, CopyInv
  <2> QED
    BY <2>1, <2>2, UpdateKeepsCopies
<1>9. ASSUME OnEncryptedFSMounted
      PROVE  CopyInv'
  <2>1. PICK lost \in SUBSET Id : OpenSecretsDB(lost)
    BY <1>9 DEF OnEncryptedFSMounted
  <2>2. /\ UNCHANGED <<metadata, copy, deaf>>
        /\ \A id \in Id : cachedSecrets'[id] = NoRow
        /\ \A id \in Id : \/ secrets'[id] = secrets[id]
                          \/ Flushed(id) /\ secrets'[id] = ToStore(cachedSecrets[id])
    BY <1>9, <2>1 DEF OpenSecretsDB, ClearCache, OnEncryptedFSMounted, copyVars
  <2>3. ASSUME NEW id \in Known', copy[id].password = Empty, metadata[id].storePassword
        PROVE  Found(secrets, id)'.password = Empty
    <3>1. id \in Id /\ CopyHolds(id)
      BY <2>2 DEF CopyInv, Known
    <3>2. CASE secrets'[id] = secrets[id]
      BY <2>3, <3>1, <3>2 DEF CopyHolds, Found
    <3>3. CASE Flushed(id) /\ secrets'[id] = ToStore(cachedSecrets[id])
      BY <2>3, <3>1, <3>3 DEF CopyHolds, Found, Flushed, ToStore
    <3> QED
      BY <2>2, <3>1, <3>2, <3>3
  <2>4. ASSUME NEW id \in Known'
        PROVE  CopyHolds(id)'
    <3>1. id \in Id /\ CopyHolds(id)
      BY <2>2 DEF CopyInv, Known
    <3>2. Found(cachedSecrets, id)'.password = Empty
      BY <2>2, <3>1 DEF Found
    <3> QED
      BY <2>2, <2>3, <3>1, <3>2 DEF CopyHolds
  <2> QED
    BY <2>2, <2>4 DEF CopyInv
<1>10. ASSUME OnEncryptedFSUnmounting
       PROVE  CopyInv'
  BY <1>10, <1>u DEF OnEncryptedFSUnmounting, CloseSecretsDB, diskVars, copyVars
<1>11. ASSUME Backup \/ Restart
       PROVE  CopyInv'
  <2>1. deaf' = {} /\ \A id \in Id : copy'[id] = NoCopy
    BY <1>11 DEF Backup, Restart, Orderly
  <2>2. \A id \in Known' : CopyHolds(id)'
    BY <1>n, <2>1 DEF CopyHolds, Known
  <2> QED
    BY <2>1, <2>2 DEF CopyInv
<1>12. \A id \in Id : ~StoreFails(id)
  BY DEF StoreFails
<1> QED
  BY NextCases, <1>1, <1>2, <1>3, <1>4, <1>5, <1>6, <1>7, <1>8, <1>9, <1>10, <1>11, <1>12
     DEF StartProcess, QueryUiSlot, ProcessError

(* What is stored for a client that gives no name without its password, and no
   empty password: the password it gives, no secrets, or what the copy holds. *)
LEMMA UpdatedInfo ==
  ASSUME "options" \notin Interference, "erase" \notin Interference, TypeOK, CopyInv,
         NEW id \in Id \cup {NewId}, id = NewId \/ id \in Known,
         NEW given \in ClientInfo(id),
         ~(Updated(given).user \in Name /\ Updated(given).password \in {Absent, Empty})
  PROVE  LET info == Updated(given)
         IN /\ info \in InfoType /\ info.id = id
            /\ id # NewId => info.storePassword = metadata[id].storePassword
            /\ Named(SecretsOf(info))
            /\ \/ /\ given.password \in Password
                  /\ info.password = given.password
               \/ /\ given.password = Absent
                  /\ ~HasSecrets(info)
               \/ /\ given.password = Absent
                  /\ id \in Known
                  /\ info.password \in Password
                  /\ info.password = copy[id].password
               \/ /\ given.password = Absent
                  /\ id \in Known
                  /\ info.password = Empty /\ Credentials(id).password = Empty
                  /\ SecretsOf(info).user = Empty
<1> DEFINE info == Updated(given)
<1>1. /\ given \in InfoType /\ info \in InfoType /\ info.id = id
      /\ id # NewId => info.storePassword = metadata[id].storePassword
  BY ClientInfoType DEF Known, Orderly
<1>2. /\ given.id = id /\ given.password \in Password \cup {Absent}
      /\ given.user \in Name \cup {Absent}
  BY DEF ClientInfo, Orderly
<1>3. /\ Empty # Absent /\ Empty \notin Password \cup Name
      /\ Absent \notin Password \cup Name /\ NewId \notin Id
  BY DBAssumption DEF NewId, Id
<1>4. CASE id = NewId
  <2>1. info = given
    BY <1>2, <1>4 DEF Updated
  <2> HIDE DEF info
  <2>2. given.password = Absent => given.user = Absent
    BY <1>2, <2>1 DEF info
  <2> QED
    BY <1>1, <1>2, <1>3, <1>4, <2>1, <2>2 DEF info, Named, SecretsOf, HasUser, HasSecrets
<1>5. CASE id # NewId
  <2>1. id \in Known /\ id \in Id /\ CopyHolds(id) /\ copy[id] \in CopyType
    BY <1>5 DEF CopyInv, Known, TypeOK, CopyType
  <2>2. /\ info.password = IF given.password = Absent THEN copy[id].password
                                                     ELSE given.password
        /\ info.user = IF given.user = Absent THEN copy[id].user ELSE given.user
    BY <1>1, <1>2, <1>5 DEF Updated, InfoType
  <2>3. info.password \in {Absent, Empty} => info.user \notin Name
    OBVIOUS
  <2> HIDE DEF info
  <2>4. CASE given.password \in Password
    BY <1>1, <1>3, <1>5, <2>2, <2>4 DEF info, Named, SecretsOf, HasUser
  <2>5. CASE given.password = Absent /\ copy[id].password \in Password
    BY <1>1, <1>3, <1>5, <2>1, <2>2, <2>5 DEF info, Named, SecretsOf, HasUser
  <2>6. CASE given.password = Absent /\ copy[id].password = Absent
    <3>1. info.password = Absent /\ info.user = Absent
      BY <1>2, <2>1, <2>2, <2>3, <2>6 DEF CopyHolds
    <3> QED
      BY <1>1, <1>3, <1>5, <2>6, <3>1 DEF info, Named, SecretsOf, HasUser, HasSecrets
  <2>7. CASE given.password = Absent /\ copy[id].password = Empty
    <3>1. info.password = Empty /\ info.user \in {Empty, Absent}
      BY <1>1, <2>2, <2>3, <2>7 DEF InfoType
    <3>2. SecretsOf(info).user = Empty /\ SecretsOf(info).password = Empty
      BY <1>3, <3>1 DEF SecretsOf, HasUser
    <3>3. Lookup(id).password = Empty
      BY <2>1, <2>7 DEF CopyHolds, Lookup
    <3>4. Credentials(id).password = Empty
      BY <2>1, <3>3 DEF Credentials, Info, Known
    <3> QED
      BY <1>1, <1>5, <2>1, <2>7, <3>1, <3>2, <3>4 DEF info, Named
  <2> QED
    BY <1>2, <2>1, <2>4, <2>5, <2>6, <2>7 DEF CopyType
<1> QED
  BY <1>4, <1>5

--------------------------------------------------------------------------------
(* Where nothing interferes, the password last stored for an identity that is
   to be kept is in the cache, or else in the secrets DB; the cache is empty
   when the DB is open; no name is stored without a password, so that an
   entry of the cache without one is passed over when the DB is opened. *)
HoldsPassword(id) ==
  /\ Found(cachedSecrets, id).user # Empty => Found(cachedSecrets, id).password # Empty
  /\ metadata[id].storePassword =>
       /\ open => cachedSecrets[id] = NoRow
       /\ Found(secrets, id).user # Empty => Found(secrets, id).password # Empty
       /\ Found(cachedSecrets, id).password # Empty =>
            Found(cachedSecrets, id).password = lastPassword[id]
       /\ Found(cachedSecrets, id).password = Empty =>
            Found(secrets, id).password = lastPassword[id]
  /\ ~metadata[id].storePassword =>
       Found(cachedSecrets, id).password \in {lastPassword[id], Empty}

(* A session is the only one of its identity, and unless its password is its
   own it is the one last stored. *)
HoldsSession(c) ==
  session[c] # NoRow =>
    /\ session[c].id \in Known
    /\ session[c].password = Empty => session[c].user = Empty
    /\ ~session[c].own /\ session[c].password # Empty =>
         session[c].password = lastPassword[session[c].id]
    /\ \A d \in Session :
         session[d] # NoRow /\ session[d].id = session[c].id => d = c

PasswordInv ==
  /\ Fresh
  /\ \A id \in Id : id > lastId => lastPassword[id] = Empty
  /\ CacheAgrees
  /\ \A id \in Known : HoldsPassword(id)
  /\ \A c \in Session : HoldsSession(c)

(* A password in a copy is the one last stored. *)
HoldsCopy(id) == copy[id].password \in Password =>
                   copy[id].password = lastPassword[id]

CopiesAreLast == CopyInv /\ \A id \in Known : HoldsCopy(id)

(* What a reader then finds. *)
LEMMA LookupHolds ==
  ASSUME DBTypeOK, NEW id \in Known, HoldsPassword(id)
  PROVE  /\ Credentials(id).password \in {lastPassword[id], Empty}
         /\ open /\ metadata[id].storePassword =>
              Credentials(id).password = lastPassword[id]
         /\ Credentials(id).user # Empty => Credentials(id).password # Empty
<1>1. metadata[id] # NoRow /\ Credentials(id) = Info(id)
  BY DEF Known, Credentials
<1>2. /\ Lookup(id).password \in {lastPassword[id], Empty}
      /\ open /\ metadata[id].storePassword =>
           Lookup(id).password = lastPassword[id]
      /\ Lookup(id).user # Empty => Lookup(id).password # Empty
  <2>1. CASE metadata[id].storePassword /\ open
    BY <2>1 DEF Lookup, HoldsPassword, Found
  <2>2. CASE ~(metadata[id].storePassword /\ open)
    <3>1. Lookup(id) = Found(cachedSecrets, id)
      BY <2>2 DEF Lookup
    <3> QED
      BY <2>2, <3>1 DEF HoldsPassword
  <2> QED
    BY <2>1, <2>2
<1> QED
  BY <1>1, <1>2 DEF Info

(* updateCredentials() with a password that is then the last one stored, or
   with no secrets at all, or with the empty ones it has returned. *)
LEMMA UpdateHoldsPassword ==
  ASSUME "write" \notin Interference, TypeOK, PasswordInv,
         NEW info \in InfoType, Update(info),
         \/ info.id = NewId
         \/ /\ info.id \in Known
            /\ info.storePassword = metadata[info.id].storePassword,
         \/ /\ info.password \in Password
            /\ lastPassword' = [lastPassword EXCEPT ![IdOf(info)] = info.password]
         \/ /\ ~HasSecrets(info)
            /\ lastPassword' = lastPassword
         \/ /\ info.id \in Known
            /\ info.password = Empty /\ Credentials(info.id).password = Empty
            /\ SecretsOf(info).user = Empty
            /\ lastPassword' = lastPassword
  PROVE  /\ Fresh' /\ CacheAgrees'
         /\ (\A id \in Id : id > lastId => lastPassword[id] = Empty)'
         /\ \A id \in Known' : HoldsPassword(id)'
         /\ Known' = Known \cup {IdOf(info)}
         /\ info.id = NewId => IdOf(info) \notin Known
<1> DEFINE new == IdOf(info)
           row == [secretName |-> info.secretName,
                   storePassword |-> info.storePassword,
                   validated |-> info.validated]
           entry == [user |-> SecretsOf(info).user,
                     password |-> SecretsOf(info).password,
                     storePassword |-> info.storePassword]
<1>1. DBTypeOK /\ MaxId \in Nat /\ lastId \in Nat /\ NewId \notin Id
  BY DBAssumption DEF TypeOK, DBTypeOK, NewId, Id
<1>2. UpdateCredentials(info, TRUE)
  BY DEF Update
<1>3. /\ new \in Id /\ metadata'[new] = row /\ UNCHANGED open
      /\ info.id = NewId => new = lastId + 1 /\ lastId' = lastId + 1
      /\ info.id # NewId => new = info.id /\ lastId' = lastId
  <2>1. new \in Id /\ UNCHANGED open
    BY <1>1, UpdateEffect
  <2>2. info.id = NewId => /\ new = lastId + 1 /\ lastId' = lastId + 1
                           /\ metadata'[new] = row
    BY <1>1, UpdateEffect
  <2>3. info.id # NewId => new = info.id /\ lastId' = lastId
    BY <1>1, UpdateEffect
  <2>4. CASE info.id # NewId
    <3>1. metadata[info.id] # NoRow
      BY <2>4 DEF Known
    <3> QED
      BY <1>1, <2>1, <2>3, <2>4, <3>1, UpdateEffect
  <2> QED
    BY <2>1, <2>2, <2>3, <2>4
<1>4. ASSUME NEW id \in Id, id # new
      PROVE  /\ metadata'[id] = metadata[id]
             /\ secrets'[id] = secrets[id]
             /\ cachedSecrets'[id] = cachedSecrets[id]
             /\ lastPassword'[id] = lastPassword[id]
  <2>1. lastPassword'[id] = lastPassword[id]
    BY <1>3, <1>4 DEF TypeOK
  <2> QED
    BY <1>1, <1>4, <2>1, UpdateEffect
<1>5. row # NoRow
  <2>1. row \in Identity
    BY DEF InfoType, Identity
  <2> QED
    BY <2>1, DBAssumption
<1>6. Known' = Known \cup {new}
  BY <1>3, <1>4, <1>5 DEF Known
<1>7. info.id = NewId =>
        /\ metadata[new] = NoRow /\ secrets[new] = NoRow
        /\ cachedSecrets[new] = NoRow /\ lastPassword[new] = Empty
  BY <1>1, <1>3 DEF PasswordInv, Fresh, Id
<1>8. info.id # NewId => /\ new \in Known /\ HoldsPassword(new) /\ new <= lastId
                         /\ info.storePassword = metadata[new].storePassword
  <2>1. ASSUME NEW id \in Known
        PROVE  id <= lastId
    BY <1>1 DEF Known, PasswordInv, Fresh, Id
  <2> QED
    BY <1>3, <2>1 DEF PasswordInv
<1>9. Fresh' /\ (\A id \in Id : id > lastId => lastPassword[id] = Empty)'
  <2>1. ASSUME NEW id \in Id, id > lastId'
        PROVE  id # new /\ id > lastId
    BY <1>1, <1>3, <1>8, <2>1 DEF Id
  <2> QED
    BY <1>4, <2>1 DEF PasswordInv, Fresh
<1>10. \/ /\ ~HasSecrets(info)
          /\ secrets'[new] = secrets[new] /\ cachedSecrets'[new] = cachedSecrets[new]
       \/ /\ HasSecrets(info) /\ info.storePassword /\ open
          /\ secrets'[new] = SecretsOf(info) /\ cachedSecrets'[new] = cachedSecrets[new]
       \/ /\ HasSecrets(info) /\ ~(info.storePassword /\ open)
          /\ secrets'[new] = secrets[new] /\ cachedSecrets'[new] = entry
  BY <1>1, <1>2, <1>3 DEF UpdateCredentials, UpdateSecrets, CacheSecrets, DBTypeOK
<1>11. SecretsOf(info) # NoRow /\ entry # NoRow
  <2>1. SecretsOf(info) \in Row /\ entry \in CachedRow
    BY DEF SecretsOf, HasUser, Row, CachedRow, InfoType
  <2> QED
    BY <2>1, DBAssumption
<1>12. CacheAgrees'
  <2>1. ASSUME NEW id \in Known', cachedSecrets'[id] # NoRow
        PROVE  cachedSecrets'[id].storePassword = metadata'[id].storePassword
    <3>1. CASE id # new
      BY <1>4, <1>6, <2>1, <3>1 DEF PasswordInv, CacheAgrees, Known
    <3>2. CASE id = new
      <4>1. CASE cachedSecrets'[new] = entry
        BY <1>3, <3>2, <4>1
      <4>2. CASE cachedSecrets'[new] = cachedSecrets[new] /\ info.id # NewId
        BY <1>3, <1>8, <2>1, <3>2, <4>2 DEF PasswordInv, CacheAgrees
      <4>3. CASE cachedSecrets'[new] = cachedSecrets[new] /\ info.id = NewId
        BY <1>7, <2>1, <3>2, <4>3
      <4> QED
        BY <1>10, <4>1, <4>2, <4>3
    <3> QED
      BY <3>1, <3>2
  <2> QED
    BY <2>1 DEF CacheAgrees
<1>13. ASSUME NEW id \in Known, id # new
       PROVE  HoldsPassword(id)'
  <2>1. id \in Id /\ HoldsPassword(id)
    BY <1>13 DEF Known, PasswordInv
  <2> QED
    BY <1>3, <1>4, <1>13, <2>1 DEF HoldsPassword, Found
<1>14. ASSUME NEW id \in Id, id = new
       PROVE  HoldsPassword(id)'
  <2>1. metadata'[id].storePassword = info.storePassword
    BY <1>3, <1>14
  <2>2. Empty \notin Password /\ Absent \notin Password /\ Empty # Absent
    BY DBAssumption
  <2>3. CASE ~HasSecrets(info)
    <3>1. /\ secrets'[id] = secrets[id] /\ cachedSecrets'[id] = cachedSecrets[id]
          /\ lastPassword' = lastPassword
      BY <1>10, <1>14, <2>2, <2>3 DEF HasSecrets
    <3>2. CASE info.id = NewId
      BY <1>3, <1>7, <1>14, <2>1, <3>1, <3>2 DEF HoldsPassword, Found
    <3>3. CASE info.id # NewId
      BY <1>3, <1>8, <1>14, <2>1, <3>1, <3>3 DEF HoldsPassword, Found
    <3> QED
      BY <3>2, <3>3
  <2>4. CASE HasSecrets(info) /\ info.password \in Password
    <3>1. lastPassword'[id] = info.password
      BY <1>3, <1>14, <2>2, <2>4 DEF TypeOK
    <3>2. SecretsOf(info).password = info.password
      BY <2>2, <2>4 DEF SecretsOf
    <3>3. CASE info.storePassword /\ open
      <4>1. cachedSecrets'[id] = NoRow
        BY <1>7, <1>8, <1>10, <1>14, <3>3, <2>4 DEF HoldsPassword
      <4>2. secrets'[id] = SecretsOf(info)
        BY <1>10, <1>14, <2>4, <3>3
      <4> QED
        BY <1>11, <2>1, <2>2, <2>4, <3>1, <3>2, <3>3, <4>1, <4>2 DEF HoldsPassword, Found
    <3>4. CASE ~(info.storePassword /\ open)
      <4>1. cachedSecrets'[id] = entry /\ secrets'[id] = secrets[id]
        BY <1>10, <1>14, <2>4, <3>4
      <4>2. /\ Found(cachedSecrets, id)'.password = info.password
            /\ Found(secrets, id)' = Found(secrets, id)
        BY <1>11, <3>2, <4>1 DEF Found
      <4>3. info.storePassword =>
              (Found(secrets, id).user # Empty => Found(secrets, id).password # Empty)
        BY <1>7, <1>8, <1>14 DEF HoldsPassword, Found
      <4> QED
        BY <1>3, <2>1, <2>2, <2>4, <3>1, <3>4, <4>2, <4>3 DEF HoldsPassword
    <3> QED
      BY <3>3, <3>4
  <2>5. CASE HasSecrets(info) /\ info.password \notin Password
    <3>1. /\ info.id \in Known /\ info.id # NewId /\ id = info.id
          /\ info.password = Empty /\ Credentials(id).password = Empty
          /\ SecretsOf(info).user = Empty
          /\ lastPassword' = lastPassword
      BY <1>1, <1>3, <1>14, <2>5 DEF Known
    <3>2. /\ HoldsPassword(id) /\ id \in Known
          /\ info.storePassword = metadata[id].storePassword
      BY <1>8, <1>14, <3>1
    <3>3. SecretsOf(info).password = Empty
      BY <2>2, <3>1 DEF SecretsOf
    <3>4. CASE info.storePassword /\ open
      <4>1. lastPassword[id] = Empty
        BY <1>1, <3>1, <3>2, <3>4, LookupHolds
      <4>2. secrets'[id] = SecretsOf(info) /\ cachedSecrets'[id] = cachedSecrets[id]
        BY <1>10, <1>14, <2>5, <3>4
      <4> QED
        BY <1>11, <2>1, <3>1, <3>2, <3>3, <3>4, <4>1, <4>2 DEF HoldsPassword, Found
    <3>5. CASE ~(info.storePassword /\ open)
      <4>1. cachedSecrets'[id] = entry /\ secrets'[id] = secrets[id]
        BY <1>10, <1>14, <2>5, <3>5
      <4>2. Found(cachedSecrets, id).password = Empty
        BY <3>1, <3>2, <3>5 DEF Credentials, Info, Lookup, Known
      <4>3. /\ Found(cachedSecrets, id)'.password = Empty
            /\ Found(cachedSecrets, id)'.user = Empty
            /\ Found(secrets, id)' = Found(secrets, id)
        BY <1>11, <3>1, <3>3, <4>1 DEF Found
      <4> QED
        BY <1>3, <2>1, <3>1, <3>2, <3>5, <4>2, <4>3 DEF HoldsPassword
    <3> QED
      BY <3>4, <3>5
  <2> QED
    BY <2>3, <2>4, <2>5
<1>15. \A id \in Known' : HoldsPassword(id)'
  <2>1. ASSUME NEW id \in Known'
        PROVE  HoldsPassword(id)'
    BY <1>3, <1>6, <1>13, <1>14, <2>1
  <2> QED
    BY <2>1
<1> QED
  BY <1>6, <1>7, <1>9, <1>12, <1>15 DEF Known

(* What the sessions hold is not disturbed by a password stored for an identity
   that none of the others uses. *)
LEMMA OthersHold ==
  ASSUME PasswordInv, NEW c \in Session, NEW new \in Id,
         session'[c] = session[c], Known \subseteq Known',
         session[c] # NoRow => session[c].id # new,
         \A id \in Id \ {new} : lastPassword'[id] = lastPassword[id],
         \A d \in Session : session'[d] \in {session[d], NoRow}
  PROVE  HoldsSession(c)'
<1>1. HoldsSession(c)
  BY DEF PasswordInv
<1>2. session[c] # NoRow => /\ session[c].id \in Known' /\ session[c].id \in Id
                            /\ lastPassword'[session[c].id] = lastPassword[session[c].id]
  BY <1>1 DEF HoldsSession, Known
<1> QED
  BY <1>1, <1>2 DEF HoldsSession

(* Every step keeps the passwords, where nothing interferes. *)
LEMMA NextHoldsPassword ==
  ASSUME Interference = {}, TypeOK, PasswordInv, CopiesAreLast, Next
  PROVE  PasswordInv'
<1>t. DBTypeOK /\ lastId \in Nat /\ NewId \notin Id
  BY DBAssumption DEF TypeOK, DBTypeOK, NewId, Id
<1>u. ASSUME UNCHANGED <<metadata, lastId, secrets, open, cachedSecrets, lastPassword>>,
             \A c \in Session : HoldsSession(c)'
      PROVE  PasswordInv'
  BY <1>u DEF PasswordInv, Fresh, CacheAgrees, HoldsPassword, Known, Found
<1>v. ASSUME UNCHANGED <<metadata, lastId, secrets, open, cachedSecrets, lastPassword,
                         session>>
      PROVE  PasswordInv'
  BY <1>v DEF PasswordInv, Fresh, CacheAgrees, HoldsPassword, HoldsSession, Known, Found
<1>w. \A kind, disorder : Orderly(kind, disorder) => ~disorder
  BY DEF Orderly
<1>x. /\ Empty \notin Password /\ Absent \notin Password /\ Empty # Absent
      /\ Empty \notin Name /\ Absent \notin Name
  BY DBAssumption
<1>1. ASSUME NEW id \in Id \cup {NewId}, id = NewId \/ id \in Known,
             id # NewId => ~Busy(id), StoreCredentials(id)
      PROVE  PasswordInv'
  <2>1. PICK given \in ClientInfo(id) :
          LET info == Updated(given)
          IN /\ ~(info.user \in Name /\ info.password \in {Absent, Empty})
             /\ Update(info)
             /\ Asked(IdOf(info), given)
             /\ UNCHANGED session
    BY <1>1, <1>w DEF StoreCredentials
  <2> DEFINE info == Updated(given)
  <2>2. /\ info \in InfoType /\ info.id = id
        /\ id # NewId => info.storePassword = metadata[id].storePassword
        /\ \/ /\ given.password \in Password
              /\ info.password = given.password
           \/ /\ given.password = Absent
              /\ ~HasSecrets(info)
           \/ /\ given.password = Absent
              /\ id \in Known
              /\ info.password \in Password
              /\ info.password = copy[id].password
           \/ /\ given.password = Absent
              /\ id \in Known
              /\ info.password = Empty /\ Credentials(id).password = Empty
              /\ SecretsOf(info).user = Empty
    BY <1>1, <2>1, UpdatedInfo DEF CopiesAreLast
  <2> HIDE DEF info
  <2>3. Update(info) /\ Asked(IdOf(info), given) /\ UNCHANGED session
    BY <2>1 DEF info
  <2>o. id \in Known => id # NewId /\ IdOf(info) = id
    BY <1>t, <2>2 DEF Known, IdOf
  <2>p. given.password \notin Password => lastPassword' = lastPassword
    BY <2>2, <2>3 DEF Asked
  <2>4. \/ /\ info.password \in Password
           /\ lastPassword' = [lastPassword EXCEPT ![IdOf(info)] = info.password]
        \/ /\ ~HasSecrets(info) /\ lastPassword' = lastPassword
        \/ /\ info.id \in Known
           /\ info.password = Empty /\ Credentials(info.id).password = Empty
           /\ SecretsOf(info).user = Empty
           /\ lastPassword' = lastPassword
    <3>1. CASE given.password \in Password
      BY <1>x, <2>2, <2>3, <3>1 DEF Asked, Remember
    <3>2. CASE given.password = Absent /\ id \in Known /\ info.password \in Password
      <4>1. HoldsCopy(id) => info.password = lastPassword[id]
        BY <1>x, <2>2, <3>2 DEF HoldsCopy, HasSecrets
      <4>2. info.password = lastPassword[id]
        BY <3>2, <4>1 DEF CopiesAreLast
      <4>3. lastPassword = [lastPassword EXCEPT ![id] = lastPassword[id]]
        BY DEF TypeOK
      <4> QED
        BY <1>x, <2>o, <2>p, <3>2, <4>2, <4>3
    <3> QED
      BY <1>x, <2>2, <2>p, <3>1, <3>2
  <2>5. /\ Fresh' /\ CacheAgrees'
        /\ (\A i \in Id : i > lastId => lastPassword[i] = Empty)'
        /\ \A i \in Known' : HoldsPassword(i)'
        /\ Known' = Known \cup {IdOf(info)}
        /\ info.id = NewId => IdOf(info) \notin Known
    BY <1>1, <2>2, <2>3, <2>4, UpdateHoldsPassword
  <2>6. IdOf(info) \in Id /\ (id # NewId => IdOf(info) = id)
    BY <1>t, <2>2, <2>3, UpdateEffect
  <2>7. ASSUME NEW c \in Session
        PROVE  HoldsSession(c)'
    <3>1. session[c] # NoRow => session[c].id # IdOf(info)
      BY <1>1, <2>2, <2>5, <2>6 DEF Busy, PasswordInv, HoldsSession
    <3>2. \A i \in Id \ {IdOf(info)} : lastPassword'[i] = lastPassword[i]
      BY <2>4, <2>6 DEF TypeOK
    <3> QED
      BY <2>3, <2>5, <2>6, <3>1, <3>2, OthersHold
  <2> QED
    BY <2>5, <2>7 DEF PasswordInv
<1>2. ASSUME NEW ids \in SUBSET Id, Forget(ids)
      PROVE  PasswordInv'
  <2>1. /\ open /\ UNCHANGED <<lastId, open, cachedSecrets, session>>
        /\ \A id \in Id : metadata'[id] = metadata[id]
                          \/ (id \in ids /\ metadata'[id] = NoRow)
        /\ \A id \in Id : secrets'[id] = IF id \in ids THEN NoRow ELSE secrets[id]
        /\ \A id \in Id : lastPassword'[id] = IF id \in ids
                            THEN Found(cachedSecrets, id).password
                            ELSE lastPassword[id]
    BY <1>2 DEF Forget, RemoveCredentials, RemoveSecretsOnly, DropSecrets
  <2>2. \A c \in Session : session[c] # NoRow => session[c].id \notin ids
    BY <1>2, <1>w DEF Forget, Busy
  <2>3. Known \ ids \subseteq Known' /\ Known' \subseteq Known
    BY <2>1 DEF Known
  <2>4. Fresh' /\ (\A id \in Id : id > lastId => lastPassword[id] = Empty)'
    BY <2>1 DEF PasswordInv, Fresh, Found
  <2>5. CacheAgrees'
    BY <2>1 DEF PasswordInv, CacheAgrees, Known
  <2>6. ASSUME NEW id \in Known'
        PROVE  HoldsPassword(id)'
    <3>1. /\ id \in Id /\ id \in Known /\ metadata'[id] = metadata[id]
          /\ HoldsPassword(id)
      BY <2>1, <2>3, <2>6 DEF Known, PasswordInv
    <3>2. CASE id \in ids
      BY <2>1, <3>1, <3>2 DEF HoldsPassword, Found
    <3>3. CASE id \notin ids
      BY <2>1, <3>1, <3>3 DEF HoldsPassword, Found
    <3> QED
      BY <3>2, <3>3
  <2>7. ASSUME NEW c \in Session
        PROVE  HoldsSession(c)'
    <3>1. HoldsSession(c)
      BY DEF PasswordInv
    <3>2. session[c] # NoRow =>
            /\ session[c].id \in Known'
            /\ lastPassword'[session[c].id] = lastPassword[session[c].id]
      BY <2>1, <2>2, <2>3, <3>1 DEF HoldsSession, Known
    <3> QED
      BY <2>1, <3>1, <3>2 DEF HoldsSession
  <2> QED
    BY <2>4, <2>5, <2>6, <2>7 DEF PasswordInv
<1>3. ASSUME NEW id \in Id, SignOut(id)
      PROVE  PasswordInv'
  BY <1>3, <1>v DEF SignOut, RemoveData
<1>4. ASSUME NEW c \in Session, NEW id \in Id, NEW user \in Name \cup {Absent},
             NEW password \in Password \cup {Empty, Absent},
             StartProcess(c, id, user, password)
      PROVE  PasswordInv'
  <2> DEFINE info == Credentials(id)
             s == Completed(id, user, password)
  <2>1. /\ id \in Known /\ ~Busy(id) /\ session[c] = NoRow
        /\ UNCHANGED <<dbVars, ghostVars>>
        /\ session' = [session EXCEPT ![c] = s]
        /\ user # Absent => info.secretName
        /\ ~(info.secretName /\ (user # Absent \/ password = Empty))
    BY <1>4, <1>w DEF StartProcess
  <2>2. /\ info \in InfoType /\ info.id = id /\ id # NewId
        /\ info.password \in {lastPassword[id], Empty}
        /\ info.user # Empty => info.password # Empty
    BY <1>t, <2>1, CredentialsType, LookupHolds DEF PasswordInv
  <2>3. ~info.secretName => info.user = Empty
    BY <2>1 DEF Credentials, Info, Known
  <2>4. user = Absent
    BY <2>1
  <2>5. /\ s.id = id /\ s.user = info.user
        /\ s.password = IF password = Absent THEN info.password ELSE password
        /\ s.own = (password # Absent)
    BY <2>2, <2>4 DEF Completed
  <2>6. s.password = Empty => s.user = Empty
    BY <1>x, <2>1, <2>2, <2>3, <2>5
  <2>7. ~s.own /\ s.password # Empty => s.password = lastPassword[id]
    BY <2>2, <2>5
  <2>8. ASSUME NEW d \in Session
        PROVE  HoldsSession(d)'
    <3>1. Known' = Known /\ lastPassword' = lastPassword
      BY <2>1 DEF Known, dbVars, diskVars, ghostVars
    <3>2. CASE d = c
      <4>1. session'[d] = s
        BY <2>1, <3>2 DEF TypeOK
      <4>2. \A e \in Session : session'[e] # NoRow /\ session'[e].id = id => e = c
        BY <2>1 DEF Busy, TypeOK
      <4> QED
        BY <2>1, <2>5, <2>6, <2>7, <3>1, <3>2, <4>1, <4>2 DEF HoldsSession
    <3>3. CASE d # c
      <4>1. session'[d] = session[d] /\ HoldsSession(d)
        BY <2>1, <3>3 DEF TypeOK, PasswordInv
      <4>2. session[d] # NoRow => session[d].id # id
        BY <2>1 DEF Busy
      <4>3. \A e \in Session : \/ session'[e] = session[e]
                               \/ session'[e] = s
        BY <2>1 DEF TypeOK
      <4> QED
        BY <2>5, <3>1, <4>1, <4>2, <4>3 DEF HoldsSession
    <3> QED
      BY <3>2, <3>3
  <2> QED
    BY <1>u, <2>1, <2>8 DEF dbVars, diskVars, ghostVars
<1>5. ASSUME NEW c \in Session, NEW user \in Name \cup {Empty},
             NEW password \in Password \cup {Empty},
             QueryUiSlot(c, user, password)
      PROVE  PasswordInv'
  <2>1. /\ UNCHANGED <<dbVars, ghostVars>> /\ session[c] # NoRow
        /\ password = Empty => user = Empty
        /\ session' = [session EXCEPT
                         ![c] = [id |-> session[c].id, user |-> user,
                                 password |-> password, own |-> TRUE]]
    BY <1>5, <1>x DEF QueryUiSlot
  <2>2. Known' = Known /\ lastPassword' = lastPassword
    BY <2>1 DEF Known, dbVars, diskVars, ghostVars
  <2>3. \A d \in Session : /\ session'[d] # NoRow => session[d] # NoRow
                           /\ session'[d] # NoRow => session'[d].id = session[d].id
    BY <2>1 DEF TypeOK
  <2>4. ASSUME NEW d \in Session
        PROVE  HoldsSession(d)'
    <3>1. HoldsSession(d)
      BY DEF PasswordInv
    <3>2. CASE d = c
      <4>1. session'[c] = [id |-> session[c].id, user |-> user,
                           password |-> password, own |-> TRUE]
        BY <2>1 DEF TypeOK
      <4> QED
        BY <2>1, <2>2, <2>3, <3>1, <3>2, <4>1 DEF HoldsSession
    <3>3. CASE d # c
      <4>1. session'[d] = session[d]
        BY <2>1, <3>3 DEF TypeOK
      <4> QED
        BY <2>2, <2>3, <3>1, <4>1 DEF HoldsSession
    <3> QED
      BY <3>2, <3>3
  <2> QED
    BY <1>u, <2>1, <2>4 DEF dbVars, diskVars, ghostVars
<1>6. ASSUME NEW c \in Session, NEW data \in Data, ProcessStore(c, data)
      PROVE  PasswordInv'
  BY <1>6, <1>v DEF ProcessStore, StoreData
<1>7. ASSUME NEW c \in Session, ProcessResultReply(c)
      PROVE  PasswordInv'
  <2> DEFINE id == session[c].id
             info == Credentials(id)
             v == Validated(c)
  <2>1. /\ session[c] # NoRow /\ Update(v)
        /\ IF session[c].own /\ session[c].password # Empty
             THEN Remember(IdOf(v), session[c].password)
             ELSE UNCHANGED lastPassword
        /\ session' = [session EXCEPT ![c] = NoRow]
    BY <1>7 DEF ProcessResultReply
  <2>2. HoldsSession(c) /\ id \in Known /\ id \in Id /\ HoldsPassword(id)
    BY <2>1 DEF PasswordInv, HoldsSession, Known
  <2>3. /\ info \in InfoType /\ info.id = id
        /\ info.storePassword = metadata[id].storePassword
        /\ info.password \in {lastPassword[id], Empty}
        /\ info.user # Empty => info.password # Empty
    BY <1>t, <2>2, CredentialsType, LookupHolds
  <2>4. /\ v \in InfoType /\ v.id = id /\ v.storePassword = metadata[id].storePassword
    BY <2>1, <2>3, ValidatedType
  <2>5. IdOf(v) = id
    BY <1>t, <2>2, <2>4 DEF IdOf
  <2>6. /\ v.password = IF session[c].password # Empty THEN session[c].password
                                                     ELSE info.password
        /\ session[c].user = Empty => v.user = info.user
    BY <2>3 DEF Validated, InfoType
  <2>7. session[c].password \in Password \cup {Empty}
        /\ lastPassword[id] \in Password \cup {Empty}
    BY <2>1, <2>2 DEF TypeOK
  <2>8. \/ /\ v.password \in Password
           /\ lastPassword' = [lastPassword EXCEPT ![IdOf(v)] = v.password]
        \/ /\ v.password = Empty /\ info.password = Empty
           /\ SecretsOf(v).user = Empty
           /\ lastPassword' = lastPassword
    <3>1. CASE session[c].password # Empty /\ session[c].own
      BY <2>1, <2>6, <2>7, <3>1 DEF Remember
    <3>2. CASE session[c].password # Empty /\ ~session[c].own
      <4>1. lastPassword' = lastPassword /\ v.password = lastPassword[id]
        BY <2>1, <2>2, <2>6, <3>2 DEF HoldsSession
      <4>2. lastPassword = [lastPassword EXCEPT ![id] = lastPassword[id]]
        BY DEF TypeOK
      <4> QED
        BY <2>5, <2>6, <2>7, <3>2, <4>1, <4>2
    <3>3. CASE session[c].password = Empty /\ info.password # Empty
      <4>1. lastPassword' = lastPassword /\ v.password = lastPassword[id]
        BY <2>1, <2>3, <2>6, <3>3
      <4>2. lastPassword = [lastPassword EXCEPT ![id] = lastPassword[id]]
        BY DEF TypeOK
      <4> QED
        BY <2>3, <2>5, <2>6, <2>7, <3>3, <4>1, <4>2
    <3>4. CASE session[c].password = Empty /\ info.password = Empty
      <4>1. v.user = Empty
        BY <2>1, <2>2, <2>3, <2>6, <3>4 DEF HoldsSession
      <4> QED
        BY <2>1, <2>6, <3>4, <4>1 DEF SecretsOf
    <3> QED
      BY <3>1, <3>2, <3>3, <3>4
  <2>9. /\ Fresh' /\ CacheAgrees'
        /\ (\A i \in Id : i > lastId => lastPassword[i] = Empty)'
        /\ \A i \in Known' : HoldsPassword(i)'
        /\ Known' = Known \cup {IdOf(v)}
    BY <2>1, <2>2, <2>4, <2>8, UpdateHoldsPassword
  <2>10. ASSUME NEW d \in Session
         PROVE  HoldsSession(d)'
    <3>1. CASE d = c
      BY <2>1, <3>1 DEF HoldsSession, TypeOK
    <3>2. CASE d # c
      <4>1. session'[d] = session[d]
        BY <2>1, <3>2 DEF TypeOK
      <4>2. session[d] # NoRow => session[d].id # id
        BY <2>1, <2>2, <3>2 DEF HoldsSession
      <4>3. \A i \in Id \ {id} : lastPassword'[i] = lastPassword[i]
        BY <2>5, <2>8 DEF TypeOK
      <4>4. \A e \in Session : session'[e] \in {session[e], NoRow}
        BY <2>1 DEF TypeOK
      <4> QED
        BY <2>2, <2>9, <4>1, <4>2, <4>3, <4>4, OthersHold
    <3> QED
      BY <3>1, <3>2
  <2> QED
    BY <2>9, <2>10 DEF PasswordInv
<1>8. ASSUME NEW c \in Session, ProcessError(c)
      PROVE  PasswordInv'
  <2>1. /\ UNCHANGED <<dbVars, ghostVars>>
        /\ \A d \in Session : session'[d] \in {session[d], NoRow}
    BY <1>8 DEF ProcessError, TypeOK
  <2>2. \A d \in Session : HoldsSession(d)'
    BY <2>1 DEF PasswordInv, HoldsSession, Known, dbVars, diskVars, ghostVars
  <2> QED
    BY <1>u, <2>1, <2>2 DEF dbVars, diskVars, ghostVars
<1>9. ASSUME OnEncryptedFSMounted
      PROVE  PasswordInv'
  <2>1. PICK lost \in SUBSET Id : lost = {} /\ OpenSecretsDB(lost)
    BY <1>9, <1>w DEF OnEncryptedFSMounted
  <2>2. /\ ~open /\ UNCHANGED <<metadata, lastId, session, lastPassword>>
        /\ \A id \in Id : cachedSecrets'[id] = NoRow
        /\ \A id \in Id : secrets'[id] = IF Flushed(id)
                                           THEN ToStore(cachedSecrets[id])
                                           ELSE secrets[id]
    BY <1>9, <2>1 DEF OpenSecretsDB, ClearCache, OnEncryptedFSMounted, ghostVars
  <2>3. Fresh' /\ (\A id \in Id : id > lastId => lastPassword[id] = Empty)'
    BY <2>2 DEF PasswordInv, Fresh, Flushed
  <2>4. CacheAgrees'
    BY <2>2 DEF CacheAgrees, Known
  <2>5. ASSUME NEW id \in Known'
        PROVE  HoldsPassword(id)'
    <3>1. id \in Known /\ id \in Id /\ HoldsPassword(id)
      BY <2>2 DEF Known, PasswordInv
    <3>2. Found(cachedSecrets, id)'.user = Empty /\ Found(cachedSecrets, id)'.password = Empty
      BY <2>2, <3>1 DEF Found
    <3>3. CASE ~metadata[id].storePassword
      BY <2>2, <3>2, <3>3 DEF HoldsPassword
    <3>4. CASE metadata[id].storePassword /\ Flushed(id)
      <4>1. /\ cachedSecrets[id] # NoRow /\ cachedSecrets[id].storePassword
            /\ cachedSecrets[id] \in CachedRow
        BY <1>t, <3>1, <3>4 DEF Flushed, PasswordInv, CacheAgrees, DBTypeOK
      <4>2. secrets'[id] \in Row /\ secrets'[id].password = cachedSecrets[id].password
            /\ secrets'[id].user = cachedSecrets[id].user
            /\ cachedSecrets[id].password # Empty
        <5>1. ToStore(cachedSecrets[id]) = [user |-> cachedSecrets[id].user,
                                            password |-> cachedSecrets[id].password]
          BY <4>1 DEF ToStore
        <5>2. cachedSecrets[id].user # Empty \/ cachedSecrets[id].password # Empty
          BY <3>4, <5>1 DEF Flushed
        <5>3. cachedSecrets[id].password # Empty
          BY <3>1, <4>1, <5>2 DEF HoldsPassword, Found
        <5>4. secrets'[id] = ToStore(cachedSecrets[id])
          BY <2>2, <3>1, <3>4
        <5> QED
          BY <4>1, <5>1, <5>3, <5>4 DEF Row, CachedRow
      <4>3. secrets'[id] # NoRow
        BY <4>2, DBAssumption
      <4> QED
        BY <2>2, <3>1, <3>2, <3>4, <4>1, <4>2, <4>3 DEF HoldsPassword, Found
    <3>5. CASE metadata[id].storePassword /\ ~Flushed(id)
      <4>1. Found(cachedSecrets, id).password = Empty
        BY <3>1, <3>5 DEF Flushed, ToStore, Found, PasswordInv, CacheAgrees
      <4> QED
        BY <2>2, <3>1, <3>2, <3>5, <4>1 DEF HoldsPassword, Found
    <3> QED
      BY <3>3, <3>4, <3>5
  <2>6. \A c \in Session : HoldsSession(c)'
    BY <2>2 DEF PasswordInv, HoldsSession, Known
  <2> QED
    BY <2>3, <2>4, <2>5, <2>6 DEF PasswordInv
<1>10. ASSUME OnEncryptedFSUnmounting
       PROVE  PasswordInv'
  <2>1. /\ open /\ ~open'
        /\ UNCHANGED <<metadata, lastId, secrets, cachedSecrets, session, lastPassword>>
    BY <1>10 DEF OnEncryptedFSUnmounting, CloseSecretsDB, diskVars, ghostVars
  <2> QED
    BY <2>1 DEF PasswordInv, Fresh, CacheAgrees, HoldsPassword, HoldsSession, Known, Found
<1>11. ASSUME LoseCache, Backup \/ Restart
       PROVE  PasswordInv'
  <2>1. /\ \A id \in Id : cachedSecrets'[id] = NoRow
        /\ UNCHANGED <<metadata, lastId, secrets>>
        /\ \A id \in Id : lastPassword'[id] = IF cachedSecrets[id] # NoRow
                            THEN Found(secrets, id).password ELSE lastPassword[id]
    BY <1>11 DEF LoseCache, RecreateDB, ClearCache, diskVars
  <2>2. Fresh' /\ (\A id \in Id : id > lastId => lastPassword[id] = Empty)'
    BY <2>1 DEF PasswordInv, Fresh
  <2>3. CacheAgrees'
    BY <2>1 DEF CacheAgrees, Known
  <2>4. ASSUME NEW id \in Known'
        PROVE  HoldsPassword(id)'
    <3>1. id \in Known /\ id \in Id /\ HoldsPassword(id)
      BY <2>1 DEF Known, PasswordInv
    <3>2. Found(cachedSecrets, id)'.user = Empty /\ Found(cachedSecrets, id)'.password = Empty
      BY <2>1, <3>1 DEF Found
    <3>3. metadata[id].storePassword => Found(secrets, id).password = lastPassword'[id]
      BY <2>1, <3>1 DEF HoldsPassword, Found
    <3> QED
      BY <2>1, <3>1, <3>2, <3>3 DEF HoldsPassword, Found
  <2>5. ASSUME NEW c \in Session
        PROVE  HoldsSession(c)'
    <3>1. CASE Restart
      BY <3>1 DEF Restart, HoldsSession
    <3>2. CASE Backup
      <4>1. \A d \in Session :
              /\ session'[d] # NoRow => session[d] # NoRow
              /\ session'[d] # NoRow => /\ session'[d].id = session[d].id
                                        /\ session'[d].user = session[d].user
                                        /\ session'[d].password = session[d].password
              /\ session'[d] # NoRow /\ ~session'[d].own =>
                   ~session[d].own /\ cachedSecrets[session[d].id] = NoRow
        <5>1. ASSUME NEW d \in Session, session[d] # NoRow
              PROVE  LET s == [session[d] EXCEPT !.own = TRUE]
                     IN /\ s.id = session[d].id /\ s.user = session[d].user
                        /\ s.password = session[d].password /\ s.own
          BY <5>1 DEF TypeOK
        <5> QED
          BY <3>2, <5>1 DEF Backup
      <4>2. HoldsSession(c) /\ Known' = Known
        BY <2>1 DEF PasswordInv, Known
      <4>3. session[c] # NoRow /\ cachedSecrets[session[c].id] = NoRow =>
              lastPassword'[session[c].id] = lastPassword[session[c].id]
        BY <2>1, <4>2 DEF HoldsSession, Known
      <4> QED
        BY <4>1, <4>2, <4>3 DEF HoldsSession
    <3> QED
      BY <1>11, <3>1, <3>2
  <2> QED
    BY <2>2, <2>3, <2>4, <2>5 DEF PasswordInv
<1>12. Next => \/ \E id \in Id \cup {NewId} :
                    /\ id = NewId \/ id \in Known
                    /\ id # NewId => ~Busy(id)
                    /\ StoreCredentials(id)
               \/ \E id \in Id : QueryInfo(id) \/ VerifyUiSlot(id) \/ Destroy(id)
               \/ \E ids \in SUBSET Id : Forget(ids)
               \/ \E id \in Id : SignOut(id)
               \/ \E c \in Session, id \in Id, user \in Name \cup {Absent},
                     password \in Password \cup {Empty, Absent} :
                    StartProcess(c, id, user, password)
               \/ \E c \in Session, user \in Name \cup {Empty},
                     password \in Password \cup {Empty} :
                    QueryUiSlot(c, user, password)
               \/ \E c \in Session, data \in Data : ProcessStore(c, data)
               \/ \E c \in Session : ProcessResultReply(c)
               \/ \E c \in Session : ProcessError(c)
               \/ OnEncryptedFSMounted
               \/ OnEncryptedFSUnmounting
               \/ LoseCache /\ (Backup \/ Restart)
  BY <1>w DEF Next, StoreNew, Store, StoreFails, Remove, Clear, Known, Backup, Restart
<1>13. ASSUME NEW id \in Id, QueryInfo(id) \/ VerifyUiSlot(id) \/ Destroy(id)
       PROVE  PasswordInv'
  BY <1>13, <1>v DEF QueryInfo, VerifyUiSlot, Destroy, dbVars, diskVars, ghostVars
<1> QED
  BY <1>12, <1>13, <1>1, <1>2, <1>3, <1>4, <1>5, <1>6, <1>7, <1>8, <1>9, <1>10, <1>11

(* Every step keeps the copies, where nothing interferes: what changes the
   password last stored for an identity leaves no copy of an older one. *)
LEMMA NextHoldsCopies ==
  ASSUME Interference = {}, TypeOK, PasswordInv, CopiesAreLast, Next
  PROVE  CopiesAreLast'
<1>t. DBTypeOK /\ copy \in [Id -> CopyType]
  BY DEF TypeOK, CopyType
<1>x. Absent \notin Password /\ NoCopy.password = Absent
  BY DBAssumption DEF NoCopy
<1>w. \A kind, disorder : Orderly(kind, disorder) => ~disorder
  BY DEF Orderly
<1>d. CacheDrained
  BY DEF PasswordInv, HoldsPassword, CacheDrained
<1>i. CopyInv'
  BY <1>d, NextKeepsCopies DEF CopiesAreLast
<1>u. ASSUME UNCHANGED <<metadata, copy, lastPassword>>
      PROVE  \A id \in Known' : HoldsCopy(id)'
  BY <1>u DEF CopiesAreLast, HoldsCopy, Known
<1>1. ASSUME NEW info \in InfoType, Update(info),
             copy' = [copy EXCEPT ![IdOf(info)] = NoCopy],
             \A id \in Id : id # IdOf(info) => lastPassword'[id] = lastPassword[id]
      PROVE  \A id \in Known' : HoldsCopy(id)'
  <2>1. IdOf(info) \in Id /\ \A id \in Id : id # IdOf(info) => metadata'[id] = metadata[id]
    BY <1>1, <1>t, UpdateEffect
  <2>2. ASSUME NEW id \in Known'
        PROVE  HoldsCopy(id)'
    <3>1. id \in Id
      BY DEF Known
    <3>2. CASE id = IdOf(info)
      <4>1. copy'[id] = NoCopy
        BY <1>1, <1>t, <3>1, <3>2
      <4> QED
        BY <1>x, <4>1 DEF HoldsCopy
    <3>3. CASE id # IdOf(info)
      <4>1. id \in Known /\ copy'[id] = copy[id] /\ lastPassword'[id] = lastPassword[id]
        BY <1>1, <1>t, <2>1, <3>1, <3>3 DEF Known
      <4> QED
        BY <4>1 DEF CopiesAreLast, HoldsCopy
    <3> QED
      BY <3>2, <3>3
  <2> QED
    BY <2>2
<1>2. ASSUME NEW id \in Id \cup {NewId}, StoreCredentials(id)
      PROVE  \A i \in Known' : HoldsCopy(i)'
  <2>1. PICK given \in ClientInfo(id) :
          /\ Update(Updated(given))
          /\ copy' = [copy EXCEPT ![IdOf(Updated(given))] = NoCopy]
          /\ Asked(IdOf(Updated(given)), given)
    BY <1>2 DEF StoreCredentials
  <2>2. Updated(given) \in InfoType
    BY ClientInfoType
  <2>3. \A i \in Id : i # IdOf(Updated(given)) => lastPassword'[i] = lastPassword[i]
    BY <2>1 DEF Asked, Remember, TypeOK
  <2> QED
    BY <1>1, <2>1, <2>2, <2>3
<1>3. ASSUME NEW id \in Id, QueryInfo(id)
      PROVE  \A i \in Known' : HoldsCopy(i)'
  <2>1. /\ id \in Known /\ UNCHANGED <<metadata, lastPassword>>
        /\ copy' = [copy EXCEPT ![id] = [user |-> IF Credentials(id).secretName
                                                    THEN Credentials(id).user
                                                    ELSE Absent,
                                         password |-> Credentials(id).password]]
    BY <1>3 DEF QueryInfo, dbVars, diskVars, ghostVars
  <2>2. Credentials(id).password \in {lastPassword[id], Empty} /\ Empty \notin Password
    BY <1>t, <2>1, LookupHolds, DBAssumption DEF PasswordInv
  <2>3. /\ copy'[id].password = Credentials(id).password
        /\ \A i \in Id : i # id => copy'[i] = copy[i]
    BY <1>t, <2>1
  <2>4. ASSUME NEW i \in Known'
        PROVE  HoldsCopy(i)'
    <3>1. i \in Id /\ HoldsCopy(i)
      BY <2>1 DEF CopiesAreLast, Known
    <3> QED
      BY <2>1, <2>2, <2>3, <3>1 DEF HoldsCopy
  <2> QED
    BY <2>4
<1>4. ASSUME NEW id \in Id, VerifyUiSlot(id) \/ Destroy(id)
      PROVE  \A i \in Known' : HoldsCopy(i)'
  <2>1. /\ copy' = [copy EXCEPT ![id] = NoCopy]
        /\ UNCHANGED <<metadata, lastPassword>>
    BY <1>4 DEF VerifyUiSlot, Destroy, dbVars, diskVars, ghostVars
  <2>2. ASSUME NEW i \in Known'
        PROVE  HoldsCopy(i)'
    <3>1. i \in Id /\ HoldsCopy(i)
      BY <2>1 DEF CopiesAreLast, Known
    <3>2. copy'[i] = NoCopy \/ copy'[i] = copy[i]
      BY <1>t, <2>1, <3>1
    <3> QED
      BY <1>x, <2>1, <3>1, <3>2 DEF HoldsCopy
  <2> QED
    BY <2>2
<1>5. ASSUME NEW ids \in SUBSET Id, Forget(ids)
      PROVE  \A i \in Known' : HoldsCopy(i)'
  <2>1. /\ copy' = copy
        /\ \A i \in Id : i \notin ids => lastPassword'[i] = lastPassword[i]
    BY <1>5 DEF Forget, copyVars
  <2>2. CASE RemoveCredentials(ids)
    <3>1. ASSUME NEW i \in Known'
          PROVE  HoldsCopy(i)'
      <4>1. i \in Id /\ i \in Known /\ i \notin ids
        BY <2>2 DEF RemoveCredentials, Known
      <4> QED
        BY <2>1, <4>1 DEF CopiesAreLast, HoldsCopy
    <3> QED
      BY <3>1
  <2>3. CASE RemoveSecretsOnly(ids) /\ \A i \in ids : ~HasCopy(i)
    <3>1. \A i \in ids : copy[i].password \notin Password
      BY <2>3, DBAssumption DEF HasCopy
    <3> QED
      BY <2>1, <2>3, <3>1 DEF RemoveSecretsOnly, CopiesAreLast, HoldsCopy, Known
  <2> QED
    BY <1>5, <1>w, <2>2, <2>3 DEF Forget
<1>6. ASSUME NEW id \in Id, SignOut(id)
      PROVE  \A i \in Known' : HoldsCopy(i)'
  BY <1>6, <1>u DEF SignOut, RemoveData, copyVars
<1>7. ASSUME UNCHANGED <<dbVars, copyVars, ghostVars>>
      PROVE  \A i \in Known' : HoldsCopy(i)'
  BY <1>7, <1>u DEF dbVars, diskVars, copyVars, ghostVars
<1>8. ASSUME NEW c \in Session, NEW data \in Data, ProcessStore(c, data)
      PROVE  \A i \in Known' : HoldsCopy(i)'
  BY <1>8, <1>u DEF ProcessStore, StoreData, copyVars
<1>9. ASSUME NEW c \in Session, ProcessResultReply(c)
      PROVE  \A i \in Known' : HoldsCopy(i)'
  <2>1. Validated(c) \in InfoType /\ Update(Validated(c))
    BY <1>9, ValidatedType DEF ProcessResultReply
  <2>2. copy' = [copy EXCEPT ![IdOf(Validated(c))] = NoCopy]
    BY <1>9 DEF ProcessResultReply, CredentialsUpdated, CopiesAreLast, CopyInv
  <2>3. \A i \in Id : i # IdOf(Validated(c)) => lastPassword'[i] = lastPassword[i]
    BY <1>9 DEF ProcessResultReply, Remember, TypeOK
  <2> QED
    BY <1>1, <2>1, <2>2, <2>3
<1>10. ASSUME OnEncryptedFSMounted \/ OnEncryptedFSUnmounting
       PROVE  \A i \in Known' : HoldsCopy(i)'
  BY <1>10, <1>u DEF OnEncryptedFSMounted, OnEncryptedFSUnmounting, OpenSecretsDB,
                     CloseSecretsDB, diskVars, copyVars, ghostVars
<1>11. ASSUME Backup \/ Restart
       PROVE  \A i \in Known' : HoldsCopy(i)'
  <2>1. \A i \in Id : copy'[i] = NoCopy
    BY <1>11, <1>w DEF Backup, Restart
  <2> QED
    BY <1>x, <2>1 DEF HoldsCopy, Known
<1>12. \A id \in Id : ~StoreFails(id)
  BY DEF StoreFails
<1> QED
  BY NextCases, <1>i, <1>2, <1>3, <1>4, <1>5, <1>6, <1>7, <1>8, <1>9, <1>10, <1>11, <1>12
     DEF CopiesAreLast, StartProcess, QueryUiSlot, ProcessError

(* Where nothing interferes, a reader of an identity gets the password stored
   last, or none if the storage is closed or the password not kept. *)
THEOREM PasswordsAreKept ==
  ASSUME Interference = {}
  PROVE  Spec => []PasswordIsLastStored
<1>1. Init => TypeOK /\ PasswordInv /\ CopiesAreLast
  <2>1. ASSUME Init
        PROVE  Known = {} /\ \A c \in Session : HoldsSession(c)
    BY <2>1 DEF Init, DBInit, Known, HoldsSession
  <2> QED
    BY <2>1, InitType DEF Init, DBInit, PasswordInv, Fresh, CacheAgrees,
                          CopiesAreLast, CopyInv
<1>2. TypeOK /\ PasswordInv /\ CopiesAreLast /\ [Next]_vars
        => (TypeOK /\ PasswordInv /\ CopiesAreLast)'
  <2>1. CASE Next
    BY <2>1, NextType, NextHoldsPassword, NextHoldsCopies
  <2>2. CASE UNCHANGED vars
    BY <2>2 DEF TypeOK, DBTypeOK, PasswordInv, Fresh, CacheAgrees, HoldsPassword,
                HoldsSession, CopiesAreLast, CopyInv, CopyHolds, HoldsCopy, Known, Found,
                vars, dbVars, diskVars, copyVars, ghostVars
  <2> QED
    BY <2>1, <2>2
<1>3. TypeOK /\ PasswordInv => PasswordIsLastStored
  <2>1. ASSUME TypeOK, PasswordInv, NEW id \in Known
        PROVE  \/ Credentials(id).password = lastPassword[id]
               \/ Credentials(id).password = Empty
                    /\ ~(open /\ metadata[id].storePassword)
    <3>1. DBTypeOK /\ HoldsPassword(id)
      BY <2>1 DEF TypeOK, PasswordInv
    <3> QED
      BY <3>1, LookupHolds
  <2> QED
    BY <2>1 DEF PasswordIsLastStored
<1> QED
  BY <1>1, <1>2, <1>3, PTL DEF Spec

--------------------------------------------------------------------------------
(* Where no statement of the secrets DB fails unnoticed and no data is too large
   for it, the data last stored is in the cache, or else in the DB, and the cache
   holds none while the DB is open. *)
HoldsData(id) ==
  /\ open => cachedBlobs[id] = Empty
  /\ lastData[id] = IF cachedBlobs[id] # Empty THEN cachedBlobs[id] ELSE blobs[id]

DataInv == \A id \in Id : HoldsData(id)

(* Every step keeps the data, and every identity's own. *)
LEMMA NextHoldsData ==
  ASSUME "write" \notin Interference, TooLarge = {}, TypeOK, DataInv, Next
  PROVE  DataInv'
<1>t. DBTypeOK /\ lastData \in [Id -> Data \cup {Empty}] /\ Empty \notin Data
  BY DBAssumption DEF TypeOK
<1>u. ASSUME UNCHANGED <<open, cachedBlobs, blobs, lastData>>
      PROVE  DataInv'
  BY <1>u DEF DataInv, HoldsData
<1>1. ASSUME NEW info \in InfoType, Update(info), UNCHANGED lastData
      PROVE  DataInv'
  BY <1>1, <1>t, <1>u, UpdateEffect
<1>2. ASSUME NEW id \in Id \cup {NewId}, StoreCredentials(id)
      PROVE  DataInv'
  BY <1>1, <1>2, ClientInfoType DEF StoreCredentials
<1>3. ASSUME NEW ids \in SUBSET Id, Forget(ids)
      PROVE  DataInv'
  <2>1. /\ open /\ UNCHANGED <<open, cachedBlobs>>
        /\ blobs' = [id \in Id |-> IF id \in ids THEN Empty ELSE blobs[id]]
        /\ lastData' = [id \in Id |-> IF id \in ids THEN Empty ELSE lastData[id]]
    BY <1>3 DEF Forget, RemoveCredentials, RemoveSecretsOnly, DropSecrets
  <2> QED
    BY <2>1 DEF DataInv, HoldsData
<1>4. ASSUME NEW id \in Id, SignOut(id)
      PROVE  DataInv'
  BY <1>4, <1>t DEF SignOut, RemoveData, DataInv, HoldsData, DBTypeOK
<1>5. ASSUME NEW c \in Session, NEW data \in Data, ProcessStore(c, data)
      PROVE  DataInv'
  <2>1. session[c].id \in Id
    BY <1>5 DEF ProcessStore, TypeOK
  <2> QED
    BY <1>5, <1>t, <2>1 DEF ProcessStore, StoreData, DataInv, HoldsData, DBTypeOK
<1>6. ASSUME NEW c \in Session, ProcessResultReply(c)
      PROVE  DataInv'
  BY <1>1, <1>6, ValidatedType DEF ProcessResultReply
<1>7. ASSUME OnEncryptedFSMounted
      PROVE  DataInv'
  <2>1. OpenSecretsDB({}) /\ UNCHANGED lastData
    BY <1>7 DEF OnEncryptedFSMounted, Orderly, ghostVars
  <2>2. ASSUME NEW id \in Id
        PROVE  /\ cachedBlobs'[id] = Empty
               /\ blobs'[id] = IF cachedBlobs[id] # Empty THEN cachedBlobs[id]
                                                          ELSE blobs[id]
    BY <1>t, <2>1 DEF OpenSecretsDB, ClearCache, DBTypeOK
  <2> QED
    BY <2>1, <2>2 DEF DataInv, HoldsData
<1>8. ASSUME OnEncryptedFSUnmounting
      PROVE  DataInv'
  BY <1>8 DEF OnEncryptedFSUnmounting, CloseSecretsDB, diskVars, ghostVars, DataInv,
              HoldsData
<1>9. ASSUME LoseCache
      PROVE  DataInv'
  BY <1>9 DEF LoseCache, RecreateDB, ClearCache, diskVars, DataInv, HoldsData
<1> QED
  BY NextCases, <1>u, <1>2, <1>3, <1>4, <1>5, <1>6, <1>7, <1>8, <1>9
     DEF StoreFails, QueryInfo, VerifyUiSlot, Destroy, StartProcess, QueryUiSlot,
         ProcessError, dbVars, diskVars, ghostVars

(* A reader gets the data that a plug-in has stored last, or none while the
   secrets DB is closed, whatever clients do to the identity meanwhile. *)
THEOREM DataIsKept ==
  ASSUME "write" \notin Interference, TooLarge = {}
  PROVE  Spec => []DataIsLastStored
<1>1. Init => DataInv
  BY DEF Init, DBInit, DataInv, HoldsData
<1>2. TypeOK /\ DataInv /\ [Next]_vars => DataInv'
  <2>1. CASE Next
    BY <2>1, NextHoldsData
  <2>2. CASE UNCHANGED vars
    BY <2>2 DEF DataInv, HoldsData, vars, dbVars, diskVars, ghostVars
  <2> QED
    BY <2>1, <2>2
<1>3. DataInv => DataIsLastStored
  BY DEF DataInv, HoldsData, DataIsLastStored, LoadData, Known
<1> QED
  BY <1>1, <1>2, <1>3, StoredTypeCorrect, PTL DEF Spec

--------------------------------------------------------------------------------
(* The refinement of Vault.  No user name is held without its password, so that an
   entry of the cache without a password is passed over when the DB is opened; the
   cache keeps nothing for the DB while that is open, nor ever for an identity that
   is gone. *)
NotToKeep(id) == cachedSecrets[id] # NoRow => ~cachedSecrets[id].storePassword

VaultRow(id) ==
  /\ Named(Found(cachedSecrets, id))
  /\ open => NotToKeep(id)
  /\ id \notin Known => Found(secrets, id).password = Empty /\ NotToKeep(id)
  /\ id \in Known /\ metadata[id].storePassword => Named(Found(secrets, id))

VaultInv ==
  /\ DiskInv
  /\ \A id \in Id : VaultRow(id)
  /\ \A c \in Session : session[c] # NoRow => Named(session[c])
  /\ CopyInv

(* What updateCredentials() does to an identity, new or old, whose name comes with
   its password. *)
LEMMA UpdateRow ==
  ASSUME "write" \notin Interference, TypeOK, VaultInv,
         NEW info \in InfoType, Update(info), Named(SecretsOf(info)),
         \/ info.id = NewId
         \/ /\ info.id \in Known
            /\ info.storePassword = metadata[info.id].storePassword
  PROVE  LET new == IdOf(info)
             keep == info.storePassword
             p == SecretsOf(info).password
         IN /\ new \in Id /\ new \in Known' /\ UNCHANGED open
            /\ metadata'[new].storePassword = keep
            /\ info.id = NewId => new \notin Known /\ secrets[new] = NoRow
                                  /\ cachedSecrets[new] = NoRow
            /\ info.id # NewId => new = info.id
            /\ keep /\ open => Found(cachedSecrets, new).password = Empty
            /\ ~keep => Found(secrets, new).password = Empty
            /\ ~HasSecrets(info) => /\ secrets'[new] = secrets[new]
                                    /\ cachedSecrets'[new] = cachedSecrets[new]
            /\ HasSecrets(info) /\ keep /\ open =>
                 /\ Found(secrets', new).password = p
                 /\ cachedSecrets'[new] = cachedSecrets[new]
            /\ HasSecrets(info) /\ ~(keep /\ open) =>
                 /\ secrets'[new] = secrets[new]
                 /\ Found(cachedSecrets', new).password = p
            /\ \A id \in Id : id # new => /\ metadata'[id] = metadata[id]
                                          /\ secrets'[id] = secrets[id]
                                          /\ cachedSecrets'[id] = cachedSecrets[id]
            /\ \A id \in Id : VaultRow(id)'
<1> DEFINE new == IdOf(info)
           keep == info.storePassword
           row == [secretName |-> info.secretName, storePassword |-> keep,
                   validated |-> info.validated]
           entry == [user |-> SecretsOf(info).user,
                     password |-> SecretsOf(info).password, storePassword |-> keep]
<1>1. DBTypeOK /\ MaxId \in Nat /\ lastId \in Nat /\ NewId \notin Id
  BY DBAssumption DEF TypeOK, DBTypeOK, NewId, Id
<1>2. UpdateCredentials(info, TRUE)
  BY DEF Update
<1>3. /\ new \in Id /\ UNCHANGED open
      /\ info.id = NewId => new = lastId + 1 /\ metadata'[new] = row
      /\ info.id # NewId => new = info.id
  <2>1. new \in Id /\ UNCHANGED open
    BY <1>1, UpdateEffect
  <2>2. info.id = NewId => /\ new = lastId + 1 /\ lastId' = lastId + 1
                           /\ metadata'[new] = row
    BY <1>1, UpdateEffect
  <2>3. info.id # NewId => new = info.id
    BY <1>1, UpdateEffect
  <2> QED
    BY <2>1, <2>2, <2>3
<1>4. metadata'[new] = row
  <2>1. CASE info.id # NewId
    <3>1. metadata[info.id] # NoRow
      BY <2>1 DEF Known
    <3> QED
      BY <1>1, <1>3, <2>1, <3>1, UpdateEffect
  <2> QED
    BY <1>3, <2>1
<1>5. SecretsOf(info) # NoRow /\ entry # NoRow /\ row # NoRow
  <2>1. SecretsOf(info) \in Row /\ entry \in CachedRow /\ row \in Identity
    BY DEF SecretsOf, HasUser, Row, CachedRow, InfoType, Identity
  <2> QED
    BY <2>1, DBAssumption
<1>6. \A id \in Id : id # new => /\ metadata'[id] = metadata[id]
                                /\ secrets'[id] = secrets[id]
                                /\ cachedSecrets'[id] = cachedSecrets[id]
  <2>1. ASSUME NEW id \in Id, id # new
        PROVE  /\ metadata'[id] = metadata[id]
               /\ secrets'[id] = secrets[id]
               /\ cachedSecrets'[id] = cachedSecrets[id]
    BY <1>1, <2>1, UpdateEffect
  <2> QED
    BY <2>1
<1>7. \/ /\ ~HasSecrets(info)
         /\ secrets'[new] = secrets[new] /\ cachedSecrets'[new] = cachedSecrets[new]
      \/ /\ HasSecrets(info) /\ keep /\ open
         /\ secrets'[new] = SecretsOf(info) /\ cachedSecrets'[new] = cachedSecrets[new]
      \/ /\ HasSecrets(info) /\ ~(keep /\ open)
         /\ secrets'[new] = secrets[new] /\ cachedSecrets'[new] = entry
  BY <1>1, <1>2, <1>3 DEF UpdateCredentials, UpdateSecrets, CacheSecrets, DBTypeOK
<1>8. new \in Known'
  BY <1>3, <1>4, <1>5 DEF Known
<1>9. info.id = NewId => /\ new \notin Known /\ secrets[new] = NoRow
                         /\ cachedSecrets[new] = NoRow
  BY <1>1, <1>3 DEF VaultInv, DiskInv, Fresh, Known, Id
<1>10. info.id # NewId => new \in Known /\ metadata[new].storePassword = keep
  BY <1>3
<1>11. /\ keep /\ open => Found(cachedSecrets, new) = [user |-> Empty, password |-> Empty]
       /\ ~keep => Found(secrets, new).password = Empty
  <2>1. CASE info.id = NewId
    BY <1>9, <2>1 DEF Found
  <2>2. CASE info.id # NewId
    <3>1. ~keep => Found(secrets, new).password = Empty
      BY <1>10, <2>2 DEF VaultInv, DiskInv, NotOnDisk
    <3>2. keep /\ open => cachedSecrets[new] = NoRow
      BY <1>3, <1>10, <2>2 DEF VaultInv, VaultRow, NotToKeep, DiskInv, CacheAgrees
    <3> QED
      BY <3>1, <3>2 DEF Found
  <2> QED
    BY <2>1, <2>2
<1>12. /\ secrets'[new] = SecretsOf(info) =>
            /\ Found(secrets', new).password = SecretsOf(info).password
            /\ Named(Found(secrets', new))
       /\ cachedSecrets'[new] = entry =>
            /\ Found(cachedSecrets', new).password = SecretsOf(info).password
            /\ Named(Found(cachedSecrets', new))
  BY <1>5 DEF Found, Named
<1>13. ASSUME NEW id \in Id, id # new
       PROVE  VaultRow(id)'
  BY <1>3, <1>6, <1>13 DEF VaultInv, VaultRow, NotToKeep, Named, Found, Known
<1>14. ASSUME NEW id \in Id, id = new
       PROVE  VaultRow(id)'
  <2>1. Named(Found(cachedSecrets, id)) /\ (open => NotToKeep(id))
    BY <1>14 DEF VaultInv, VaultRow
  <2>2. keep => Named(Found(secrets, id))
    <3>1. CASE info.id = NewId
      BY <1>9, <1>14, <3>1 DEF Found, Named
    <3>2. CASE info.id # NewId
      BY <1>10, <1>14, <3>2 DEF VaultInv, VaultRow
    <3> QED
      BY <3>1, <3>2
  <2>3. Named(Found(cachedSecrets', id))
    BY <1>7, <1>12, <1>14, <2>1 DEF Found, Named
  <2>4. open' => NotToKeep(id)'
    BY <1>3, <1>7, <1>14, <2>1 DEF NotToKeep
  <2>5. metadata'[id].storePassword => Named(Found(secrets', id))
    BY <1>4, <1>7, <1>12, <1>14, <2>2 DEF Found, Named
  <2> QED
    BY <1>8, <1>14, <2>3, <2>4, <2>5 DEF VaultRow, Named
<1>15. \A id \in Id : VaultRow(id)'
  BY <1>13, <1>14
<1> QED
  BY <1>3, <1>4, <1>6, <1>7, <1>8, <1>9, <1>11, <1>12, <1>15

(* The steps of Vault, as what they do to one identity. *)
Durable == [id \in Id |-> Found(secrets, id).password]
Volatile == [id \in Id |-> IF id \in Known THEN Found(cachedSecrets, id).password
                                          ELSE Empty]
Kept == {id \in Known : metadata[id].storePassword}

(* updateCredentials() is a Put or a Describe, or writes back what was read. *)
LEMMA UpdateRefines ==
  ASSUME "write" \notin Interference, TypeOK, VaultInv,
         NEW info \in InfoType, Update(info), Named(SecretsOf(info)),
         \/ info.id = NewId
         \/ /\ info.id \in Known
            /\ info.storePassword = metadata[info.id].storePassword,
         \/ ~HasSecrets(info)
         \/ info.password \in Password
         \/ /\ info.id \in Known
            /\ info.password = Empty /\ Credentials(info.id).password = Empty
  PROVE  V!Next \/ UNCHANGED V!vars
<1> DEFINE new == IdOf(info)
           keep == info.storePassword
           p == SecretsOf(info).password
<1>1. /\ new \in Id /\ new \in Known' /\ UNCHANGED open
      /\ metadata'[new].storePassword = keep
      /\ info.id = NewId => new \notin Known /\ secrets[new] = NoRow
                            /\ cachedSecrets[new] = NoRow
      /\ info.id # NewId => new = info.id
      /\ keep /\ open => Found(cachedSecrets, new).password = Empty
      /\ ~keep => Found(secrets, new).password = Empty
      /\ ~HasSecrets(info) => /\ secrets'[new] = secrets[new]
                              /\ cachedSecrets'[new] = cachedSecrets[new]
      /\ HasSecrets(info) /\ keep /\ open =>
           /\ Found(secrets', new).password = p
           /\ cachedSecrets'[new] = cachedSecrets[new]
      /\ HasSecrets(info) /\ ~(keep /\ open) =>
           /\ secrets'[new] = secrets[new]
           /\ Found(cachedSecrets', new).password = p
      /\ \A id \in Id : id # new => /\ metadata'[id] = metadata[id]
                                    /\ secrets'[id] = secrets[id]
                                    /\ cachedSecrets'[id] = cachedSecrets[id]
  BY UpdateRow
<1> HIDE DEF new
<1>2. keep \in BOOLEAN /\ NewId \notin Id
  BY DBAssumption DEF InfoType, NewId, Id
<1>3. Kept' = IF keep THEN Kept \cup {new} ELSE Kept \ {new}
  BY <1>1 DEF Kept, Known
<1>4. \A id \in Id : id # new => /\ Durable'[id] = Durable[id]
                                 /\ Volatile'[id] = Volatile[id]
  BY <1>1 DEF Durable, Volatile, Known, Found
<1>5. /\ Durable'[new] = Found(secrets', new).password
      /\ Volatile'[new] = Found(cachedSecrets', new).password
      /\ Durable[new] = Found(secrets, new).password
      /\ Volatile[new] = Found(cachedSecrets, new).password
  BY <1>1 DEF Durable, Volatile, Found, Known
<1>6. ASSUME HasSecrets(info), info.password \in Password
      PROVE  V!Put(new, p, keep)
  <2>1. p = info.password
    BY <1>6, DBAssumption DEF SecretsOf
  <2>2. CASE keep /\ open
    <3>1. Durable' = [Durable EXCEPT ![new] = p] /\ Volatile' = [Volatile EXCEPT ![new] = Empty]
      <4>1. Durable'[new] = p /\ Volatile'[new] = Empty
        BY <1>1, <1>5, <1>6, <2>2 DEF Found
      <4>2. /\ Durable = [id \in Id |-> Durable[id]] /\ Durable' = [id \in Id |-> Durable'[id]]
            /\ Volatile = [id \in Id |-> Volatile[id]] /\ Volatile' = [id \in Id |-> Volatile'[id]]
        BY DEF Durable, Volatile
      <4> QED
        BY <1>1, <1>4, <4>1, <4>2
    <3> QED
      BY <1>1, <1>3, <2>2, <3>1 DEF V!Put, Durable, Volatile, Kept
  <2>3. CASE ~(keep /\ open)
    <3>1. /\ Volatile' = [Volatile EXCEPT ![new] = p]
          /\ Durable' = Durable
          /\ ~keep => Durable' = [Durable EXCEPT ![new] = Empty]
      <4>1. Durable'[new] = Durable[new] /\ Volatile'[new] = p
        BY <1>1, <1>5, <1>6, <2>3 DEF Found
      <4>2. ~keep => Durable[new] = Empty
        BY <1>1, <1>5
      <4>3. /\ Durable = [id \in Id |-> Durable[id]] /\ Durable' = [id \in Id |-> Durable'[id]]
            /\ Volatile = [id \in Id |-> Volatile[id]] /\ Volatile' = [id \in Id |-> Volatile'[id]]
        BY DEF Durable, Volatile
      <4> QED
        BY <1>1, <1>4, <4>1, <4>2, <4>3
    <3> QED
      BY <1>1, <1>3, <2>3, <3>1 DEF V!Put, Durable, Volatile, Kept
  <2> QED
    BY <2>2, <2>3
<1>7. ASSUME Durable'[new] = Durable[new], Volatile'[new] = Volatile[new]
      PROVE  Durable' = Durable /\ Volatile' = Volatile
  <2>1. Durable' = [id \in Id |-> Durable'[id]] /\ Volatile' = [id \in Id |-> Volatile'[id]]
    BY DEF Durable, Volatile
  <2> QED
    BY <1>1, <1>4, <1>7, <2>1 DEF Durable, Volatile
<1>8. ASSUME info.id = NewId, ~HasSecrets(info)
      PROVE  V!Describe(new, keep)
  <2>1. Durable[new] = Empty /\ Volatile[new] = Empty
    BY <1>1, <1>5, <1>8 DEF Found
  <2>2. Durable' = Durable /\ Volatile' = Volatile
    BY <1>1, <1>5, <1>7, <1>8 DEF Found
  <2> QED
    BY <1>1, <1>3, <2>1, <2>2 DEF V!Describe, Durable, Volatile, Kept
<1>9. ASSUME info.id \in Known,
             \/ ~HasSecrets(info)
             \/ info.password = Empty /\ Credentials(info.id).password = Empty
      PROVE  UNCHANGED V!vars
  <2>1. info.id # NewId /\ new \in Known /\ metadata[new].storePassword = keep
        /\ new = info.id
    BY <1>1, <1>2, <1>9 DEF Known
  <2>2. Kept' = Kept
    BY <1>3, <2>1 DEF Kept
  <2>3. CASE ~HasSecrets(info)
    BY <1>1, <1>5, <1>7, <2>2, <2>3 DEF Found, V!vars, Durable, Volatile, Kept
  <2>4. CASE HasSecrets(info) /\ info.password = Empty /\ Credentials(new).password = Empty
    <3>1. p = Empty /\ Lookup(new).password = Empty
      BY <2>1, <2>4, DBAssumption DEF SecretsOf, Credentials, Info, Known
    <3>2. CASE keep /\ open
      BY <1>1, <1>5, <1>7, <2>1, <2>2, <2>4, <3>1, <3>2
         DEF Lookup, Found, V!vars, Durable, Volatile, Kept
    <3>3. CASE ~(keep /\ open)
      BY <1>1, <1>5, <1>7, <2>1, <2>2, <2>4, <3>1, <3>3
         DEF Lookup, Found, V!vars, Durable, Volatile, Kept
    <3> QED
      BY <3>2, <3>3
  <2> QED
    BY <1>9, <2>1, <2>3, <2>4
<1>10. info.password \in Password => HasSecrets(info)
  BY DBAssumption DEF HasSecrets
<1>11. p \in Password \/ info.password \notin Password
  BY DBAssumption DEF SecretsOf
<1>12. CASE info.password \in Password
  BY <1>1, <1>2, <1>6, <1>10, <1>11, <1>12 DEF V!Next
<1>13. CASE info.id = NewId /\ ~HasSecrets(info)
  BY <1>1, <1>2, <1>8, <1>13 DEF V!Next
<1> QED
  BY <1>2, <1>9, <1>12, <1>13 DEF Known

(* What a reader finds is a name with its password. *)
LEMMA CredentialsNamed ==
  ASSUME TypeOK, VaultInv, NEW id \in Known
  PROVE  Named(Credentials(id))
<1>1. metadata[id] # NoRow /\ id \in Id /\ Credentials(id) = Info(id)
  BY DEF Known, Credentials
<1>2. Named(Lookup(id))
  <2>1. CASE metadata[id].storePassword /\ open
    BY <1>1, <2>1 DEF Lookup, VaultInv, VaultRow
  <2>2. CASE ~(metadata[id].storePassword /\ open)
    <3>1. Lookup(id) = Found(cachedSecrets, id)
      BY <2>2 DEF Lookup
    <3> QED
      BY <1>1, <3>1 DEF VaultInv, VaultRow
  <2> QED
    BY <2>1, <2>2
<1> QED
  BY <1>1, <1>2 DEF Info, Named

(* So a session that completes its parameters from it, and does not give a name
   alone, holds one too. *)
LEMMA CompletedNamed ==
  ASSUME "name" \notin Interference, TypeOK, VaultInv, NEW id \in Id,
         NEW user \in Name \cup {Absent},
         NEW password \in Password \cup {Empty, Absent},
         user # Absent => Credentials(id).secretName,
         ~(Credentials(id).secretName /\ (user # Absent \/ password = Empty))
  PROVE  Named(Completed(id, user, password))
<1>1. user = Absent /\ Empty # Absent /\ Empty \notin Password /\ Absent \notin Password
  BY DBAssumption
<1>2. CASE id \notin Known
  <2>1. Credentials(id).id = NewId
    BY <1>2 DEF Known, Credentials, NewInfo
  <2> QED
    BY <1>1, <2>1 DEF Completed, Named
<1>3. CASE id \in Known
  <2>1. /\ Credentials(id).id = id /\ id # NewId
        /\ Named(Credentials(id))
        /\ ~Credentials(id).secretName => Credentials(id).user = Empty
    BY <1>3, CredentialsNamed, DBAssumption DEF Known, Credentials, Info, Id, NewId
  <2>2. /\ Completed(id, user, password).user = Credentials(id).user
        /\ Completed(id, user, password).password =
             IF password = Absent THEN Credentials(id).password ELSE password
    BY <1>1, <2>1 DEF Completed
  <2> QED
    BY <1>1, <2>1, <2>2 DEF Named
<1> QED
  BY <1>2, <1>3

(* What a session writes back. *)
LEMMA ValidatedNamed ==
  ASSUME TypeOK, VaultInv, NEW c \in Session, session[c] # NoRow
  PROVE  LET info == Validated(c)
         IN /\ info \in InfoType /\ Named(SecretsOf(info))
            /\ \/ /\ info.id = NewId
                  /\ info.password \in Password \/ ~HasSecrets(info)
               \/ /\ info.id \in Known
                  /\ info.storePassword = metadata[info.id].storePassword
                  /\ \/ info.password \in Password
                     \/ /\ info.password = Empty
                        /\ Credentials(info.id).password = Empty
<1> DEFINE id == session[c].id
           info == Validated(c)
<1>1. /\ id \in Id /\ session[c].password \in Password \cup {Empty}
      /\ Named(session[c])
  BY DEF TypeOK, VaultInv
<1>2. /\ info \in InfoType /\ info.id = Credentials(id).id
      /\ info.storePassword = Credentials(id).storePassword
  BY ValidatedType
<1>3. /\ Credentials(id) \in InfoType
      /\ id \in Known => Credentials(id).id = id /\ Credentials(id).password # Absent
      /\ id \notin Known => Credentials(id) = NewInfo
      /\ id \in Known => Credentials(id).storePassword = metadata[id].storePassword
  BY <1>1, CredentialsType DEF TypeOK
<1>4. /\ info.password = IF session[c].password # Empty THEN session[c].password
                                                       ELSE Credentials(id).password
      /\ info.secretName = Credentials(id).secretName
      /\ info.user \in {session[c].user, Credentials(id).user}
      /\ session[c].user = Empty => info.user = Credentials(id).user
  BY <1>3 DEF Validated, InfoType
<1>5. Empty # Absent /\ Empty \notin Password /\ Absent \notin Password
  BY DBAssumption
<1>6. CASE id \notin Known
  <2>1. info.id = NewId /\ ~info.secretName
    BY <1>2, <1>3, <1>4, <1>6 DEF NewInfo
  <2>2. info.password \in Password \cup {Absent}
    BY <1>1, <1>3, <1>4, <1>6 DEF NewInfo
  <2> QED
    BY <1>2, <2>1, <2>2 DEF SecretsOf, Named, HasUser, HasSecrets
<1>7. CASE id \in Known
  <2>1. info.id = id /\ info.password \in Password \cup {Empty}
    BY <1>1, <1>2, <1>3, <1>4, <1>7 DEF InfoType
  <2>2. Named(Credentials(id))
    BY <1>7, CredentialsNamed
  <2>3. info.password = Empty => info.user = Empty /\ Credentials(id).password = Empty
    BY <1>1, <1>4, <1>5, <2>2 DEF Named
  <2>4. Named(SecretsOf(info))
    BY <1>5, <2>1, <2>3 DEF SecretsOf, Named
  <2> QED
    BY <1>2, <1>3, <1>7, <2>1, <2>3, <2>4
<1> QED
  BY <1>6, <1>7

(* Every step is one of Vault or leaves it alone. *)
LEMMA NextVault ==
  ASSUME Interference \subseteq {"store", "remove"}, TypeOK, VaultInv, Next
  PROVE  VaultInv' /\ (V!Next \/ UNCHANGED V!vars)
<1>t. DBTypeOK /\ "write" \notin Interference /\ "options" \notin Interference
      /\ "name" \notin Interference /\ "erase" \notin Interference /\ open \in BOOLEAN
  BY DEF TypeOK, DBTypeOK
<1>e. CacheDrained
  BY DEF VaultInv, VaultRow, NotToKeep, DiskInv, CacheAgrees, CacheDrained, Known
<1>d. DiskInv /\ DiskInv' /\ CopyInv'
  BY <1>t, <1>e, NextKeepsDisk, NextKeepsCopies DEF VaultInv
<1>u. ASSUME UNCHANGED <<metadata, secrets, open, cachedSecrets>>
      PROVE  (\A id \in Id : VaultRow(id)') /\ UNCHANGED V!vars
  BY <1>u DEF V!vars, VaultInv, VaultRow, NotToKeep, Found, Known
<1>1. ASSUME NEW id \in Id \cup {NewId}, id = NewId \/ id \in Known,
             StoreCredentials(id)
      PROVE  VaultInv' /\ (V!Next \/ UNCHANGED V!vars)
  <2>1. PICK given \in ClientInfo(id) :
          LET info == Updated(given)
          IN /\ ~(info.user \in Name /\ info.password \in {Absent, Empty})
             /\ Update(info)
             /\ UNCHANGED session
    BY <1>1, <1>t DEF StoreCredentials, Orderly
  <2> DEFINE info == Updated(given)
  <2>2. /\ info \in InfoType /\ info.id = id
        /\ id # NewId => info.storePassword = metadata[id].storePassword
        /\ Named(SecretsOf(info))
        /\ \/ info.password \in Password
           \/ ~HasSecrets(info)
           \/ /\ id \in Known
              /\ info.password = Empty /\ Credentials(id).password = Empty
    BY <1>1, <1>t, <2>1, UpdatedInfo DEF VaultInv
  <2> HIDE DEF info
  <2>3. Update(info) /\ UNCHANGED session
    BY <2>1 DEF info
  <2>4. \A i \in Id : VaultRow(i)'
    BY <1>1, <1>t, <2>2, <2>3, UpdateRow
  <2>5. V!Next \/ UNCHANGED V!vars
    BY <1>1, <1>t, <2>2, <2>3, UpdateRefines
  <2> QED
    BY <1>d, <2>3, <2>4, <2>5 DEF VaultInv, Named
<1>c. ASSUME NEW id \in Id, StoreFails(id) \/ QueryInfo(id) \/ VerifyUiSlot(id) \/ Destroy(id)
      PROVE  VaultInv' /\ UNCHANGED V!vars
  BY <1>c, <1>d, <1>u DEF StoreFails, QueryInfo, VerifyUiSlot, Destroy, VaultInv, Named,
                          dbVars, diskVars
<1>2. ASSUME NEW ids \in SUBSET Id, Forget(ids)
      PROVE  VaultInv' /\ V!Next
  <2>1. /\ open /\ UNCHANGED <<open, cachedSecrets, session>>
        /\ \A id \in Id : secrets'[id] = IF id \in ids THEN NoRow ELSE secrets[id]
        /\ \/ metadata' = metadata
           \/ metadata' = [id \in Id |-> IF id \in ids THEN NoRow ELSE metadata[id]]
    BY <1>2 DEF Forget, RemoveCredentials, RemoveSecretsOnly, DropSecrets
  <2>2. \A id \in Id : VaultRow(id)'
    BY <2>1 DEF VaultInv, VaultRow, NotToKeep, Named, Found, Known
  <2>3. Durable' = [id \in Id |-> IF id \in ids THEN Empty ELSE Durable[id]]
    BY <2>1 DEF Durable, Found
  <2>4. \/ UNCHANGED <<Volatile, Kept>>
        \/ /\ Volatile' = [id \in Id |-> IF id \in ids THEN Empty ELSE Volatile[id]]
           /\ Kept' = Kept \ ids
    BY <2>1 DEF Volatile, Kept, Known, Found
  <2>5. V!Remove(ids)
    BY <2>1, <2>3, <2>4 DEF V!Remove, Durable, Volatile, Kept
  <2> QED
    BY <1>d, <2>1, <2>2, <2>5 DEF VaultInv, V!Next, Named
<1>3. ASSUME NEW id \in Id, SignOut(id)
      PROVE  VaultInv' /\ UNCHANGED V!vars
  BY <1>3, <1>d, <1>u DEF SignOut, RemoveData, VaultInv, Named
<1>4. ASSUME NEW c \in Session, NEW s, Named(s), UNCHANGED dbVars,
             session' = [session EXCEPT ![c] = s]
      PROVE  VaultInv' /\ UNCHANGED V!vars
  <2>1. \A d \in Session : session'[d] # NoRow => Named(session'[d])
    BY <1>4 DEF VaultInv, TypeOK
  <2> QED
    BY <1>4, <1>d, <1>u, <2>1 DEF VaultInv, dbVars, diskVars, Named
<1>5. ASSUME NEW c \in Session, NEW id \in Id, NEW user \in Name \cup {Absent},
             NEW password \in Password \cup {Empty, Absent},
             StartProcess(c, id, user, password)
      PROVE  VaultInv' /\ UNCHANGED V!vars
  <2>1. Named(Completed(id, user, password))
    BY <1>5, <1>t, CompletedNamed DEF StartProcess, Orderly
  <2> QED
    BY <1>4, <1>5, <2>1 DEF StartProcess
<1>6. ASSUME NEW c \in Session, NEW user \in Name \cup {Empty},
             NEW password \in Password \cup {Empty}, QueryUiSlot(c, user, password)
      PROVE  VaultInv' /\ UNCHANGED V!vars
  <2> DEFINE s == [id |-> session[c].id, user |-> user, password |-> password, own |-> TRUE]
  <2>1. Named(s)
    BY <1>6, DBAssumption DEF QueryUiSlot, Named
  <2>2. session' = [session EXCEPT ![c] = s] /\ UNCHANGED dbVars
    BY <1>6 DEF QueryUiSlot
  <2> QED
    BY <1>4, <2>1, <2>2
<1>7. ASSUME NEW c \in Session, NEW data \in Data, ProcessStore(c, data)
      PROVE  VaultInv' /\ UNCHANGED V!vars
  BY <1>7, <1>d, <1>u DEF ProcessStore, StoreData, VaultInv, Named
<1>8. ASSUME NEW c \in Session, ProcessResultReply(c)
      PROVE  VaultInv' /\ (V!Next \/ UNCHANGED V!vars)
  <2>1. /\ session[c] # NoRow /\ Update(Validated(c))
        /\ session' = [session EXCEPT ![c] = NoRow]
    BY <1>8 DEF ProcessResultReply
  <2> DEFINE info == Validated(c)
  <2>2. /\ info \in InfoType /\ Named(SecretsOf(info))
        /\ \/ /\ info.id = NewId
              /\ info.password \in Password \/ ~HasSecrets(info)
           \/ /\ info.id \in Known
              /\ info.storePassword = metadata[info.id].storePassword
              /\ \/ info.password \in Password
                 \/ /\ info.password = Empty
                    /\ Credentials(info.id).password = Empty
    BY <2>1, ValidatedNamed
  <2> HIDE DEF info
  <2>3. Update(info)
    BY <2>1 DEF info
  <2>4. \A i \in Id : VaultRow(i)'
    BY <1>t, <2>2, <2>3, UpdateRow
  <2>5. V!Next \/ UNCHANGED V!vars
    BY <1>t, <2>2, <2>3, UpdateRefines
  <2>6. \A d \in Session : session'[d] # NoRow => Named(session'[d])
    BY <2>1 DEF VaultInv, TypeOK
  <2> QED
    BY <1>d, <2>4, <2>5, <2>6 DEF VaultInv, Named
<1>9. ASSUME NEW c \in Session, ProcessError(c)
      PROVE  VaultInv' /\ UNCHANGED V!vars
  <2>1. \A d \in Session : session'[d] # NoRow => Named(session'[d])
    BY <1>9 DEF ProcessError, VaultInv, TypeOK
  <2> QED
    BY <1>9, <1>d, <1>u, <2>1 DEF ProcessError, VaultInv, dbVars, diskVars, Named
<1>10. ASSUME OnEncryptedFSMounted
       PROVE  VaultInv' /\ V!Next
  <2>1. OpenSecretsDB({}) /\ UNCHANGED session
    BY <1>10, <1>t DEF OnEncryptedFSMounted, Orderly, ghostVars
  <2>2. /\ ~open /\ open' /\ UNCHANGED metadata
        /\ \A id \in Id : cachedSecrets'[id] = NoRow
        /\ \A id \in Id : secrets'[id] = IF Flushed(id) THEN ToStore(cachedSecrets[id])
                                                     ELSE secrets[id]
    BY <2>1 DEF OpenSecretsDB, ClearCache
  <2>3. ASSUME NEW id \in Id
        PROVE  /\ Found(secrets', id).password =
                    IF id \in Kept /\ Volatile[id] # Empty THEN Volatile[id] ELSE Durable[id]
               /\ VaultRow(id)'
    <3>1. VaultRow(id)
      BY DEF VaultInv
    <3>2. /\ Found(cachedSecrets', id) = [user |-> Empty, password |-> Empty]
          /\ NotToKeep(id)'
      BY <2>2 DEF Found, NotToKeep
    <3>3. CASE Flushed(id)
      <4> DEFINE e == cachedSecrets[id]
      <4>1. e \in CachedRow /\ e # NoRow /\ ToStore(e) \in Row /\ ToStore(e) # NoRow
        BY <1>t, <3>3, DBAssumption DEF Flushed, DBTypeOK, CachedRow, ToStore, Row
      <4>2. /\ Found(secrets', id) = ToStore(e)
            /\ Found(cachedSecrets, id) = [user |-> e.user, password |-> e.password]
        BY <2>2, <3>3, <4>1 DEF Found, ToStore
      <4>3. CASE e.storePassword
        <5>1. id \in Known /\ metadata[id].storePassword /\ id \in Kept
          BY <1>d, <3>1, <4>1, <4>3 DEF VaultRow, NotToKeep, DiskInv, CacheAgrees, Kept
        <5>2. e.password # Empty /\ ToStore(e) = [user |-> e.user, password |-> e.password]
          BY <3>1, <3>3, <4>2, <4>3 DEF VaultRow, Named, Flushed, ToStore
        <5>3. Volatile[id] = e.password
          BY <4>2, <5>1 DEF Volatile
        <5> QED
          BY <2>2, <3>1, <3>2, <4>2, <5>1, <5>2, <5>3 DEF VaultRow, Named, Known
      <4>4. CASE ~e.storePassword
        <5>1. id \notin Kept /\ Durable[id] = Empty
              /\ (id \in Known => ~metadata[id].storePassword)
          BY <1>d, <3>1, <4>1, <4>4
             DEF Kept, VaultRow, DiskInv, NotOnDisk, CacheAgrees, Durable, Known
        <5> QED
          BY <2>2, <3>2, <4>2, <4>4, <5>1 DEF ToStore, VaultRow, Named, Known
      <4> QED
        BY <4>1, <4>3, <4>4 DEF CachedRow
    <3>4. CASE ~Flushed(id)
      <4>1. Found(secrets', id) = Found(secrets, id)
        BY <2>2, <3>4 DEF Found
      <4>2. id \in Kept => Volatile[id] = Empty
        <5>1. ASSUME id \in Kept, cachedSecrets[id] # NoRow
              PROVE  cachedSecrets[id].password = Empty
          BY <1>d, <3>4, <5>1 DEF Kept, DiskInv, CacheAgrees, Flushed, ToStore
        <5> QED
          BY <5>1 DEF Volatile, Found, Kept
      <4> QED
        BY <2>2, <3>1, <3>2, <4>1, <4>2 DEF Durable, VaultRow, Named, Known
    <3> QED
      BY <3>3, <3>4
  <2>4. /\ Durable' = [id \in Id |-> IF id \in Kept /\ Volatile[id] # Empty
                                      THEN Volatile[id] ELSE Durable[id]]
        /\ Volatile' = V!None /\ Kept' = Kept
    BY <2>2, <2>3 DEF Durable, Volatile, Kept, Known, Found, V!None
  <2>5. V!Unlock
    BY <2>2, <2>4 DEF V!Unlock, Durable, Volatile, Kept
  <2> QED
    BY <1>d, <2>1, <2>3, <2>5 DEF VaultInv, V!Next, Named
<1>11. ASSUME OnEncryptedFSUnmounting
       PROVE  VaultInv' /\ V!Next
  <2>1. ~open' /\ UNCHANGED <<metadata, secrets, cachedSecrets, session>>
    BY <1>11 DEF OnEncryptedFSUnmounting, CloseSecretsDB, diskVars, ghostVars
  <2>2. \A id \in Id : VaultRow(id)'
    BY <2>1 DEF VaultInv, VaultRow, NotToKeep, Named, Found, Known
  <2>3. V!Lock
    BY <1>11, <2>1 DEF V!Lock, OnEncryptedFSUnmounting, CloseSecretsDB, Known, Found
  <2> QED
    BY <1>d, <2>1, <2>2, <2>3 DEF VaultInv, V!Next, Named
<1>12. ASSUME LoseCache, Backup \/ Restart
       PROVE  VaultInv' /\ V!Next
  <2>1. /\ open' \in BOOLEAN /\ UNCHANGED <<metadata, secrets>>
        /\ \A id \in Id : cachedSecrets'[id] = NoRow
    BY <1>12 DEF LoseCache, RecreateDB, ClearCache, diskVars
  <2>2. \A id \in Id : VaultRow(id)'
    BY <2>1 DEF VaultInv, VaultRow, NotToKeep, Named, Found, Known
  <2>3. Durable' = Durable /\ Volatile' = V!None /\ Kept' = Kept
    BY <2>1 DEF Durable, Volatile, Kept, Known, Found, V!None
  <2>4. V!Crash
    BY <2>1, <2>3 DEF V!Crash, Durable, Volatile, Kept
  <2>5. \A c \in Session : session'[c] # NoRow => Named(session'[c])
    <3>1. CASE Restart
      BY <3>1 DEF Restart
    <3>2. CASE Backup
      <4>1. ASSUME NEW c \in Session, session[c] # NoRow
            PROVE  /\ session'[c].user = session[c].user
                   /\ session'[c].password = session[c].password
        <5>1. session[c] \in SessionType
          BY <4>1 DEF TypeOK, SessionType
        <5> QED
          BY <3>2, <5>1 DEF Backup, SessionType
      <4>2. ASSUME NEW c \in Session, session'[c] # NoRow
            PROVE  session[c] # NoRow
        BY <3>2, <4>2 DEF Backup
      <4> QED
        BY <4>1, <4>2 DEF VaultInv, Named
    <3> QED
      BY <1>12, <3>1, <3>2
  <2> QED
    BY <1>d, <2>2, <2>4, <2>5 DEF VaultInv, V!Next, Named
<1> QED
  BY NextCases, <1>c, <1>1, <1>2, <1>3, <1>5, <1>6, <1>7, <1>8, <1>9, <1>10, <1>11, <1>12

(* The metadata, the secrets DB and the cache together are one vault, even if
   identities are stored and removed while sessions are at work on them. *)
THEOREM VaultRefinement ==
  ASSUME Interference \subseteq {"store", "remove"}
  PROVE  Spec => ImplementsVault
<1>1. Init => VaultInv /\ V!Init
  BY DEF Init, DBInit, VaultInv, DiskInv, NotOnDisk, Fresh, CacheAgrees, VaultRow, Named,
         NotToKeep, CopyInv, Known, Found, V!Init, V!None
<1>2. TypeOK /\ VaultInv /\ [Next]_vars => VaultInv' /\ [V!Next]_(V!vars)
  <2>1. ASSUME TypeOK, VaultInv, Next
        PROVE  VaultInv' /\ (V!Next \/ UNCHANGED V!vars)
    BY <2>1, NextVault
  <2>2. ASSUME VaultInv, UNCHANGED vars
        PROVE  VaultInv' /\ UNCHANGED V!vars
    BY <2>2 DEF VaultInv, DiskInv, NotOnDisk, Fresh, CacheAgrees, VaultRow, Named,
                NotToKeep, CopyInv, CopyHolds, Known, Found, V!vars, vars, dbVars,
                diskVars, copyVars, ghostVars
  <2> QED
    BY <2>1, <2>2
<1> QED
  BY <1>1, <1>2, StoredTypeCorrect, PTL DEF Spec, ImplementsVault, V!Spec

================================================================================
