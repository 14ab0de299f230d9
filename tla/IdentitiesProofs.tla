--------------------------- MODULE IdentitiesProofs ---------------------------
(***************************************************************************)
(* What is proved of Identities, for any number of objects, clients and    *)
(* identities and any sets of Interferences: types; that an identity never *)
(* has two objects on the bus; that the daemon's map names the objects     *)
(* that live, unless removed identities are used; and, as long as clients  *)
(* have one dialog at a time and nobody interferes, that what they are     *)
(* told is true of what is stored and that no caller is left without its   *)
(* reply.                                                                  *)
(***************************************************************************)
EXTENDS Identities, TLAPS

-------------------------------------------------------------------------------
(* Types *)

LEMMA NoneIsNoInfo == NoObject \in Member
BY DEF NoObject, Member, Info, NewIdentity

(* The helpers on objects keep their types. *)
LEMMA MemberHelpers ==
  ASSUME NEW r \in Member
  PROVE  /\ Destroyed(r) \in Member
         /\ InUse(r) \in Member
         /\ [r EXCEPT !.idle = TRUE] \in Member
         /\ \A value \in BOOLEAN : SetAutoDestruct(r, value) \in Member
         /\ \A info \in Info \cup {None} : [r EXCEPT !.info = info] \in Member
         /\ \A info \in Info \cup {None} : [r EXCEPT !.info = info, !.exported = TRUE] \in Member
         /\ \A info \in Info \cup {None} : [r EXCEPT !.watched = FALSE, !.info = info] \in Member
         /\ \A i \in Id \cup {NewIdentity}, info \in Info \cup {None} :
              [r EXCEPT !.id = i, !.info = info] \in Member
BY DEF Destroyed, InUse, SetAutoDestruct, Member

LEMMA CreatedMember ==
  ASSUME NEW i \in Id \cup {NewIdentity}
  PROVE  Created(i) \in Member
BY NoneIsNoInfo DEF Created, NoObject, Member

LEMMA DestroyUnusedType ==
  ASSUME NEW obj \in [Object -> Member]
  PROVE  DestroyUnused(obj) \in [Object -> Member]
BY MemberHelpers DEF DestroyUnused

LEMMA CredentialsUpdatedType ==
  ASSUME NEW obj \in [Object -> Member], NEW i
  PROVE  CredentialsUpdated(obj, i) \in [Object -> Member]
BY MemberHelpers DEF CredentialsUpdated, Exists

LEMMA LoadedType ==
  ASSUME TypeOK, NEW i \in Id \cup {NewIdentity}, NEW b \in BOOLEAN
  PROVE  Loaded(i, b) \in Info
<1>1. (CHOOSE x \in UserName : TRUE) \in UserName
  BY IdentitiesAssumption
<1>2. CASE i \notin Id \/ row[i] = None
  BY <1>1, <1>2 DEF Loaded, Info, Id, NewIdentity, Empty
<1>3. CASE i \in Id /\ row[i] # None
  <2>1. row[i] \in Row
    BY <1>3 DEF TypeOK
  <2> QED
    BY <1>3, <2>1 DEF Loaded, Info, Row, Empty
<1> QED
  BY <1>2, <1>3

LEMMA QueryInfoType ==
  ASSUME TypeOK, NEW r \in Member, NEW b \in BOOLEAN
  PROVE  QueryInfo(r, b) \in Info
<1>1. r.id \in Id \cup {NewIdentity} /\ r.info \in Info \cup {None}
  BY DEF Member
<1>2. Loaded(r.id, b) \in Info
  BY <1>1, LoadedType
<1> QED
  BY <1>1, <1>2 DEF QueryInfo

LEMMA UpdateType ==
  ASSUME TypeOK, NEW info \in Info, NEW r \in Update(info)
  PROVE  /\ r.ok \in BOOLEAN
         /\ r.id \in Id \cup {NewIdentity}
         /\ r.lastId \in 0 .. MaxId
         /\ r.orphan \subseteq Id
         /\ r.row \in [Id -> Row \cup {None}]
         /\ r.ok => r.id \in Id
<1>1. \A i \in Id : Written(info, i) \in Row
  <2> TAKE i \in Id
  <2>1. row[i] \in Row \cup {None}
    BY DEF TypeOK
  <2> QED
    BY <2>1 DEF Written, Info, Row, Empty
<1>2. CASE r \in NotWritten
  <2>1. r = [ok |-> FALSE, id |-> NewIdentity, row |-> row, lastId |-> lastId,
             orphan |-> orphan]
    BY <1>2 DEF NotWritten
  <2> QED
    BY <2>1 DEF TypeOK
<1>3. CASE info.id = NewIdentity /\ r \notin NotWritten
  <2>1. PICK i \in {lastId + 1} \cap Id :
          r = [ok |-> TRUE, id |-> i, lastId |-> i, orphan |-> orphan,
               row |-> [row EXCEPT ![i] = Written(info, i)]]
    BY <1>3 DEF Update
  <2>2. i \in 0 .. MaxId
    BY <2>1, IdentitiesAssumption DEF Id
  <2> QED
    BY <1>1, <2>1, <2>2 DEF TypeOK
<1>4. CASE info.id # NewIdentity /\ r \notin NotWritten
  <2>1. info.id \in Id
    BY <1>4 DEF Info
  <2>2. CASE row[info.id] # None
    <3>1. r = [ok |-> TRUE, id |-> info.id, lastId |-> lastId, orphan |-> orphan,
               row |-> [row EXCEPT ![info.id] = Written(info, info.id)]]
      BY <1>4, <2>2 DEF Update
    <3> QED
      BY <1>1, <2>1, <3>1 DEF TypeOK
  <2>3. CASE row[info.id] = None
    <3>1. PICK ok \in BOOLEAN :
            r = [ok |-> ok, id |-> info.id, lastId |-> lastId, row |-> row,
                 orphan |-> orphan \cup {info.id}]
      BY <1>4, <2>3 DEF Update
    <3> QED
      BY <2>1, <3>1 DEF TypeOK
  <2> QED
    BY <2>2, <2>3
<1> QED
  BY <1>2, <1>3, <1>4

(* The calls of clients, the replies of signon-ui and the other events keep the types:
   each action that changes an object does so with the helpers above. *)
LEMMA RegistrationType ==
  ASSUME TypeOK, UNCHANGED interference, NEW c \in Client
  PROVE  /\ RegisterNewIdentity(c) => TypeOK'
         /\ \A i \in Id : GetIdentity(c, i) => TypeOK'
<1> USE DEF TypeOK, dbVars
<1>1. ASSUME RegisterNewIdentity(c)
      PROVE  TypeOK'
  <2>1. PICK o \in Object :
          /\ object' = DestroyUnused([object EXCEPT ![o] = Created(NewIdentity)])
          /\ path' = [path EXCEPT ![c] = o]
    BY <1>1 DEF RegisterNewIdentity
  <2>2. object' \in [Object -> Member]
    <3>1. [object EXCEPT ![o] = Created(NewIdentity)] \in [Object -> Member]
      BY CreatedMember
    <3> QED
      BY <2>1, <3>1, DestroyUnusedType
  <2> QED
    BY <1>1, <2>1, <2>2 DEF RegisterNewIdentity
<1>2. ASSUME NEW i \in Id, GetIdentity(c, i)
      PROVE  TypeOK'
  <2> DEFINE r(o) == IF Exists(o) THEN object[o] ELSE Created(i)
             info(o) == QueryInfo(r(o), FALSE)
  <2>1. PICK o \in Object : HandOut(c, i, o, info(o)) \/ NotFound(c, i, o, info(o))
    BY <1>2 DEF GetIdentity
  <2>2. r(o) \in Member
    BY CreatedMember
  <2>3. info(o) \in Info
    BY <2>2, QueryInfoType
  <2>4. UNCHANGED <<row, lastId, orphan, call>>
    BY <1>2 DEF GetIdentity
  <2> HIDE DEF info
  <2>5. CASE HandOut(c, i, o, info(o))
    <3>1. [InUse(r(o)) EXCEPT !.info = info(o), !.exported = TRUE] \in Member
      <4>1. InUse(r(o)) \in Member
        BY <2>2, MemberHelpers
      <4> QED
        BY <2>3, <4>1, MemberHelpers
    <3>2. object' = DestroyUnused([object EXCEPT ![o] =
                      [InUse(r(o)) EXCEPT !.info = info(o), !.exported = TRUE]])
      BY <2>5 DEF HandOut
    <3>3. object' \in [Object -> Member]
      BY <3>1, <3>2, DestroyUnusedType
    <3>4. info(o).id \in Id \cup {NewIdentity} /\ info(o).id # NewIdentity
      BY <2>3, <2>5 DEF Info, HandOut
    <3>5. known' \in [Client -> Id \cup {NewIdentity}] /\ path' \in [Client -> Object \cup {None}]
      BY <2>5, <3>4 DEF HandOut
    <3>6. storedIdentities' \in [Id -> Object \cup {None}]
      BY <2>5 DEF HandOut
    <3>7. answer' \in Told
      BY <2>5 DEF HandOut, TellsInfo, Told
    <3> HIDE DEF r
    <3> QED
      BY <2>4, <3>3, <3>5, <3>6, <3>7
  <2>6. CASE NotFound(c, i, o, info(o))
    <3>1. IF Exists(o) THEN [object[o] EXCEPT !.info = info(o)] \in Member
          ELSE [Created(i) EXCEPT !.watched = FALSE, !.info = info(o)] \in Member
      BY <2>3, CreatedMember, MemberHelpers
    <3>2. object' \in [Object -> Member]
      BY <2>6, <3>1, MemberHelpers DEF NotFound
    <3>3. answer' \in Told
      BY <2>6 DEF NotFound, Error, Told
    <3> QED
      BY <2>4, <2>6, <3>2, <3>3 DEF NotFound
  <2> QED
    BY <2>1, <2>5, <2>6
<1> QED
  BY <1>1, <1>2

LEMMA CallsType ==
  ASSUME TypeOK, UNCHANGED interference, NEW c \in Client,
         \/ RequestCredentialsUpdate(c) \/ VerifyUser(c) \/ GetInfo(c)
         \/ \E p \in Password : VerifySecret(c, p)
  PROVE  TypeOK'
<1> USE DEF TypeOK, dbVars
<1> DEFINE o == path[c]
           info(b) == QueryInfo(object[o], b)
<1>1. o \in Object
  BY DEF RequestCredentialsUpdate, VerifyUser, GetInfo, VerifySecret, Calls
<1>2. \A b \in BOOLEAN : info(b) \in Info
  BY <1>1, QueryInfoType
<1>3. UNCHANGED <<storedIdentities, row, lastId, orphan, path, known>>
  BY DEF RequestCredentialsUpdate, VerifyUser, GetInfo, VerifySecret
<1> HIDE DEF info
<1>4. /\ \A v, b \in BOOLEAN : [SetAutoDestruct(object[o], v) EXCEPT !.info = info(b)] \in Member
      /\ \A b \in BOOLEAN : [object[o] EXCEPT !.info = info(b)] \in Member
      /\ \A b \in BOOLEAN : [InUse(object[o]) EXCEPT !.info = info(b)] \in Member
  BY <1>1, <1>2, MemberHelpers
<1>5. object' \in [Object -> Member]
  <2>1. CASE RequestCredentialsUpdate(c) \/ VerifyUser(c)
    <3>1. \E b \in BOOLEAN :
            \/ object' = [object EXCEPT ![o] = [SetAutoDestruct(@, FALSE) EXCEPT !.info = info(b)]]
            \/ object' = [object EXCEPT ![o] = [@ EXCEPT !.info = info(b)]]
      BY <2>1 DEF RequestCredentialsUpdate, VerifyUser, info
    <3> QED
      BY <1>1, <1>4, <3>1
  <2>2. CASE GetInfo(c)
    <3>1. \/ object' = [object EXCEPT ![o] = [@ EXCEPT !.info = info(FALSE)]]
          \/ object' = [object EXCEPT ![o] = [InUse(@) EXCEPT !.info = info(FALSE)]]
      BY <2>2 DEF GetInfo, info
    <3> QED
      BY <1>1, <1>4, <3>1
  <2>3. CASE \E p \in Password : VerifySecret(c, p)
    <3>1. object' = [object EXCEPT ![o] = [InUse(@) EXCEPT !.info = info(TRUE)]]
      BY <2>3 DEF VerifySecret, info
    <3> QED
      BY <1>1, <1>4, <3>1
  <2> QED
    BY <2>1, <2>2, <2>3
<1>6. call' \in [Client -> Waiting \cup {None}]
  <2>1. \/ UNCHANGED call
        \/ Opens(c, "update", 0)
        \/ \E n \in 0 .. MaxRetries : Opens(c, "verify", n)
    BY DEF RequestCredentialsUpdate, VerifyUser, GetInfo, VerifySecret
  <2>2. 0 \in 0 .. MaxRetries
    BY IdentitiesAssumption
  <2> QED
    BY <1>1, <2>1, <2>2 DEF Opens, Waiting, Kind
<1>7. answer' \in Told \cup {None}
  <2>1. Error(c) => answer' \in Told
    BY DEF Error, Told, Kind
  <2>2. CASE TellsInfo(c, info(FALSE))
    BY <2>2 DEF TellsInfo, Told
  <2>3. CASE \E p \in Password : VerifySecret(c, p)
    <3>1. \E value, right \in BOOLEAN :
            answer' = [to |-> c, call |-> "verify", value |-> value, right |-> right]
      BY <2>3 DEF VerifySecret
    <3> QED
      BY <3>1 DEF Told, Kind
  <2> QED
    BY <2>1, <2>2, <2>3 DEF RequestCredentialsUpdate, VerifyUser, GetInfo, info
<1> QED
  BY <1>3, <1>5, <1>6, <1>7

LEMMA StoreType ==
  ASSUME TypeOK, UNCHANGED interference, NEW c \in Client, Store(c)
  PROVE  TypeOK'
<1> USE DEF TypeOK
<1> DEFINE o == path[c]
<1>1. o \in Object /\ UNCHANGED <<path, call>>
  BY DEF Store, Calls
<1>2. PICK new \in Given :
        LET info == InfoToStore(c, new)
        IN \E r \in Update(info) :
             LET id == AfterStore(o, r, info)[o].id
             IN /\ TakeDb(r)
                /\ object' = AfterStore(o, r, info)
                /\ storedIdentities' = IF r.ok /\ id \in Id
                                         THEN [storedIdentities EXCEPT ![id] = o]
                                         ELSE storedIdentities
                /\ known' = [known EXCEPT ![c] = IF id = NewIdentity THEN @ ELSE id]
                /\ answer' = [to |-> c, call |-> "store", value |-> id # NewIdentity,
                              right |-> /\ r.ok
                                        /\ row'[r.id] # None
                                        /\ row'[r.id].userName = new.userName
                                        /\ new.password = Empty
                                             \/ row'[r.id].password = new.password]
  BY DEF Store
<1> DEFINE info == InfoToStore(c, new)
<1>3. info \in Info
  BY <1>1 DEF InfoToStore, Info, Given, Member, Empty
<1> HIDE DEF info
<1>4. PICK r \in Update(info) :
        /\ TakeDb(r)
        /\ object' = AfterStore(o, r, info)
        /\ storedIdentities' = IF r.ok /\ AfterStore(o, r, info)[o].id \in Id
                                 THEN [storedIdentities EXCEPT
                                         ![AfterStore(o, r, info)[o].id] = o]
                                 ELSE storedIdentities
        /\ known' = [known EXCEPT ![c] =
                       IF AfterStore(o, r, info)[o].id = NewIdentity
                         THEN @ ELSE AfterStore(o, r, info)[o].id]
        /\ \E value, right \in BOOLEAN :
             answer' = [to |-> c, call |-> "store", value |-> value, right |-> right]
  BY <1>2 DEF info
<1>5. /\ r.ok \in BOOLEAN /\ r.id \in Id \cup {NewIdentity} /\ r.lastId \in 0 .. MaxId
      /\ r.orphan \subseteq Id /\ r.row \in [Id -> Row \cup {None}]
  BY <1>3, UpdateType
<1>6. AfterStore(o, r, info) \in [Object -> Member]
  <2> DEFINE id == IF info.id = NewIdentity THEN r.id ELSE object[o].id
             bad == IF info.id = NewIdentity THEN NewIdentity ELSE id
  <2>1. id \in Id \cup {NewIdentity} /\ bad \in Id \cup {NewIdentity}
    BY <1>1, <1>5 DEF Member
  <2>2. [InUse(object[o]) EXCEPT !.id = bad, !.info = info] \in Member
    <3>1. InUse(object[o]) \in Member
      BY <1>1, MemberHelpers
    <3> QED
      BY <1>3, <2>1, <3>1, MemberHelpers
  <2>3. CredentialsUpdated(object, r.id) \in [Object -> Member]
    BY CredentialsUpdatedType
  <2>4. [InUse(CredentialsUpdated(object, r.id)[o]) EXCEPT !.id = id, !.info = None] \in Member
    <3>1. InUse(CredentialsUpdated(object, r.id)[o]) \in Member
      BY <1>1, <2>3, MemberHelpers
    <3> QED
      BY <2>1, <3>1, MemberHelpers
  <2> HIDE DEF id
  <2>5. AfterStore(o, r, info) =
          IF r.ok THEN [CredentialsUpdated(object, r.id) EXCEPT
                          ![o] = [InUse(@) EXCEPT !.id = id, !.info = None]]
          ELSE [object EXCEPT ![o] = [InUse(@) EXCEPT !.id = bad, !.info = info]]
    BY DEF AfterStore, id
  <2> HIDE DEF bad
  <2> QED
    BY <1>1, <2>2, <2>3, <2>4, <2>5
<1>7. AfterStore(o, r, info)[o].id \in Id \cup {NewIdentity}
  BY <1>1, <1>6 DEF Member
<1>8. answer' \in Told
  BY <1>4 DEF Told
<1> HIDE DEF o
<1> QED
  BY <1>1, <1>4, <1>5, <1>6, <1>7, <1>8 DEF TakeDb

LEMMA OtherCallsType ==
  ASSUME TypeOK, UNCHANGED interference, NEW c \in Client, Remove(c) \/ SignOut(c)
  PROVE  TypeOK'
<1> USE DEF TypeOK, dbVars
<1>1. path[c] \in Object /\ UNCHANGED <<storedIdentities, lastId, path, known>>
  BY DEF Remove, SignOut, Calls
<1>2. object' = [object EXCEPT ![path[c]] = SetAutoDestruct(@, FALSE)] /\ answer' = None
  BY DEF Remove, SignOut
<1>3. object' \in [Object -> Member]
  BY <1>1, <1>2, MemberHelpers
<1>4. row' \in [Id -> Row \cup {None}] /\ orphan' \subseteq Id
  BY DEF Remove, SignOut
<1>5. call' \in [Client -> Waiting \cup {None}]
  <2>1. Opens(c, "remove", 0) \/ Opens(c, "signOut", 0)
    BY DEF Remove, SignOut
  <2>2. 0 \in 0 .. MaxRetries
    BY IdentitiesAssumption
  <2> QED
    BY <1>1, <2>1, <2>2 DEF Opens, Waiting, Kind
<1> QED
  BY <1>1, <1>2, <1>3, <1>4, <1>5

(* The reply of signon-ui that a call waited for *)
LEMMA RepliesType ==
  ASSUME TypeOK, UNCHANGED interference, NEW c \in Client,
         \/ RemoveCompleted(c) \/ SignOutCompleted(c) \/ UiFails(c)
         \/ \E p \in Password : QueryUiSlot(c, p) \/ VerifyUiSlot(c, p)
  PROVE  TypeOK'
<1> USE DEF TypeOK, dbVars
<1> DEFINE o == call[c].obj
<1>1. call[c] \in Waiting
  BY DEF RemoveCompleted, SignOutCompleted, UiFails, QueryUiSlot, VerifyUiSlot, Answers
<1>2. o \in Object /\ call[c].kind \in Kind /\ call[c].left \in 0 .. MaxRetries
  BY <1>1 DEF Waiting
<1>3. \A v \in BOOLEAN : SetAutoDestruct(object[o], v) \in Member
  BY <1>2, MemberHelpers
<1>4. UNCHANGED <<storedIdentities, known>>
  BY DEF RemoveCompleted, SignOutCompleted, UiFails, QueryUiSlot, VerifyUiSlot
<1>5. \A value, right \in BOOLEAN : Reply(c, value, right) =>
        answer' \in Told /\ call' \in [Client -> Waiting \cup {None}]
  BY <1>2 DEF Reply, Told
<1>6. CASE RemoveCompleted(c)
  BY <1>2, <1>3, <1>4, <1>5, <1>6 DEF RemoveCompleted
<1>7. CASE SignOutCompleted(c)
  BY <1>2, <1>3, <1>4, <1>5, <1>7 DEF SignOutCompleted
<1>8. CASE UiFails(c)
  <2>1. answer' \in Told
    BY <1>8 DEF UiFails, Error, Told, Kind
  <2> QED
    BY <1>2, <1>3, <1>4, <1>8, <2>1 DEF UiFails
<1>9. ASSUME NEW p \in Password, QueryUiSlot(c, p)
      PROVE  TypeOK'
  <2> DEFINE obj == [object EXCEPT ![o] = SetAutoDestruct(@, TRUE)]
             info == [object[o].info EXCEPT !.password = p]
  <2>1. info \in Info
    <3>1. object[o].info \in Info
      BY <1>2, <1>9 DEF QueryUiSlot, Member
    <3> QED
      BY <3>1 DEF Info
  <2>2. obj \in [Object -> Member]
    BY <1>2, <1>3
  <2> HIDE DEF info, obj
  <2>3. PICK r \in Update(info) :
          /\ TakeDb(r)
          /\ object' = [(IF r.ok THEN CredentialsUpdated(obj, r.id) ELSE obj)
                          EXCEPT ![o].info = None]
          /\ Reply(c, r.ok, r.ok /\ row'[r.id] # None /\ row'[r.id].password = p)
    BY <1>9 DEF QueryUiSlot, info, obj
  <2>4. /\ r.ok \in BOOLEAN /\ r.lastId \in 0 .. MaxId
        /\ r.orphan \subseteq Id /\ r.row \in [Id -> Row \cup {None}]
    BY <2>1, UpdateType
  <2>5. object' \in [Object -> Member]
    <3> DEFINE new == IF r.ok THEN CredentialsUpdated(obj, r.id) ELSE obj
    <3>1. new \in [Object -> Member]
      BY <2>2, CredentialsUpdatedType
    <3>2. [new[o] EXCEPT !.info = None] \in Member
      BY <1>2, <3>1, MemberHelpers
    <3>3. object' = [new EXCEPT ![o] = [new[o] EXCEPT !.info = None]]
      BY <2>3
    <3> HIDE DEF new
    <3> QED
      BY <1>2, <3>1, <3>2, <3>3
  <2>6. answer' \in Told /\ call' \in [Client -> Waiting \cup {None}]
    <3>1. PICK right \in BOOLEAN : Reply(c, r.ok, right)
      BY <2>3
    <3> QED
      BY <1>5, <2>4, <3>1
  <2>7. UNCHANGED path
    BY <1>9 DEF QueryUiSlot
  <2> QED
    BY <1>4, <2>3, <2>4, <2>5, <2>6, <2>7 DEF TakeDb
<1>10. ASSUME NEW p \in Password, VerifyUiSlot(c, p)
       PROVE  TypeOK'
  <2> DEFINE ret == object[o].info.password = p
  <2>1. UNCHANGED <<row, lastId, orphan, path>>
    BY <1>10 DEF VerifyUiSlot
  <2>2. CASE /\ Retry(c, ret)
             /\ object' = [object EXCEPT ![o] = SetAutoDestruct(@, FALSE)]
             /\ call' = [call EXCEPT ![c].left = @ - 1]
             /\ answer' = None
    <3>1. [call[c] EXCEPT !.left = @ - 1] \in Waiting
      <4>1. call[c].left - 1 \in 0 .. MaxRetries
        BY <1>2, <2>2, IdentitiesAssumption DEF Retry
      <4> QED
        BY <1>1, <4>1 DEF Waiting
    <3>2. call' \in [Client -> Waiting \cup {None}]
      BY <2>2, <3>1
    <3> QED
      BY <1>2, <1>3, <1>4, <2>1, <2>2, <3>2
  <2>3. CASE \E right \in BOOLEAN :
               /\ object' = [object EXCEPT ![o] = [SetAutoDestruct(@, TRUE) EXCEPT !.info = None]]
               /\ Reply(c, ret, right)
    <3>1. [SetAutoDestruct(object[o], TRUE) EXCEPT !.info = None] \in Member
      BY <1>3, MemberHelpers
    <3>2. object' \in [Object -> Member]
      BY <1>2, <2>3, <3>1
    <3>3. ret \in BOOLEAN
      OBVIOUS
    <3> HIDE DEF ret
    <3>4. answer' \in Told /\ call' \in [Client -> Waiting \cup {None}]
      BY <1>5, <2>3, <3>3
    <3> QED
      BY <1>4, <2>1, <3>2, <3>4
  <2> QED
    BY <1>10, <2>2, <2>3 DEF VerifyUiSlot
<1> QED
  BY <1>6, <1>7, <1>8, <1>9, <1>10

(* Sessions, clear(), the timers and the end of an object *)
LEMMA EventsType ==
  ASSUME TypeOK, UNCHANGED interference,
         \/ \E i \in Id, p \in Password : SessionStores(i, p)
         \/ Clear \/ DisposeTimer
         \/ \E o \in Object : Inactive(o) \/ Delete(o)
  PROVE  TypeOK'
<1> USE DEF TypeOK, dbVars
<1>1. ASSUME NEW i \in Id, NEW p \in Password, SessionStores(i, p)
      PROVE  TypeOK'
  <2>1. [row[i] EXCEPT !.password = p] \in Row
    <3>1. row[i] \in Row
      BY <1>1 DEF SessionStores
    <3> QED
      BY <3>1 DEF Row
  <2>2. row' \in [Id -> Row \cup {None}]
    BY <1>1, <2>1 DEF SessionStores
  <2>3. object' \in [Object -> Member]
    BY <1>1, CredentialsUpdatedType DEF SessionStores
  <2> QED
    BY <1>1, <2>2, <2>3 DEF SessionStores
<1>2. CASE Clear
  BY <1>2 DEF Clear
<1>3. CASE DisposeTimer
  <2>1. object' \in [Object -> Member]
    BY <1>3, DestroyUnusedType DEF DisposeTimer
  <2> QED
    BY <1>3, <2>1 DEF DisposeTimer
<1>4. ASSUME NEW o \in Object, Inactive(o)
      PROVE  TypeOK'
  <2>1. [object[o] EXCEPT !.idle = TRUE] \in Member
    BY MemberHelpers
  <2> QED
    BY <1>4, <2>1 DEF Inactive
<1>5. ASSUME NEW o \in Object, Delete(o)
      PROVE  TypeOK'
  <2>1. object' \in [Object -> Member]
    BY <1>5, NoneIsNoInfo DEF Delete
  <2>2. storedIdentities' \in [Id -> Object \cup {None}]
    BY <1>5 DEF Delete, OnIdentityDestroyed
  <2>3. path' \in [Client -> Object \cup {None}]
    BY <1>5 DEF Delete
  <2>4. call' \in [Client -> Waiting \cup {None}]
    BY <1>5 DEF Delete
  <2> QED
    BY <1>5, <2>1, <2>2, <2>3, <2>4 DEF Delete
<1> QED
  BY <1>1, <1>2, <1>3, <1>4, <1>5

LEMMA NextType ==
  ASSUME TypeOK, [Next]_vars
  PROVE  TypeOK'
<1>1. CASE Next
  <2>0. UNCHANGED interference
    BY <1>1 DEF Next
  <2>1. ASSUME NEW c \in Client,
               \/ RegisterNewIdentity(c) \/ \E i \in Id : GetIdentity(c, i)
               \/ RequestCredentialsUpdate(c) \/ VerifyUser(c) \/ GetInfo(c)
               \/ Store(c) \/ Remove(c) \/ SignOut(c)
               \/ RemoveCompleted(c) \/ SignOutCompleted(c) \/ UiFails(c)
               \/ \E p \in Password :
                    VerifySecret(c, p) \/ QueryUiSlot(c, p) \/ VerifyUiSlot(c, p)
        PROVE  TypeOK'
    BY <2>0, <2>1, RegistrationType, CallsType, StoreType, OtherCallsType, RepliesType
  <2>2. CASE \/ \E i \in Id, p \in Password : SessionStores(i, p)
             \/ Clear \/ DisposeTimer
             \/ \E o \in Object : Inactive(o) \/ Delete(o)
    BY <2>0, <2>2, EventsType
  <2> QED
    BY <1>1, <2>1, <2>2 DEF Next
<1>2. CASE UNCHANGED vars
  BY <1>2 DEF vars, TypeOK
<1> QED
  BY <1>1, <1>2

LEMMA InitType == Init => TypeOK
BY NoneIsNoInfo, IdentitiesAssumption DEF Init, TypeOK

(* Every variable keeps its type, whatever disorder the run allows (signonidentity.cpp,
   signondaemon.cpp). *)
THEOREM IdentitiesTypeCorrect == Spec => []TypeOK
BY InitType, NextType, PTL DEF Spec

-------------------------------------------------------------------------------
(* One object for an identity.  The inductive invariant: every object that is watched,
   live or about to be deleted, is the one in m_storedIdentities under its identifier;
   identifiers are given once; and the object made for an identity that turns out not to
   exist, which is not watched, can never become one of an identity. *)

InMap ==
  \A o \in Object : Exists(o) /\ object[o].watched /\ object[o].id \in Id
    => storedIdentities[object[o].id] = o

LiveWatched == \A o \in Object : object[o].status = "live" => object[o].watched

IdsGiven ==
  /\ \A o \in Object : object[o].id <= lastId
  /\ \A o \in Object : object[o].info # None => object[o].info.id <= lastId
  /\ \A c \in Client : known[c] <= lastId
  /\ \A i \in Id : row[i] # None \/ i \in orphan => i <= lastId

NotFoundStays ==
  \A o \in Object : Exists(o) /\ ~object[o].watched =>
    /\ object[o].id \in Id
    /\ row[object[o].id] = None
    /\ object[o].info # None => object[o].info.id = NewIdentity

ExportedWatched ==
  \A o \in Object : object[o].exported => Exists(o) /\ object[o].watched

MapInv == InMap /\ LiveWatched /\ IdsGiven /\ NotFoundStays /\ ExportedWatched

(* What a handler that neither makes, deletes nor renames an object does to it: it may
   look up the identity's data or forget it, and have the object destroyed later. *)
InfoNear(r, info) ==
  \/ info = r.info \/ info = None
  \/ info.id = NewIdentity
  \/ r.id \in Id /\ row[r.id] # None /\ info.id = r.id

Near(r, s) ==
  /\ s.id = r.id /\ s.watched = r.watched
  /\ s.status = r.status \/ (r.status = "live" /\ s.status = "doomed")
  /\ s.exported => r.exported
  /\ InfoNear(r, s.info)

(* Identifiers are given in their order, and an identity that is removed stays so. *)
DbGoes ==
  /\ lastId <= lastId'
  /\ \A i \in Id : row'[i] # None \/ i \in orphan' => i <= lastId'
  /\ \A i \in Id : i <= lastId /\ row[i] = None => row'[i] = None

LEMMA IdsAreNumbers ==
  ASSUME TypeOK
  PROVE  /\ lastId \in Nat
         /\ Id \cup {NewIdentity} \subseteq Nat
         /\ \A o \in Object :
              /\ object[o].id \in Id \cup {NewIdentity}
              /\ object[o].info # None => object[o].info.id \in Id \cup {NewIdentity}
BY IdentitiesAssumption DEF TypeOK, Member, Info, Id, NewIdentity

LEMMA QuietKeeps ==
  ASSUME TypeOK, TypeOK', MapInv, DbGoes, UNCHANGED storedIdentities,
         \A o \in Object : Near(object[o], object'[o]),
         \A c \in Client : known'[c] <= lastId'
  PROVE  MapInv'
<1>1. InMap'
  BY DEF MapInv, InMap, Near, Exists
<1>2. LiveWatched'
  BY DEF MapInv, LiveWatched, Near
<1>3. IdsGiven'
  <2>3. lastId \in Nat /\ lastId' \in Nat /\ lastId <= lastId'
    BY IdentitiesAssumption DEF TypeOK, DbGoes
  <2>1. ASSUME NEW o \in Object
        PROVE  object'[o].id <= lastId'
    <3>1. object[o].id <= lastId /\ object'[o].id = object[o].id /\ object[o].id \in Nat
      BY IdsAreNumbers DEF MapInv, IdsGiven, Near
    <3> QED
      BY <2>3, <3>1
  <2>2. ASSUME NEW o \in Object, object'[o].info # None
        PROVE  object'[o].info.id <= lastId'
    <3>1. \/ object'[o].info = object[o].info
          \/ object'[o].info.id = NewIdentity
          \/ object'[o].info.id = object[o].id
      BY <2>2 DEF Near, InfoNear
    <3>2. object[o].id <= lastId /\ object[o].id \in Nat
      BY IdsAreNumbers DEF MapInv, IdsGiven
    <3>3. object[o].info # None => object[o].info.id <= lastId /\ object[o].info.id \in Nat
      BY IdsAreNumbers DEF MapInv, IdsGiven
    <3> QED
      BY <2>2, <2>3, <3>1, <3>2, <3>3 DEF NewIdentity
  <2> QED
    BY <2>1, <2>2 DEF IdsGiven, DbGoes
<1>4. NotFoundStays'
  <2> SUFFICES ASSUME NEW o \in Object, object'[o].status # "none", ~object'[o].watched
               PROVE  /\ object'[o].id \in Id
                      /\ row'[object'[o].id] = None
                      /\ object'[o].info # None => object'[o].info.id = NewIdentity
    BY DEF NotFoundStays, Exists
  <2>1. Exists(o) /\ ~object[o].watched
    BY DEF Near, Exists
  <2> QED
    BY <2>1 DEF MapInv, NotFoundStays, IdsGiven, Near, InfoNear, DbGoes
<1>5. ExportedWatched'
  BY DEF MapInv, ExportedWatched, Near, Exists
<1> QED
  BY <1>1, <1>2, <1>3, <1>4, <1>5 DEF MapInv

LEMMA QueryInfoNear ==
  ASSUME NEW r \in Member, NEW b \in BOOLEAN
  PROVE  InfoNear(r, QueryInfo(r, b))
BY DEF QueryInfo, Loaded, InfoNear, NewIdentity

LEMMA QueryInfoIs ==
  ASSUME NEW r \in Member, NEW b \in BOOLEAN
  PROVE  /\ \/ r.info # None /\ QueryInfo(r, b) = r.info
            \/ QueryInfo(r, b).id = NewIdentity
            \/ r.id \in Id /\ row[r.id] # None /\ QueryInfo(r, b).id = r.id
         /\ r.info = None /\ r.id \in Id /\ row[r.id] # None => QueryInfo(r, b).id = r.id
BY DEF QueryInfo, Loaded, NewIdentity

LEMMA DestroyUnusedNear ==
  ASSUME NEW obj \in [Object -> Member], NEW o \in Object
  PROVE  Near(obj[o], DestroyUnused(obj)[o])
BY DEF DestroyUnused, Destroyed, Near, InfoNear, Member

LEMMA CredentialsUpdatedNear ==
  ASSUME NEW obj \in [Object -> Member], NEW i, NEW o \in Object
  PROVE  Near(obj[o], CredentialsUpdated(obj, i)[o])
BY DEF CredentialsUpdated, Near, InfoNear, Member

(* Stores, of a new identity or of one that has been there *)
LEMMA UpdateGoes ==
  ASSUME TypeOK, IdsGiven, NEW info \in Info, info.id <= lastId,
         NEW r \in Update(info), TakeDb(r)
  PROVE  /\ DbGoes
         /\ r.ok /\ info.id = NewIdentity => r.id = lastId + 1 /\ lastId' = lastId + 1
<1> USE IdsAreNumbers DEF DbGoes, IdsGiven
<1>1. CASE r \in NotWritten
  <2>1. row' = row /\ lastId' = lastId /\ orphan' = orphan /\ r.ok = FALSE
    BY <1>1 DEF NotWritten, TakeDb
  <2> QED
    BY <2>1
<1>2. CASE info.id = NewIdentity /\ r \notin NotWritten
  <2>1. PICK i \in {lastId + 1} \cap Id :
          r = [ok |-> TRUE, id |-> i, lastId |-> i, orphan |-> orphan,
               row |-> [row EXCEPT ![i] = Written(info, i)]]
    BY <1>2 DEF Update
  <2>2. row' = [row EXCEPT ![i] = Written(info, i)] /\ lastId' = lastId + 1 /\ orphan' = orphan
    BY <2>1 DEF TakeDb
  <2> QED
    BY <2>1, <2>2 DEF TypeOK, Id
<1>3. CASE info.id # NewIdentity /\ r \notin NotWritten
  <2>1. info.id \in Id
    BY <1>3 DEF Info
  <2>2. CASE row[info.id] # None
    <3>1. r = [ok |-> TRUE, id |-> info.id, lastId |-> lastId, orphan |-> orphan,
               row |-> [row EXCEPT ![info.id] = Written(info, info.id)]]
      BY <1>3, <2>2 DEF Update
    <3>2. row' = [row EXCEPT ![info.id] = Written(info, info.id)] /\ lastId' = lastId
          /\ orphan' = orphan
      BY <3>1 DEF TakeDb
    <3> QED
      BY <1>3, <2>1, <2>2, <3>2 DEF TypeOK
  <2>3. CASE row[info.id] = None
    <3>1. PICK ok \in BOOLEAN :
            r = [ok |-> ok, id |-> info.id, lastId |-> lastId, row |-> row,
                 orphan |-> orphan \cup {info.id}]
      BY <1>3, <2>3 DEF Update
    <3>2. row' = row /\ lastId' = lastId /\ orphan' = orphan \cup {info.id}
      BY <3>1 DEF TakeDb
    <3> QED
      BY <1>3, <2>1, <3>2
  <2> QED
    BY <2>2, <2>3
<1> QED
  BY <1>1, <1>2, <1>3

-------------------------------------------------------------------------------
(* What the handlers do to the objects *)

(* An object that changes its autoDestruct, its inactivity or loses its m_pInfo *)
LEMMA SmallChangesNear ==
  ASSUME NEW r \in Member
  PROVE  /\ Near(r, r)
         /\ \A v \in BOOLEAN : Near(r, SetAutoDestruct(r, v))
         /\ \A v \in BOOLEAN : Near(r, [SetAutoDestruct(r, v) EXCEPT !.info = None])
         /\ Near(r, [r EXCEPT !.idle = TRUE])
BY DEF Near, InfoNear, SetAutoDestruct, Member

LEMMA DestroyUnusedInfo ==
  ASSUME NEW obj \in [Object -> Member], NEW o \in Object
  PROVE  /\ DestroyUnused(obj)[o].info = obj[o].info
         /\ DestroyUnused(obj)[o].autoDestruct = obj[o].autoDestruct
         /\ ~obj[o].idle \/ ~obj[o].autoDestruct => DestroyUnused(obj)[o] = obj[o]
BY DEF DestroyUnused, Destroyed, Member

(* What the handlers that look the identity up do to their object: it stays where it is,
   with what queryInfo() returns as its m_pInfo. *)
Renewed(o, s, b) ==
  /\ object' = [object EXCEPT ![o] = s]
  /\ s.id = object[o].id /\ s.watched = object[o].watched
  /\ s.status = object[o].status /\ s.exported = object[o].exported
  /\ s.info = QueryInfo(object[o], b)

LEMMA CallsRenew ==
  ASSUME TypeOK, NEW c \in Client,
         \/ RequestCredentialsUpdate(c) \/ VerifyUser(c) \/ GetInfo(c)
         \/ \E p \in Password : VerifySecret(c, p)
  PROVE  /\ path[c] \in Object
         /\ Allowed(object[path[c]].id)
         /\ UNCHANGED <<storedIdentities, row, lastId, orphan, path, known>>
         /\ \E b \in BOOLEAN, s \in Member :
              /\ Renewed(path[c], s, b)
              /\ \/ s.autoDestruct = object[path[c]].autoDestruct /\ UNCHANGED call
                 \/ ~s.autoDestruct /\ \E left \in 0 .. MaxRetries :
                      \/ RequestCredentialsUpdate(c) /\ Opens(c, "update", left)
                      \/ VerifyUser(c) /\ b /\ Opens(c, "verify", left)
<1> DEFINE o == path[c]
           info(b) == QueryInfo(object[o], b)
<1>1. o \in Object /\ object[o] \in Member
  BY DEF TypeOK, RequestCredentialsUpdate, VerifyUser, GetInfo, VerifySecret, Calls
<1>2. UNCHANGED <<storedIdentities, row, lastId, orphan, path, known>> /\ Allowed(object[o].id)
  BY DEF RequestCredentialsUpdate, VerifyUser, GetInfo, VerifySecret, dbVars
<1>3. \A b \in BOOLEAN : info(b) \in Info
  BY <1>1, QueryInfoType
<1>4. /\ InUse(object[o]) \in Member
      /\ \A v \in BOOLEAN : SetAutoDestruct(object[o], v) \in Member
  BY <1>1, MemberHelpers
<1> HIDE DEF info
<1>5. ASSUME NEW b \in BOOLEAN, NEW r \in Member,
             \/ r = object[o] \/ r = InUse(object[o]),
             object' = [object EXCEPT ![o] = [r EXCEPT !.info = info(b)]],
             UNCHANGED call
      PROVE  \E s \in Member :
               Renewed(o, s, b) /\ s.autoDestruct = object[o].autoDestruct
  <2> DEFINE s == [r EXCEPT !.info = info(b)]
  <2>1. s \in Member
    BY <1>3, MemberHelpers
  <2>2. /\ s.id = object[o].id /\ s.watched = object[o].watched
        /\ s.status = object[o].status /\ s.exported = object[o].exported
        /\ s.info = info(b) /\ s.autoDestruct = object[o].autoDestruct
    BY <1>1, <1>5 DEF InUse, Member
  <2> QED
    BY <1>5, <2>1, <2>2 DEF Renewed, info
<1>6. ASSUME NEW b \in BOOLEAN,
             object' = [object EXCEPT ![o] =
                          [SetAutoDestruct(object[o], FALSE) EXCEPT !.info = info(b)]]
      PROVE  \E s \in Member : Renewed(o, s, b) /\ ~s.autoDestruct
  <2> DEFINE s == [SetAutoDestruct(object[o], FALSE) EXCEPT !.info = info(b)]
  <2>1. s \in Member
    BY <1>3, <1>4, MemberHelpers
  <2>2. /\ s.id = object[o].id /\ s.watched = object[o].watched
        /\ s.status = object[o].status /\ s.exported = object[o].exported
        /\ s.info = info(b) /\ ~s.autoDestruct
    BY <1>1, <1>4 DEF SetAutoDestruct, Member
  <2> QED
    BY <1>6, <2>1, <2>2 DEF Renewed, info
<1>7. CASE GetInfo(c)
  <2>1. \E r \in Member :
          /\ r = object[o] \/ r = InUse(object[o])
          /\ object' = [object EXCEPT ![o] = [r EXCEPT !.info = info(FALSE)]]
          /\ UNCHANGED call
    BY <1>1, <1>4, <1>7 DEF GetInfo, info
  <2> QED
    BY <1>1, <1>2, <1>5, <2>1
<1>8. CASE \E p \in Password : VerifySecret(c, p)
  <2>1. \E r \in Member :
          /\ r = object[o] \/ r = InUse(object[o])
          /\ object' = [object EXCEPT ![o] = [r EXCEPT !.info = info(TRUE)]]
          /\ UNCHANGED call
    BY <1>1, <1>4, <1>8 DEF VerifySecret, info
  <2> QED
    BY <1>1, <1>2, <1>5, <2>1
<1>9. CASE RequestCredentialsUpdate(c)
  <2>1. \/ /\ object' = [object EXCEPT ![o] =
                           [SetAutoDestruct(object[o], FALSE) EXCEPT !.info = info(FALSE)]]
           /\ Opens(c, "update", 0)
        \/ /\ object' = [object EXCEPT ![o] = [object[o] EXCEPT !.info = info(FALSE)]]
           /\ UNCHANGED call
    BY <1>1, <1>9 DEF RequestCredentialsUpdate, info
  <2>2. 0 \in 0 .. MaxRetries
    BY IdentitiesAssumption
  <2> QED
    BY <1>1, <1>2, <1>5, <1>6, <1>9, <2>1, <2>2
<1>10. CASE VerifyUser(c)
  <2>1. \/ /\ object' = [object EXCEPT ![o] =
                           [SetAutoDestruct(object[o], FALSE) EXCEPT !.info = info(TRUE)]]
           /\ \E n \in 0 .. MaxRetries : Opens(c, "verify", n)
        \/ /\ object' = [object EXCEPT ![o] = [object[o] EXCEPT !.info = info(TRUE)]]
           /\ UNCHANGED call
    BY <1>1, <1>10 DEF VerifyUser, info
  <2> QED
    BY <1>1, <1>2, <1>5, <1>6, <1>10, <2>1
<1> QED
  BY <1>7, <1>8, <1>9, <1>10

LEMMA RenewedNear ==
  ASSUME TypeOK, NEW o \in Object, NEW s \in Member, NEW b \in BOOLEAN, Renewed(o, s, b)
  PROVE  /\ \A p \in Object : Near(object[p], object'[p])
         /\ object'[o] = s
         /\ \A p \in Object \ {o} : object'[p] = object[p]
<1>1. object[o] \in Member /\ object' = [object EXCEPT ![o] = s] /\ object \in [Object -> Member]
  BY DEF TypeOK, Renewed
<1>2. object'[o] = s /\ \A p \in Object \ {o} : object'[p] = object[p]
  BY <1>1
<1>3. Near(object[o], s)
  BY <1>1, QueryInfoNear DEF Near, Renewed
<1>4. \A p \in Object \ {o} : Near(object[p], object'[p])
  BY <1>1, <1>2, SmallChangesNear
<1> QED
  BY <1>2, <1>3, <1>4

(* Where an object only changes its autoDestruct, its inactivity or loses its m_pInfo *)
LEMMA EventsNear ==
  ASSUME TypeOK,
         \/ \E c \in Client :
              \/ Remove(c) \/ SignOut(c)
              \/ RemoveCompleted(c) \/ SignOutCompleted(c) \/ UiFails(c)
              \/ \E p \in Password : VerifyUiSlot(c, p)
         \/ \E i \in Id, p \in Password : SessionStores(i, p)
         \/ Clear \/ DisposeTimer
         \/ \E o \in Object : Inactive(o)
  PROVE  \A p \in Object :
           /\ Near(object[p], object'[p])
           /\ object'[p].info = object[p].info \/ object'[p].info = None
<1> SUFFICES ASSUME NEW p \in Object
             PROVE  /\ Near(object[p], object'[p])
                    /\ object'[p].info = object[p].info \/ object'[p].info = None
  OBVIOUS
<1>1. object[p] \in Member /\ object \in [Object -> Member]
  BY DEF TypeOK
<1>2. \A v \in BOOLEAN :
        /\ SetAutoDestruct(object[p], v).info = object[p].info
        /\ [SetAutoDestruct(object[p], v) EXCEPT !.info = None].info = None
  BY <1>1 DEF SetAutoDestruct, Member
<1>3. ASSUME NEW c \in Client, Remove(c) \/ SignOut(c)
      PROVE  /\ Near(object[p], object'[p])
             /\ object'[p].info = object[p].info \/ object'[p].info = None
  BY <1>1, <1>2, <1>3, SmallChangesNear DEF Remove, SignOut
<1>4. ASSUME NEW c \in Client, RemoveCompleted(c) \/ SignOutCompleted(c) \/ UiFails(c)
      PROVE  /\ Near(object[p], object'[p])
             /\ object'[p].info = object[p].info \/ object'[p].info = None
  <2>1. object' = [object EXCEPT ![call[c].obj] = SetAutoDestruct(@, TRUE)]
    BY <1>4 DEF RemoveCompleted, SignOutCompleted, UiFails
  <2>2. object'[p] = object[p] \/ object'[p] = SetAutoDestruct(object[p], TRUE)
    BY <1>1, <2>1
  <2> QED
    BY <1>1, <1>2, <2>2, SmallChangesNear
<1>5. ASSUME NEW c \in Client, NEW typed \in Password, VerifyUiSlot(c, typed)
      PROVE  /\ Near(object[p], object'[p])
             /\ object'[p].info = object[p].info \/ object'[p].info = None
  <2>1. \/ object' = [object EXCEPT ![call[c].obj] = SetAutoDestruct(@, FALSE)]
        \/ object' = [object EXCEPT ![call[c].obj] =
                        [SetAutoDestruct(@, TRUE) EXCEPT !.info = None]]
    BY <1>5 DEF VerifyUiSlot
  <2> QED
    BY <1>1, <1>2, <2>1, SmallChangesNear
<1>6. CASE \E i \in Id, q \in Password : SessionStores(i, q)
  <2>1. \A i : \/ CredentialsUpdated(object, i)[p].info = object[p].info
               \/ CredentialsUpdated(object, i)[p].info = None
    BY <1>1 DEF CredentialsUpdated, Member
  <2> QED
    BY <1>1, <1>6, <2>1, CredentialsUpdatedNear DEF SessionStores
<1>7. CASE Clear
  BY <1>1, <1>7, SmallChangesNear DEF Clear
<1>8. CASE DisposeTimer
  <2>1. DestroyUnused(object)[p].info = object[p].info
    BY <1>1 DEF DestroyUnused, Destroyed, Member
  <2> QED
    BY <1>1, <1>8, <2>1, DestroyUnusedNear DEF DisposeTimer
<1>9. CASE \E o \in Object : Inactive(o)
  <2>1. [object[p] EXCEPT !.idle = TRUE].info = object[p].info
    BY <1>1 DEF Member
  <2> QED
    BY <1>1, <1>9, <2>1, SmallChangesNear DEF Inactive
<1> QED
  BY <1>3, <1>4, <1>5, <1>6, <1>7, <1>8, <1>9

LEMMA CredentialsUpdatedInfo ==
  ASSUME NEW obj \in [Object -> Member], NEW i, NEW o \in Object
  PROVE  /\ CredentialsUpdated(obj, i)[o].info \in {obj[o].info, None}
         /\ obj[o].status # "none" /\ obj[o].id = i => CredentialsUpdated(obj, i)[o].info = None
         /\ obj[o].id # i => CredentialsUpdated(obj, i)[o] = obj[o]
         /\ CredentialsUpdated(obj, i)[o].id = obj[o].id
         /\ CredentialsUpdated(obj, i)[o].status = obj[o].status
         /\ CredentialsUpdated(obj, i)[o].exported = obj[o].exported
         /\ CredentialsUpdated(obj, i)[o].autoDestruct = obj[o].autoDestruct
BY DEF CredentialsUpdated, Member

(* What queryUiSlot() does: the data goes to the database, its object drops its copy, and
   so do the others of the identity. *)
LEMMA QueryUiUpdates ==
  ASSUME TypeOK, NEW c \in Client, NEW p \in Password, QueryUiSlot(c, p)
  PROVE  LET o == call[c].obj
             info == [object[o].info EXCEPT !.password = p]
         IN /\ o \in Object /\ object[o].info \in Info /\ info \in Info
            /\ info.id = object[o].info.id /\ info.password = p
            /\ UNCHANGED <<storedIdentities, path, known>>
            /\ \E r \in Update(info) :
                 /\ TakeDb(r)
                 /\ Reply(c, r.ok, r.ok /\ row'[r.id] # None /\ row'[r.id].password = p)
                 /\ object'[o].info = None /\ object'[o].status = object[o].status
                 /\ \A q \in Object :
                      /\ Near(object[q], object'[q])
                      /\ q # o => object'[q] = (IF r.ok THEN CredentialsUpdated(object, r.id)
                                                ELSE object)[q]
<1> DEFINE o == call[c].obj
           obj == [object EXCEPT ![o] = SetAutoDestruct(@, TRUE)]
           info == [object[o].info EXCEPT !.password = p]
<1>1. o \in Object /\ object[o] \in Member /\ object \in [Object -> Member]
  BY DEF TypeOK, QueryUiSlot, Answers, Waiting
<1>2. object[o].info # None /\ UNCHANGED <<storedIdentities, path, known>>
  BY DEF QueryUiSlot
<1>3. object[o].info \in Info
  BY <1>1, <1>2 DEF Member
<1>4. info \in Info /\ info.id = object[o].info.id /\ info.password = p
  BY <1>3 DEF Info
<1>5. obj \in [Object -> Member] /\ \A q \in Object : Near(object[q], obj[q])
  BY <1>1, MemberHelpers, SmallChangesNear
<1>6. \A q \in Object \ {o} : obj[q] = object[q]
  BY <1>1
<1> HIDE DEF info, obj
<1>7. PICK r \in Update(info) :
        /\ TakeDb(r)
        /\ object' = [(IF r.ok THEN CredentialsUpdated(obj, r.id) ELSE obj)
                        EXCEPT ![o].info = None]
        /\ Reply(c, r.ok, r.ok /\ row'[r.id] # None /\ row'[r.id].password = p)
  BY DEF QueryUiSlot, info, obj
<1> DEFINE new == IF r.ok THEN CredentialsUpdated(obj, r.id) ELSE obj
<1>8. new \in [Object -> Member]
  BY <1>5, CredentialsUpdatedType
<1>9. ASSUME NEW q \in Object
      PROVE  Near(obj[q], new[q])
  <2>1. Near(obj[q], obj[q])
    BY <1>5, SmallChangesNear
  <2> QED
    BY <1>5, <2>1, CredentialsUpdatedNear
<1>10. \A q \in Object \ {o} : new[q] = (IF r.ok THEN CredentialsUpdated(object, r.id)
                                        ELSE object)[q]
  BY <1>6 DEF CredentialsUpdated
<1>11. object' = [new EXCEPT ![o] = [new[o] EXCEPT !.info = None]]
  BY <1>7
<1> HIDE DEF new
<1>12. ASSUME NEW q \in Object
       PROVE  /\ Near(object[q], object'[q])
              /\ q # o => object'[q] = new[q]
              /\ q = o => object'[q].info = None
  <2>1. /\ object'[q].id = new[q].id /\ object'[q].watched = new[q].watched
        /\ object'[q].status = new[q].status /\ object'[q].exported = new[q].exported
        /\ object'[q].info = None \/ object'[q].info = new[q].info
        /\ q # o => object'[q] = new[q]
        /\ q = o => object'[q].info = None
    BY <1>1, <1>8, <1>11 DEF Member
  <2> QED
    BY <1>5, <1>9, <2>1 DEF Near, InfoNear
<1>13. object'[o].info = None /\ \A q \in Object : Near(object[q], object'[q])
  BY <1>1, <1>12, <1>13 DEF info
<1>14. object'[o].status = object[o].status
  <2>1. obj[o].status = object[o].status
    BY <1>1 DEF obj, SetAutoDestruct, Member
  <2>2. new[o].status = obj[o].status
    BY <1>1, <1>5, CredentialsUpdatedInfo DEF new
  <2> QED
    BY <1>1, <1>8, <1>11, <2>1, <2>2 DEF Member
<1>15. \A q \in Object : q # o => object'[q] = (IF r.ok THEN CredentialsUpdated(object, r.id)
                                               ELSE object)[q]
  BY <1>10, <1>12
<1> QED
  BY <1>1, <1>2, <1>3, <1>4, <1>7, <1>13, <1>14, <1>15 DEF info

LEMMA InfoToStoreIs ==
  ASSUME TypeOK, NEW c \in Client, path[c] \in Object, NEW new \in Given
  PROVE  LET old == object[path[c]].info
             info == InfoToStore(c, new)
         IN /\ info \in Info
            /\ info.id = (IF old = None THEN known[c] ELSE old.id)
            /\ info.userName = new.userName /\ info.keep = new.keep
            /\ new.password # Empty => info.password = new.password
<1>1. new \in Info
  BY DEF Given
<1>2. object[path[c]].info \in Info \cup {None} /\ known[c] \in Id \cup {NewIdentity}
  BY DEF TypeOK, Member
<1> QED
  BY <1>1, <1>2 DEF InfoToStore, Info

(* What store() makes of its object, of the others, and of what their clients know: with
   the data info, of which the client gave new, and the outcome r of the database *)
StoredId(o, info, r) ==
  IF info.id # NewIdentity THEN object[o].id ELSE IF r.ok THEN r.id ELSE NewIdentity

Stored(c, new, info, r) ==
  LET o == path[c]
      id == StoredId(o, info, r)
  IN /\ TakeDb(r)
     /\ object'[o].id = id
     /\ object'[o].info = IF r.ok THEN None ELSE info
     /\ object'[o].status = object[o].status
     /\ object'[o].watched = object[o].watched
     /\ object'[o].exported = object[o].exported
     /\ object'[o].autoDestruct = object[o].autoDestruct
     /\ \A p \in Object : p # o =>
          object'[p] = (IF r.ok THEN CredentialsUpdated(object, r.id) ELSE object)[p]
     /\ storedIdentities' = IF r.ok /\ id \in Id THEN [storedIdentities EXCEPT ![id] = o]
                            ELSE storedIdentities
     /\ known' = [known EXCEPT ![c] = IF id = NewIdentity THEN @ ELSE id]
     /\ answer' = [to |-> c, call |-> "store", value |-> id # NewIdentity,
                   right |-> /\ r.ok
                             /\ row'[r.id] # None
                             /\ row'[r.id].userName = new.userName
                             /\ new.password = Empty \/ row'[r.id].password = new.password]

LEMMA StoreStores ==
  ASSUME TypeOK, NEW c \in Client, Store(c)
  PROVE  LET o == path[c]
         IN /\ o \in Object /\ object[o].exported /\ UNCHANGED <<path, call>>
            /\ ~Removed(object[o].id) \/ "removed" \in interference
            /\ MeanwhileOrderly(object[o].id)
            /\ \E new \in Given : \E r \in Update(InfoToStore(c, new)) :
                 Stored(c, new, InfoToStore(c, new), r)
<1> DEFINE o == path[c]
<1>1. /\ o \in Object /\ object[o] \in Member /\ object \in [Object -> Member]
      /\ object[o].exported /\ UNCHANGED <<path, call>>
      /\ ~Removed(object[o].id) \/ "removed" \in interference
      /\ MeanwhileOrderly(object[o].id)
  BY DEF Store, Calls, TypeOK, RemovedOrderly
<1>2. PICK new \in Given :
        \E r \in Update(InfoToStore(c, new)) :
          LET info == InfoToStore(c, new)
              id == AfterStore(o, r, info)[o].id
          IN /\ TakeDb(r)
             /\ object' = AfterStore(o, r, info)
             /\ storedIdentities' = IF r.ok /\ id \in Id
                                      THEN [storedIdentities EXCEPT ![id] = o]
                                      ELSE storedIdentities
             /\ known' = [known EXCEPT ![c] = IF id = NewIdentity THEN @ ELSE id]
             /\ answer' = [to |-> c, call |-> "store", value |-> id # NewIdentity,
                           right |-> /\ r.ok
                                     /\ row'[r.id] # None
                                     /\ row'[r.id].userName = new.userName
                                     /\ new.password = Empty
                                          \/ row'[r.id].password = new.password]
  BY DEF Store
<1> DEFINE info == InfoToStore(c, new)
<1>3. info \in Info
  BY <1>1, InfoToStoreIs
<1> HIDE DEF info
<1>4. PICK r \in Update(info) :
        /\ TakeDb(r)
        /\ object' = AfterStore(o, r, info)
        /\ storedIdentities' = IF r.ok /\ object'[o].id \in Id
                                 THEN [storedIdentities EXCEPT ![object'[o].id] = o]
                                 ELSE storedIdentities
        /\ known' = [known EXCEPT ![c] = IF object'[o].id = NewIdentity THEN @ ELSE object'[o].id]
        /\ answer' = [to |-> c, call |-> "store", value |-> object'[o].id # NewIdentity,
                      right |-> /\ r.ok
                                /\ row'[r.id] # None
                                /\ row'[r.id].userName = new.userName
                                /\ new.password = Empty
                                     \/ row'[r.id].password = new.password]
  BY <1>2 DEF info
<1> DEFINE old == IF r.ok THEN CredentialsUpdated(object, r.id) ELSE object
           id == StoredId(o, info, r)
           copy == IF r.ok THEN None ELSE info
<1>5. old \in [Object -> Member]
  BY <1>1, CredentialsUpdatedType
<1>6. object' = [old EXCEPT ![o] = [InUse(old[o]) EXCEPT !.id = id, !.info = copy]]
  <2>1. CASE r.ok
    BY <1>4, <2>1 DEF AfterStore, StoredId
  <2>2. CASE ~r.ok
    BY <1>4, <2>2 DEF AfterStore, StoredId
  <2> QED
    BY <2>1, <2>2
<1>7. /\ old[o].status = object[o].status /\ old[o].watched = object[o].watched
      /\ old[o].exported = object[o].exported /\ old[o].autoDestruct = object[o].autoDestruct
  BY <1>1 DEF CredentialsUpdated, Member
<1>8. \A p \in Object : p # o => object'[p] = (IF r.ok THEN CredentialsUpdated(object, r.id)
                                              ELSE object)[p]
  BY <1>5, <1>6
<1> HIDE DEF old, id, copy
<1>9. /\ object'[o].id = id /\ object'[o].info = copy
      /\ object'[o].status = object[o].status /\ object'[o].watched = object[o].watched
      /\ object'[o].exported = object[o].exported
      /\ object'[o].autoDestruct = object[o].autoDestruct
  <2>1. object'[o] = [InUse(old[o]) EXCEPT !.id = id, !.info = copy] /\ old[o] \in Member
    BY <1>1, <1>5, <1>6
  <2> QED
    BY <1>7, <2>1 DEF InUse, Member
<1>10. /\ storedIdentities' = IF r.ok /\ id \in Id THEN [storedIdentities EXCEPT ![id] = o]
                              ELSE storedIdentities
       /\ known' = [known EXCEPT ![c] = IF id = NewIdentity THEN @ ELSE id]
       /\ answer' = [to |-> c, call |-> "store", value |-> id # NewIdentity,
                     right |-> /\ r.ok
                               /\ row'[r.id] # None
                               /\ row'[r.id].userName = new.userName
                               /\ new.password = Empty
                                    \/ row'[r.id].password = new.password]
  BY <1>4, <1>9
<1>11. TakeDb(r)
  BY <1>4
<1>12. Stored(c, new, info, r)
  <2> USE DEF id, copy
  <2> QED
    BY <1>8, <1>9, <1>10, <1>11 DEF Stored
<1>13. new \in Given
  BY <1>2
<1> QED
  BY <1>1, <1>12, <1>13 DEF info

-------------------------------------------------------------------------------
(* The quiet handlers *)
LEMMA CallsKeepMap ==
  ASSUME TypeOK, TypeOK', MapInv, NEW c \in Client,
         \/ RequestCredentialsUpdate(c) \/ VerifyUser(c) \/ GetInfo(c)
         \/ \E p \in Password : VerifySecret(c, p)
  PROVE  MapInv'
<1>1. UNCHANGED <<storedIdentities, row, lastId, orphan, known>>
  BY CallsRenew
<1>2. \A p \in Object : Near(object[p], object'[p])
  BY CallsRenew, RenewedNear
<1>3. DbGoes
  BY <1>1, IdsAreNumbers DEF DbGoes, MapInv, IdsGiven
<1>4. \A d \in Client : known'[d] <= lastId'
  BY <1>1 DEF MapInv, IdsGiven
<1> QED
  BY <1>1, <1>2, <1>3, <1>4, QuietKeeps

LEMMA EventsKeepMap ==
  ASSUME TypeOK, TypeOK', MapInv,
         \/ \E c \in Client :
              \/ Remove(c) \/ SignOut(c)
              \/ RemoveCompleted(c) \/ SignOutCompleted(c) \/ UiFails(c)
              \/ \E p \in Password : VerifyUiSlot(c, p)
         \/ \E i \in Id, p \in Password : SessionStores(i, p)
         \/ Clear \/ DisposeTimer
         \/ \E o \in Object : Inactive(o)
  PROVE  MapInv'
<1>1. UNCHANGED <<storedIdentities, known, lastId>>
  BY DEF Remove, SignOut, RemoveCompleted, SignOutCompleted, UiFails, VerifyUiSlot,
         SessionStores, Clear, DisposeTimer, Inactive, dbVars
<1>2. ASSUME NEW i \in Id
      PROVE  /\ row'[i] # None \/ i \in orphan' => row[i] # None \/ i \in orphan
             /\ row[i] = None => row'[i] = None
  BY DEF TypeOK, Remove, SignOut, RemoveCompleted, SignOutCompleted, UiFails, VerifyUiSlot,
         SessionStores, Clear, DisposeTimer, Inactive, dbVars
<1>3. DbGoes
  BY <1>1, <1>2, IdsAreNumbers DEF DbGoes, MapInv, IdsGiven
<1>4. \A p \in Object : Near(object[p], object'[p])
  BY EventsNear
<1> QED
  BY <1>1, <1>3, <1>4, QuietKeeps DEF MapInv, IdsGiven

(* queryUiSlot(): the data goes to the database, and the object drops its copy. *)
LEMMA QueryUiKeepsMap ==
  ASSUME TypeOK, TypeOK', MapInv, NEW c \in Client, NEW p \in Password, QueryUiSlot(c, p)
  PROVE  MapInv'
<1> DEFINE o == call[c].obj
           info == [object[o].info EXCEPT !.password = p]
<1>1. /\ o \in Object /\ object[o].info # None
      /\ info \in Info /\ info.id = object[o].info.id
      /\ UNCHANGED <<storedIdentities, known>>
  BY QueryUiUpdates DEF QueryUiSlot
<1>2. PICK r \in Update(info) :
        TakeDb(r) /\ \A q \in Object : Near(object[q], object'[q])
  BY QueryUiUpdates
<1> HIDE DEF info
<1>3. info.id <= lastId
  BY <1>1 DEF MapInv, IdsGiven
<1>4. DbGoes
  BY <1>1, <1>2, <1>3, UpdateGoes DEF MapInv
<1>5. \A d \in Client : known'[d] <= lastId'
  <2>1. \A d \in Client : known[d] <= lastId /\ known[d] \in Nat
    BY IdsAreNumbers DEF MapInv, IdsGiven, TypeOK
  <2>2. lastId \in Nat /\ lastId' \in Nat /\ lastId <= lastId'
    BY <1>4, IdentitiesAssumption DEF TypeOK, DbGoes
  <2> QED
    BY <1>1, <2>1, <2>2
<1> QED
  BY <1>1, <1>2, <1>4, <1>5, QuietKeeps

(* An action that puts one object o in place of what it was, the database and the
   identifiers that clients know staying within their bounds; the others may be destroyed. *)
LEMMA OneObjectKeeps ==
  ASSUME TypeOK, TypeOK', MapInv, DbGoes, NEW o \in Object,
         \A c \in Client : known'[c] <= lastId',
         \A p \in Object \ {o} : Near(object[p], object'[p]),
         \A p \in Object \ {o} : object[p].id \in Id =>
            storedIdentities'[object[p].id] = storedIdentities[object[p].id]
              \/ ~Exists(p) \/ ~object[p].watched,
         object'[o].id <= lastId',
         object'[o].info # None => object'[o].info.id <= lastId',
         object'[o].status = "live" => object'[o].watched,
         object'[o].status # "none" /\ object'[o].watched /\ object'[o].id \in Id
           => storedIdentities'[object'[o].id] = o,
         object'[o].exported => object'[o].status # "none" /\ object'[o].watched,
         object'[o].status # "none" /\ ~object'[o].watched =>
           /\ object'[o].id \in Id
           /\ row'[object'[o].id] = None
           /\ object'[o].info # None => object'[o].info.id = NewIdentity
  PROVE  MapInv'
<1>1. InMap'
  <2> SUFFICES ASSUME NEW p \in Object, object'[p].status # "none", object'[p].watched,
                      object'[p].id \in Id
               PROVE  storedIdentities'[object'[p].id] = p
    BY DEF InMap, Exists
  <2>1. CASE p = o
    BY <2>1
  <2>2. CASE p # o
    <3>1. Exists(p) /\ object[p].watched /\ object'[p].id = object[p].id
      BY <2>2 DEF Near, Exists
    <3> QED
      BY <2>2, <3>1 DEF MapInv, InMap
  <2> QED
    BY <2>1, <2>2
<1>2. LiveWatched'
  <2> SUFFICES ASSUME NEW p \in Object, object'[p].status = "live"
               PROVE  object'[p].watched
    BY DEF LiveWatched
  <2> QED
    BY DEF MapInv, LiveWatched, Near
<1>3. IdsGiven'
  <2>1. lastId \in Nat /\ lastId' \in Nat /\ lastId <= lastId'
    BY IdentitiesAssumption DEF TypeOK, DbGoes
  <2>2. ASSUME NEW p \in Object
        PROVE  object'[p].id <= lastId'
    <3>1. p # o => object[p].id <= lastId /\ object'[p].id = object[p].id /\ object[p].id \in Nat
      BY IdsAreNumbers DEF MapInv, IdsGiven, Near
    <3> QED
      BY <2>1, <3>1
  <2>3. ASSUME NEW p \in Object, object'[p].info # None
        PROVE  object'[p].info.id <= lastId'
    <3>1. CASE p = o
      BY <2>3, <3>1
    <3>2. CASE p # o
      <4>1. \/ object'[p].info = object[p].info
            \/ object'[p].info.id = NewIdentity
            \/ object'[p].info.id = object[p].id
        BY <2>3, <3>2 DEF Near, InfoNear
      <4>2. object[p].id <= lastId /\ object[p].id \in Nat
        BY IdsAreNumbers DEF MapInv, IdsGiven
      <4>3. object[p].info # None => object[p].info.id <= lastId /\ object[p].info.id \in Nat
        BY IdsAreNumbers DEF MapInv, IdsGiven
      <4> QED
        BY <2>1, <2>3, <4>1, <4>2, <4>3 DEF NewIdentity
    <3> QED
      BY <3>1, <3>2
  <2> QED
    BY <2>2, <2>3 DEF IdsGiven, DbGoes
<1>4. NotFoundStays'
  <2> SUFFICES ASSUME NEW p \in Object, object'[p].status # "none", ~object'[p].watched
               PROVE  /\ object'[p].id \in Id
                      /\ row'[object'[p].id] = None
                      /\ object'[p].info # None => object'[p].info.id = NewIdentity
    BY DEF NotFoundStays, Exists
  <2>1. CASE p = o
    BY <2>1
  <2>2. CASE p # o
    <3>1. Exists(p) /\ ~object[p].watched /\ Near(object[p], object'[p])
      BY <2>2 DEF Near, Exists
    <3> QED
      BY <3>1 DEF MapInv, NotFoundStays, IdsGiven, Near, InfoNear, DbGoes
  <2> QED
    BY <2>1, <2>2
<1>5. ExportedWatched'
  <2> SUFFICES ASSUME NEW p \in Object, object'[p].exported
               PROVE  object'[p].status # "none" /\ object'[p].watched
    BY DEF ExportedWatched, Exists
  <2> QED
    BY DEF MapInv, ExportedWatched, Near, Exists
<1> QED
  BY <1>1, <1>2, <1>3, <1>4, <1>5 DEF MapInv

LEMMA RegisterKeepsMap ==
  ASSUME TypeOK, TypeOK', MapInv, NEW c \in Client, RegisterNewIdentity(c)
  PROVE  MapInv'
<1>1. PICK o \in Object :
        object' = DestroyUnused([object EXCEPT ![o] = Created(NewIdentity)])
  BY DEF RegisterNewIdentity
<1> DEFINE obj == [object EXCEPT ![o] = Created(NewIdentity)]
<1>2. UNCHANGED <<storedIdentities, row, lastId, orphan>>
      /\ known' = [known EXCEPT ![c] = NewIdentity]
  BY DEF RegisterNewIdentity, dbVars
<1>3. object \in [Object -> Member] /\ obj \in [Object -> Member]
  BY CreatedMember DEF TypeOK
<1>4. \A p \in Object \ {o} : obj[p] = object[p]
  BY <1>3
<1>5. obj[o] = Created(NewIdentity)
  BY <1>3
<1> HIDE DEF obj
<1>6. \A p \in Object : Near(obj[p], object'[p])
  BY <1>1, <1>3, DestroyUnusedNear DEF obj
<1>7. /\ object'[o].id = NewIdentity /\ object'[o].watched /\ object'[o].status # "none"
      /\ object'[o].info # None => object'[o].info.id = NewIdentity
  <2>1. Near(Created(NewIdentity), object'[o])
    BY <1>5, <1>6
  <2>2. /\ Created(NewIdentity).id = NewIdentity /\ Created(NewIdentity).watched
        /\ Created(NewIdentity).status = "live"
        /\ Created(NewIdentity).info = None
    BY DEF Created, NoObject
  <2> QED
    BY <2>1, <2>2 DEF Near, InfoNear
<1>8. NewIdentity <= lastId /\ NewIdentity \notin Id
  BY IdsAreNumbers DEF NewIdentity, Id
<1>9. DbGoes
  BY <1>2, IdsAreNumbers DEF DbGoes, MapInv, IdsGiven
<1>10. \A d \in Client : known'[d] <= lastId'
  BY <1>2, <1>8 DEF MapInv, IdsGiven, TypeOK
<1> QED
  BY <1>2, <1>4, <1>6, <1>7, <1>8, <1>9, <1>10, OneObjectKeeps

LEMMA GetIdentityKeepsMap ==
  ASSUME TypeOK, TypeOK', MapInv, NEW c \in Client, NEW i \in Id, GetIdentity(c, i)
  PROVE  MapInv'
<1> DEFINE was(o) == IF Exists(o) THEN object[o] ELSE Created(i)
<1>1. PICK o \in Object :
        /\ IF storedIdentities[i] # None THEN o = storedIdentities[i] ELSE ~Exists(o)
        /\ HandOut(c, i, o, QueryInfo(was(o), FALSE)) \/ NotFound(c, i, o, QueryInfo(was(o), FALSE))
  BY DEF GetIdentity
<1> DEFINE r == was(o)
           info == QueryInfo(r, FALSE)
<1>2. UNCHANGED <<row, lastId, orphan>> /\ i <= lastId
  BY DEF GetIdentity, dbVars, Allowed, MapInv, IdsGiven
<1>3. object \in [Object -> Member] /\ r \in Member
  BY CreatedMember DEF TypeOK
<1>4. info \in Info
  BY <1>3, QueryInfoType
<1>5. /\ r.id \in Id \cup {NewIdentity} /\ r.id <= lastId
      /\ r.info # None => r.info.id <= lastId
      /\ ~Exists(o) => r.id = i /\ r.watched /\ r.info = None
  BY <1>2, IdsAreNumbers DEF MapInv, IdsGiven, Created, NoObject
<1>6. /\ \/ r.info # None /\ info = r.info
         \/ info.id = NewIdentity
         \/ r.id \in Id /\ row[r.id] # None /\ info.id = r.id
      /\ r.info = None /\ r.id \in Id /\ row[r.id] # None => info.id = r.id
  BY <1>3, QueryInfoIs
<1>7. NewIdentity <= lastId /\ NewIdentity \notin Id
  BY IdsAreNumbers DEF NewIdentity, Id
<1>bound. info.id <= lastId
  BY <1>5, <1>6, <1>7
<1>8. DbGoes
  BY <1>2, IdsAreNumbers DEF DbGoes, MapInv, IdsGiven
<1>9. None \notin Object
  BY IdentitiesAssumption
<1>10. Exists(o) => r = object[o]
  OBVIOUS
<1>11. CASE HandOut(c, i, o, info)
  <2> DEFINE new == [InUse(r) EXCEPT !.info = info, !.exported = TRUE]
             obj == [object EXCEPT ![o] = new]
  <2>1. /\ info.id # NewIdentity
        /\ object' = DestroyUnused(obj)
        /\ storedIdentities' = IF r.id = NewIdentity THEN storedIdentities
                               ELSE [storedIdentities EXCEPT ![r.id] = o]
        /\ known' = [known EXCEPT ![c] = info.id]
    BY <1>11 DEF HandOut
  <2>2. new \in Member
    <3>1. InUse(r) \in Member
      BY <1>3, MemberHelpers
    <3> QED
      BY <1>4, <3>1, MemberHelpers
  <2>3. /\ new.id = r.id /\ new.watched = r.watched /\ new.info = info
        /\ new.status = r.status /\ r.status # "none"
    BY <1>3 DEF InUse, Member, Created, NoObject, Exists
  <2>4. r.watched
    BY <1>3, <1>5, <1>6, <1>10, <2>1 DEF MapInv, NotFoundStays
  <2> HIDE DEF new
  <2>5. obj \in [Object -> Member] /\ obj[o] = new
    BY <1>3, <2>2
  <2>6. \A p \in Object \ {o} : obj[p] = object[p]
    BY <1>3
  <2> HIDE DEF obj
  <2>7. \A p \in Object : Near(obj[p], object'[p])
    BY <2>1, <2>5, DestroyUnusedNear
  <2>8. ASSUME NEW p \in Object \ {o}, object[p].id \in Id, Exists(p), object[p].watched
        PROVE  storedIdentities'[object[p].id] = storedIdentities[object[p].id]
    <3>1. storedIdentities[object[p].id] = p
      BY <2>8 DEF MapInv, InMap
    <3>2. CASE object[p].id # r.id
      BY <2>1, <2>8, <3>2 DEF TypeOK
    <3>3. CASE object[p].id = r.id
      <4>1. ~Exists(o)
        BY <1>10, <2>4, <2>8, <3>1, <3>3 DEF MapInv, InMap
      <4> QED
        BY <1>1, <1>5, <1>9, <2>8, <3>1, <3>3, <4>1
    <3> QED
      BY <3>2, <3>3
  <2>9. /\ object'[o].id = r.id /\ object'[o].watched /\ object'[o].status # "none"
        /\ object'[o].info # None =>
             object'[o].info = info \/ object'[o].info.id = NewIdentity
               \/ object'[o].info.id = r.id
    <3>1. Near(new, object'[o])
      BY <2>5, <2>7
    <3> QED
      BY <2>3, <2>4, <3>1 DEF Near, InfoNear
  <2>10. object'[o].info # None => object'[o].info.id <= lastId'
    BY <1>2, <1>5, <1>7, <1>bound, <2>9
  <2>11. \A d \in Client : known'[d] <= lastId'
    BY <1>2, <1>bound, <2>1 DEF MapInv, IdsGiven, TypeOK
  <2>12. r.id \in Id => storedIdentities'[r.id] = o
    BY <2>1 DEF TypeOK, Id, NewIdentity
  <2> QED
    BY <1>2, <1>5, <1>8, <2>6, <2>7, <2>8, <2>9, <2>10, <2>11, <2>12, OneObjectKeeps
<1>12. CASE NotFound(c, i, o, info)
  <2> DEFINE left == IF Exists(o) THEN [object[o] EXCEPT !.info = info]
                     ELSE [Created(i) EXCEPT !.watched = FALSE, !.info = info]
  <2>1. /\ info.id = NewIdentity
        /\ object' = [object EXCEPT ![o] = Destroyed(left)]
        /\ UNCHANGED <<storedIdentities, known>>
    BY <1>12 DEF NotFound
  <2>2. left \in Member
    BY <1>3, <1>4, CreatedMember, MemberHelpers DEF TypeOK
  <2>3. /\ left.id = r.id /\ left.info = info
        /\ left.watched = (Exists(o) /\ object[o].watched)
    <3>1. CASE Exists(o)
      BY <1>3, <1>10, <3>1 DEF Member
    <3>2. CASE ~Exists(o)
      <4>1. left = [Created(i) EXCEPT !.watched = FALSE, !.info = info] /\ Created(i).id = i
        BY <3>2 DEF Created, NoObject
      <4>2. Created(i) \in Member
        BY CreatedMember
      <4> QED
        BY <1>5, <3>2, <4>1, <4>2 DEF Member
    <3> QED
      BY <3>1, <3>2
  <2> HIDE DEF left
  <2>4. /\ object'[o].id = r.id /\ object'[o].info = info
        /\ object'[o].watched = (Exists(o) /\ object[o].watched)
        /\ object'[o].status = "doomed" /\ ~object'[o].exported
    BY <1>3, <2>1, <2>2, <2>3 DEF Destroyed, Member
  <2>5. \A p \in Object \ {o} : Near(object[p], object'[p])
    BY <1>3, <2>1, SmallChangesNear
  <2>6. Exists(o) /\ object[o].watched /\ r.id \in Id => storedIdentities'[r.id] = o
    BY <1>10, <2>1 DEF MapInv, InMap
  <2>7. ~(Exists(o) /\ object[o].watched) => r.id \in Id /\ row'[r.id] = None
    <3>1. CASE Exists(o)
      BY <1>2, <1>10, <3>1 DEF MapInv, NotFoundStays
    <3>2. CASE ~Exists(o)
      BY <1>2, <1>5, <1>6, <1>7, <2>1, <3>2
    <3> QED
      BY <3>1, <3>2
  <2>8. object'[o].id <= lastId' /\ object'[o].info.id <= lastId'
    BY <1>2, <1>5, <1>bound, <2>4
  <2> QED
    BY <1>2, <1>8, <2>1, <2>4, <2>5, <2>6, <2>7, <2>8, OneObjectKeeps DEF MapInv, IdsGiven
<1> QED
  BY <1>1, <1>11, <1>12

LEMMA StoreKeepsMap ==
  ASSUME TypeOK, TypeOK', MapInv, NEW c \in Client, Store(c)
  PROVE  MapInv'
<1> DEFINE o == path[c]
<1>1. o \in Object /\ object[o] \in Member /\ object \in [Object -> Member] /\ object[o].exported
  BY DEF Store, Calls, TypeOK
<1>2. Exists(o) /\ object[o].watched
  BY <1>1 DEF MapInv, ExportedWatched
<1>3. PICK new \in Given :
        \E r \in Update(InfoToStore(c, new)) :
          LET info == InfoToStore(c, new)
              id == AfterStore(o, r, info)[o].id
          IN /\ TakeDb(r)
             /\ object' = AfterStore(o, r, info)
             /\ storedIdentities' = IF r.ok /\ id \in Id
                                      THEN [storedIdentities EXCEPT ![id] = o]
                                      ELSE storedIdentities
             /\ known' = [known EXCEPT ![c] = IF id = NewIdentity THEN @ ELSE id]
  BY DEF Store
<1>3a. new \in Info
  BY <1>3 DEF Given
<1> DEFINE info == InfoToStore(c, new)
<1>4. info \in Info /\ info.id <= lastId
  <2>1. CASE object[o].info = None
    <3>1. info = [new EXCEPT !.id = known[c]]
      BY <2>1 DEF InfoToStore
    <3>2. known[c] \in Id \cup {NewIdentity} /\ known[c] <= lastId
      BY DEF TypeOK, MapInv, IdsGiven
    <3> QED
      BY <1>3a, <3>1, <3>2 DEF Info
  <2>2. CASE object[o].info # None
    <3>1. object[o].info \in Info /\ object[o].info.id <= lastId
      BY <1>1, <2>2 DEF Member, MapInv, IdsGiven
    <3>2. info = [new EXCEPT
                    !.id = object[o].info.id,
                    !.password = IF @ = Empty THEN object[o].info.password ELSE @]
      BY <2>2 DEF InfoToStore
    <3> QED
      BY <1>3a, <3>1, <3>2 DEF Info
  <2> QED
    BY <2>1, <2>2
<1> HIDE DEF info
<1>5. PICK r \in Update(info) :
        /\ TakeDb(r)
        /\ object' = AfterStore(o, r, info)
        /\ storedIdentities' = IF r.ok /\ object'[o].id \in Id
                                 THEN [storedIdentities EXCEPT ![object'[o].id] = o]
                                 ELSE storedIdentities
        /\ known' = [known EXCEPT ![c] = IF object'[o].id = NewIdentity THEN @ ELSE object'[o].id]
  BY <1>3 DEF info
<1>6. DbGoes /\ (r.ok /\ info.id = NewIdentity => r.id = lastId + 1 /\ lastId' = lastId + 1)
  BY <1>4, <1>5, UpdateGoes DEF MapInv
<1> DEFINE old == IF r.ok THEN CredentialsUpdated(object, r.id) ELSE object
           id == IF ~r.ok /\ info.id = NewIdentity THEN NewIdentity
                 ELSE IF info.id = NewIdentity THEN r.id ELSE object[o].id
           copy == IF r.ok THEN None ELSE info
<1>7. old \in [Object -> Member] /\ \A p \in Object : Near(object[p], old[p])
  BY <1>1, CredentialsUpdatedType, CredentialsUpdatedNear, SmallChangesNear
<1>8. object' = [old EXCEPT ![o] = [InUse(old[o]) EXCEPT !.id = id, !.info = copy]]
  <2>1. CASE r.ok
    BY <1>5, <2>1 DEF AfterStore
  <2>2. CASE ~r.ok
    BY <1>5, <2>2 DEF AfterStore
  <2> QED
    BY <2>1, <2>2
<1> HIDE DEF old, id, copy
<1>9. /\ object'[o].id = id /\ object'[o].info = copy
      /\ object'[o].watched /\ object'[o].status # "none"
  <2>1. InUse(old[o]) \in Member /\ InUse(old[o]).watched /\ InUse(old[o]).status # "none"
    <3>1. old[o] \in Member /\ Near(object[o], old[o])
      BY <1>1, <1>7
    <3>2. old[o].watched /\ old[o].status # "none"
      BY <1>2, <3>1 DEF Near, Exists
    <3>3. InUse(old[o]) \in Member
      BY <3>1, MemberHelpers
    <3>4. InUse(old[o]).watched = old[o].watched /\ InUse(old[o]).status = old[o].status
      BY <3>1 DEF InUse, Member
    <3> QED
      BY <3>2, <3>3, <3>4
  <2>2. object'[o] = [InUse(old[o]) EXCEPT !.id = id, !.info = copy]
    BY <1>1, <1>7, <1>8
  <2> QED
    BY <2>1, <2>2 DEF Member
<1>10. \A p \in Object \ {o} : Near(object[p], object'[p])
  BY <1>7, <1>8
<1>11. lastId \in Nat /\ lastId' \in Nat /\ lastId <= lastId' /\ NewIdentity <= lastId'
       /\ NewIdentity \notin Id
  BY <1>6, IdentitiesAssumption DEF TypeOK, DbGoes, NewIdentity, Id
<1>12. /\ \/ id = NewIdentity
          \/ r.ok /\ id = lastId + 1 /\ lastId' = lastId + 1
          \/ id = object[o].id /\ object[o].id <= lastId
       /\ id <= lastId'
  <2>1. object[o].id <= lastId /\ object[o].id \in Nat
    BY <1>1, IdsAreNumbers DEF MapInv, IdsGiven
  <2>2. CASE info.id # NewIdentity
    BY <1>11, <2>1, <2>2 DEF id
  <2>3. CASE info.id = NewIdentity /\ ~r.ok
    BY <1>11, <2>3 DEF id
  <2>4. CASE info.id = NewIdentity /\ r.ok
    <3>1. id = r.id /\ r.id = lastId + 1 /\ lastId' = lastId + 1
      BY <1>6, <2>4 DEF id
    <3> QED
      BY <1>11, <2>4, <3>1
  <2> QED
    BY <2>2, <2>3, <2>4
<1>13. copy # None => copy.id <= lastId'
  <2>1. info.id \in Nat
    BY <1>4, IdsAreNumbers DEF Info
  <2> QED
    BY <1>4, <1>11, <2>1 DEF copy
<1>14. ASSUME NEW p \in Object \ {o}, object[p].id \in Id, Exists(p), object[p].watched
       PROVE  storedIdentities'[object[p].id] = storedIdentities[object[p].id]
  <2>1. object[p].id <= lastId /\ object[p].id \in Nat
    BY IdsAreNumbers DEF MapInv, IdsGiven
  <2>2. storedIdentities[object[p].id] = p
    BY <1>14 DEF MapInv, InMap
  <2>3. object[p].id # id
    <3>1. id = object[o].id /\ id \in Id => storedIdentities[id] = o
      BY <1>1, <1>2 DEF MapInv, InMap
    <3> QED
      BY <1>11, <1>12, <1>14, <2>1, <2>2, <3>1
  <2> QED
    BY <1>5, <1>9, <2>3, <1>14 DEF TypeOK
<1>15. id \in Id => storedIdentities'[id] = o
  <2>1. CASE r.ok
    BY <1>5, <1>9, <2>1 DEF TypeOK
  <2>2. CASE ~r.ok
    <3>1. id \in Id => id = object[o].id
      BY <1>11, <1>12, <2>2
    <3> QED
      BY <1>1, <1>2, <1>5, <2>2, <3>1 DEF MapInv, InMap
  <2> QED
    BY <2>1, <2>2
<1>16. ASSUME NEW d \in Client
       PROVE  known'[d] <= lastId'
  <2>1. known[d] <= lastId /\ known[d] \in Nat
    BY IdsAreNumbers DEF MapInv, IdsGiven, TypeOK
  <2>2. known'[d] = known[d] \/ known'[d] = id
    BY <1>5, <1>9 DEF TypeOK
  <2> QED
    BY <1>11, <1>12, <2>1, <2>2
<1> HIDE DEF o
<1> QED
  BY <1>1, <1>6, <1>9, <1>10, <1>12, <1>13, <1>14, <1>15, <1>16, OneObjectKeeps

LEMMA DeleteKeepsMap ==
  ASSUME TypeOK, TypeOK', MapInv, NEW o \in Object, Delete(o)
  PROVE  MapInv'
<1>1. /\ object' = [object EXCEPT ![o] = NoObject]
      /\ storedIdentities' = OnIdentityDestroyed(o)
      /\ UNCHANGED <<row, lastId, orphan, known>>
      /\ Exists(o)
  BY DEF Delete, dbVars, Exists
<1>2. object'[o] = NoObject /\ \A p \in Object \ {o} : object'[p] = object[p]
  BY <1>1 DEF TypeOK
<1>3. \A p \in Object \ {o} : Near(object[p], object'[p])
  BY <1>2, SmallChangesNear DEF TypeOK
<1>4. ASSUME NEW p \in Object \ {o}, object[p].id \in Id, Exists(p), object[p].watched
      PROVE  storedIdentities'[object[p].id] = storedIdentities[object[p].id]
  <2>1. storedIdentities[object[p].id] = p
    BY <1>4 DEF MapInv, InMap
  <2>2. object[o].watched /\ object[o].id \in Id => object[p].id # object[o].id
    BY <1>1, <1>4, <2>1 DEF MapInv, InMap
  <2> QED
    BY <1>1, <1>4, <2>2 DEF OnIdentityDestroyed, TypeOK
<1>5. DbGoes
  BY <1>1, IdsAreNumbers DEF DbGoes, MapInv, IdsGiven
<1>6. NewIdentity <= lastId'
  BY <1>1, IdsAreNumbers DEF NewIdentity
<1>7. /\ NoObject.status = "none" /\ NoObject.id = NewIdentity /\ NoObject.info = None
      /\ ~NoObject.exported
  BY DEF NoObject
<1> QED
  BY <1>1, <1>2, <1>3, <1>4, <1>5, <1>6, <1>7, OneObjectKeeps DEF MapInv, IdsGiven

-------------------------------------------------------------------------------

LEMMA InitMap == Init => MapInv
BY IdentitiesAssumption
   DEF Init, MapInv, InMap, LiveWatched, IdsGiven, NotFoundStays, ExportedWatched, NoObject,
       Exists, NewIdentity

LEMMA NextMap ==
  ASSUME TypeOK, TypeOK', MapInv, [Next]_vars
  PROVE  MapInv'
<1>1. CASE Next
  <2>1. ASSUME NEW c \in Client,
               \/ RegisterNewIdentity(c) \/ \E i \in Id : GetIdentity(c, i)
               \/ RequestCredentialsUpdate(c) \/ VerifyUser(c) \/ GetInfo(c)
               \/ Store(c) \/ Remove(c) \/ SignOut(c)
               \/ RemoveCompleted(c) \/ SignOutCompleted(c) \/ UiFails(c)
               \/ \E p \in Password :
                    VerifySecret(c, p) \/ QueryUiSlot(c, p) \/ VerifyUiSlot(c, p)
        PROVE  MapInv'
    <3>1. CASE RegisterNewIdentity(c) \/ \E i \in Id : GetIdentity(c, i)
      BY <3>1, RegisterKeepsMap, GetIdentityKeepsMap
    <3>2. CASE \/ RequestCredentialsUpdate(c) \/ VerifyUser(c) \/ GetInfo(c)
               \/ \E p \in Password : VerifySecret(c, p)
      BY <3>2, CallsKeepMap
    <3>3. CASE Store(c)
      BY <3>3, StoreKeepsMap
    <3>4. CASE \E p \in Password : QueryUiSlot(c, p)
      BY <3>4, QueryUiKeepsMap
    <3>5. CASE \/ Remove(c) \/ SignOut(c)
               \/ RemoveCompleted(c) \/ SignOutCompleted(c) \/ UiFails(c)
               \/ \E p \in Password : VerifyUiSlot(c, p)
      BY <3>5, EventsKeepMap
    <3> QED
      BY <2>1, <3>1, <3>2, <3>3, <3>4, <3>5
  <2>2. CASE \/ \E i \in Id, p \in Password : SessionStores(i, p)
             \/ Clear \/ DisposeTimer
             \/ \E o \in Object : Inactive(o)
    BY <2>2, EventsKeepMap
  <2>3. CASE \E o \in Object : Delete(o)
    BY <2>3, DeleteKeepsMap
  <2> QED
    BY <1>1, <2>1, <2>2, <2>3 DEF Next
<1>2. CASE UNCHANGED vars
  <2>1. \A o \in Object : Near(object[o], object'[o])
    BY <1>2, SmallChangesNear DEF vars, TypeOK
  <2>2. DbGoes
    BY <1>2, IdsAreNumbers DEF vars, DbGoes, MapInv, IdsGiven
  <2> QED
    BY <1>2, <2>1, <2>2, QuietKeeps DEF vars, MapInv, IdsGiven
<1> QED
  BY <1>1, <1>2

(* An identity has one object on the bus, in which its dialogs, its cache and its signals
   meet: getIdentity() finds it in m_storedIdentities although store() renames objects,
   onIdentityDestroyed() takes entries out and identities come and go. *)
THEOREM OneObject == Spec => []OneObjectPerIdentity
<1>1. Init => TypeOK /\ MapInv
  BY InitType, InitMap
<1>2. TypeOK /\ MapInv /\ [Next]_vars => TypeOK' /\ MapInv'
  BY NextType, NextMap
<1>3. MapInv => OneObjectPerIdentity
  BY DEF MapInv, InMap, LiveWatched, OneObjectPerIdentity, Exists
<1> QED
  BY <1>1, <1>2, <1>3, PTL DEF Spec

-------------------------------------------------------------------------------
(* Map, paths and copies agree.  As long as no removed identity is used, what the map, a
   client or an object's m_pInfo takes for the identifier of an object is the one it has,
   and no client but the one that registered it has the path of a new identity's object. *)

AllWatched == \A o \in Object : Exists(o) => object[o].watched

InfoIsOwn == \A o \in Object : object[o].info # None => object[o].info.id = object[o].id

PathsAgree ==
  \A c \in Client : path[c] # None => Exists(path[c]) /\ known[c] = object[path[c]].id

NewIsOwn ==
  \A c, d \in Client :
    path[c] # None /\ path[c] = path[d] /\ object[path[c]].id = NewIdentity => c = d

IdsInv == MapIsLive /\ AllWatched /\ InfoIsOwn /\ PathsAgree /\ NewIsOwn

LEMMA QuietIds ==
  ASSUME TypeOK, IdsInv, UNCHANGED <<storedIdentities, known>>, InfoIsOwn',
         \A c \in Client : path'[c] = path[c] \/ path'[c] = None,
         \A o \in Object : Near(object[o], object'[o])
  PROVE  IdsInv'
<1>1. MapIsLive'
  BY DEF IdsInv, MapIsLive, Near, Exists, TypeOK
<1>2. AllWatched'
  BY DEF IdsInv, AllWatched, Near, Exists
<1>3. PathsAgree'
  BY DEF IdsInv, PathsAgree, Near, Exists, TypeOK
<1>4. NewIsOwn'
  BY DEF IdsInv, NewIsOwn, Near, TypeOK
<1> QED
  BY <1>1, <1>2, <1>3, <1>4 DEF IdsInv

LEMMA CallsKeepIds ==
  ASSUME TypeOK, IdsInv, NEW c \in Client, "removed" \notin interference,
         \/ RequestCredentialsUpdate(c) \/ VerifyUser(c) \/ GetInfo(c)
         \/ \E p \in Password : VerifySecret(c, p)
  PROVE  IdsInv'
<1> DEFINE o == path[c]
<1>1. PICK b \in BOOLEAN, s \in Member : o \in Object /\ Renewed(o, s, b)
  BY CallsRenew
<1>2. UNCHANGED <<storedIdentities, path, known>>
  BY CallsRenew
<1>3. object[o].id \in Id /\ row[object[o].id] # None
  <2>1. Calls(c) /\ Allowed(object[o].id)
    BY DEF RequestCredentialsUpdate, VerifyUser, GetInfo, VerifySecret
  <2> QED
    BY <2>1 DEF Calls, RemovedOrderly, Removed, Allowed
<1>4. InfoIsOwn'
  <2>1. s.info # None => s.info.id = s.id
    <3>1. object[o] \in Member
      BY <1>1 DEF TypeOK
    <3>2. s.info = QueryInfo(object[o], b) /\ s.id = object[o].id
      BY <1>1 DEF Renewed
    <3>3. object[o].info # None => object[o].info.id = object[o].id
      BY <1>1 DEF IdsInv, InfoIsOwn
    <3> QED
      BY <1>3, <3>1, <3>2, <3>3 DEF QueryInfo, Loaded
  <2> QED
    BY <1>1, <2>1, RenewedNear DEF IdsInv, InfoIsOwn
<1> QED
  BY <1>1, <1>2, <1>4, RenewedNear, QuietIds

LEMMA EventsKeepIds ==
  ASSUME TypeOK, IdsInv,
         \/ \E c \in Client :
              \/ Remove(c) \/ SignOut(c)
              \/ RemoveCompleted(c) \/ SignOutCompleted(c) \/ UiFails(c)
              \/ \E p \in Password : VerifyUiSlot(c, p)
         \/ \E i \in Id, p \in Password : SessionStores(i, p)
         \/ Clear \/ DisposeTimer
         \/ \E o \in Object : Inactive(o)
  PROVE  IdsInv'
<1>1. UNCHANGED <<storedIdentities, known>>
  BY DEF Remove, SignOut, RemoveCompleted, SignOutCompleted, UiFails, VerifyUiSlot,
         SessionStores, Clear, DisposeTimer, Inactive, dbVars
<1>2. ASSUME NEW c \in Client
      PROVE  path'[c] = path[c] \/ path'[c] = None
  BY DEF Remove, SignOut, RemoveCompleted, SignOutCompleted, UiFails, VerifyUiSlot,
         SessionStores, Clear, DisposeTimer, Inactive, dbVars
<1>3. InfoIsOwn'
  BY EventsNear DEF IdsInv, InfoIsOwn, Near
<1> QED
  BY <1>1, <1>2, <1>3, EventsNear, QuietIds

LEMMA QueryUiKeepsIds ==
  ASSUME TypeOK, IdsInv, NEW c \in Client, NEW p \in Password, QueryUiSlot(c, p)
  PROVE  IdsInv'
<1> DEFINE o == call[c].obj
           info == [object[o].info EXCEPT !.password = p]
<1>1. UNCHANGED <<storedIdentities, path, known>>
  BY QueryUiUpdates
<1>2. PICK r \in Update(info) :
        /\ object'[o].info = None
        /\ \A q \in Object :
             /\ Near(object[q], object'[q])
             /\ q # o => object'[q] = (IF r.ok THEN CredentialsUpdated(object, r.id)
                                       ELSE object)[q]
  BY QueryUiUpdates
<1>3. InfoIsOwn'
  <2>1. ASSUME NEW q \in Object, object'[q].info # None
        PROVE  object'[q].info = object[q].info
    <3>1. object'[q] = object[q] \/ object'[q] = CredentialsUpdated(object, r.id)[q]
      BY <1>2, <2>1
    <3>2. object[q] \in Member
      BY DEF TypeOK
    <3> QED
      BY <2>1, <3>1, <3>2 DEF CredentialsUpdated, Member
  <2> QED
    BY <1>2, <2>1 DEF IdsInv, InfoIsOwn, Near
<1> QED
  BY <1>1, <1>2, <1>3, QuietIds

(* An action that puts object o, in place of what it was, into the hands of client c.  The
   others keep what they have, or are disposed of. *)
LEMMA HandedOutKeepsIds ==
  ASSUME TypeOK, TypeOK', IdsInv, NEW o \in Object, NEW c \in Client,
         \A p \in Object \ {o} : Near(object[p], object'[p]),
         \A p \in Object \ {o} : object'[p].info = object[p].info \/ object'[p].info = None,
         object'[o].status # "none", object'[o].watched,
         object'[o].info # None => object'[o].info.id = object'[o].id,
         path' = [path EXCEPT ![c] = o],
         known' = [known EXCEPT ![c] = object'[o].id],
         \/ UNCHANGED storedIdentities
         \/ /\ object'[o].id \in Id
            /\ storedIdentities' = [storedIdentities EXCEPT ![object'[o].id] = o],
         \/ object[o].id = object'[o].id /\ object'[o].id \in Id
         \/ /\ \A i \in Id : storedIdentities[i] # o
            /\ \A d \in Client \ {c} : path[d] # o
  PROVE  IdsInv'
<1>1. AllWatched'
  BY DEF IdsInv, AllWatched, Near, Exists
<1>2. InfoIsOwn'
  BY DEF IdsInv, InfoIsOwn, Near
<1>3. MapIsLive'
  <2> SUFFICES ASSUME NEW i \in Id, storedIdentities'[i] # None
               PROVE  /\ object'[storedIdentities'[i]].status # "none"
                      /\ object'[storedIdentities'[i]].id = i
    BY DEF MapIsLive, Exists
  <2>1. storedIdentities'[i] \in Object
    BY DEF TypeOK
  <2>2. \/ storedIdentities'[i] = storedIdentities[i]
        \/ object'[o].id = i /\ storedIdentities'[i] = o
    BY DEF TypeOK
  <2>3. ASSUME storedIdentities'[i] = storedIdentities[i]
        PROVE  /\ object'[storedIdentities'[i]].status # "none"
               /\ object'[storedIdentities'[i]].id = i
    <3>1. object[storedIdentities[i]].status # "none" /\ object[storedIdentities[i]].id = i
      BY <2>3 DEF IdsInv, MapIsLive, Exists
    <3>2. CASE storedIdentities[i] # o
      BY <2>1, <2>3, <3>1, <3>2 DEF Near
    <3>3. CASE storedIdentities[i] = o
      BY <2>3, <3>1, <3>3
    <3> QED
      BY <3>2, <3>3
  <2> QED
    BY <2>2, <2>3
<1>4. \A d \in Client \ {c} : path'[d] = path[d] /\ known'[d] = known[d]
  BY DEF TypeOK
<1>5. path'[c] = o /\ known'[c] = object'[o].id
  BY DEF TypeOK
<1>6. PathsAgree'
  <2> SUFFICES ASSUME NEW d \in Client, path'[d] # None
               PROVE  object'[path'[d]].status # "none" /\ known'[d] = object'[path'[d]].id
    BY DEF PathsAgree, Exists
  <2>1. CASE d = c
    BY <1>5, <2>1
  <2>2. CASE d # c
    <3>1. path[d] \in Object /\ object[path[d]].status # "none" /\ known[d] = object[path[d]].id
      BY <1>4, <2>2 DEF IdsInv, PathsAgree, Exists, TypeOK
    <3>2. path[d] = o => object[o].id = object'[o].id
      BY <2>2
    <3> QED
      BY <1>4, <2>2, <3>1, <3>2 DEF Near
  <2> QED
    BY <2>1, <2>2
<1>7. NewIsOwn'
  <2> SUFFICES ASSUME NEW d \in Client, NEW e \in Client, path'[d] # None,
                      path'[d] = path'[e], object'[path'[d]].id = NewIdentity
               PROVE  d = e
    BY DEF NewIsOwn
  <2>1. NewIdentity \notin Id
    BY DEF NewIdentity, Id
  <2>2. CASE path'[d] = o
    BY <1>4, <1>5, <2>1, <2>2
  <2>3. CASE path'[d] # o
    <3>1. path'[d] = path[d] /\ path'[e] = path[e] /\ path[d] \in Object \ {o}
      BY <1>4, <1>5, <2>3 DEF TypeOK
    <3> QED
      BY <3>1 DEF IdsInv, NewIsOwn, Near
  <2> QED
    BY <2>2, <2>3
<1> QED
  BY <1>1, <1>2, <1>3, <1>6, <1>7 DEF IdsInv

LEMMA RegisterKeepsIds ==
  ASSUME TypeOK, TypeOK', IdsInv, NEW c \in Client, RegisterNewIdentity(c)
  PROVE  IdsInv'
<1>1. PICK o \in Object :
        /\ ~Exists(o)
        /\ object' = DestroyUnused([object EXCEPT ![o] = Created(NewIdentity)])
        /\ path' = [path EXCEPT ![c] = o]
  BY DEF RegisterNewIdentity
<1> DEFINE obj == [object EXCEPT ![o] = Created(NewIdentity)]
<1>2. known' = [known EXCEPT ![c] = NewIdentity] /\ UNCHANGED storedIdentities
  BY DEF RegisterNewIdentity
<1>3. object \in [Object -> Member] /\ obj \in [Object -> Member]
  BY CreatedMember DEF TypeOK
<1>4. /\ \A p \in Object \ {o} : obj[p] = object[p]
      /\ obj[o] = Created(NewIdentity)
  BY <1>3
<1> HIDE DEF obj
<1>5. \A p \in Object : Near(obj[p], object'[p]) /\ object'[p].info = obj[p].info
  BY <1>1, <1>3, DestroyUnusedNear, DestroyUnusedInfo DEF obj
<1>6. /\ object'[o].id = NewIdentity /\ object'[o].watched /\ object'[o].status # "none"
      /\ object'[o].info = None
  <2>1. /\ Created(NewIdentity).id = NewIdentity /\ Created(NewIdentity).watched
        /\ Created(NewIdentity).status = "live" /\ Created(NewIdentity).info = None
    BY DEF Created, NoObject
  <2> QED
    BY <1>4, <1>5, <2>1 DEF Near
<1>7. (\A i \in Id : storedIdentities[i] # o) /\ \A d \in Client : path[d] # o
  BY <1>1, IdentitiesAssumption DEF IdsInv, MapIsLive, PathsAgree
<1> QED
  BY <1>1, <1>2, <1>4, <1>5, <1>6, <1>7, HandedOutKeepsIds

LEMMA StoreKeepsIds ==
  ASSUME TypeOK, TypeOK', IdsInv, NEW c \in Client, Store(c)
  PROVE  IdsInv'
<1> DEFINE o == path[c]
<1>1. o \in Object /\ UNCHANGED path /\ object \in [Object -> Member]
  BY StoreStores DEF TypeOK
<1>2. PICK new \in Given : \E r \in Update(InfoToStore(c, new)) :
        Stored(c, new, InfoToStore(c, new), r)
  BY StoreStores
<1> DEFINE info == InfoToStore(c, new)
<1>3. /\ info \in Info
      /\ info.id = IF object[o].info = None THEN known[c] ELSE object[o].info.id
  BY <1>1, InfoToStoreIs
<1>r. PICK r \in Update(info) : Stored(c, new, info, r)
  BY <1>2
<1> HIDE DEF info
<1>4. /\ object[o].status # "none" /\ known[c] = object[o].id
      /\ object[o].info # None => object[o].info.id = object[o].id
      /\ object[o].watched
  BY <1>1, IdentitiesAssumption DEF IdsInv, PathsAgree, InfoIsOwn, AllWatched, Exists
<1>5. info.id = object[o].id
  BY <1>3, <1>4
<1>6. /\ object'[o].info # None => object'[o].info.id = object'[o].id
      /\ info.id # NewIdentity => object'[o].id = object[o].id
      /\ object'[o].id = NewIdentity => object[o].id = NewIdentity
  BY <1>r, <1>5 DEF Stored, StoredId
<1>7. ASSUME NEW p \in Object \ {o}
      PROVE  /\ Near(object[p], object'[p])
             /\ object'[p].info = object[p].info \/ object'[p].info = None
  <2>1. object'[p] = object[p] \/ object'[p] = CredentialsUpdated(object, r.id)[p]
    BY <1>r DEF Stored
  <2>2. Near(object[p], object[p]) /\ Near(object[p], CredentialsUpdated(object, r.id)[p])
    BY <1>1, CredentialsUpdatedNear, SmallChangesNear
  <2>3. CredentialsUpdated(object, r.id)[p].info \in {object[p].info, None}
    BY <1>1, CredentialsUpdatedInfo
  <2> QED
    BY <2>1, <2>2, <2>3
<1>8. path' = [path EXCEPT ![c] = o]
  BY <1>1 DEF TypeOK
<1>9. known' = [known EXCEPT ![c] = object'[o].id]
  BY <1>r, <1>4, <1>6 DEF Stored
<1>10. \/ UNCHANGED storedIdentities
       \/ /\ object'[o].id \in Id
          /\ storedIdentities' = [storedIdentities EXCEPT ![object'[o].id] = o]
  BY <1>r, <1>6 DEF Stored
<1>11. \/ object[o].id = object'[o].id /\ object'[o].id \in Id
       \/ /\ \A i \in Id : storedIdentities[i] # o
          /\ \A d \in Client \ {c} : path[d] # o
  <2>1. object[o].id \in Id \cup {NewIdentity}
    BY <1>1 DEF Member
  <2>2. CASE object[o].id = NewIdentity
    <3>1. NewIdentity \notin Id
      BY DEF NewIdentity, Id
    <3> QED
      BY <1>1, <2>2, <3>1, IdentitiesAssumption DEF IdsInv, MapIsLive, NewIsOwn
  <2>3. CASE object[o].id # NewIdentity
    BY <1>5, <1>6, <2>1, <2>3
  <2> QED
    BY <2>2, <2>3
<1>12. object'[o].status # "none" /\ object'[o].watched
  BY <1>r, <1>4 DEF Stored
<1> HIDE DEF o
<1> QED
  BY <1>1, <1>12, <1>6, <1>7, <1>8, <1>9, <1>10, <1>11, HandedOutKeepsIds

(* getIdentity() of an identity that has not been removed finds it. *)
LEMMA GetIdentityHandsOut ==
  ASSUME TypeOK, IdsInv, "removed" \notin interference, NEW c \in Client, NEW i \in Id,
         GetIdentity(c, i)
  PROVE  \E o \in Object :
           LET r == IF Exists(o) THEN object[o] ELSE Created(i)
               info == QueryInfo(r, FALSE)
           IN /\ HandOut(c, i, o, info)
              /\ storedIdentities[i] = o \/ ~Exists(o)
              /\ object[o].status = "doomed" => "late" \in interference
              /\ r \in Member /\ r.id = i /\ info \in Info /\ info.id = i /\ row[i] # None
<1> DEFINE was(o) == IF Exists(o) THEN object[o] ELSE Created(i)
<1>1. PICK o \in Object :
        /\ IF storedIdentities[i] # None THEN o = storedIdentities[i] ELSE ~Exists(o)
        /\ object[o].status = "doomed" => "late" \in interference
        /\ \/ HandOut(c, i, o, QueryInfo(was(o), FALSE))
           \/ NotFound(c, i, o, QueryInfo(was(o), FALSE))
  BY DEF GetIdentity
<1> DEFINE r == was(o)
           info == QueryInfo(r, FALSE)
<1>2. row[i] # None /\ i # NewIdentity
  BY DEF GetIdentity, Removed, Allowed, Id, NewIdentity
<1>3. Created(i) \in Member /\ Created(i).id = i /\ Created(i).info = None
  BY CreatedMember DEF Created, NoObject
<1>4. storedIdentities[i] = o \/ ~Exists(o)
  BY <1>1
<1>5. r \in Member /\ r.id = i /\ (r.info # None => r.info.id = i)
  BY <1>3, <1>4, IdentitiesAssumption DEF TypeOK, IdsInv, MapIsLive, InfoIsOwn
<1>6. info \in Info
  BY <1>5, QueryInfoType
<1>7. info.id = i
  BY <1>2, <1>5 DEF QueryInfo, Loaded
<1>8. HandOut(c, i, o, info)
  <2>1. HandOut(c, i, o, info) \/ NotFound(c, i, o, info)
    BY <1>1
  <2> HIDE DEF info
  <2>2. NotFound(c, i, o, info) => info.id = NewIdentity
    BY DEF NotFound
  <2> QED
    BY <1>2, <1>7, <2>1, <2>2
<1> QED
  BY <1>1, <1>2, <1>4, <1>5, <1>6, <1>7, <1>8

LEMMA GetIdentityKeepsIds ==
  ASSUME TypeOK, TypeOK', IdsInv, "removed" \notin interference, NEW c \in Client, NEW i \in Id,
         GetIdentity(c, i)
  PROVE  IdsInv'
<1> DEFINE was(o) == IF Exists(o) THEN object[o] ELSE Created(i)
<1>1. PICK o \in Object :
        /\ HandOut(c, i, o, QueryInfo(was(o), FALSE))
        /\ storedIdentities[i] = o \/ ~Exists(o)
        /\ was(o) \in Member /\ was(o).id = i
        /\ QueryInfo(was(o), FALSE) \in Info /\ QueryInfo(was(o), FALSE).id = i
  BY GetIdentityHandsOut
<1> DEFINE r == was(o)
           info == QueryInfo(r, FALSE)
           new == [InUse(r) EXCEPT !.info = info, !.exported = TRUE]
           obj == [object EXCEPT ![o] = new]
<1>2. i # NewIdentity
  BY DEF Id, NewIdentity
<1>3. r.watched /\ r.status # "none"
  BY DEF IdsInv, AllWatched, Created, NoObject, Exists
<1>4. info \in Info /\ info.id = i /\ r \in Member /\ r.id = i
  BY <1>1
<1>5. /\ object' = DestroyUnused(obj)
      /\ storedIdentities' = [storedIdentities EXCEPT ![i] = o]
      /\ path' = [path EXCEPT ![c] = o]
      /\ known' = [known EXCEPT ![c] = i]
  BY <1>1, <1>2 DEF HandOut
<1> HIDE DEF info, r
<1>6. /\ new \in Member /\ new.id = i /\ new.info = info /\ new.watched
      /\ new.status # "none"
  <2>1. InUse(r) \in Member /\ InUse(r).watched /\ InUse(r).status # "none" /\ InUse(r).id = i
    <3>1. InUse(r) \in Member
      BY <1>4, MemberHelpers
    <3>2. InUse(r).watched = r.watched /\ InUse(r).status = r.status /\ InUse(r).id = r.id
      BY <1>4 DEF InUse, Member
    <3> QED
      BY <1>3, <1>4, <3>1, <3>2
  <2>2. new \in Member
    BY <1>4, <2>1, MemberHelpers
  <2> QED
    BY <1>4, <2>1, <2>2 DEF Member
<1> HIDE DEF new
<1>7. obj \in [Object -> Member] /\ obj[o] = new /\ \A p \in Object \ {o} : obj[p] = object[p]
  BY <1>6 DEF TypeOK
<1> HIDE DEF obj
<1>8. \A p \in Object : Near(obj[p], object'[p]) /\ object'[p].info = obj[p].info
  BY <1>5, <1>7, DestroyUnusedNear, DestroyUnusedInfo
<1>9. /\ object'[o].id = i /\ object'[o].watched /\ object'[o].status # "none"
      /\ object'[o].info.id = i
  BY <1>4, <1>6, <1>7, <1>8 DEF Near
<1>10. \/ object[o].id = i
       \/ (\A j \in Id : storedIdentities[j] # o) /\ \A d \in Client \ {c} : path[d] # o
  <2>1. CASE Exists(o)
    BY <1>1, <2>1, IdentitiesAssumption DEF IdsInv, MapIsLive
  <2>2. CASE ~Exists(o)
    BY <2>2, IdentitiesAssumption DEF IdsInv, MapIsLive, PathsAgree
  <2> QED
    BY <2>1, <2>2
<1> QED
  BY <1>5, <1>7, <1>8, <1>9, <1>10, HandedOutKeepsIds

LEMMA DeleteKeepsIds ==
  ASSUME TypeOK, IdsInv, NEW o \in Object, Delete(o)
  PROVE  IdsInv'
<1>1. /\ object' = [object EXCEPT ![o] = NoObject]
      /\ storedIdentities' = OnIdentityDestroyed(o)
      /\ path' = [c \in Client |-> IF path[c] = o THEN None ELSE path[c]]
      /\ known' = known
      /\ Exists(o)
  BY DEF Delete, Exists
<1>2. object'[o] = NoObject /\ \A p \in Object \ {o} : object'[p] = object[p]
  BY <1>1 DEF TypeOK
<1>3. NoObject.status = "none" /\ NoObject.info = None
  BY DEF NoObject
<1>4. \A i \in Id : storedIdentities'[i] = storedIdentities[i] \/ storedIdentities'[i] = None
  BY <1>1 DEF OnIdentityDestroyed, TypeOK
<1>5. \A i \in Id : storedIdentities'[i] # o
  <2> SUFFICES ASSUME NEW i \in Id, storedIdentities[i] = o
               PROVE  storedIdentities'[i] = None
    BY <1>4, IdentitiesAssumption
  <2>1. object[o].id = i /\ object[o].watched
    BY <1>1, IdentitiesAssumption DEF IdsInv, MapIsLive, AllWatched
  <2> QED
    BY <1>1, <2>1 DEF OnIdentityDestroyed, TypeOK
<1>6. MapIsLive'
  <2> SUFFICES ASSUME NEW i \in Id, storedIdentities'[i] # None
               PROVE  /\ object'[storedIdentities'[i]].status # "none"
                      /\ object'[storedIdentities'[i]].id = i
    BY DEF MapIsLive, Exists
  <2>1. storedIdentities'[i] = storedIdentities[i] /\ storedIdentities[i] \in Object \ {o}
    BY <1>4, <1>5 DEF TypeOK
  <2> QED
    BY <1>2, <2>1 DEF IdsInv, MapIsLive, Exists
<1>7. AllWatched'
  BY <1>2, <1>3 DEF IdsInv, AllWatched, Exists
<1>8. InfoIsOwn'
  BY <1>2, <1>3 DEF IdsInv, InfoIsOwn
<1>9. \A c \in Client : path'[c] # None => path'[c] = path[c] /\ path[c] \in Object \ {o}
  BY <1>1 DEF TypeOK
<1>10. PathsAgree'
  BY <1>1, <1>2, <1>9 DEF IdsInv, PathsAgree, Exists
<1>11. NewIsOwn'
  BY <1>2, <1>9 DEF IdsInv, NewIsOwn
<1> QED
  BY <1>6, <1>7, <1>8, <1>10, <1>11 DEF IdsInv

LEMMA InitIds == Init => IdsInv
BY DEF Init, IdsInv, MapIsLive, AllWatched, InfoIsOwn, PathsAgree, NewIsOwn, NoObject, Exists

LEMMA NextIds ==
  ASSUME TypeOK, TypeOK', IdsInv, [Next]_vars, "removed" \notin interference
  PROVE  IdsInv'
<1>1. CASE Next
  <2>1. ASSUME NEW c \in Client,
               \/ RegisterNewIdentity(c) \/ \E i \in Id : GetIdentity(c, i)
               \/ RequestCredentialsUpdate(c) \/ VerifyUser(c) \/ GetInfo(c)
               \/ Store(c) \/ Remove(c) \/ SignOut(c)
               \/ RemoveCompleted(c) \/ SignOutCompleted(c) \/ UiFails(c)
               \/ \E p \in Password :
                    VerifySecret(c, p) \/ QueryUiSlot(c, p) \/ VerifyUiSlot(c, p)
        PROVE  IdsInv'
    <3>1. CASE RegisterNewIdentity(c) \/ \E i \in Id : GetIdentity(c, i)
      BY <3>1, RegisterKeepsIds, GetIdentityKeepsIds
    <3>2. CASE \/ RequestCredentialsUpdate(c) \/ VerifyUser(c) \/ GetInfo(c)
               \/ \E p \in Password : VerifySecret(c, p)
      BY <3>2, CallsKeepIds
    <3>3. CASE Store(c)
      BY <3>3, StoreKeepsIds
    <3>4. CASE \E p \in Password : QueryUiSlot(c, p)
      BY <3>4, QueryUiKeepsIds
    <3>5. CASE \/ Remove(c) \/ SignOut(c)
               \/ RemoveCompleted(c) \/ SignOutCompleted(c) \/ UiFails(c)
               \/ \E p \in Password : VerifyUiSlot(c, p)
      BY <3>5, EventsKeepIds
    <3> QED
      BY <2>1, <3>1, <3>2, <3>3, <3>4, <3>5
  <2>2. CASE \/ \E i \in Id, p \in Password : SessionStores(i, p)
             \/ Clear \/ DisposeTimer
             \/ \E o \in Object : Inactive(o)
    BY <2>2, EventsKeepIds
  <2>3. CASE \E o \in Object : Delete(o)
    BY <2>3, DeleteKeepsIds
  <2> QED
    BY <1>1, <2>1, <2>2, <2>3 DEF Next
<1>2. CASE UNCHANGED vars
  BY <1>2 DEF vars, IdsInv, MapIsLive, AllWatched, InfoIsOwn, PathsAgree, NewIsOwn, Exists
<1> QED
  BY <1>1, <1>2

-------------------------------------------------------------------------------
(* Truth of the answers, where there is no disorder.  The inductive invariant adds to
   IdsInv: a copy that an object has agrees with the row of its identity, as long as that
   exists; an object with a dialog stays on the bus, and so do its copy and the row that
   the dialog is about; and the password that verifyUser() compares with is the one in
   the row. *)

Copies(info, r) == info.userName = r.userName /\ info.password \in {Empty, r.password}

NoOwnersLeft == orphan = {}

CopyIsTrue ==
  \A o \in Object : Exists(o) /\ object[o].info # None =>
    /\ object[o].id \in Id
    /\ row[object[o].id] # None => Copies(object[o].info, row[object[o].id])

ExportedLive == \A o \in Object : object[o].exported => object[o].status = "live"

Served(r, kind, rows) ==
  /\ r.status = "live" /\ ~r.autoDestruct
  /\ kind \in {"update", "verify"} => r.info # None /\ r.id \in Id /\ rows[r.id] # None
  /\ kind = "verify" => r.info.password = rows[r.id].password

DialogsStay ==
  \A c \in Client : call[c] # None => Served(object[call[c].obj], call[c].kind, row)

OneDialog ==
  \A c, d \in Client : call[c] # None /\ call[d] # None /\ call[c].obj = call[d].obj => c = d

Truthful == VerifiedAgainstStored /\ SuccessMeansStored /\ InfoIsStored

OrderlyInv ==
  NoOwnersLeft /\ CopyIsTrue /\ ExportedLive /\ DialogsStay /\ OneDialog /\ Truthful

(* The object of a call stays served while it keeps its copy and the identity its row. *)
LEMMA ServedStays ==
  ASSUME NEW r, NEW s, NEW kind, NEW rows, NEW rows1, Served(r, kind, rows),
         s.status = r.status, ~s.autoDestruct, s.id = r.id, s.info = r.info,
         kind \in {"update", "verify"} /\ r.id \in Id => rows1[r.id] = rows[r.id]
  PROVE  Served(s, kind, rows1)
BY DEF Served

(* queryInfo() makes a true copy, and asked for the password has it. *)
LEMMA QueryInfoCopies ==
  ASSUME TypeOK, NEW r \in Member, NEW b \in BOOLEAN, r.id \in Id, row[r.id] # None,
         r.info # None => Copies(r.info, row[r.id])
  PROVE  /\ QueryInfo(r, b) # None
         /\ Copies(QueryInfo(r, b), row[r.id])
         /\ b => QueryInfo(r, b).password = row[r.id].password
         /\ r.info # None /\ r.info.password = row[r.id].password
              => QueryInfo(r, b).password = row[r.id].password
<1>1. QueryInfo(r, b) \in Info
  BY QueryInfoType
<1>2. QueryInfo(r, b) = r.info \/ QueryInfo(r, b) = Loaded(r.id, b)
  BY DEF QueryInfo
<1>3. CASE QueryInfo(r, b) = Loaded(r.id, b)
  <2>1. Loaded(r.id, b) = [id |-> r.id, userName |-> row[r.id].userName,
                           keep |-> row[r.id].keep,
                           password |-> IF b THEN row[r.id].password ELSE Empty]
    BY DEF Loaded
  <2>2. row[r.id].password = Empty \/ b \/ r.info = None \/ r.info.password # row[r.id].password
        \/ QueryInfo(r, b) = r.info
    BY DEF QueryInfo
  <2> QED
    BY <1>1, <1>3, <2>1, <2>2, NoneAssumption DEF Copies
<1>4. CASE QueryInfo(r, b) = r.info /\ r.info # None
  <2>1. b /\ r.info.password = Empty => QueryInfo(r, b) = Loaded(r.id, b)
    BY DEF QueryInfo
  <2> QED
    BY <1>3, <1>4, <2>1 DEF Copies
<1> QED
  BY <1>2, <1>3, <1>4 DEF QueryInfo

(* Without disorder the database takes what it is given. *)
LEMMA OrderlyUpdate ==
  ASSUME TypeOK, interference = {}, NEW info \in Info,
         info.id # NewIdentity => row[info.id] # None,
         NEW r \in Update(info), TakeDb(r)
  PROVE  /\ r.ok /\ r.id \in Id
         /\ r.id = IF info.id = NewIdentity THEN lastId + 1 ELSE info.id
         /\ orphan' = orphan
         /\ \A i \in Id \ {r.id} : row'[i] = row[i]
         /\ row'[r.id] # None
         /\ row'[r.id].userName = info.userName
         /\ info.password # Empty => row'[r.id].password = info.password
<1>1. \A i \in Id : Written(info, i) # None
  <2> SUFFICES ASSUME NEW i \in Id
               PROVE  Written(info, i) \in Row
    BY NoneAssumption
  <2>1. row[i] \in Row \cup {None}
    BY DEF TypeOK
  <2> QED
    BY <2>1 DEF Written, Info, Row, Empty
<1>2. \A i : /\ Written(info, i).userName = info.userName
             /\ info.password # Empty => Written(info, i).password = info.password
  BY DEF Written
<1>3. CASE info.id = NewIdentity
  <2>1. PICK i \in {lastId + 1} \cap Id :
          r = [ok |-> TRUE, id |-> i, lastId |-> i, orphan |-> orphan,
               row |-> [row EXCEPT ![i] = Written(info, i)]]
    BY <1>3 DEF Update
  <2> QED
    BY <1>1, <1>2, <1>3, <2>1 DEF TakeDb, TypeOK
<1>4. CASE info.id # NewIdentity
  <2>1. info.id \in Id
    BY <1>4 DEF Info
  <2>2. r = [ok |-> TRUE, id |-> info.id, lastId |-> lastId, orphan |-> orphan,
             row |-> [row EXCEPT ![info.id] = Written(info, info.id)]]
    BY <1>4 DEF Update
  <2> QED
    BY <1>1, <1>2, <1>4, <2>1, <2>2 DEF TakeDb, TypeOK
<1> QED
  BY <1>3, <1>4

(* A dialog opens on an object that has none. *)
LEMMA NotBusy ==
  ASSUME interference = {}, NEW o \in Object, DialogOrderly(o), NEW d \in Client, call[d] # None
  PROVE  call[d].obj # o
BY DEF DialogOrderly, Busy

LEMMA CallsOrderly ==
  ASSUME TypeOK, IdsInv, OrderlyInv, interference = {}, NEW c \in Client,
         \/ RequestCredentialsUpdate(c) \/ VerifyUser(c) \/ GetInfo(c)
         \/ \E p \in Password : VerifySecret(c, p)
  PROVE  OrderlyInv'
<1> DEFINE o == path[c]
<1>1. /\ o \in Object /\ object[o] \in Member /\ Calls(c) /\ Allowed(object[o].id)
      /\ UNCHANGED <<row, orphan>>
  BY CallsRenew
     DEF RequestCredentialsUpdate, VerifyUser, GetInfo, VerifySecret, TypeOK
<1>2. /\ object[o].id \in Id /\ row[object[o].id] # None
      /\ object[o].status = "live"
  BY <1>1 DEF Calls, RemovedOrderly, Removed, Allowed, OrderlyInv, ExportedLive
<1>3. object[o].info # None =>
        /\ object[o].info.id = object[o].id
        /\ Copies(object[o].info, row[object[o].id])
  BY <1>1, <1>2 DEF OrderlyInv, CopyIsTrue, IdsInv, InfoIsOwn, Exists
<1>4. ASSUME NEW b \in BOOLEAN
      PROVE  /\ QueryInfo(object[o], b) \in Info
             /\ QueryInfo(object[o], b).id = object[o].id
             /\ Copies(QueryInfo(object[o], b), row[object[o].id])
             /\ b => QueryInfo(object[o], b).password = row[object[o].id].password
             /\ object[o].info # None /\ object[o].info.password = row[object[o].id].password
                  => QueryInfo(object[o], b).password = row[object[o].id].password
  <2>1. QueryInfo(object[o], b).id = object[o].id
    BY <1>2, <1>3 DEF QueryInfo, Loaded
  <2> QED
    BY <1>1, <1>2, <1>3, <2>1, QueryInfoType, QueryInfoCopies
<1>5. PICK b \in BOOLEAN, s \in Member :
        /\ Renewed(o, s, b)
        /\ \/ s.autoDestruct = object[o].autoDestruct /\ UNCHANGED call
           \/ ~s.autoDestruct /\ \E left \in 0 .. MaxRetries :
                \/ RequestCredentialsUpdate(c) /\ Opens(c, "update", left)
                \/ VerifyUser(c) /\ b /\ Opens(c, "verify", left)
  BY CallsRenew
<1>6. object'[o] = s /\ \A p \in Object \ {o} : object'[p] = object[p]
  BY <1>1, <1>5, RenewedNear
<1>7. /\ s.id = object[o].id /\ s.status = object[o].status /\ s.exported = object[o].exported
      /\ s.info = QueryInfo(object[o], b)
  BY <1>5 DEF Renewed
<1>8. NoOwnersLeft' /\ ExportedLive'
  BY <1>1, <1>6, <1>7 DEF OrderlyInv, NoOwnersLeft, ExportedLive
<1>9. CopyIsTrue'
  BY <1>1, <1>2, <1>4, <1>6, <1>7 DEF OrderlyInv, CopyIsTrue, Exists
<1>10. \A kind \in {"update", "verify"} : (kind = "verify" => b) /\ ~s.autoDestruct
         => Served(s, kind, row')
  BY <1>1, <1>2, <1>4, <1>7, NoneAssumption DEF Served
<1>11. ASSUME NEW d \in Client, call[d] # None, call'[d] = call[d],
              call[d].obj = o => s.autoDestruct = object[o].autoDestruct
       PROVE  Served(object'[call'[d].obj], call'[d].kind, row')
  <2>1. call[d].obj \in Object /\ Served(object[call[d].obj], call[d].kind, row)
    BY <1>11 DEF OrderlyInv, DialogsStay, TypeOK, Waiting
  <2>2. CASE call[d].obj = o
    <3>1. call[d].kind = "verify" =>
            object[o].info # None /\ object[o].info.password = row[object[o].id].password
      BY <2>1, <2>2 DEF Served
    <3>2. s.info # None /\ (call[d].kind = "verify" => s.info.password = row[object[o].id].password)
      BY <1>4, <1>7, <3>1, NoneAssumption
    <3> QED
      BY <1>1, <1>2, <1>6, <1>7, <1>11, <2>1, <2>2, <3>2 DEF Served
  <2>3. CASE call[d].obj # o
    BY <1>1, <1>6, <1>11, <2>1, <2>3 DEF Served
  <2> QED
    BY <2>2, <2>3
<1>12. DialogsStay' /\ OneDialog'
  <2>1. CASE s.autoDestruct = object[o].autoDestruct /\ UNCHANGED call
    BY <1>11, <2>1 DEF OrderlyInv, DialogsStay, OneDialog
  <2>2. ASSUME ~s.autoDestruct, NEW kind \in {"update", "verify"}, NEW left,
               Opens(c, kind, left), DialogOrderly(o), kind = "verify" => b
        PROVE  DialogsStay' /\ OneDialog'
    <3>1. /\ call'[c].obj = o /\ call'[c].kind = kind
          /\ \A d \in Client \ {c} : call'[d] = call[d]
        BY <2>2 DEF Opens, TypeOK
    <3>2. \A d \in Client : call[d] # None => call[d].obj # o
      BY <1>1, <2>2, NotBusy
    <3>3. Served(object'[o], kind, row')
      BY <1>6, <1>10, <2>2
    <3>4. DialogsStay'
      BY <1>11, <3>1, <3>2, <3>3 DEF DialogsStay
    <3> QED
      BY <3>1, <3>2, <3>4 DEF OrderlyInv, OneDialog
  <2> QED
    BY <1>5, <2>1, <2>2 DEF RequestCredentialsUpdate, VerifyUser
<1>asked. \A b1 \in {TRUE, FALSE} :
            /\ QueryInfo(object[o], b1).id = object[o].id
            /\ QueryInfo(object[o], b1).id # NewIdentity
            /\ Copies(QueryInfo(object[o], b1), row[object[o].id])
  <2>1. object[o].id # NewIdentity
    BY <1>2 DEF Id, NewIdentity
  <2>2. \A b1 \in {TRUE, FALSE} : b1 \in BOOLEAN
    OBVIOUS
  <2>3. ASSUME NEW b1 \in {TRUE, FALSE}
        PROVE  /\ QueryInfo(object[o], b1).id = object[o].id
               /\ QueryInfo(object[o], b1).id # NewIdentity
               /\ Copies(QueryInfo(object[o], b1), row[object[o].id])
    <3>1. /\ QueryInfo(object[o], b1).id = object[o].id
          /\ Copies(QueryInfo(object[o], b1), row[object[o].id])
      BY <1>4, <2>2
    <3> QED
      BY <2>1, <3>1
  <2> QED
    BY <2>3
<1>13. Truthful'
  <2>1. CASE answer' = None
    BY <2>1 DEF Truthful, VerifiedAgainstStored, SuccessMeansStored, InfoIsStored
  <2>2. CASE Error(c)
    BY <2>2 DEF Error, Truthful, VerifiedAgainstStored, SuccessMeansStored, InfoIsStored
  <2>3. CASE GetInfo(c)
    <3>1. TellsInfo(c, QueryInfo(object[o], FALSE))
      <4>1. QueryInfo(object[o], FALSE).id # NewIdentity
        BY <1>asked
      <4> QED
        BY <2>3, <4>1 DEF GetInfo
    <3>2. answer'.right /\ answer'.call = "info"
      BY <1>2, <1>asked, <3>1 DEF TellsInfo, Copies
    <3> QED
      BY <3>2 DEF Truthful, VerifiedAgainstStored, SuccessMeansStored, InfoIsStored
  <2>4. ASSUME NEW p \in Password, VerifySecret(c, p)
        PROVE  Truthful'
    <3>1. QueryInfo(object[o], TRUE).id # NewIdentity
      BY <1>asked
    <3>2. answer' = [to |-> c, call |-> "verify",
                     value |-> p = row[object[o].id].password,
                     right |-> p = row[object[o].id].password]
      BY <1>2, <1>asked, <2>4, <3>1 DEF VerifySecret, Copies
    <3> QED
      BY <3>2 DEF Truthful, VerifiedAgainstStored, SuccessMeansStored, InfoIsStored
  <2> QED
    BY <2>1, <2>2, <2>3, <2>4 DEF RequestCredentialsUpdate, VerifyUser
<1> QED
  BY <1>8, <1>9, <1>12, <1>13 DEF OrderlyInv

LEMMA TrueAnswer ==
  ASSUME \/ answer' = None
         \/ answer'.call \in {"error", "remove", "signOut"}
         \/ answer'.call \in {"store", "update", "info"} /\ answer'.right
         \/ answer'.value <=> answer'.right
  PROVE  Truthful'
BY DEF Truthful, VerifiedAgainstStored, SuccessMeansStored, InfoIsStored

(* Objects that change neither what they are nor their copy, or lose that, in a database
   whose rows stay or go *)
LEMMA CopiesStay ==
  ASSUME OrderlyInv, UNCHANGED orphan,
         \A p \in Object :
           /\ object'[p].status = "none" <=> object[p].status = "none"
           /\ object'[p].id = object[p].id
           /\ object'[p].info = object[p].info \/ object'[p].info = None
           /\ object'[p].exported => object[p].exported /\ object'[p].status = object[p].status,
         \A i \in Id : row'[i] = row[i] \/ row'[i] = None
  PROVE  NoOwnersLeft' /\ CopyIsTrue' /\ ExportedLive'
BY DEF OrderlyInv, NoOwnersLeft, CopyIsTrue, ExportedLive, Exists

LEMMA ObjectOfCall ==
  ASSUME TypeOK, OrderlyInv, NEW d \in Client, call[d] # None
  PROVE  /\ call[d].obj \in Object /\ call[d].kind \in Kind
         /\ Served(object[call[d].obj], call[d].kind, row)
         /\ object[call[d].obj].status = "live" /\ ~object[call[d].obj].autoDestruct
BY DEF OrderlyInv, DialogsStay, TypeOK, Waiting, Served

LEMMA OpensOrderly ==
  ASSUME TypeOK, IdsInv, OrderlyInv, interference = {}, NEW c \in Client,
         Remove(c) \/ SignOut(c)
  PROVE  OrderlyInv'
<1> DEFINE o == path[c]
           s == SetAutoDestruct(object[o], FALSE)
<1>1. /\ o \in Object /\ object[o] \in Member /\ object[o].exported /\ DialogOrderly(o)
      /\ object' = [object EXCEPT ![o] = s]
      /\ answer' = None
      /\ \A i \in Id : row'[i] = row[i] \/ row'[i] = None
  BY DEF Remove, SignOut, Calls, TypeOK, dbVars
<1>2. UNCHANGED orphan
  BY DEF Remove, SignOut, dbVars, OrderlyInv, NoOwnersLeft
<1>3. /\ s.status = object[o].status /\ s.id = object[o].id /\ s.info = object[o].info
      /\ s.exported = object[o].exported /\ ~s.autoDestruct
  BY <1>1 DEF SetAutoDestruct, Member
<1> HIDE DEF s
<1>4. object'[o] = s /\ \A p \in Object \ {o} : object'[p] = object[p]
  BY <1>1 DEF TypeOK
<1>5. NoOwnersLeft' /\ CopyIsTrue' /\ ExportedLive'
  BY <1>1, <1>2, <1>3, <1>4, CopiesStay
<1>6. PICK kind \in {"remove", "signOut"} : Opens(c, kind, 0)
  BY DEF Remove, SignOut
<1>7. /\ call'[c].obj = o /\ call'[c].kind = kind
      /\ \A d \in Client \ {c} : call'[d] = call[d]
  BY <1>6 DEF Opens, TypeOK
<1>8. \A d \in Client : call[d] # None => call[d].obj # o
  BY <1>1, NotBusy
<1>9. DialogsStay'
  <2>1. Served(object'[o], kind, row')
    BY <1>1, <1>3, <1>4 DEF Served, OrderlyInv, ExportedLive
  <2>2. ASSUME NEW d \in Client \ {c}, call[d] # None
        PROVE  Served(object'[call'[d].obj], call'[d].kind, row')
    <3> DEFINE p == call[d].obj
    <3>1. p \in Object /\ Served(object[p], call[d].kind, row) /\ object[p].status = "live"
      BY <2>2, ObjectOfCall
    <3>2. object[p].id \in Id => row'[object[p].id] = row[object[p].id]
      <4>1. CASE UNCHANGED row
        BY <4>1
      <4>2. CASE Remove(c)
        <5>1. object[p].id # object[o].id
          BY <2>2, <3>1, <4>2 DEF Remove, MeanwhileOrderly, Busy, Exists
        <5> QED
          BY <4>2, <5>1 DEF Remove, TypeOK
      <4> QED
        BY <4>1, <4>2 DEF SignOut, dbVars
    <3>3. object'[p] = object[p] /\ ~object[p].autoDestruct
      BY <1>4, <1>8, <2>2, <3>1 DEF Served
    <3> QED
      BY <1>7, <2>2, <3>1, <3>2, <3>3, ServedStays
  <2> QED
    BY <1>7, <2>1, <2>2 DEF DialogsStay
<1>10. OneDialog'
  BY <1>7, <1>8 DEF OrderlyInv, OneDialog
<1> QED
  BY <1>1, <1>5, <1>9, <1>10, TrueAnswer DEF OrderlyInv

(* The reply of signon-ui to client c: no other call waits for one on its object. *)
LEMMA RepliesOrderly ==
  ASSUME TypeOK, IdsInv, OrderlyInv, interference = {}, NEW c \in Client,
         \/ RemoveCompleted(c) \/ SignOutCompleted(c) \/ UiFails(c)
         \/ \E p \in Password : VerifyUiSlot(c, p)
  PROVE  OrderlyInv'
<1> DEFINE o == call[c].obj
<1>1. /\ call[c] # None /\ o \in Object /\ object[o] \in Member
      /\ object \in [Object -> Member] /\ object[o].status = "live"
      /\ UNCHANGED <<row, orphan>>
  BY ObjectOfCall
     DEF RemoveCompleted, SignOutCompleted, UiFails, VerifyUiSlot, Answers, dbVars, TypeOK
<1>2. \A v \in BOOLEAN :
        LET s == SetAutoDestruct(object[o], v)
        IN /\ s.status = object[o].status /\ s.id = object[o].id /\ s.info = object[o].info
           /\ s.exported = object[o].exported /\ s.autoDestruct = v /\ s \in Member
  BY <1>1 DEF SetAutoDestruct, Member
<1>3. \A d \in Client \ {c} : call'[d] = call[d] /\ (call[d] # None => call[d].obj # o)
  BY <1>1
     DEF RemoveCompleted, SignOutCompleted, UiFails, VerifyUiSlot, Reply, TypeOK, OrderlyInv,
         OneDialog
<1>4. /\ \A q \in Object \ {o} : object'[q] = object[q]
      /\ object'[o].status = object[o].status /\ object'[o].id = object[o].id
      /\ object'[o].info = object[o].info \/ object'[o].info = None
      /\ object'[o].exported = object[o].exported
  <2>1. \/ \E v \in BOOLEAN : object' = [object EXCEPT ![o] = SetAutoDestruct(object[o], v)]
        \/ object' = [object EXCEPT ![o] = [SetAutoDestruct(object[o], TRUE) EXCEPT !.info = None]]
    BY DEF RemoveCompleted, SignOutCompleted, UiFails, VerifyUiSlot
  <2>2. LET s == [SetAutoDestruct(object[o], TRUE) EXCEPT !.info = None]
        IN /\ s.status = object[o].status /\ s.id = object[o].id /\ s.info = None
           /\ s.exported = object[o].exported
    BY <1>1 DEF SetAutoDestruct, Member
  <2> QED
    BY <1>1, <1>2, <2>1, <2>2
<1>5. NoOwnersLeft' /\ CopyIsTrue' /\ ExportedLive'
  BY <1>1, <1>4, CopiesStay
<1>6. ASSUME NEW d \in Client \ {c}, call[d] # None
      PROVE  Served(object'[call'[d].obj], call'[d].kind, row')
  <2>1. call[d].obj \in Object /\ Served(object[call[d].obj], call[d].kind, row)
    BY <1>6, ObjectOfCall
  <2> QED
    BY <1>1, <1>3, <1>4, <1>6, <2>1
<1>7. CASE call'[c] = None
  <2>1. DialogsStay' /\ OneDialog'
    BY <1>3, <1>6, <1>7 DEF DialogsStay, OrderlyInv, OneDialog
  <2>2. Truthful'
    <3>1. CASE RemoveCompleted(c) \/ SignOutCompleted(c) \/ UiFails(c)
      <4>1. answer'.call \in {"error", "remove", "signOut"}
        <5>1. CASE RemoveCompleted(c)
          BY <5>1 DEF RemoveCompleted, Reply, Answers
        <5>2. CASE SignOutCompleted(c)
          BY <5>2 DEF SignOutCompleted, Reply, Answers
        <5>3. CASE UiFails(c)
          BY <5>3 DEF UiFails, Error
        <5> QED
          BY <3>1, <5>1, <5>2, <5>3
      <4> QED
        BY <4>1, TrueAnswer
    <3>2. ASSUME NEW p \in Password, VerifyUiSlot(c, p)
          PROVE  Truthful'
      <4>1. Served(object[o], "verify", row)
        BY <1>1, <3>2, ObjectOfCall DEF VerifyUiSlot, Answers
      <4>2. \/ answer' = None
            \/ answer'.value <=> answer'.right
        <5> DEFINE ret == object[o].info.password = p
                   i == object[o].id
        <5>1. ret <=> (i \in Id /\ row[i] # None /\ row[i].password = p)
          BY <4>1 DEF Served
        <5> HIDE DEF ret
        <5>2. \/ answer' = None
              \/ answer' = [to |-> c, call |-> call[c].kind, value |-> ret,
                            right |-> i \in Id /\ row[i] # None /\ row[i].password = p]
          BY <3>2 DEF VerifyUiSlot, Reply, ret
        <5> DEFINE right == i \in Id /\ row[i] # None /\ row[i].password = p
        <5>3. ret = right
          BY <5>1 DEF ret
        <5>4. CASE answer' = [to |-> c, call |-> call[c].kind, value |-> ret, right |-> right]
          <6> HIDE DEF right
          <6>1. answer'.value = ret /\ answer'.right = right
            BY <5>4
          <6> QED
            BY <5>3, <6>1
        <5> QED
          BY <5>2, <5>4
      <4> QED
        BY <4>2, TrueAnswer
    <3> QED
      BY <3>1, <3>2
  <2> QED
    BY <1>5, <2>1, <2>2 DEF OrderlyInv
<1>8. CASE call'[c] # None
  <2>1. PICK p \in Password :
          /\ object' = [object EXCEPT ![o] = SetAutoDestruct(@, FALSE)]
          /\ call' = [call EXCEPT ![c].left = @ - 1]
          /\ answer' = None
    BY <1>8 DEF RemoveCompleted, SignOutCompleted, UiFails, VerifyUiSlot, Reply, TypeOK
  <2>2. object'[o].info = object[o].info /\ ~object'[o].autoDestruct
    BY <1>1, <1>2, <2>1
  <2>3. call'[c].obj = o /\ call'[c].kind = call[c].kind
    BY <1>1, <2>1 DEF TypeOK, Waiting
  <2>4. Served(object'[o], call[c].kind, row')
    BY <1>1, <1>4, <2>2, ObjectOfCall, ServedStays
  <2>5. DialogsStay'
    BY <1>3, <1>6, <2>3, <2>4 DEF DialogsStay
  <2>6. OneDialog'
    BY <1>1, <1>3, <2>3 DEF OrderlyInv, OneDialog
  <2> QED
    BY <1>5, <2>1, <2>5, <2>6, TrueAnswer DEF OrderlyInv
<1> QED
  BY <1>7, <1>8

(* The row of identity i is written, and every object of the identity drops its copy; the
   objects out of Other drop theirs in any case. *)
LEMMA UpdateOrderly ==
  ASSUME TypeOK, OrderlyInv, NEW i \in Id, NEW Other \in SUBSET Object, UNCHANGED orphan,
         \A j \in Id \ {i} : row'[j] = row[j],
         \A p \in Other : object'[p] = CredentialsUpdated(object, i)[p],
         \A p \in Object \ Other :
           object'[p].info = None /\ (object'[p].exported => object'[p].status = "live")
  PROVE  /\ NoOwnersLeft' /\ CopyIsTrue' /\ ExportedLive'
         /\ \A d \in Client :
              /\ call[d] # None /\ call[d].obj \in Other /\ call'[d] = call[d]
              /\ object[call[d].obj].id # i
              => Served(object'[call'[d].obj], call'[d].kind, row')
<1>1. object \in [Object -> Member]
  BY DEF TypeOK
<1>2. ASSUME NEW p \in Other
      PROVE  /\ object'[p].info \in {object[p].info, None}
             /\ object[p].status # "none" /\ object[p].id = i => object'[p].info = None
             /\ object[p].id # i => object'[p] = object[p]
             /\ object'[p].id = object[p].id /\ object'[p].status = object[p].status
             /\ object'[p].exported = object[p].exported
  BY <1>1, CredentialsUpdatedInfo
<1>3. NoOwnersLeft' /\ ExportedLive'
  BY <1>2 DEF OrderlyInv, NoOwnersLeft, ExportedLive
<1>4. CopyIsTrue'
  <2> SUFFICES ASSUME NEW p \in Object, object'[p].status # "none", object'[p].info # None
               PROVE  /\ object'[p].id \in Id
                      /\ row'[object'[p].id] # None =>
                           Copies(object'[p].info, row'[object'[p].id])
    BY DEF CopyIsTrue, Exists
  <2>1. /\ p \in Other /\ object[p].status # "none" /\ object[p].info = object'[p].info
        /\ object[p].id # i /\ object'[p].id = object[p].id
    BY <1>2
  <2> QED
    BY <2>1 DEF OrderlyInv, CopyIsTrue, Exists
<1>5. ASSUME NEW d \in Client, call[d] # None, call[d].obj \in Other, call'[d] = call[d],
             object[call[d].obj].id # i
      PROVE  Served(object'[call'[d].obj], call'[d].kind, row')
  <2>1. /\ Served(object[call[d].obj], call[d].kind, row)
        /\ object'[call[d].obj] = object[call[d].obj]
        /\ ~object[call[d].obj].autoDestruct
    BY <1>2, <1>5, ObjectOfCall
  <2>2. object[call[d].obj].id \in Id => row'[object[call[d].obj].id] = row[object[call[d].obj].id]
    BY <1>5
  <2> QED
    BY <1>5, <2>1, <2>2, ServedStays
<1> QED
  BY <1>3, <1>4, <1>5

LEMMA QueryUiOrderly ==
  ASSUME TypeOK, MapInv, IdsInv, OrderlyInv, interference = {}, NEW c \in Client,
         NEW p \in Password, QueryUiSlot(c, p)
  PROVE  OrderlyInv'
<1> DEFINE o == call[c].obj
           info == [object[o].info EXCEPT !.password = p]
           i == object[o].id
<1>1. /\ o \in Object /\ object[o].info # None /\ object[o].info \in Info /\ info \in Info
      /\ info.id = object[o].info.id /\ info.password = p /\ call[c] # None
      /\ call[c].kind = "update"
  BY QueryUiUpdates DEF QueryUiSlot, Answers
<1>2. /\ Served(object[o], "update", row) /\ i \in Id /\ row[i] # None
      /\ object[o].status = "live" /\ info.id = i
  BY <1>1, ObjectOfCall DEF Served, IdsInv, InfoIsOwn
<1> HIDE DEF info
<1>3. PICK r \in Update(info) :
        /\ TakeDb(r)
        /\ Reply(c, r.ok, r.ok /\ row'[r.id] # None /\ row'[r.id].password = p)
        /\ object'[o].info = None /\ object'[o].status = object[o].status
        /\ \A q \in Object :
             /\ Near(object[q], object'[q])
             /\ q # o => object'[q] = (IF r.ok THEN CredentialsUpdated(object, r.id)
                                       ELSE object)[q]
  BY QueryUiUpdates DEF info
<1>4. i # NewIdentity
  BY <1>2 DEF Id, NewIdentity
<1>5. /\ r.ok /\ r.id = i /\ orphan' = orphan /\ \A j \in Id \ {i} : row'[j] = row[j]
      /\ row'[i] # None /\ (p # Empty => row'[i].password = p)
  BY <1>1, <1>2, <1>3, <1>4, OrderlyUpdate
<1>6. \A q \in Object \ {o} : object'[q] = CredentialsUpdated(object, i)[q]
  BY <1>3, <1>5
<1>7. object'[o].exported => object'[o].status = "live"
  BY <1>2, <1>3
<1>8. \A d \in Client \ {c} :
        /\ call'[d] = call[d]
        /\ call[d] # None =>
             call[d].obj \in Object \ {o} /\ object[call[d].obj].id # i
  <2>1. ASSUME NEW d \in Client \ {c}, call[d] # None
        PROVE  call[d].obj \in Object \ {o} /\ object[call[d].obj].id # i
    <3>1. call[d].obj # o
      BY <1>1, <2>1 DEF OrderlyInv, OneDialog
    <3>2. call[d].obj \in Object /\ object[call[d].obj].status = "live"
      BY <2>1, ObjectOfCall
    <3> QED
      BY <1>1, <1>2, <3>1, <3>2 DEF MapInv, InMap, LiveWatched, Exists
  <2> QED
    BY <1>3, <2>1 DEF Reply, TypeOK
<1>9. /\ NoOwnersLeft' /\ CopyIsTrue' /\ ExportedLive'
      /\ \A d \in Client \ {c} : call[d] # None => Served(object'[call'[d].obj], call'[d].kind, row')
  <2>1. \A q \in Object \ (Object \ {o}) : object'[q].info = None
          /\ (object'[q].exported => object'[q].status = "live")
    BY <1>3, <1>7
  <2> QED
    BY <1>2, <1>5, <1>6, <1>8, <2>1, UpdateOrderly
<1>10. call'[c] = None
  BY <1>3 DEF Reply, TypeOK
<1>11. DialogsStay' /\ OneDialog'
  BY <1>8, <1>9, <1>10 DEF DialogsStay, OrderlyInv, OneDialog
<1>12. answer'.call = "update" /\ answer'.right
  BY <1>1, <1>3, <1>5, IdentitiesAssumption DEF Reply, Empty
<1> QED
  BY <1>9, <1>11, <1>12, TrueAnswer DEF OrderlyInv

LEMMA StoreOrderly ==
  ASSUME TypeOK, MapInv, IdsInv, OrderlyInv, interference = {}, NEW c \in Client, Store(c)
  PROVE  OrderlyInv'
<1> DEFINE o == path[c]
<1>1. /\ o \in Object /\ object[o] \in Member /\ object[o].exported
      /\ UNCHANGED <<path, call>> /\ ~Removed(object[o].id) /\ MeanwhileOrderly(object[o].id)
  BY StoreStores DEF TypeOK
<1>2. PICK new \in Given : \E r \in Update(InfoToStore(c, new)) :
        Stored(c, new, InfoToStore(c, new), r)
  BY StoreStores
<1> DEFINE info == InfoToStore(c, new)
<1>3. /\ info \in Info
      /\ info.id = IF object[o].info = None THEN known[c] ELSE object[o].info.id
      /\ info.userName = new.userName
      /\ new.password # Empty => info.password = new.password
  BY <1>1, InfoToStoreIs
<1>4. PICK r \in Update(info) : Stored(c, new, info, r)
  BY <1>2
<1> HIDE DEF info
<1>5. /\ info.id = object[o].id
      /\ object[o].status = "live"
  BY <1>1, <1>3, IdentitiesAssumption DEF IdsInv, PathsAgree, InfoIsOwn, OrderlyInv, ExportedLive
<1>6. info.id # NewIdentity => row[info.id] # None
  BY <1>1, <1>3, <1>5 DEF Removed, Info
<1>7. /\ r.ok /\ r.id \in Id /\ orphan' = orphan
      /\ r.id = IF info.id = NewIdentity THEN lastId + 1 ELSE info.id
      /\ \A j \in Id \ {r.id} : row'[j] = row[j]
      /\ row'[r.id] # None /\ row'[r.id].userName = new.userName
      /\ new.password # Empty => row'[r.id].password = new.password
  <2>1. TakeDb(r)
    BY <1>4 DEF Stored
  <2> QED
    BY <1>3, <1>6, <2>1, OrderlyUpdate
<1>8. /\ object'[o].info = None
      /\ object'[o].status = "live"
      /\ \A q \in Object \ {o} : object'[q] = CredentialsUpdated(object, r.id)[q]
  BY <1>4, <1>5, <1>7 DEF Stored
<1>9. ASSUME NEW d \in Client, call[d] # None
      PROVE  call[d].obj \in Object \ {o} /\ object[call[d].obj].id # r.id
  <2>1. call[d].obj \in Object /\ object[call[d].obj].status = "live"
    BY <1>9, ObjectOfCall
  <2>2. object[call[d].obj].id # object[o].id
    BY <1>1, <1>9, <2>1 DEF MeanwhileOrderly, Busy, Exists
  <2>3. object[call[d].obj].id <= lastId /\ object[call[d].obj].id \in Nat /\ lastId \in Nat
    BY <2>1, IdsAreNumbers DEF MapInv, IdsGiven
  <2>4. CASE info.id = NewIdentity
    <3>1. r.id = lastId + 1
      BY <1>7, <2>4
    <3> QED
      BY <2>1, <2>2, <2>3, <3>1
  <2>5. CASE info.id # NewIdentity
    BY <1>5, <1>7, <2>1, <2>2, <2>5
  <2> QED
    BY <2>4, <2>5
<1>10. /\ NoOwnersLeft' /\ CopyIsTrue' /\ ExportedLive'
       /\ \A d \in Client : call[d] # None => Served(object'[call'[d].obj], call'[d].kind, row')
  <2> DEFINE Other == Object \ {o}
  <2>1. \A p \in Object \ Other : object'[p].info = None /\ object'[p].status = "live"
    BY <1>8
  <2>2. \A d \in Client : call[d] # None =>
          call[d].obj \in Other /\ call'[d] = call[d] /\ object[call[d].obj].id # r.id
    BY <1>1, <1>9
  <2>3. Other \in SUBSET Object /\ \A p \in Other : object'[p] = CredentialsUpdated(object, r.id)[p]
    BY <1>8
  <2> HIDE DEF Other
  <2> QED
    BY <1>7, <2>1, <2>2, <2>3, UpdateOrderly
<1>11. DialogsStay' /\ OneDialog'
  BY <1>1, <1>10 DEF DialogsStay, OrderlyInv, OneDialog
<1>12. answer'.call = "store" /\ answer'.right
  BY <1>4, <1>7 DEF Stored
<1> QED
  BY <1>10, <1>11, <1>12, TrueAnswer DEF OrderlyInv

LEMMA SessionStoresOrderly ==
  ASSUME TypeOK, OrderlyInv, interference = {}, NEW i \in Id, NEW p \in Password,
         SessionStores(i, p)
  PROVE  OrderlyInv'
<1>1. /\ UNCHANGED <<orphan, call>> /\ answer' = None
      /\ object' = CredentialsUpdated(object, i)
      /\ \A j \in Id \ {i} : row'[j] = row[j]
  BY DEF SessionStores, TypeOK
<1>2. ASSUME NEW d \in Client, call[d] # None
      PROVE  call[d].obj \in Object /\ object[call[d].obj].id # i
  <2>1. call[d].obj \in Object /\ object[call[d].obj].status = "live"
    BY <1>2, ObjectOfCall
  <2> QED
    BY <1>2, <2>1 DEF SessionStores, MeanwhileOrderly, Busy, Exists
<1>3. /\ NoOwnersLeft' /\ CopyIsTrue' /\ ExportedLive'
      /\ \A d \in Client : call[d] # None => Served(object'[call'[d].obj], call'[d].kind, row')
  BY <1>1, <1>2, UpdateOrderly
<1> QED
  BY <1>1, <1>3, TrueAnswer DEF DialogsStay, OrderlyInv, OneDialog

(* What disposes of objects leaves those that have dialogs. *)
LEMMA DisposedStays ==
  ASSUME NEW obj \in [Object -> Member], NEW o \in Object
  PROVE  LET r == DestroyUnused(obj)[o]
         IN /\ r.status = "none" <=> obj[o].status = "none"
            /\ r.id = obj[o].id /\ r.info = obj[o].info
            /\ r.exported => obj[o].exported /\ r.status = obj[o].status
            /\ ~obj[o].autoDestruct => r = obj[o]
BY DEF DestroyUnused, Destroyed, Member

LEMMA TimersOrderly ==
  ASSUME TypeOK, OrderlyInv, DisposeTimer \/ \E o \in Object : Inactive(o)
  PROVE  OrderlyInv'
<1>1. UNCHANGED <<row, orphan, call>> /\ answer' = None /\ object \in [Object -> Member]
  BY DEF DisposeTimer, Inactive, dbVars, TypeOK
<1>2. ASSUME NEW p \in Object
      PROVE  /\ object'[p].status = "none" <=> object[p].status = "none"
             /\ object'[p].id = object[p].id /\ object'[p].info = object[p].info
             /\ object'[p].exported => object[p].exported /\ object'[p].status = object[p].status
             /\ ~object[p].autoDestruct =>
                  ~object'[p].autoDestruct /\ object'[p].status = object[p].status
  <2>1. CASE DisposeTimer
    BY <1>1, <2>1, DisposedStays DEF DisposeTimer
  <2>2. ASSUME NEW o \in Object, Inactive(o)
        PROVE  /\ object'[p].status = object[p].status /\ object'[p].id = object[p].id
               /\ object'[p].info = object[p].info /\ object'[p].exported = object[p].exported
               /\ object'[p].autoDestruct = object[p].autoDestruct
    BY <1>1, <2>2 DEF Inactive, Member
  <2> QED
    BY <2>1, <2>2
<1>3. NoOwnersLeft' /\ CopyIsTrue' /\ ExportedLive'
  BY <1>1, <1>2, CopiesStay
<1>4. ASSUME NEW d \in Client, call[d] # None
      PROVE  Served(object'[call'[d].obj], call'[d].kind, row')
  BY <1>1, <1>2, <1>4, ObjectOfCall, ServedStays
<1> QED
  BY <1>1, <1>3, <1>4, TrueAnswer DEF OrderlyInv, DialogsStay, OneDialog

LEMMA DeleteOrderly ==
  ASSUME TypeOK, OrderlyInv, NEW o \in Object, Delete(o)
  PROVE  OrderlyInv'
<1>1. /\ UNCHANGED <<row, orphan>> /\ answer' = None
      /\ object[o].status = "doomed"
      /\ object'[o] = NoObject /\ \A p \in Object \ {o} : object'[p] = object[p]
  BY DEF Delete, dbVars, TypeOK
<1>2. NoObject.status = "none" /\ NoObject.info = None /\ ~NoObject.exported
  BY DEF NoObject
<1>3. NoOwnersLeft' /\ CopyIsTrue' /\ ExportedLive'
  BY <1>1, <1>2 DEF OrderlyInv, NoOwnersLeft, CopyIsTrue, ExportedLive, Exists
<1>4. \A d \in Client : call[d] # None => call[d].obj \in Object \ {o}
  BY <1>1, ObjectOfCall
<1>5. UNCHANGED call
  BY <1>4 DEF Delete, TypeOK
<1>6. ASSUME NEW d \in Client, call[d] # None
      PROVE  Served(object'[call'[d].obj], call'[d].kind, row')
  BY <1>1, <1>4, <1>5, <1>6, ObjectOfCall
<1> QED
  BY <1>1, <1>3, <1>5, <1>6, TrueAnswer DEF OrderlyInv, DialogsStay, OneDialog

(* An object is put in the place of o, live and with a true copy or none; then the unused
   ones are destroyed. *)
LEMMA HandedOutOrderly ==
  ASSUME TypeOK, OrderlyInv, NEW o \in Object, NEW s \in Member, s.status = "live",
         object' = DestroyUnused([object EXCEPT ![o] = s]),
         s.info # None => s.id \in Id /\ (row[s.id] # None => Copies(s.info, row[s.id])),
         \A d \in Client : call[d] # None /\ call[d].obj = o => Served(s, call[d].kind, row),
         UNCHANGED <<row, orphan, call>>
  PROVE  NoOwnersLeft' /\ CopyIsTrue' /\ ExportedLive' /\ DialogsStay' /\ OneDialog'
<1> DEFINE obj == [object EXCEPT ![o] = s]
<1>1. obj \in [Object -> Member] /\ obj[o] = s /\ \A p \in Object \ {o} : obj[p] = object[p]
  BY DEF TypeOK
<1> HIDE DEF obj
<1>2. ASSUME NEW p \in Object
      PROVE  /\ object'[p].status = "none" <=> obj[p].status = "none"
             /\ object'[p].id = obj[p].id /\ object'[p].info = obj[p].info
             /\ object'[p].exported => obj[p].exported /\ object'[p].status = obj[p].status
             /\ ~obj[p].autoDestruct => object'[p] = obj[p]
  BY <1>1, DisposedStays DEF obj
<1>3. NoOwnersLeft'
  BY DEF OrderlyInv, NoOwnersLeft
<1>4. CopyIsTrue'
  <2> SUFFICES ASSUME NEW p \in Object, object'[p].status # "none", object'[p].info # None
               PROVE  /\ object'[p].id \in Id
                      /\ row[object'[p].id] # None => Copies(object'[p].info, row[object'[p].id])
    BY DEF CopyIsTrue, Exists
  <2>1. obj[p].status # "none" /\ obj[p].info # None
    BY <1>2
  <2>2. /\ obj[p].id \in Id
        /\ row[obj[p].id] # None => Copies(obj[p].info, row[obj[p].id])
    BY <1>1, <2>1 DEF OrderlyInv, CopyIsTrue, Exists
  <2> QED
    BY <1>2, <2>2
<1>5. ExportedLive'
  <2>1. \A p \in Object : obj[p].exported => obj[p].status = "live"
    BY <1>1 DEF OrderlyInv, ExportedLive
  <2> QED
    BY <1>2, <2>1 DEF ExportedLive
<1>6. ASSUME NEW d \in Client, call[d] # None
      PROVE  Served(object'[call'[d].obj], call'[d].kind, row')
  <2>1. /\ call[d].obj \in Object /\ Served(object[call[d].obj], call[d].kind, row)
        /\ ~object[call[d].obj].autoDestruct
    BY <1>6, ObjectOfCall
  <2>2. Served(obj[call[d].obj], call[d].kind, row) /\ ~obj[call[d].obj].autoDestruct
    BY <1>1, <1>6, <2>1 DEF Served
  <2> QED
    BY <1>2, <2>1, <2>2
<1> QED
  BY <1>3, <1>4, <1>5, <1>6 DEF OrderlyInv, DialogsStay, OneDialog

LEMMA RegisterOrderly ==
  ASSUME TypeOK, OrderlyInv, NEW c \in Client, RegisterNewIdentity(c)
  PROVE  OrderlyInv'
<1>1. PICK o \in Object :
        /\ ~Exists(o)
        /\ object' = DestroyUnused([object EXCEPT ![o] = Created(NewIdentity)])
  BY DEF RegisterNewIdentity
<1>2. UNCHANGED <<row, orphan, call>> /\ answer' = None
  BY DEF RegisterNewIdentity, dbVars
<1>3. /\ Created(NewIdentity) \in Member
      /\ Created(NewIdentity).status = "live" /\ Created(NewIdentity).info = None
  BY CreatedMember DEF Created, NoObject
<1>4. \A d \in Client : call[d] # None => call[d].obj # o
  BY <1>1, ObjectOfCall DEF Exists
<1> QED
  BY <1>1, <1>2, <1>3, <1>4, HandedOutOrderly, TrueAnswer DEF OrderlyInv

LEMMA GetIdentityOrderly ==
  ASSUME TypeOK, IdsInv, OrderlyInv, interference = {}, NEW c \in Client, NEW i \in Id,
         GetIdentity(c, i)
  PROVE  OrderlyInv'
<1> DEFINE was(o) == IF Exists(o) THEN object[o] ELSE Created(i)
<1>1. PICK o \in Object :
        /\ HandOut(c, i, o, QueryInfo(was(o), FALSE))
        /\ object[o].status = "doomed" => "late" \in interference
        /\ was(o) \in Member /\ was(o).id = i /\ row[i] # None
        /\ QueryInfo(was(o), FALSE) \in Info /\ QueryInfo(was(o), FALSE).id = i
  BY GetIdentityHandsOut
<1> DEFINE r == was(o)
           info == QueryInfo(r, FALSE)
           new == [InUse(r) EXCEPT !.info = info, !.exported = TRUE]
<1>2. UNCHANGED <<row, orphan, call>>
  BY DEF GetIdentity, dbVars
<1>3. r.status = "live" /\ (~Exists(o) => r.info = None)
  BY <1>1 DEF Created, NoObject, Exists, TypeOK, Member
<1>4. r.info # None => Copies(r.info, row[i])
  BY <1>1, <1>3 DEF OrderlyInv, CopyIsTrue, Exists
<1>5. /\ info # None /\ Copies(info, row[i])
      /\ r.info # None /\ r.info.password = row[i].password => info.password = row[i].password
  <2>1. r \in Member /\ r.id = i /\ i \in Id /\ row[i] # None
    BY <1>1
  <2> HIDE DEF r
  <2> QED
    BY <1>4, <2>1, QueryInfoCopies
<1>6. info \in Info /\ info.id = i /\ r \in Member /\ r.id = i
  BY <1>1
<1>7. /\ object' = DestroyUnused([object EXCEPT ![o] = new])
      /\ TellsInfo(c, info)
  BY <1>1 DEF HandOut
<1>8. Exists(o) => r = object[o]
  OBVIOUS
<1> HIDE DEF info, r
<1>9. /\ new \in Member /\ new.id = i /\ new.info = info /\ new.status = "live"
      /\ new.autoDestruct = r.autoDestruct
  <2>1. InUse(r) \in Member
    BY <1>6, MemberHelpers
  <2>2. InUse(r).id = r.id /\ InUse(r).status = r.status /\ InUse(r).autoDestruct = r.autoDestruct
    BY <1>6 DEF InUse, Member
  <2>3. new \in Member
    BY <1>6, <2>1, MemberHelpers
  <2> QED
    BY <1>3, <1>6, <2>1, <2>2, <2>3 DEF Member
<1> HIDE DEF new
<1>10. ASSUME NEW d \in Client, call[d] # None, call[d].obj = o
       PROVE  Served(new, call[d].kind, row)
  <2>1. Served(object[o], call[d].kind, row) /\ r = object[o]
    BY <1>8, <1>10, ObjectOfCall DEF Exists
  <2> QED
    BY <1>1, <1>3, <1>5, <1>6, <1>9, <2>1 DEF Served
<1>11. NoOwnersLeft' /\ CopyIsTrue' /\ ExportedLive' /\ DialogsStay' /\ OneDialog'
  BY <1>2, <1>5, <1>7, <1>9, <1>10, HandedOutOrderly
<1>12. answer'.call = "info" /\ answer'.right
  BY <1>1, <1>5, <1>6, <1>7 DEF TellsInfo, Copies
<1> QED
  BY <1>11, <1>12, TrueAnswer DEF OrderlyInv

LEMMA InitOrderly == Init => OrderlyInv
BY DEF Init, OrderlyInv, NoOwnersLeft, CopyIsTrue, ExportedLive, DialogsStay, OneDialog, NoObject,
       Exists, Truthful, VerifiedAgainstStored, SuccessMeansStored, InfoIsStored

LEMMA NextOrderly ==
  ASSUME TypeOK, MapInv, IdsInv, OrderlyInv, interference = {}, [Next]_vars
  PROVE  OrderlyInv'
<1>1. CASE Next
  <2>1. ASSUME NEW c \in Client,
               \/ RegisterNewIdentity(c) \/ \E i \in Id : GetIdentity(c, i)
               \/ RequestCredentialsUpdate(c) \/ VerifyUser(c) \/ GetInfo(c)
               \/ Store(c) \/ Remove(c) \/ SignOut(c)
               \/ RemoveCompleted(c) \/ SignOutCompleted(c) \/ UiFails(c)
               \/ \E p \in Password :
                    VerifySecret(c, p) \/ QueryUiSlot(c, p) \/ VerifyUiSlot(c, p)
        PROVE  OrderlyInv'
    <3>1. CASE RegisterNewIdentity(c) \/ \E i \in Id : GetIdentity(c, i)
      BY <3>1, RegisterOrderly, GetIdentityOrderly
    <3>2. CASE \/ RequestCredentialsUpdate(c) \/ VerifyUser(c) \/ GetInfo(c)
               \/ \E p \in Password : VerifySecret(c, p)
      BY <3>2, CallsOrderly
    <3>3. CASE Store(c)
      BY <3>3, StoreOrderly
    <3>4. CASE \E p \in Password : QueryUiSlot(c, p)
      BY <3>4, QueryUiOrderly
    <3>5. CASE Remove(c) \/ SignOut(c)
      BY <3>5, OpensOrderly
    <3>6. CASE \/ RemoveCompleted(c) \/ SignOutCompleted(c) \/ UiFails(c)
               \/ \E p \in Password : VerifyUiSlot(c, p)
      BY <3>6, RepliesOrderly
    <3> QED
      BY <2>1, <3>1, <3>2, <3>3, <3>4, <3>5, <3>6
  <2>2. CASE \E i \in Id, p \in Password : SessionStores(i, p)
    BY <2>2, SessionStoresOrderly
  <2>3. CASE DisposeTimer \/ \E o \in Object : Inactive(o)
    BY <2>3, TimersOrderly
  <2>4. CASE \E o \in Object : Delete(o)
    BY <2>4, DeleteOrderly
  <2>5. ~Clear
    BY DEF Clear
  <2> QED
    BY <1>1, <2>1, <2>2, <2>3, <2>4, <2>5 DEF Next
<1>2. CASE UNCHANGED vars
  BY <1>2
     DEF vars, OrderlyInv, NoOwnersLeft, CopyIsTrue, ExportedLive, DialogsStay, OneDialog,
         Exists, Truthful, VerifiedAgainstStored, SuccessMeansStored, InfoIsStored
<1> QED
  BY <1>1, <1>2

(* All that holds of the identities' objects *)
IdentityInv ==
  /\ TypeOK
  /\ MapInv
  /\ "removed" \notin interference => IdsInv
  /\ interference = {} => OrderlyInv

LEMMA IdentityInvHolds == Spec => []IdentityInv
<1>1. Init => IdentityInv
  BY InitType, InitMap, InitIds, InitOrderly DEF IdentityInv
<1>2. IdentityInv /\ [Next]_vars => IdentityInv'
  <2> SUFFICES ASSUME IdentityInv, [Next]_vars
               PROVE  IdentityInv'
    OBVIOUS
  <2>1. TypeOK' /\ MapInv'
    BY NextType, NextMap DEF IdentityInv
  <2>2. UNCHANGED interference
    BY DEF Next, vars
  <2>3. "removed" \notin interference => IdsInv'
    BY <2>1, NextIds DEF IdentityInv
  <2>4. interference = {} => OrderlyInv'
    BY NextOrderly DEF IdentityInv
  <2> QED
    BY <2>1, <2>2, <2>3, <2>4 DEF IdentityInv
<1> QED
  BY <1>1, <1>2, PTL DEF Spec

(* m_storedIdentities names live objects, each under the identifier it has, as long as no
   removed identity is used: the entry that onIdentityDestroyed() takes out is the object's,
   although store() may have given it its identifier after it was created. *)
THEOREM MapNamesLiveObjects == Spec => []MapIsLiveUnlessRemoved
<1>1. IdentityInv => MapIsLiveUnlessRemoved
  BY DEF IdentityInv, IdsInv, MapIsLiveUnlessRemoved
<1> QED
  BY <1>1, IdentityInvHolds, PTL

(* What verifyUser(), verifySecret(), store(), requestCredentialsUpdate(), getInfo() and
   getIdentity() answer, partly from copies made earlier, is true of the database, as long
   as an identity is not stored while a dialog is open and the database can be written. *)
THEOREM AnswersAreTrue == Spec => []OrderlyAnswersAreTrue
<1>1. IdentityInv => OrderlyAnswersAreTrue
  BY DEF IdentityInv, OrderlyInv, Truthful, OrderlyAnswersAreTrue
<1> QED
  BY <1>1, IdentityInvHolds, PTL

(* A call that waits for a dialog ends only with a reply to its caller. *)
LEMMA ClosedWithAnswer ==
  ASSUME TypeOK, OrderlyInv, interference = {}, Next, NEW c \in Client,
         call[c] # None, call'[c] = None
  PROVE  answer' # None /\ answer'.to = c
<1>1. ASSUME NEW d \in Client,
             \/ RegisterNewIdentity(d) \/ \E i \in Id : GetIdentity(d, i)
             \/ RequestCredentialsUpdate(d) \/ VerifyUser(d) \/ GetInfo(d)
             \/ Store(d) \/ Remove(d) \/ SignOut(d)
             \/ \E p \in Password : VerifySecret(d, p)
      PROVE  FALSE
  <2>1. \/ UNCHANGED call
        \/ call[d] = None /\ \A e \in Client \ {d} : call'[e] = call[e]
    BY <1>1
       DEF RegisterNewIdentity, GetIdentity, RequestCredentialsUpdate, VerifyUser, GetInfo,
           Store, Remove, SignOut, VerifySecret, Calls, Opens, TypeOK
  <2> QED
    BY <2>1
<1>2. ASSUME NEW d \in Client,
             \/ RemoveCompleted(d) \/ SignOutCompleted(d) \/ UiFails(d)
             \/ \E p \in Password : QueryUiSlot(d, p) \/ VerifyUiSlot(d, p)
      PROVE  answer' # None /\ answer'.to = c
  <2>1. \A e \in Client \ {d} : call'[e] = call[e]
    BY <1>2
       DEF RemoveCompleted, SignOutCompleted, UiFails, QueryUiSlot, VerifyUiSlot, Reply, TypeOK
  <2>2. c = d
    BY <2>1
  <2>3. call[d].kind \in Kind
    BY <2>2, ObjectOfCall
  <2>4. \A value, right \in BOOLEAN : Reply(d, value, right) => answer' \in Told /\ answer'.to = c
    BY <2>2, <2>3 DEF Reply, Told
  <2>5. ASSUME NEW p \in Password, QueryUiSlot(d, p)
        PROVE  \E value, right \in BOOLEAN : Reply(d, value, right)
    <3> DEFINE info == [object[call[d].obj].info EXCEPT !.password = p]
    <3>1. info \in Info
      BY <2>5, QueryUiUpdates
    <3>2. PICK r \in Update(info) :
            Reply(d, r.ok, r.ok /\ row'[r.id] # None /\ row'[r.id].password = p)
      BY <2>5, QueryUiUpdates
    <3> HIDE DEF info
    <3>3. r.ok \in BOOLEAN
      BY <3>1, UpdateType
    <3> DEFINE right == r.ok /\ row'[r.id] # None /\ row'[r.id].password = p
    <3>4. right \in BOOLEAN
      OBVIOUS
    <3> HIDE DEF right
    <3>5. Reply(d, r.ok, right)
      BY <3>2 DEF right
    <3> QED
      BY <3>3, <3>4, <3>5
  <2>6. ASSUME NEW p \in Password, VerifyUiSlot(d, p)
        PROVE  \E value, right \in BOOLEAN : Reply(d, value, right)
    <3>1. call[d] \in Waiting
      BY <2>2 DEF TypeOK
    <3>2. ASSUME call[d].left > 0, call' = [call EXCEPT ![d].left = @ - 1]
          PROVE  FALSE
      <4>1. [call[d] EXCEPT !.left = @ - 1] \in Waiting
        BY <3>1, <3>2, IdentitiesAssumption DEF Waiting
      <4>2. call'[d] = [call[d] EXCEPT !.left = @ - 1]
        BY <3>2 DEF TypeOK
      <4> QED
        BY <2>2, <4>1, <4>2, NoneAssumption
    <3> DEFINE ret == object[call[d].obj].info.password = p
               right == /\ object[call[d].obj].id \in Id /\ row[object[call[d].obj].id] # None
                        /\ row[object[call[d].obj].id].password = p
    <3>3. Reply(d, ret, right)
      BY <2>6, <3>2 DEF VerifyUiSlot, Retry
    <3> QED
      BY <3>3
  <2>7. CASE RemoveCompleted(d) \/ SignOutCompleted(d)
    BY <2>4, <2>7, NoneAssumption DEF RemoveCompleted, SignOutCompleted
  <2>8. CASE UiFails(d)
    <3>1. Error(c)
      BY <2>2, <2>8 DEF UiFails
    <3>2. answer' \in Told /\ answer'.to = c
      BY <3>1 DEF Error, Told, Kind
    <3> QED
      BY <3>2, NoneAssumption
  <2> QED
    BY <1>2, <2>4, <2>5, <2>6, <2>7, <2>8, NoneAssumption
<1>3. CASE \/ \E i \in Id, p \in Password : SessionStores(i, p)
           \/ Clear \/ DisposeTimer
           \/ \E o \in Object : Inactive(o)
  BY <1>3 DEF SessionStores, Clear, DisposeTimer, Inactive
<1>4. ASSUME NEW o \in Object, Delete(o)
      PROVE  FALSE
  <2>1. call[c].obj # o
    BY <1>4, ObjectOfCall DEF Delete
  <2> QED
    BY <1>4, <2>1 DEF Delete, TypeOK
<1> QED
  BY <1>1, <1>2, <1>3, <1>4 DEF Next

(* The path of an object that a client is given *)
LEMMA GivenPathIsLive ==
  ASSUME TypeOK, "late" \notin interference, Next, NEW c \in Client,
         path'[c] # None, path[c] = None
  PROVE  object'[path'[c]].status = "live"
<1>1. ASSUME NEW d \in Client, RegisterNewIdentity(d)
      PROVE  object'[path'[c]].status = "live"
  <2>1. PICK o \in Object :
          /\ object' = DestroyUnused([object EXCEPT ![o] = Created(NewIdentity)])
          /\ path' = [path EXCEPT ![d] = o]
    BY <1>1 DEF RegisterNewIdentity
  <2> DEFINE obj == [object EXCEPT ![o] = Created(NewIdentity)]
  <2>2. obj \in [Object -> Member] /\ obj[o] = Created(NewIdentity)
    BY CreatedMember DEF TypeOK
  <2> HIDE DEF obj
  <2>3. object'[o] = obj[o]
    BY <2>1, <2>2, DestroyUnusedInfo DEF obj, Created, NoObject
  <2>4. path'[c] = o
    BY <2>1 DEF TypeOK
  <2> QED
    BY <2>2, <2>3, <2>4 DEF Created, NoObject
<1>2. ASSUME NEW d \in Client, NEW i \in Id, GetIdentity(d, i)
      PROVE  object'[path'[c]].status = "live"
  <2> DEFINE was(o) == IF Exists(o) THEN object[o] ELSE Created(i)
  <2>1. PICK o \in Object :
          /\ object[o].status # "doomed"
          /\ \/ HandOut(d, i, o, QueryInfo(was(o), FALSE))
             \/ NotFound(d, i, o, QueryInfo(was(o), FALSE))
    BY <1>2 DEF GetIdentity
  <2> DEFINE r == was(o)
             info == QueryInfo(r, FALSE)
             new == [InUse(r) EXCEPT !.info = info, !.exported = TRUE]
             obj == [object EXCEPT ![o] = new]
  <2>2. r \in Member /\ r.status = "live"
    <3>1. Created(i) \in Member /\ Created(i).status = "live"
      BY CreatedMember DEF Created, NoObject
    <3>2. object[o] \in Member
      BY DEF TypeOK
    <3>3. CASE Exists(o)
      BY <2>1, <3>2, <3>3 DEF Exists, Member
    <3> QED
      BY <3>1, <3>3
  <2>3. info \in Info
    BY <2>2, QueryInfoType
  <2>4. HandOut(d, i, o, info) \/ NotFound(d, i, o, info)
    BY <2>1
  <2> HIDE DEF info, r
  <2>5. HandOut(d, i, o, info)
    BY <2>4 DEF NotFound
  <2>6. object' = DestroyUnused(obj) /\ path' = [path EXCEPT ![d] = o]
    BY <2>5 DEF HandOut, r
  <2>7. new \in Member /\ new.status = "live" /\ ~new.idle
    <3>1. InUse(r) \in Member /\ InUse(r).status = "live" /\ ~InUse(r).idle
      <4>1. InUse(r).status = r.status /\ ~InUse(r).idle
        BY <2>2 DEF InUse, Member
      <4> QED
        BY <2>2, <4>1, MemberHelpers
    <3>2. new \in Member
      BY <2>3, <3>1, MemberHelpers
    <3> QED
      BY <3>1, <3>2 DEF Member
  <2> HIDE DEF new
  <2>8. obj \in [Object -> Member] /\ obj[o] = new
    BY <2>7 DEF TypeOK
  <2> HIDE DEF obj
  <2>9. object'[o] = new
    BY <2>6, <2>7, <2>8, DestroyUnusedInfo
  <2>10. path'[c] = o
    BY <2>6 DEF TypeOK
  <2> QED
    BY <2>7, <2>9, <2>10
<1>3. CASE ~\E d \in Client : RegisterNewIdentity(d) \/ \E i \in Id : GetIdentity(d, i)
  <2>1. ASSUME NEW d \in Client,
               \/ RequestCredentialsUpdate(d) \/ VerifyUser(d) \/ GetInfo(d) \/ Store(d)
               \/ Remove(d) \/ SignOut(d) \/ SignOutCompleted(d) \/ UiFails(d)
        PROVE  path' = path
    BY <2>1 DEF RequestCredentialsUpdate, VerifyUser, GetInfo, Store, Remove, SignOut,
                SignOutCompleted, UiFails
  <2>2. ASSUME NEW d \in Client, NEW p \in Password,
               VerifySecret(d, p) \/ QueryUiSlot(d, p) \/ VerifyUiSlot(d, p)
        PROVE  path' = path
    BY <2>2 DEF VerifySecret, QueryUiSlot, VerifyUiSlot
  <2>3. ASSUME NEW d \in Client, RemoveCompleted(d)
        PROVE  path'[c] = path[c] \/ path'[c] = None
    BY <2>3 DEF RemoveCompleted
  <2>4. ASSUME \/ \E i \in Id, p \in Password : SessionStores(i, p)
               \/ \E o \in Object : Inactive(o) \/ Delete(o)
               \/ Clear \/ DisposeTimer
        PROVE  path'[c] = path[c] \/ path'[c] = None
    BY <2>4 DEF SessionStores, Clear, DisposeTimer, Inactive, Delete
  <2> QED
    BY <1>3, <2>1, <2>2, <2>3, <2>4 DEF Next
<1> QED
  BY <1>1, <1>2, <1>3

(* A caller that waits for signon-ui is not left without a reply by the disposal and the
   deletion of its object, as long as objects have one dialog at a time; and no client is
   given the path of an object that destroyUnused() or destroy() has taken off the bus. *)
THEOREM ClientsGetReplies == Spec => ClientsAreServed
<1>1. IdentityInv /\ [Next]_vars =>
        [\A c \in Client :
           /\ interference = {} => AnsweredIfClosed(c)
           /\ "late" \notin interference => PathIsLive(c)]_vars
  <2> SUFFICES ASSUME IdentityInv, Next, NEW c \in Client
               PROVE  /\ interference = {} => AnsweredIfClosed(c)
                      /\ "late" \notin interference => PathIsLive(c)
    OBVIOUS
  <2>1. interference = {} => AnsweredIfClosed(c)
    BY ClosedWithAnswer DEF IdentityInv, AnsweredIfClosed
  <2>2. "late" \notin interference => PathIsLive(c)
    BY GivenPathIsLive DEF IdentityInv, PathIsLive
  <2> QED
    BY <2>1, <2>2
<1> QED
  BY <1>1, IdentityInvHolds, PTL DEF Spec, ClientsAreServed
=============================================================================
