----------------------------- MODULE Identities -----------------------------
(***************************************************************************)
(* Identity objects: SignonDaemon creates one SignonIdentity for a stored  *)
(* identity that a client asks for, or for a new one, and keeps the stored *)
(* ones in m_storedIdentities.  An object caches the identity's data in    *)
(* m_pInfo, opens dialogs whose replies arrive later, and is destroyed     *)
(* when it has been idle.  Each action is one handler of the daemon's      *)
(* event loop; the adaptors' access checks are guards, for clients that    *)
(* the access control list admits.                                         *)
(*                                                                         *)
(* The history variable answer describes the reply the last handler sent:  *)
(* value is what the caller is told, right what is true.                   *)
(***************************************************************************)
EXTENDS Naturals, FiniteSets

CONSTANTS
  Object,        \* SignonIdentity objects; one may be used again once deleted
  Client,        \* D-Bus peers
  MaxId,         \* bound: identities created
  Password,
  UserName,      \* user names, which stand for an identity's other data
  MaxRetries,    \* bound: attempts signon-ui grants in verifyUser()
  None,
  Interferences  \* the sets of kinds of disorder that a run may allow

InterferenceKinds == {"dialogs", "meanwhile", "removed", "write", "late"}

ASSUME IdentitiesAssumption ==
  /\ MaxId \in Nat
  /\ MaxRetries \in Nat
  /\ None \notin Object \cup Password
  /\ UserName # {}
  /\ Interferences \subseteq SUBSET InterferenceKinds

NewIdentity == 0                 \* SIGNOND_NEW_IDENTITY
Id == 1 .. MaxId
Empty == None                    \* a password that is empty or not given

VARIABLES
  object,            \* the objects and their members
  storedIdentities,  \* SignonDaemon::m_storedIdentities
  row,               \* the databases: an identity's data with its password
  lastId,            \* the last identifier given
  orphan,            \* identifiers with OWNER rows and no identity
  path,              \* the object each client uses
  known,             \* the identifier each client has for it
  call,              \* calls whose reply waits for signon-ui
  interference,      \* the kinds of disorder that are possible; it never changes
  answer             \* history: the last reply

dbVars == <<row, lastId, orphan>>
vars == <<object, storedIdentities, row, lastId, orphan, path, known, call,
          interference, answer>>

Row == [userName : UserName, password : Password \cup {Empty}, keep : BOOLEAN]
Info == [id : Id \cup {NewIdentity}, userName : UserName,
         password : Password \cup {Empty}, keep : BOOLEAN]
Given == {info \in Info : info.id = NewIdentity}     \* what a client passes to store()
Kind == {"update", "verify", "remove", "signOut"}

Member == [status : {"none", "live", "doomed"}, id : Id \cup {NewIdentity},
           info : Info \cup {None}, autoDestruct : BOOLEAN, idle : BOOLEAN,
           exported : BOOLEAN, watched : BOOLEAN]
Waiting == [obj : Object, kind : Kind, left : 0 .. MaxRetries]
Told == [to : Client, call : Kind \cup {"store", "info", "error"},
         value : BOOLEAN, right : BOOLEAN]

\* No row, no m_pInfo, no call and no reply are told from any.
ASSUME NoneAssumption == None \notin Row \cup Info \cup Waiting \cup Told

TypeOK ==
  /\ object \in [Object -> Member]
  /\ storedIdentities \in [Id -> Object \cup {None}]
  /\ row \in [Id -> Row \cup {None}]
  /\ lastId \in 0 .. MaxId
  /\ orphan \subseteq Id
  /\ path \in [Client -> Object \cup {None}]
  /\ known \in [Client -> Id \cup {NewIdentity}]
  /\ call \in [Client -> Waiting \cup {None}]
  /\ interference \in Interferences
  /\ answer \in Told \cup {None}

-----------------------------------------------------------------------------
\* Objects

NoObject == [status |-> "none", id |-> NewIdentity, info |-> None,
             autoDestruct |-> TRUE, idle |-> FALSE, exported |-> FALSE,
             watched |-> FALSE]

Exists(o) == object[o].status # "none"
Busy(o) == \E c \in Client : call[c] # None /\ call[c].obj = o

\* SignonIdentity::createIdentity(), watchIdentity(), registerObject()
Created(i) == [NoObject EXCEPT !.status = "live", !.id = i, !.exported = TRUE,
                               !.watched = TRUE]

\* SignonIdentity::destroy(): off the bus at once, deleted later.
Destroyed(r) == [r EXCEPT !.status = "doomed", !.exported = FALSE]

\* SignonDisposable::destroyUnused() over the objects obj
DestroyUnused(obj) ==
  [o \in Object |-> IF /\ obj[o].status = "live"
                       /\ obj[o].autoDestruct
                       /\ obj[o].idle
                      THEN Destroyed(obj[o])
                      ELSE obj[o]]

\* Variant: autoDestruct is never cleared.
SetAutoDestructTrue(r, value) == [r EXCEPT !.autoDestruct = TRUE, !.idle = FALSE]

\* keepInUse() and setAutoDestruct()
InUse(r) == [r EXCEPT !.idle = FALSE]
SetAutoDestruct(r, value) == [r EXCEPT !.autoDestruct = value, !.idle = FALSE]

\* Variant: the signal of the database reaches no object.
CredentialsUpdatedUnseen(obj, i) == obj

\* onCredentialsUpdated(): every object of the identity drops its cache.
CredentialsUpdated(obj, i) ==
  [o \in Object |-> IF obj[o].status # "none" /\ obj[o].id = i
                      THEN [obj[o] EXCEPT !.info = None] ELSE obj[o]]

-----------------------------------------------------------------------------
\* The database as these handlers see it

\* CredentialsDB::credentials(): an info without an identifier if there is none.
Loaded(i, queryPassword) ==
  IF i \notin Id \/ (i \in Id /\ row[i] = None)
    THEN [id |-> NewIdentity, userName |-> CHOOSE x \in UserName : TRUE,
          password |-> Empty, keep |-> FALSE]
    ELSE [id |-> i, userName |-> row[i].userName, keep |-> row[i].keep,
          password |-> IF queryPassword THEN row[i].password ELSE Empty]

\* SignonIdentity::queryInfo(): m_pInfo after it.
QueryInfo(r, queryPassword) ==
  IF r.info # None /\ ~(queryPassword /\ r.info.password = Empty)
    THEN r.info
    ELSE Loaded(r.id, queryPassword)

\* What updateCredentials() makes of identity i: an info without a password
\* leaves the stored one.
Written(info, i) ==
  [userName |-> info.userName, keep |-> info.keep,
   password |-> IF info.password # Empty THEN info.password
                ELSE IF row[i] = None THEN Empty ELSE row[i].password]

NotWritten == {[ok |-> FALSE, id |-> NewIdentity, row |-> row,
                lastId |-> lastId, orphan |-> orphan]}

\* The outcomes of insertCredentials() or updateCredentials(info).  An UPDATE
\* of an identity that has been removed changes no row and succeeds unless it
\* has methods, realms or an access control list; its owners stay either way.
Update(info) ==
  (IF info.id = NewIdentity
     THEN {[ok |-> TRUE, id |-> i, lastId |-> i, orphan |-> orphan,
            row |-> [row EXCEPT ![i] = Written(info, i)]]
             : i \in {lastId + 1} \cap Id}
     ELSE IF row[info.id] # None
     THEN {[ok |-> TRUE, id |-> info.id, lastId |-> lastId, orphan |-> orphan,
            row |-> [row EXCEPT ![info.id] = Written(info, info.id)]]}
     ELSE {[ok |-> ok, id |-> info.id, lastId |-> lastId, row |-> row,
            orphan |-> orphan \cup {info.id}] : ok \in BOOLEAN})
  \cup (IF "write" \in interference THEN NotWritten ELSE {})

TakeDb(r) == row' = r.row /\ lastId' = r.lastId /\ orphan' = r.orphan

\* isPeerAllowedToUseIdentity(): the lists of a stored identity admit every
\* client of the model; without an identity only left-over owners do.
Allowed(i) == i \in Id /\ (row[i] # None \/ i \in orphan)

Init ==
  /\ object = [o \in Object |-> NoObject]
  /\ storedIdentities = [i \in Id |-> None]
  /\ row = [i \in Id |-> None]
  /\ lastId = 0
  /\ orphan = {}
  /\ path = [c \in Client |-> None]
  /\ known = [c \in Client |-> NewIdentity]
  /\ call = [c \in Client |-> None]
  /\ interference \in Interferences
  /\ answer = None

-----------------------------------------------------------------------------
\* What the runs allow: see the table in README.md.

Removed(i) == i \in Id /\ row[i] = None

DialogOrderly(o) == Busy(o) => "dialogs" \in interference
MeanwhileOrderly(i) ==
  (\E o \in Object : Exists(o) /\ object[o].id = i /\ Busy(o))
    => "meanwhile" \in interference
RemovedOrderly(o) == Removed(object[o].id) => "removed" \in interference

-----------------------------------------------------------------------------
\* Replies

Error(c) == answer' = [to |-> c, call |-> "error", value |-> FALSE, right |-> FALSE]

TellsInfo(c, info) ==
  answer' = [to |-> c, call |-> "info", value |-> TRUE,
             right |-> row[info.id] # None /\ info.userName = row[info.id].userName]

-----------------------------------------------------------------------------
\* Registration, SignonDaemonAdaptor and SignonDaemon

RegisterNewIdentity(c) ==
  /\ path[c] = None
  /\ \E o \in Object :
       /\ ~Exists(o)
       /\ object' = DestroyUnused([object EXCEPT ![o] = Created(NewIdentity)])
       /\ path' = [path EXCEPT ![c] = o]
  /\ known' = [known EXCEPT ![c] = NewIdentity]
  /\ answer' = None
  /\ UNCHANGED <<storedIdentities, dbVars, call>>

\* Variant: the object is not entered in m_storedIdentities.
HandOutUnlisted(c, i, o, info) ==
  /\ info.id # NewIdentity
  /\ LET r == IF Exists(o) THEN object[o] ELSE Created(i)
     IN object' = DestroyUnused(
          [object EXCEPT ![o] = [InUse(r) EXCEPT !.info = info, !.exported = TRUE]])
  /\ path' = [path EXCEPT ![c] = o]
  /\ known' = [known EXCEPT ![c] = info.id]
  /\ TellsInfo(c, info)
  /\ UNCHANGED storedIdentities

\* getIdentity() of an identity whose info is found
HandOut(c, i, o, info) ==
  /\ info.id # NewIdentity
  /\ LET r == IF Exists(o) THEN object[o] ELSE Created(i)
     IN /\ object' = DestroyUnused(
             [object EXCEPT ![o] = [InUse(r) EXCEPT !.info = info, !.exported = TRUE]])
        /\ storedIdentities' = IF r.id = NewIdentity THEN storedIdentities
                               ELSE [storedIdentities EXCEPT ![r.id] = o]
  /\ path' = [path EXCEPT ![c] = o]
  /\ known' = [known EXCEPT ![c] = info.id]
  /\ TellsInfo(c, info)

\* getIdentity() of one that is not: IDENTITY_NOT_FOUND, the object is destroyed.
NotFound(c, i, o, info) ==
  /\ info.id = NewIdentity
  /\ object' = [object EXCEPT ![o] =
       Destroyed(IF Exists(o) THEN [object[o] EXCEPT !.info = info]
                 ELSE [Created(i) EXCEPT !.watched = FALSE, !.info = info])]
  /\ Error(c)
  /\ UNCHANGED <<storedIdentities, path, known>>

GetIdentity(c, i) ==
  /\ path[c] = None
  /\ Allowed(i)
  /\ Removed(i) => "removed" \in interference
  /\ \E o \in Object :
       /\ IF storedIdentities[i] # None THEN o = storedIdentities[i] ELSE ~Exists(o)
       /\ object[o].status = "doomed" => "late" \in interference
       /\ LET info == QueryInfo(IF Exists(o) THEN object[o] ELSE Created(i), FALSE)
          IN HandOut(c, i, o, info) \/ NotFound(c, i, o, info)
  /\ UNCHANGED <<dbVars, call>>

-----------------------------------------------------------------------------
\* Calls on an identity object

\* A client calls its object, one call at a time.
Calls(c) ==
  /\ path[c] # None
  /\ call[c] = None
  /\ object[path[c]].exported
  /\ RemovedOrderly(path[c])

Opens(c, kind, left) ==
  call' = [call EXCEPT ![c] = [obj |-> path[c], kind |-> kind, left |-> left]]

RequestCredentialsUpdate(c) ==
  LET o == path[c]
      info == QueryInfo(object[o], FALSE)
  IN /\ Calls(c)
     /\ DialogOrderly(o)
     /\ Allowed(object[o].id)
     /\ \/ /\ info.keep
           /\ object' = [object EXCEPT ![o] =
                          [SetAutoDestruct(@, FALSE) EXCEPT !.info = info]]
           /\ Opens(c, "update", 0)
           /\ answer' = None
        \/ /\ ~info.keep
           /\ object' = [object EXCEPT ![o].info = info]
           /\ Error(c)
           /\ UNCHANGED call
     /\ UNCHANGED <<storedIdentities, dbVars, path, known>>

\* verifyUser(), queryUserPassword(): signon-ui is told how often to ask.
VerifyUser(c) ==
  LET o == path[c]
      info == QueryInfo(object[o], TRUE)
  IN /\ Calls(c)
     /\ DialogOrderly(o)
     /\ Allowed(object[o].id)
     /\ \/ /\ info.keep /\ info.password # Empty
           /\ object' = [object EXCEPT ![o] =
                          [SetAutoDestruct(@, FALSE) EXCEPT !.info = info]]
           /\ \E n \in 0 .. MaxRetries : Opens(c, "verify", n)
           /\ answer' = None
        \/ /\ ~info.keep \/ info.password = Empty
           /\ object' = [object EXCEPT ![o].info = info]
           /\ Error(c)
           /\ UNCHANGED call
     /\ UNCHANGED <<storedIdentities, dbVars, path, known>>

GetInfo(c) ==
  LET o == path[c]
      info == QueryInfo(object[o], FALSE)
  IN /\ Calls(c)
     /\ Allowed(object[o].id)
     /\ object' = [object EXCEPT ![o] =
                     [(IF info.id = NewIdentity THEN @ ELSE InUse(@))
                        EXCEPT !.info = info]]
     /\ IF info.id = NewIdentity THEN Error(c) ELSE TellsInfo(c, info)
     /\ UNCHANGED <<storedIdentities, dbVars, path, known, call>>

\* verifySecret(): the user name is the cached one, the password is compared by
\* CredentialsDB::checkPassword().
VerifySecret(c, secret) ==
  LET o == path[c]
      info == QueryInfo(object[o], TRUE)
      stored == IF info.id = NewIdentity THEN None ELSE row[info.id]
  IN /\ Calls(c)
     /\ MeanwhileOrderly(object[o].id)
     /\ Allowed(object[o].id)
     /\ object' = [object EXCEPT ![o] = [InUse(@) EXCEPT !.info = info]]
     /\ answer' = [to |-> c, call |-> "verify",
                   value |-> /\ stored # None
                             /\ info.userName = stored.userName
                             /\ secret = stored.password,
                   right |-> stored # None /\ secret = stored.password]
     /\ UNCHANGED <<storedIdentities, dbVars, path, known, call>>

\* SignonIdentity::store(): m_pInfo with the client's data in it
InfoToStore(c, new) ==
  LET old == object[path[c]].info
  IN IF old = None THEN [new EXCEPT !.id = known[c]]
     ELSE [new EXCEPT !.id = old.id,
                      !.password = IF @ = Empty THEN old.password ELSE @]

\* storeCredentials(): the objects after it, and what the caller is told.
AfterStore(o, r, info) ==
  LET id == IF info.id = NewIdentity THEN r.id ELSE object[o].id
  IN IF r.ok
       THEN [CredentialsUpdated(object, r.id) EXCEPT
               ![o] = [InUse(@) EXCEPT !.id = id, !.info = None]]
       ELSE [object EXCEPT ![o] =
               [InUse(@) EXCEPT
                  !.id = IF info.id = NewIdentity THEN NewIdentity ELSE id,
                  !.info = info]]

Store(c) ==
  LET o == path[c]
  IN /\ Calls(c)
     /\ MeanwhileOrderly(object[o].id)
     /\ \E new \in Given :
          LET info == InfoToStore(c, new)
          IN \E r \in Update(info) :
               LET id == AfterStore(o, r, info)[o].id
               IN /\ TakeDb(r)
                  /\ object' = AfterStore(o, r, info)
                  /\ storedIdentities' =
                       IF r.ok /\ id \in Id
                         THEN [storedIdentities EXCEPT ![id] = o]
                         ELSE storedIdentities
                  /\ known' = [known EXCEPT ![c] = IF id = NewIdentity THEN @ ELSE id]
                  /\ answer' = [to |-> c, call |-> "store",
                                value |-> id # NewIdentity,
                                right |-> /\ r.ok
                                          /\ row'[r.id] # None
                                          /\ row'[r.id].userName = new.userName
                                          /\ new.password = Empty
                                               \/ row'[r.id].password = new.password]
     /\ UNCHANGED <<path, call>>

\* remove(): the identity goes at once, its reply waits for signon-ui.
Remove(c) ==
  LET o == path[c]
      i == object[o].id
  IN /\ Calls(c)
     /\ MeanwhileOrderly(i) /\ DialogOrderly(o)
     /\ i \in Id
     /\ row' = [row EXCEPT ![i] = None]
     /\ orphan' = orphan \ {i}
     /\ object' = [object EXCEPT ![o] = SetAutoDestruct(@, FALSE)]
     /\ Opens(c, "remove", 0)
     /\ answer' = None
     /\ UNCHANGED <<storedIdentities, lastId, path, known>>

\* signOut(): the session data is removed, in module CredentialsDB.
SignOut(c) ==
  LET o == path[c]
  IN /\ Calls(c)
     /\ DialogOrderly(o)
     /\ Allowed(object[o].id)
     /\ object' = [object EXCEPT ![o] = SetAutoDestruct(@, FALSE)]
     /\ Opens(c, "signOut", 0)
     /\ answer' = None
     /\ UNCHANGED <<storedIdentities, dbVars, path, known>>

-----------------------------------------------------------------------------
\* Replies of signon-ui (the user is external)

Answers(c, kind) == call[c] # None /\ call[c].kind = kind

Reply(c, value, right) ==
  /\ call' = [call EXCEPT ![c] = None]
  /\ answer' = [to |-> c, call |-> call[c].kind, value |-> value, right |-> right]

\* removeCompleted(): every client of the object learns that it is gone.
RemoveCompleted(c) ==
  LET o == call[c].obj
  IN /\ Answers(c, "remove")
     /\ object' = [object EXCEPT ![o] = SetAutoDestruct(@, TRUE)]
     /\ path' = [d \in Client |-> IF path[d] = o THEN None ELSE path[d]]
     /\ Reply(c, TRUE, TRUE)
     /\ UNCHANGED <<storedIdentities, dbVars, known>>

SignOutCompleted(c) ==
  /\ Answers(c, "signOut")
  /\ object' = [object EXCEPT ![call[c].obj] = SetAutoDestruct(@, TRUE)]
  /\ Reply(c, TRUE, TRUE)
  /\ UNCHANGED <<storedIdentities, dbVars, path, known>>

\* queryUiSlot() and verifyUiSlot() when the dialog was cancelled or failed, or
\* when the object has no m_pInfo any more
UiFails(c) ==
  /\ Answers(c, "update") \/ Answers(c, "verify")
  /\ object' = [object EXCEPT ![call[c].obj] = SetAutoDestruct(@, TRUE)]
  /\ Error(c)
  /\ call' = [call EXCEPT ![c] = None]
  /\ UNCHANGED <<storedIdentities, dbVars, path, known>>

\* queryUiSlot() with a password
QueryUiSlot(c, typed) ==
  LET o == call[c].obj
      obj == [object EXCEPT ![o] = SetAutoDestruct(@, TRUE)]
      info == [object[o].info EXCEPT !.password = typed]
  IN /\ Answers(c, "update")
     /\ object[o].info # None
     /\ \E r \in Update(info) :
          /\ TakeDb(r)
          /\ object' = [(IF r.ok THEN CredentialsUpdated(obj, r.id) ELSE obj)
                          EXCEPT ![o].info = None]
          /\ Reply(c, r.ok, r.ok /\ row'[r.id] # None
                                  /\ row'[r.id].password = typed)
     /\ UNCHANGED <<storedIdentities, path, known>>

\* Variant: the count is not looked at.
RetryAlways(c, ret) == ~ret

\* The user is asked again.
Retry(c, ret) == ~ret /\ call[c].left > 0

\* verifyUiSlot() with a password: compared to m_pInfo's, asked for again or
\* answered.
VerifyUiSlot(c, typed) ==
  LET o == call[c].obj
      i == object[o].id
      ret == object[o].info.password = typed
  IN /\ Answers(c, "verify")
     /\ object[o].info # None
     /\ \/ /\ Retry(c, ret)
           /\ object' = [object EXCEPT ![o] = SetAutoDestruct(@, FALSE)]
           /\ call' = [call EXCEPT ![c].left = @ - 1]
           /\ answer' = None
        \/ /\ ~Retry(c, ret)
           /\ object' = [object EXCEPT ![o] =
                          [SetAutoDestruct(@, TRUE) EXCEPT !.info = None]]
           /\ Reply(c, ret, i \in Id /\ row[i] # None /\ row[i].password = typed)
     /\ UNCHANGED <<storedIdentities, dbVars, path, known>>

-----------------------------------------------------------------------------
\* Events outside the objects

\* A session of the identity stores a new password (processStore()).
SessionStores(i, p) ==
  /\ row[i] # None
  /\ MeanwhileOrderly(i)
  /\ row' = [row EXCEPT ![i].password = p]
  /\ object' = CredentialsUpdated(object, i)
  /\ answer' = None
  /\ UNCHANGED <<storedIdentities, lastId, orphan, path, known, call>>

\* SignonDaemon::clear(), called by the keychain application
Clear ==
  /\ \A i \in Id : row[i] # None => MeanwhileOrderly(i)
  /\ "removed" \in interference
  /\ row' = [i \in Id |-> None]
  /\ orphan' = {}
  /\ answer' = None
  /\ UNCHANGED <<object, storedIdentities, lastId, path, known, call>>

\* The object's inactivity time passes.
Inactive(o) ==
  /\ object[o].status = "live"
  /\ ~object[o].idle
  /\ object' = [object EXCEPT ![o].idle = TRUE]
  /\ answer' = None
  /\ UNCHANGED <<storedIdentities, dbVars, path, known, call>>

\* The dispose timer calls destroyUnused().
DisposeTimer ==
  /\ object # DestroyUnused(object)
  /\ object' = DestroyUnused(object)
  /\ answer' = None
  /\ UNCHANGED <<storedIdentities, dbVars, path, known, call>>

\* Variant: the signal of the destroyed object is not connected.
OnIdentityDestroyedUnseen(o) == storedIdentities

\* onIdentityDestroyed(): whatever is stored under the object's identifier
OnIdentityDestroyed(o) ==
  IF object[o].watched /\ object[o].id \in Id
    THEN [storedIdentities EXCEPT ![object[o].id] = None]
    ELSE storedIdentities

\* The event of deleteLater(): the object and its watchers are gone, and a
\* client's next call finds no object at the path.
Delete(o) ==
  /\ object[o].status = "doomed"
  /\ object' = [object EXCEPT ![o] = NoObject]
  /\ storedIdentities' = OnIdentityDestroyed(o)
  /\ path' = [c \in Client |-> IF path[c] = o THEN None ELSE path[c]]
  /\ call' = [c \in Client |-> IF call[c] # None /\ call[c].obj = o
                                 THEN None ELSE call[c]]
  /\ answer' = None
  /\ UNCHANGED <<dbVars, known>>

-----------------------------------------------------------------------------
Next ==
  /\ UNCHANGED interference
  /\ \/ \E c \in Client :
          \/ RegisterNewIdentity(c)
          \/ \E i \in Id : GetIdentity(c, i)
          \/ RequestCredentialsUpdate(c)
          \/ VerifyUser(c)
          \/ GetInfo(c)
          \/ Store(c)
          \/ Remove(c)
          \/ SignOut(c)
          \/ RemoveCompleted(c)
          \/ SignOutCompleted(c)
          \/ UiFails(c)
          \/ \E p \in Password :
               VerifySecret(c, p) \/ QueryUiSlot(c, p) \/ VerifyUiSlot(c, p)
     \/ \E i \in Id, p \in Password : SessionStores(i, p)
     \/ Clear
     \/ \E o \in Object : Inactive(o) \/ Delete(o)
     \/ DisposeTimer

Spec == Init /\ [][Next]_vars

-----------------------------------------------------------------------------
\* Properties

\* onIdentityDestroyed() takes an entry out of m_storedIdentities by the
\* identifier that the object has when it is deleted, and store() may change
\* that identifier: as long as no removed identity is used, no entry outlives its
\* object or names another identity.
MapIsLive ==
  \A i \in Id : storedIdentities[i] # None =>
    /\ Exists(storedIdentities[i])
    /\ object[storedIdentities[i]].id = i
MapIsLiveUnlessRemoved == "removed" \notin interference => MapIsLive

\* Dialogs, caches and signals of an identity belong to one object: getIdentity()
\* never makes a second one for an identity while the first is on the bus.
OneObjectPerIdentity ==
  \A o, p \in Object :
    /\ object[o].status = "live" /\ object[p].status = "live"
    /\ object[o].id = object[p].id /\ object[o].id \in Id
    => o = p

\* verifyUser() and verifySecret() tell their caller whether the password given is
\* the one that is stored, although they use copies made earlier: of the password
\* when the dialog was opened, of the user name when the cache was filled.
VerifiedAgainstStored ==
  answer # None /\ answer.call = "verify" => (answer.value <=> answer.right)

\* A caller of store() or requestCredentialsUpdate() that is told of success finds
\* its data in the database.
SuccessMeansStored ==
  answer # None /\ answer.call \in {"store", "update"} /\ answer.value
    => answer.right

\* What getInfo() and getIdentity() answer from the cache is what is stored.
InfoIsStored ==
  answer # None /\ answer.call = "info" /\ answer.value => answer.right

\* What an object answers is true of what is stored, of identities that nobody
\* stores while a dialog is open, in a database that can be written.
OrderlyAnswersAreTrue ==
  interference = {} => VerifiedAgainstStored /\ SuccessMeansStored /\ InfoIsStored

\* A caller that waits for a dialog gets its reply: the object is not disposed of
\* and deleted, with the watchers it owns, before signon-ui has answered.
AnsweredIfClosed(c) ==
  call[c] # None /\ call'[c] = None => answer' # None /\ answer'.to = c

\* A client never gets the path of an object that is about to be deleted.
PathIsLive(c) ==
  path'[c] # None /\ path[c] = None => object'[path'[c]].status = "live"

\* The replies come as long as an object has one dialog at a time, the paths are
\* live as long as no client asks for an identity between the end of its object
\* and the deletion of the object.
ClientsAreServed ==
  [][\A c \in Client :
       /\ interference = {} => AnsweredIfClosed(c)
       /\ "late" \notin interference => PathIsLive(c)]_vars
=============================================================================
