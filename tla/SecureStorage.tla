----------------------------- MODULE SecureStorage -----------------------------
(***************************************************************************)
(* Who may open the secrets: key managers report keys, KeyHandler keeps    *)
(* those that are inserted and those that are authorized,                  *)
(* CredentialsAccessManager asks DefaultKeyAuthorizer about the others and *)
(* opens and closes the secrets DB, and CryptoManager does the work.       *)
(*                                                                         *)
(* All signals are direct calls: an event of a key manager is one handler, *)
(* with everything that the four objects do to each other.                 *)
(***************************************************************************)
EXTENDS CryptoManager

(* remove   a key is removed while no other authorized key is inserted
   again    a removed key is inserted again
   need     a session needs the secrets while they are closed
   backup   the credentials system is closed and opened by a backup
   closed   a key is disabled meanwhile
   restart  the daemon ends and starts
   crash    it ends between the two writes of a change of keys
   tools    a system tool fails and is seen to fail
   mount    mount(2) fails
   slot     a key slot cannot be written
   db       the secrets DB cannot be opened *)
Kinds == {"remove", "again", "need", "backup", "closed", "restart", "crash",
          "tools", "mount", "slot", "db"}

CONSTANT Interferences  \* of which a behaviour has one

ASSUME InterferenceAssumption == Interferences \subseteq SUBSET Kinds

VARIABLES
  storage,  \* a state of the system, see CryptoManager
  running   \* the daemon has not crashed

vars == <<storage, running, interference>>

Init ==
  /\ storage = [
       setup |-> FALSE, slots |-> [k \in AnyKey |-> 0], formatted |-> FALSE,
       keychain |-> [place \in Place |-> {}],
       mounted |-> FALSE, place |-> "encrypted", key |-> NoKey,
       opened |-> FALSE, dbOpen |-> FALSE,
       inserted |-> {}, authorized |-> {},
       revoked |-> {}, wiped |-> FALSE]
  /\ running = TRUE
  /\ interference \in Interferences

(* Something that is of one of the kinds happens only if that kind may. *)
Orderly(kind, disorder) == disorder => kind \in interference

AuthorizedInsertedKeys(s) == s.inserted \cap s.authorized

--------------------------------------------------------------------------------
(* KeyHandler: authorizing and revoking. *)

Mounted(s, k) ==
  IF s.mounted THEN {Succeeds(s)} ELSE MountFileSystem(SetEncryptionKey(s, k))

Authorized(s, k) ==
  [s EXCEPT !.authorized = @ \cup {k}, !.revoked = @ \ {k}]

(* setupFileSystem() with the key as the only one *)
FormatWith(s, k) ==
  {IF o.ok THEN Authorized(o.to, k) ELSE o.to :
     o \in SetupFileSystem(SetEncryptionKey([s EXCEPT !.authorized = {}], k))}

(* addEncryptionKey() with the help of an authorized key, whichever the hash
   table has first *)
AddWith(s, k, a) ==
  UNION {{IF added.ok THEN Authorized(added.to, k) ELSE added.to :
            added \in IF o.ok THEN AddEncryptionKey(o.to, k, a) ELSE {o}} :
         o \in Mounted(s, a)}

AuthorizeKey(s, k, format) ==
  CASE k \in s.authorized -> {s}
    [] k \notin s.authorized /\ (format \/ ~s.setup) -> FormatWith(s, k)
    [] k \notin s.authorized /\ ~format /\ s.setup ->
         IF s.authorized = {} THEN {s}
         ELSE UNION {AddWith(s, k, a) : a \in s.authorized}

\* Variant: the key stays authorized.
RevokedOnDisk(s, k) == [s EXCEPT !.revoked = @ \cup {k}]

Revoked(s, k) ==
  [s EXCEPT !.authorized = @ \ {k}, !.revoked = @ \cup {k}]

(* removeEncryptionKey() with the help of an authorized key, which may be the
   one to be removed *)
RemoveWith(s, k, a) ==
  UNION {{IF removed.ok THEN Revoked(removed.to, k) ELSE removed.to :
            removed \in IF o.ok THEN RemoveEncryptionKey(o.to, k, a) ELSE {o}} :
         o \in Mounted(s, a)}

RevokeKeyAuthorization(s, k) ==
  IF ~s.setup \/ s.authorized = {} THEN {s}
  ELSE UNION {RemoveWith(s, k, a) : a \in s.authorized}

(* DefaultKeyAuthorizer: Approved if a key can be added to others, otherwise
   Exclusive, which means FormatStorage. *)
QueryKeyAuthorization(s, k) == AuthorizeKey(s, k, s.authorized = {})

--------------------------------------------------------------------------------
(* Events of the key managers. *)

\* Variant: a key is not tried on a file system that is not mounted.
RecognizedIfMounted(s, k) ==
  LET t == [s EXCEPT !.inserted = @ \cup {k}]
  IN {IF t.mounted /\ Listed(t, k) THEN [t EXCEPT !.authorized = @ \cup {k}] ELSE t}

(* A key that opens the storage is authorized. *)
Recognized(s, k) ==
  LET t == [s EXCEPT !.inserted = @ \cup {k}]
  IN IF ~t.setup THEN {t}
     ELSE {IF o.ok THEN [o.to EXCEPT !.authorized = @ \cup {k}] ELSE o.to :
             o \in EncryptionKeyInUse(t, k)}

OnKeyInserted(s, k) ==
  UNION {IF k \in t.authorized THEN {t} ELSE QueryKeyAuthorization(t, k) :
         t \in Recognized(s, k)}

\* Variant: the storage is closed when the key it was opened with is disabled.
OnMountKeyDisabled(s, k) ==
  LET t == [s EXCEPT !.inserted = @ \ {k}]
  IN IF k = t.key THEN UnmountFileSystem(t) ELSE t

(* onLastAuthorizedKeyRemoved(): the secrets DB is closed and the file system
   unmounted. *)
OnKeyDisabled(s, k) ==
  LET t == [s EXCEPT !.inserted = @ \ {k}]
  IN IF AuthorizedInsertedKeys(t) = {} /\ k \in t.authorized
       THEN UnmountFileSystem(t) ELSE t

OnKeyRemoved(s, k) ==
  LET t == OnKeyDisabled(s, k)
  IN IF k \in t.authorized THEN RevokeKeyAuthorization(t, k) ELSE {t}

(* isSecretsDBOpen() looks into the CredentialsDB object, which is there only
   while the credentials system is opened. *)
NullDB(s, k) ==
  /\ ~s.opened
  /\ k \in s.authorized
  /\ AuthorizedInsertedKeys([s EXCEPT !.inserted = @ \ {k}]) = {}

--------------------------------------------------------------------------------
(* The handlers. *)

Handle(outcomes) ==
  /\ running
  /\ storage' \in outcomes
  /\ UNCHANGED <<running, interference>>

Handler == [storage EXCEPT !.wiped = FALSE]

KeyInserted(k) ==
  /\ Orderly("again", k \in storage.revoked)
  /\ Handle(OnKeyInserted(Handler, k))

KeyDisabled(k) ==
  /\ k \in storage.inserted
  /\ ~NullDB(storage, k)
  /\ Handle({OnKeyDisabled(Handler, k)})

KeyRemoved(k) ==
  /\ Orderly("remove", AuthorizedInsertedKeys(storage) \ {k} = {})
  /\ ~NullDB(storage, k)
  /\ Handle(OnKeyRemoved(Handler, k))

(* Either of them, when the null object is looked into *)
DisabledWhileClosed(k) ==
  /\ running
  /\ Orderly("closed", TRUE)
  /\ k \in storage.inserted \/ Orderly("remove", TRUE)
  /\ NullDB(storage, k)
  /\ running' = FALSE
  /\ storage' = Handler
  /\ UNCHANGED interference

(* customEvent(): the authorizer is asked about the empty key. *)
StorageNeeded ==
  /\ Orderly("need", TRUE)
  /\ storage.opened /\ ~storage.dbOpen
  /\ Handle(QueryKeyAuthorization(Handler, NoKey))

OpenCredentialsSystem ==
  /\ ~storage.opened
  /\ LET s == [Handler EXCEPT !.opened = TRUE]
     IN Handle(IF s.mounted THEN OpenSecretsDB(s)
                            ELSE {o.to : o \in MountFileSystem(s)})

CloseCredentialsSystem ==
  /\ Orderly("backup", TRUE)
  /\ storage.opened
  /\ LET s == [Handler EXCEPT !.opened = FALSE]
     IN Handle({IF s.dbOpen THEN UnmountFileSystem(s) ELSE s})

(* What a crash may leave on disk. *)
Interrupted(s) ==
  {s} \cup If("crash",
    IF s.mounted
      THEN {AddKeySlot(s, k) : k \in {k \in Key \ s.authorized :
                                        s.authorized # {} /\ FreeSlot(s)}}
             \cup {RemoveKeySlot(s, k) : k \in {k \in s.authorized :
                                                  s.slots[k] > 0}}
      ELSE {NewHeader([s EXCEPT !.key = k]) :
              k \in {k \in Key : s.authorized = {}}})

Restart ==
  /\ Orderly("restart", running)
  /\ \E s \in Interrupted(Handler) :
       storage' = [UnmountFileSystem(s) EXCEPT
                     !.opened = FALSE, !.key = NoKey,
                     !.inserted = {}, !.authorized = {}]
  /\ running' = TRUE
  /\ UNCHANGED interference

Next ==
  \/ \E k \in Key : KeyInserted(k)
  \/ \E k \in Key : KeyDisabled(k)
  \/ \E k \in Key : KeyRemoved(k)
  \/ \E k \in Key : DisabledWhileClosed(k)
  \/ StorageNeeded
  \/ OpenCredentialsSystem
  \/ CloseCredentialsSystem
  \/ Restart

Spec == Init /\ [][Next]_vars

--------------------------------------------------------------------------------
TypeOK ==
  storage \in State /\ running \in BOOLEAN /\ interference \in Interferences

(* A key that KeyHandler believes authorized (m_authorizedKeys) is one that opens
   the storage: sessions, additions and revocations rely on any of them. *)
AuthorizedKeysOpen ==
  \A k \in storage.authorized \cap Key : storage.slots[k] > 0

(* The empty key, which customEvent() asks the authorizer about, is no key: it is
   never authorized. *)
NoEmptyKey == NoKey \notin storage.authorized

(* The secrets can be read only while an authorized key is inserted: the last one
   that goes closes the storage (onLastAuthorizedKeyRemoved()). *)
OpenOnlyWithKey == storage.mounted => AuthorizedInsertedKeys(storage) # {}

(* While an authorized key is inserted, the secrets can be read: the storage is
   mounted as soon as there is one, and not closed before the last one goes. *)
OpenWheneverKeyed ==
  storage.opened /\ AuthorizedInsertedKeys(storage) # {} => storage.dbOpen

(* A key whose authorization has been revoked (keyRemoved()) will never be used
   again to access the storage: it has no slot of the header. *)
RevokedKeysAreOut == \A k \in storage.revoked : storage.slots[k] = 0

(* The storage is open exactly while there is an authorized key that opens it, and a
   revoked key opens nothing, if nothing interferes.  Where the secrets DB may fail to
   open the rest still holds. *)
OpenWhileKeyed ==
  /\ interference \subseteq {"db"} => OpenOnlyWithKey /\ RevokedKeysAreOut
  /\ interference = {} => OpenWheneverKeyed

(* It is not authorized again without the authorizer, by being found in the
   keychain or by the mount (encryptionKeyInUse()). *)
RevokedKeysAreAsked == storage.revoked \cap storage.authorized = {}

(* The storage never remains without a key that opens it
   (removeEncryptionKey()). *)
NeverKeyless == storage.setup => \E k \in Key : storage.slots[k] > 0

(* The secrets DB that openSecretsDB() opens lies on the encrypted file system. *)
SecretsStayEncrypted == storage.dbOpen => storage.place = "encrypted"

(* The storage is formatted (FormatStorage) only if no key that is authorized or
   inserted opens it. *)
FormattedOnlyIfLost ==
  [][storage'.wiped =>
       \A k \in storage.authorized \cup storage'.inserted :
         storage.slots[k] = 0]_vars

(* The daemon does not look into the CredentialsDB object when there is none. *)
NoCrash == running

================================================================================
