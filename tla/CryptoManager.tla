----------------------------- MODULE CryptoManager -----------------------------
(***************************************************************************)
(* CryptoManager: the encrypted file system that holds the secrets DB.  A  *)
(* partition file carries a LUKS header, whose slots say which keys open   *)
(* it, and a file system, in which a `keychain' file lists the keys that   *)
(* were added.  The two lists are written one after the other.             *)
(*                                                                         *)
(* A method runs to its end within a handler of the daemon and may fail at *)
(* a system call.  It is an operator from a state to the set of its        *)
(* outcomes, for handlers chain several of them.  Of the mount states only *)
(* Mounted and Unmounted outlive a method: every failure unmounts.         *)
(***************************************************************************)
EXTENDS Naturals, FiniteSets

CONSTANTS
  Key,
  NoKey,        \* the empty key
  MaxSlots      \* slots of a LUKS header

VARIABLE interference  \* the kinds of what may go wrong in a behaviour; it never changes

AnyKey == Key \cup {NoKey}

ASSUME KeyAssumption == NoKey \notin Key /\ MaxSlots \in Nat \ {0}

(* Where the mount path leads while the storage is taken for mounted: into the
   encrypted file system or, if mount(2) has failed, to the directory below. *)
Place == {"encrypted", "plain"}

State == [
  \* on disk
  setup : BOOLEAN,             \* the partition file exists; fileSystemIsSetup()
  slots : [AnyKey -> Nat],     \* slots of the LUKS header that a key opens
  formatted : BOOLEAN,         \* there is a file system behind the header
  keychain : [Place -> SUBSET (Nat \X AnyKey)],  \* <<name, key>> in its files
  \* CryptoManager
  mounted : BOOLEAN,           \* m_mountState = Mounted; fileSystemIsMounted()
  place : Place,
  key : AnyKey,                \* encryptionKey()
  \* CredentialsAccessManager
  opened : BOOLEAN,            \* credentialsSystemOpened()
  dbOpen : BOOLEAN,            \* isSecretsDBOpen()
  \* KeyHandler
  inserted : SUBSET Key,       \* m_insertedKeys
  authorized : SUBSET AnyKey,  \* m_authorizedKeys
  \* history, read by no guard of the code
  revoked : SUBSET AnyKey,     \* keys revoked and not authorized since
  wiped : BOOLEAN]             \* the last handler formatted the storage

Succeeds(s) == [ok |-> TRUE, to |-> s]
Fails(s) == [ok |-> FALSE, to |-> s]

(* Outcomes that are possible only if a kind of failure is. *)
If(kind, outcomes) == IF kind \in interference THEN outcomes ELSE {}

--------------------------------------------------------------------------------
(* Signals, with the slots of the access manager that they call. *)

(* openSecretsDB() on a mounted file system *)
OpenSecretsDB(s) == {[s EXCEPT !.dbOpen = TRUE]} \cup If("db", {s})

(* setFileSystemMounted(true), onEncryptedFSMounted() *)
AnnounceMounted(s) ==
  LET t == [s EXCEPT !.mounted = TRUE]
  IN IF t.opened /\ ~t.dbOpen THEN OpenSecretsDB(t) ELSE {t}

(* unmountFileSystem(), fileSystemUnmounting(), onEncryptedFSUnmounting() *)
UnmountFileSystem(s) ==
  [s EXCEPT !.mounted = FALSE, !.place = "encrypted", !.dbOpen = FALSE]

--------------------------------------------------------------------------------
(* The keychain. *)

Chain(s) == s.keychain[s.place]

Listed(s, k) == \E entry \in Chain(s) : entry[2] = k

(* A new entry is named after the number of entries, in use or not. *)
AddKeyToKeychain(s, k) ==
  LET new == Cardinality(Chain(s)) + 1
  IN IF Listed(s, k) THEN s
     ELSE [s EXCEPT !.keychain[s.place] =
             {entry \in @ : entry[1] # new} \cup {<<new, k>>}]

RemoveKeyFromKeychain(s, k) ==
  [s EXCEPT !.keychain[s.place] = {entry \in @ : entry[2] # k}]

--------------------------------------------------------------------------------
(* Mounting. *)

SetEncryptionKey(s, k) == IF s.mounted THEN s ELSE [s EXCEPT !.key = k]

(* mountMappedDevice() does not look whether mount(2) has succeeded. *)
MountMappedDevice(s) ==
  LET Mounted(place) ==
        AnnounceMounted(AddKeyToKeychain([s EXCEPT !.place = place], s.key))
  IN (IF s.formatted THEN Mounted("encrypted") ELSE Mounted("plain"))
       \cup If("mount", Mounted("plain"))

MountFileSystem(s) ==
  IF s.mounted \/ s.key = NoKey THEN {Fails(s)}
  ELSE If("tools", {Fails(s)}) \cup
       (IF s.setup /\ s.slots[s.key] > 0
          THEN {Succeeds(t) : t \in MountMappedDevice(s)} ELSE {Fails(s)})

(* The header is there, with one slot, and nothing behind it. *)
NewHeader(s) ==
  [s EXCEPT !.setup = TRUE, !.formatted = FALSE, !.wiped = TRUE,
            !.slots = [k \in AnyKey |-> IF k = s.key THEN 1 ELSE 0],
            !.keychain = [@ EXCEPT !["encrypted"] = {}]]

SetupFileSystem(s) ==
  IF s.mounted \/ s.key = NoKey THEN {Fails(s)}
  ELSE If("tools", {Fails(s), Fails([s EXCEPT !.setup = TRUE]),
                    Fails(NewHeader(s))})
       \cup {Succeeds(t) : t \in
               MountMappedDevice([NewHeader(s) EXCEPT !.formatted = TRUE])}

--------------------------------------------------------------------------------
(* Key slots. *)

FreeSlot(s) ==
  Cardinality({slot \in AnyKey \X (1 .. MaxSlots) : slot[2] <= s.slots[slot[1]]})
    < MaxSlots

AddKeySlot(s, k) == [s EXCEPT !.slots[k] = @ + 1]

RemoveKeySlot(s, k) == [s EXCEPT !.slots[k] = @ - 1]

AddEncryptionKey(s, k, existing) ==
  IF s.mounted /\ s.slots[existing] > 0 /\ FreeSlot(s)
    THEN {Succeeds(AddKeyToKeychain(AddKeySlot(s, k), k))}
           \cup If("slot", {Fails(s)})
    ELSE {Fails(s)}

\* Variant: the two keys are swapped.
RemoveRemainingKey(s, k, remaining) ==
  IF s.mounted
    THEN {Succeeds(RemoveKeyFromKeychain(RemoveKeySlot(s, remaining), remaining))}
    ELSE {Fails(s)}

(* Reported as a success even if no slot has been released.  Nobody looks
   whether the remaining key is another one, or is a key of the header. *)
RemoveEncryptionKey(s, k, remaining) ==
  IF ~s.mounted THEN {Fails(s)}
  ELSE (IF s.slots[k] > 0
          THEN {Succeeds(RemoveKeyFromKeychain(RemoveKeySlot(s, k), k))}
          ELSE {Succeeds(s)})
       \cup If("slot", {Succeeds(s)})

(* A key that is not known to be in use is tried if nothing is mounted. *)
EncryptionKeyInUse(s, k) ==
  IF ~s.mounted THEN MountFileSystem(SetEncryptionKey(s, k))
  ELSE IF s.key = k \/ Listed(s, k) THEN {Succeeds(s)} ELSE {Fails(s)}

================================================================================
