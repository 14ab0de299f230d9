-------------------------- MODULE SecureStorageProofs --------------------------
(***************************************************************************)
(* What is proved of SecureStorage for any number of keys and key slots:   *)
(* types; a key believed authorized opens the storage, as long as no       *)
(* system tool fails, no change is interrupted and no removed key comes    *)
(* back; the storage is not formatted under a key that opens it; and if    *)
(* nothing interferes it is open exactly while a key is there.             *)
(***************************************************************************)
EXTENDS SecureStorage, TLAPS, FiniteSetTheorems

(* The keychain is a finite file: new entries are named by its length. *)
Typed(s) == s \in State /\ \A place \in Place : IsFiniteSet(s.keychain[place])

(* What CryptoManager leaves to KeyHandler *)
SameKeys(s, t) ==
  /\ t.inserted = s.inserted
  /\ t.authorized = s.authorized
  /\ t.revoked = s.revoked

--------------------------------------------------------------------------------
(* The methods of CryptoManager keep the types and do not touch what KeyHandler
   believes of the keys (crypto-manager.cpp). *)
LEMMA UnmountKeeps ==
  ASSUME NEW s, Typed(s)
  PROVE  Typed(UnmountFileSystem(s)) /\ SameKeys(s, UnmountFileSystem(s))
BY DEF Typed, SameKeys, UnmountFileSystem, State, Place

LEMMA AnnounceKeeps ==
  ASSUME NEW s, Typed(s), NEW t \in AnnounceMounted(s)
  PROVE  Typed(t) /\ SameKeys(s, t)
<1> DEFINE m == [s EXCEPT !.mounted = TRUE]
           d == [m EXCEPT !.dbOpen = TRUE]
<1>1. t \in {m, d}
  BY DEF AnnounceMounted, OpenSecretsDB, If
<1>2. Typed(m) /\ SameKeys(s, m)
  BY DEF Typed, SameKeys, State
<1>3. Typed(d) /\ SameKeys(m, d)
  BY <1>2 DEF Typed, SameKeys, State
<1> HIDE DEF m, d
<1> QED
  BY <1>1, <1>2, <1>3 DEF SameKeys

LEMMA OpenKeeps ==
  ASSUME NEW s, Typed(s), NEW t \in OpenSecretsDB(s)
  PROVE  Typed(t) /\ SameKeys(s, t)
BY DEF Typed, SameKeys, OpenSecretsDB, If, State

(* Both ways of writing the keychain: addKeyToKeychain() and
   removeKeyFromKeychain(). *)
LEMMA KeychainKeeps ==
  ASSUME NEW s, Typed(s), NEW k \in AnyKey
  PROVE  /\ Typed(AddKeyToKeychain(s, k)) /\ SameKeys(s, AddKeyToKeychain(s, k))
         /\ Typed(RemoveKeyFromKeychain(s, k))
         /\ SameKeys(s, RemoveKeyFromKeychain(s, k))
<1> DEFINE new == Cardinality(Chain(s)) + 1
           added == {entry \in Chain(s) : entry[1] # new} \cup {<<new, k>>}
           left == {entry \in Chain(s) : entry[2] # k}
<1>1. s.place \in Place /\ s.keychain \in [Place -> SUBSET (Nat \X AnyKey)]
  BY DEF Typed, State
<1>2. IsFiniteSet(Chain(s)) /\ Chain(s) \subseteq Nat \X AnyKey
  BY <1>1 DEF Typed, Chain
<1>3. new \in Nat
  BY <1>2, FS_CardinalityType
<1>4. IsFiniteSet(added) /\ IsFiniteSet(left)
  <2>1. IsFiniteSet({entry \in Chain(s) : entry[1] # new}) /\ IsFiniteSet(left)
    BY <1>2, FS_Subset
  <2> QED
    BY <2>1, FS_AddElement
<1>5. added \in SUBSET (Nat \X AnyKey) /\ left \in SUBSET (Nat \X AnyKey)
  BY <1>2, <1>3
<1>6. ASSUME NEW chain \in SUBSET (Nat \X AnyKey), IsFiniteSet(chain)
      PROVE  /\ Typed([s EXCEPT !.keychain[s.place] = chain])
             /\ SameKeys(s, [s EXCEPT !.keychain[s.place] = chain])
  BY <1>1, <1>6 DEF Typed, SameKeys, State
<1>7. RemoveKeyFromKeychain(s, k) = [s EXCEPT !.keychain[s.place] = left]
  BY <1>1 DEF RemoveKeyFromKeychain, Chain, Typed, State
<1>8. \/ AddKeyToKeychain(s, k) = s
      \/ AddKeyToKeychain(s, k) = [s EXCEPT !.keychain[s.place] = added]
  BY <1>1 DEF AddKeyToKeychain, Chain, Typed, State
<1>9. SameKeys(s, s)
  BY DEF SameKeys
<1> HIDE DEF added, left
<1> QED
  BY <1>4, <1>5, <1>6, <1>7, <1>8, <1>9

LEMMA SetKeyKeeps ==
  ASSUME NEW s, Typed(s), NEW k \in AnyKey
  PROVE  /\ Typed(SetEncryptionKey(s, k))
         /\ SameKeys(s, SetEncryptionKey(s, k))
BY DEF Typed, SameKeys, SetEncryptionKey, State

LEMMA MountDeviceKeeps ==
  ASSUME NEW s, Typed(s), NEW t \in MountMappedDevice(s)
  PROVE  Typed(t) /\ SameKeys(s, t)
<1>1. PICK place \in Place :
        t \in AnnounceMounted(AddKeyToKeychain([s EXCEPT !.place = place], s.key))
  BY DEF MountMappedDevice, If, Place
<1> DEFINE u == [s EXCEPT !.place = place]
<1>2. Typed(u) /\ SameKeys(s, u) /\ s.key \in AnyKey
  BY DEF Typed, SameKeys, State
<1> HIDE DEF u
<1>3. Typed(AddKeyToKeychain(u, s.key)) /\ SameKeys(u, AddKeyToKeychain(u, s.key))
  BY <1>2, KeychainKeeps
<1>4. Typed(t) /\ SameKeys(AddKeyToKeychain(u, s.key), t)
  BY <1>1, <1>3, AnnounceKeeps DEF u
<1> QED
  BY <1>2, <1>3, <1>4 DEF SameKeys

LEMMA MountKeeps ==
  ASSUME NEW s, Typed(s), NEW o \in MountFileSystem(s)
  PROVE  Typed(o.to) /\ SameKeys(s, o.to)
<1>1. o = Fails(s) \/ \E t \in MountMappedDevice(s) : o = Succeeds(t)
  BY DEF MountFileSystem, If
<1> QED
  BY <1>1, MountDeviceKeeps DEF Fails, Succeeds, SameKeys

LEMMA NewHeaderKeeps ==
  ASSUME NEW s, Typed(s)
  PROVE  Typed(NewHeader(s)) /\ SameKeys(s, NewHeader(s))
<1>1. IsFiniteSet({})
  BY FS_EmptySet
<1> QED
  BY <1>1 DEF Typed, SameKeys, NewHeader, State, Place

LEMMA SetupKeeps ==
  ASSUME NEW s, Typed(s), NEW o \in SetupFileSystem(s)
  PROVE  Typed(o.to) /\ SameKeys(s, o.to)
<1> DEFINE u == [NewHeader(s) EXCEPT !.formatted = TRUE]
<1>1. Typed(u) /\ SameKeys(s, u) /\ Typed(NewHeader(s)) /\ SameKeys(s, NewHeader(s))
  BY NewHeaderKeeps DEF Typed, SameKeys, State
<1>2. Typed([s EXCEPT !.setup = TRUE]) /\ SameKeys(s, [s EXCEPT !.setup = TRUE])
  BY DEF Typed, SameKeys, State
<1>3. \/ o = Fails(s) \/ o = Fails([s EXCEPT !.setup = TRUE])
      \/ o = Fails(NewHeader(s)) \/ \E t \in MountMappedDevice(u) : o = Succeeds(t)
  BY DEF SetupFileSystem, If
<1> HIDE DEF u
<1>4. \A t \in MountMappedDevice(u) : Typed(t) /\ SameKeys(s, t)
  <2>1. \A t \in MountMappedDevice(u) : Typed(t) /\ SameKeys(u, t)
    BY <1>1, MountDeviceKeeps
  <2> QED
    BY <1>1, <2>1 DEF SameKeys
<1>5. SameKeys(s, s)
  BY DEF SameKeys
<1>6. \A t : Fails(t).to = t /\ Succeeds(t).to = t
  BY DEF Fails, Succeeds
<1>7. \/ o.to \in {s, [s EXCEPT !.setup = TRUE], NewHeader(s)}
      \/ o.to \in MountMappedDevice(u)
  BY <1>3, <1>6
<1> QED
  BY <1>1, <1>2, <1>4, <1>5, <1>7

LEMMA SlotsKeep ==
  ASSUME NEW s, Typed(s), NEW k \in AnyKey
  PROVE  /\ Typed(AddKeySlot(s, k)) /\ SameKeys(s, AddKeySlot(s, k))
         /\ s.slots[k] > 0 => Typed(RemoveKeySlot(s, k))
         /\ SameKeys(s, RemoveKeySlot(s, k))
<1>1. s.slots[k] \in Nat
  BY DEF Typed, State
<1>2. s.slots[k] > 0 => s.slots[k] - 1 \in Nat
  BY <1>1
<1>3. Typed(AddKeySlot(s, k))
  BY <1>1 DEF Typed, AddKeySlot, State
<1>4. s.slots[k] > 0 => Typed(RemoveKeySlot(s, k))
  BY <1>2 DEF Typed, RemoveKeySlot, State
<1>5. SameKeys(s, AddKeySlot(s, k)) /\ SameKeys(s, RemoveKeySlot(s, k))
  BY DEF Typed, SameKeys, AddKeySlot, RemoveKeySlot, State
<1> QED
  BY <1>3, <1>4, <1>5

LEMMA AddKeeps ==
  ASSUME NEW s, Typed(s), NEW k \in AnyKey, NEW a \in AnyKey,
         NEW o \in AddEncryptionKey(s, k, a)
  PROVE  Typed(o.to) /\ SameKeys(s, o.to)
<1> DEFINE u == AddKeySlot(s, k)
           t == AddKeyToKeychain(u, k)
<1>1. o = Fails(s) \/ o = Succeeds(t)
  BY DEF AddEncryptionKey, If
<1>2. Typed(u) /\ SameKeys(s, u)
  BY SlotsKeep
<1> HIDE DEF u
<1>3. Typed(t) /\ SameKeys(u, t)
  BY <1>2, KeychainKeeps
<1> HIDE DEF t
<1> QED
  BY <1>1, <1>2, <1>3 DEF Fails, Succeeds, SameKeys

LEMMA RemoveKeeps ==
  ASSUME NEW s, Typed(s), NEW k \in AnyKey, NEW a \in AnyKey,
         NEW o \in RemoveEncryptionKey(s, k, a)
  PROVE  Typed(o.to) /\ SameKeys(s, o.to)
<1> DEFINE u == RemoveKeySlot(s, k)
           t == RemoveKeyFromKeychain(u, k)
<1>1. \/ o = Fails(s) \/ o = Succeeds(s)
      \/ s.slots[k] > 0 /\ o = Succeeds(t)
  BY DEF RemoveEncryptionKey, If
<1>2. s.slots[k] > 0 => Typed(u) /\ SameKeys(s, u)
  BY SlotsKeep
<1> HIDE DEF u
<1>3. s.slots[k] > 0 => Typed(t) /\ SameKeys(u, t)
  BY <1>2, KeychainKeeps
<1> HIDE DEF t
<1> QED
  BY <1>1, <1>2, <1>3 DEF Fails, Succeeds, SameKeys

LEMMA InUseKeeps ==
  ASSUME NEW s, Typed(s), NEW k \in AnyKey, NEW o \in EncryptionKeyInUse(s, k)
  PROVE  Typed(o.to) /\ SameKeys(s, o.to)
<1>1. \/ o = Fails(s) \/ o = Succeeds(s) \/ o \in MountFileSystem(SetEncryptionKey(s, k))
  BY DEF EncryptionKeyInUse
<1> QED
  BY <1>1, SetKeyKeeps, MountKeeps DEF Fails, Succeeds, SameKeys

LEMMA MountedKeeps ==
  ASSUME NEW s, Typed(s), NEW k \in AnyKey, NEW o \in Mounted(s, k)
  PROVE  Typed(o.to) /\ SameKeys(s, o.to)
<1>1. o = Succeeds(s) \/ o \in MountFileSystem(SetEncryptionKey(s, k))
  BY DEF Mounted
<1> QED
  BY <1>1, SetKeyKeeps, MountKeeps DEF Succeeds, SameKeys

--------------------------------------------------------------------------------
(* KeyHandler: the outcomes of its methods are well typed, whatever fails
   (key-handler.cpp). *)
LEMMA AuthorizeKeepsTypes ==
  ASSUME NEW s, Typed(s), NEW k \in AnyKey, NEW format \in BOOLEAN,
         NEW t \in AuthorizeKey(s, k, format)
  PROVE  Typed(t) /\ t.inserted = s.inserted
<1> DEFINE u == [s EXCEPT !.authorized = {}]
           v == SetEncryptionKey(u, k)
<1>1. ASSUME NEW x, Typed(x)
      PROVE  Typed(Authorized(x, k)) /\ Authorized(x, k).inserted = x.inserted
  BY <1>1 DEF Typed, Authorized, State
<1>2. Typed(v) /\ v.inserted = s.inserted
  <2>1. Typed(u) /\ u.inserted = s.inserted
    BY DEF Typed, State
  <2> HIDE DEF u
  <2> QED
    BY <2>1, SetKeyKeeps DEF SameKeys
<1>3. ASSUME t \in FormatWith(s, k)
      PROVE  Typed(t) /\ t.inserted = s.inserted
  <2>1. PICK o \in SetupFileSystem(v) : t = IF o.ok THEN Authorized(o.to, k) ELSE o.to
    BY <1>3 DEF FormatWith
  <2> HIDE DEF v
  <2>2. Typed(o.to) /\ o.to.inserted = v.inserted
    BY <1>2, SetupKeeps DEF SameKeys
  <2> QED
    BY <1>1, <1>2, <2>1, <2>2
<1>4. ASSUME NEW a \in s.authorized, t \in AddWith(s, k, a)
      PROVE  Typed(t) /\ t.inserted = s.inserted
  <2>1. PICK o \in Mounted(s, a) :
          \E added \in IF o.ok THEN AddEncryptionKey(o.to, k, a) ELSE {o} :
            t = IF added.ok THEN Authorized(added.to, k) ELSE added.to
    BY <1>4 DEF AddWith
  <2>2. PICK added \in IF o.ok THEN AddEncryptionKey(o.to, k, a) ELSE {o} :
            t = IF added.ok THEN Authorized(added.to, k) ELSE added.to
    BY <2>1
  <2>3. a \in AnyKey
    BY DEF Typed, State
  <2>4. Typed(o.to) /\ o.to.inserted = s.inserted
    BY <2>3, MountedKeeps DEF SameKeys
  <2>5. Typed(added.to) /\ added.to.inserted = s.inserted
    BY <2>3, <2>4, AddKeeps DEF SameKeys
  <2> QED
    BY <1>1, <2>2, <2>5
<1>5. \/ t = s \/ t \in FormatWith(s, k)
      \/ \E a \in s.authorized : t \in AddWith(s, k, a)
  BY DEF AuthorizeKey
<1> QED
  BY <1>3, <1>4, <1>5

LEMMA RevokeKeepsTypes ==
  ASSUME NEW s, Typed(s), NEW k \in AnyKey, NEW t \in RevokeKeyAuthorization(s, k)
  PROVE  Typed(t)
<1>1. CASE t = s
  BY <1>1
<1>2. ASSUME NEW a \in s.authorized, t \in RemoveWith(s, k, a)
      PROVE  Typed(t)
  <2>1. PICK o \in Mounted(s, a) :
          \E removed \in IF o.ok THEN RemoveEncryptionKey(o.to, k, a) ELSE {o} :
            t = IF removed.ok THEN Revoked(removed.to, k) ELSE removed.to
    BY <1>2 DEF RemoveWith
  <2>2. PICK removed \in IF o.ok THEN RemoveEncryptionKey(o.to, k, a) ELSE {o} :
            t = IF removed.ok THEN Revoked(removed.to, k) ELSE removed.to
    BY <2>1
  <2>3. a \in AnyKey
    BY DEF Typed, State
  <2>4. Typed(o.to)
    BY <2>3, MountedKeeps
  <2>5. Typed(removed.to)
    BY <2>3, <2>4, RemoveKeeps
  <2>6. Typed(Revoked(removed.to, k))
    BY <2>5 DEF Typed, Revoked, State
  <2> QED
    BY <2>2, <2>5, <2>6
<1> QED
  BY <1>1, <1>2 DEF RevokeKeyAuthorization

LEMMA InsertedKeepsTypes ==
  ASSUME NEW s, Typed(s), NEW k \in Key, NEW t \in OnKeyInserted(s, k)
  PROVE  Typed(t)
<1> DEFINE u == [s EXCEPT !.inserted = @ \cup {k}]
<1>1. k \in AnyKey /\ Typed(u)
  BY DEF AnyKey, Typed, State
<1>2. PICK v \in Recognized(s, k) : t = v \/ t \in QueryKeyAuthorization(v, k)
  BY DEF OnKeyInserted
<1>3. Typed(v)
  <2>1. \/ v = u
        \/ \E o \in EncryptionKeyInUse(u, k) :
             v = IF o.ok THEN [o.to EXCEPT !.authorized = @ \cup {k}] ELSE o.to
    BY <1>2 DEF Recognized
  <2> HIDE DEF u
  <2>2. \A o \in EncryptionKeyInUse(u, k) : Typed(o.to)
    BY <1>1, InUseKeeps
  <2>3. ASSUME NEW x, Typed(x) PROVE Typed([x EXCEPT !.authorized = @ \cup {k}])
    BY <1>1, <2>3 DEF Typed, State
  <2> QED
    BY <1>1, <2>1, <2>2, <2>3
<1>4. ASSUME t \in QueryKeyAuthorization(v, k) PROVE Typed(t)
  BY <1>1, <1>3, <1>4, AuthorizeKeepsTypes DEF QueryKeyAuthorization
<1> QED
  BY <1>2, <1>3, <1>4

LEMMA DisabledKeepsTypes ==
  ASSUME NEW s, Typed(s), NEW k \in Key
  PROVE  /\ Typed(OnKeyDisabled(s, k))
         /\ OnKeyDisabled(s, k).authorized = s.authorized
         /\ OnKeyDisabled(s, k).revoked = s.revoked
<1> DEFINE u == [s EXCEPT !.inserted = @ \ {k}]
<1>1. Typed(u) /\ u.authorized = s.authorized /\ u.revoked = s.revoked
  BY DEF Typed, State
<1>2. OnKeyDisabled(s, k) = u \/ OnKeyDisabled(s, k) = UnmountFileSystem(u)
  BY DEF OnKeyDisabled
<1> HIDE DEF u
<1> QED
  BY <1>1, <1>2, UnmountKeeps DEF SameKeys

LEMMA RemovedKeepsTypes ==
  ASSUME NEW s, Typed(s), NEW k \in Key, NEW t \in OnKeyRemoved(s, k)
  PROVE  Typed(t)
<1>1. k \in AnyKey
  BY DEF AnyKey
<1> QED
  BY <1>1, DisabledKeepsTypes, RevokeKeepsTypes DEF OnKeyRemoved

(* The states a crash may leave on disk *)
LEMMA InterruptedKeeps ==
  ASSUME NEW s, Typed(s), NEW t \in Interrupted(s)
  PROVE  Typed(t)
<1>1. \A k \in Key : k \in AnyKey /\ Typed([s EXCEPT !.key = k])
  BY DEF Typed, State, AnyKey
<1>2. \A k \in s.authorized : k \in AnyKey
  BY DEF Typed, State
<1>3. \/ t = s
      \/ \E k \in Key : t = AddKeySlot(s, k)
      \/ \E k \in s.authorized : s.slots[k] > 0 /\ t = RemoveKeySlot(s, k)
      \/ \E k \in Key : t = NewHeader([s EXCEPT !.key = k])
  BY DEF Interrupted, If
<1>4. \A k \in Key : Typed(NewHeader([s EXCEPT !.key = k]))
  BY <1>1, NewHeaderKeeps
<1> QED
  BY <1>1, <1>2, <1>3, <1>4, SlotsKeep

--------------------------------------------------------------------------------
TypeInv ==
  Typed(storage) /\ running \in BOOLEAN /\ interference \in Interferences

(* What may interfere never changes. *)
LEMMA InterferenceStays ==
  ASSUME [Next]_vars
  PROVE  interference' = interference
BY DEF Next, KeyInserted, KeyDisabled, KeyRemoved, DisabledWhileClosed, StorageNeeded,
       OpenCredentialsSystem, CloseCredentialsSystem, Restart, Handle, vars

LEMMA HandlerTyped ==
  ASSUME TypeInv
  PROVE  /\ Typed(Handler)
         /\ SameKeys(storage, Handler)
BY DEF TypeInv, Typed, SameKeys, Handler, State

LEMMA TypeStep ==
  ASSUME TypeInv, [Next]_vars
  PROVE  TypeInv'
<1>1. Typed(Handler)
  BY HandlerTyped
<1>2. ASSUME NEW k \in Key, KeyInserted(k) PROVE TypeInv'
  BY <1>1, <1>2, InsertedKeepsTypes DEF KeyInserted, Handle, TypeInv
<1>3. ASSUME NEW k \in Key, KeyDisabled(k) PROVE TypeInv'
  BY <1>1, <1>3, DisabledKeepsTypes DEF KeyDisabled, Handle, TypeInv
<1>4. ASSUME NEW k \in Key, KeyRemoved(k) PROVE TypeInv'
  BY <1>1, <1>4, RemovedKeepsTypes DEF KeyRemoved, Handle, TypeInv
<1>5. ASSUME NEW k \in Key, DisabledWhileClosed(k) PROVE TypeInv'
  BY <1>1, <1>5 DEF DisabledWhileClosed, TypeInv
<1>6. CASE StorageNeeded
  <2>1. NoKey \in AnyKey
    BY DEF AnyKey
  <2> QED
    BY <1>1, <1>6, <2>1, AuthorizeKeepsTypes
    DEF StorageNeeded, Handle, QueryKeyAuthorization, TypeInv
<1>7. CASE OpenCredentialsSystem
  <2> DEFINE s == [Handler EXCEPT !.opened = TRUE]
  <2>1. Typed(s)
    BY <1>1 DEF Typed, State
  <2>2. \/ storage' \in OpenSecretsDB(s)
        \/ \E o \in MountFileSystem(s) : storage' = o.to
    BY <1>7 DEF OpenCredentialsSystem, Handle
  <2>3. running' = running /\ interference' = interference
    BY <1>7 DEF OpenCredentialsSystem, Handle
  <2> HIDE DEF s
  <2> QED
    BY <2>1, <2>2, <2>3, OpenKeeps, MountKeeps DEF TypeInv
<1>8. CASE CloseCredentialsSystem
  <2> DEFINE s == [Handler EXCEPT !.opened = FALSE]
  <2>1. Typed(s)
    BY <1>1 DEF Typed, State
  <2>2. storage' = s \/ storage' = UnmountFileSystem(s)
    BY <1>8 DEF CloseCredentialsSystem, Handle
  <2>3. running' = running /\ interference' = interference
    BY <1>8 DEF CloseCredentialsSystem, Handle
  <2> HIDE DEF s
  <2> QED
    BY <2>1, <2>2, <2>3, UnmountKeeps DEF TypeInv
<1>9. CASE Restart
  <2>1. PICK s \in Interrupted(Handler) :
          storage' = [UnmountFileSystem(s) EXCEPT
                        !.opened = FALSE, !.key = NoKey,
                        !.inserted = {}, !.authorized = {}]
    BY <1>9 DEF Restart
  <2>2. Typed(UnmountFileSystem(s))
    BY <1>1, InterruptedKeeps, UnmountKeeps
  <2>3. Typed(storage')
    BY <2>1, <2>2 DEF Typed, State, AnyKey
  <2> QED
    BY <1>9, <2>3 DEF Restart, TypeInv
<1>10. CASE UNCHANGED vars
  BY <1>10 DEF vars, TypeInv
<1> QED
  BY <1>2, <1>3, <1>4, <1>5, <1>6, <1>7, <1>8, <1>9, <1>10 DEF Next

(* Types: the state is one of State whatever fails; a key slot that is released
   was occupied. *)
THEOREM KeysTypeCorrect == Spec => []TypeOK
<1>1. Init => TypeInv
  <2>1. IsFiniteSet({})
    BY FS_EmptySet
  <2> QED
    BY <2>1 DEF Init, TypeInv, Typed, State, AnyKey, Place
<1>2. TypeInv /\ [Next]_vars => TypeInv'
  BY TypeStep
<1>3. TypeInv => TypeOK
  BY DEF TypeInv, Typed, TypeOK
<1> QED
  BY <1>1, <1>2, <1>3, PTL DEF Spec

--------------------------------------------------------------------------------
(* Revocation: a revoked key does not count as authorized, as long as no removed
   key is inserted again. *)
Asked(s) == s.revoked \cap s.authorized = {}

LEMMA AuthorizeKeepsAsked ==
  ASSUME NEW s, Typed(s), Asked(s), NEW k \in AnyKey, NEW format \in BOOLEAN,
         NEW t \in AuthorizeKey(s, k, format)
  PROVE  Asked(t)
<1> DEFINE u == [s EXCEPT !.authorized = {}]
           v == SetEncryptionKey(u, k)
<1>1. ASSUME NEW x, Typed(x), Asked(x) PROVE Asked(Authorized(x, k))
  BY <1>1 DEF Typed, Asked, Authorized, State
<1>2. ASSUME NEW x, NEW y, Asked(x), SameKeys(x, y) PROVE Asked(y)
  BY <1>2 DEF Asked, SameKeys
<1>3. Typed(v) /\ Asked(v)
  <2>1. Typed(u) /\ Asked(u)
    BY DEF Typed, Asked, State
  <2> HIDE DEF u
  <2> QED
    BY <1>2, <2>1, SetKeyKeeps
<1>4. ASSUME t \in FormatWith(s, k) PROVE Asked(t)
  <2>1. PICK o \in SetupFileSystem(v) : t = IF o.ok THEN Authorized(o.to, k) ELSE o.to
    BY <1>4 DEF FormatWith
  <2> HIDE DEF v
  <2> QED
    BY <1>1, <1>2, <1>3, <2>1, SetupKeeps
<1>5. ASSUME NEW a \in s.authorized, t \in AddWith(s, k, a) PROVE Asked(t)
  <2>1. PICK o \in Mounted(s, a) :
          \E added \in IF o.ok THEN AddEncryptionKey(o.to, k, a) ELSE {o} :
            t = IF added.ok THEN Authorized(added.to, k) ELSE added.to
    BY <1>5 DEF AddWith
  <2>2. PICK added \in IF o.ok THEN AddEncryptionKey(o.to, k, a) ELSE {o} :
            t = IF added.ok THEN Authorized(added.to, k) ELSE added.to
    BY <2>1
  <2>3. a \in AnyKey
    BY DEF Typed, State
  <2>4. Typed(o.to) /\ Asked(o.to)
    BY <1>2, <2>3, MountedKeeps
  <2>5. Typed(added.to) /\ Asked(added.to)
    BY <1>2, <2>3, <2>4, AddKeeps
  <2> QED
    BY <1>1, <2>2, <2>5
<1> QED
  BY <1>4, <1>5 DEF AuthorizeKey

LEMMA RevokeKeepsAsked ==
  ASSUME NEW s, Typed(s), Asked(s), NEW k \in AnyKey,
         NEW t \in RevokeKeyAuthorization(s, k)
  PROVE  Asked(t)
<1>1. ASSUME NEW x, NEW y, Asked(x), SameKeys(x, y) PROVE Asked(y)
  BY <1>1 DEF Asked, SameKeys
<1>2. ASSUME NEW a \in s.authorized, t \in RemoveWith(s, k, a) PROVE Asked(t)
  <2>1. PICK o \in Mounted(s, a) :
          \E removed \in IF o.ok THEN RemoveEncryptionKey(o.to, k, a) ELSE {o} :
            t = IF removed.ok THEN Revoked(removed.to, k) ELSE removed.to
    BY <1>2 DEF RemoveWith
  <2>2. PICK removed \in IF o.ok THEN RemoveEncryptionKey(o.to, k, a) ELSE {o} :
            t = IF removed.ok THEN Revoked(removed.to, k) ELSE removed.to
    BY <2>1
  <2>3. a \in AnyKey
    BY DEF Typed, State
  <2>4. Typed(o.to) /\ Asked(o.to)
    BY <1>1, <2>3, MountedKeeps
  <2>5. Typed(removed.to) /\ Asked(removed.to)
    BY <1>1, <2>3, <2>4, RemoveKeeps
  <2>6. Asked(Revoked(removed.to, k))
    BY <2>5 DEF Typed, Asked, Revoked, State
  <2> QED
    BY <2>2, <2>5, <2>6
<1> QED
  BY <1>2 DEF RevokeKeyAuthorization

(* A key that is not revoked may be recognized without the authorizer. *)
LEMMA InsertedKeepsAsked ==
  ASSUME NEW s, Typed(s), Asked(s), NEW k \in Key, k \notin s.revoked,
         NEW t \in OnKeyInserted(s, k)
  PROVE  Asked(t)
<1> DEFINE u == [s EXCEPT !.inserted = @ \cup {k}]
<1>1. k \in AnyKey /\ Typed(u) /\ u.authorized = s.authorized /\ u.revoked = s.revoked
  BY DEF AnyKey, Typed, State
<1>2. PICK v \in Recognized(s, k) : t = v \/ t \in QueryKeyAuthorization(v, k)
  BY DEF OnKeyInserted
<1>3. Typed(v) /\ Asked(v)
  <2>1. \/ v = u
        \/ \E o \in EncryptionKeyInUse(u, k) :
             v = IF o.ok THEN [o.to EXCEPT !.authorized = @ \cup {k}] ELSE o.to
    BY <1>2 DEF Recognized
  <2> HIDE DEF u
  <2>2. \A o \in EncryptionKeyInUse(u, k) : Typed(o.to) /\ SameKeys(u, o.to)
    BY <1>1, InUseKeeps
  <2>3. ASSUME NEW x, Typed(x), x.authorized = s.authorized, x.revoked = s.revoked
        PROVE  /\ Typed([x EXCEPT !.authorized = @ \cup {k}]) /\ Asked(x)
               /\ Asked([x EXCEPT !.authorized = @ \cup {k}])
    BY <1>1, <2>3 DEF Typed, Asked, State
  <2> QED
    BY <1>1, <2>1, <2>2, <2>3 DEF SameKeys
<1>4. ASSUME t \in QueryKeyAuthorization(v, k) PROVE Asked(t)
  BY <1>1, <1>3, <1>4, AuthorizeKeepsAsked DEF QueryKeyAuthorization
<1> QED
  BY <1>2, <1>3, <1>4

LEMMA AskedStep ==
  ASSUME "again" \notin interference, TypeInv, Asked(storage), [Next]_vars
  PROVE  Asked(storage)'
<1>1. Typed(Handler) /\ Asked(Handler) /\ SameKeys(storage, Handler)
  BY HandlerTyped DEF Asked, SameKeys
<1>2. ASSUME NEW k \in Key, KeyInserted(k) PROVE Asked(storage')
  <2>1. k \notin Handler.revoked
    BY <1>1, <1>2 DEF KeyInserted, Orderly, SameKeys
  <2> QED
    BY <1>1, <1>2, <2>1, InsertedKeepsAsked DEF KeyInserted, Handle
<1>3. ASSUME NEW k \in Key, KeyDisabled(k) PROVE Asked(storage')
  BY <1>1, <1>3, DisabledKeepsTypes DEF KeyDisabled, Handle, Asked
<1>4. ASSUME NEW k \in Key, KeyRemoved(k) PROVE Asked(storage')
  <2> DEFINE s == OnKeyDisabled(Handler, k)
  <2>1. Typed(s) /\ Asked(s) /\ k \in AnyKey
    BY <1>1, DisabledKeepsTypes DEF Asked, AnyKey
  <2>2. storage' = s \/ storage' \in RevokeKeyAuthorization(s, k)
    BY <1>4 DEF KeyRemoved, Handle, OnKeyRemoved
  <2> HIDE DEF s
  <2> QED
    BY <2>1, <2>2, RevokeKeepsAsked
<1>5. ASSUME NEW k \in Key, DisabledWhileClosed(k) PROVE Asked(storage')
  BY <1>1, <1>5 DEF DisabledWhileClosed
<1>6. CASE StorageNeeded
  <2>1. NoKey \in AnyKey
    BY DEF AnyKey
  <2> QED
    BY <1>1, <1>6, <2>1, AuthorizeKeepsAsked
    DEF StorageNeeded, Handle, QueryKeyAuthorization
<1>7. CASE OpenCredentialsSystem
  <2> DEFINE s == [Handler EXCEPT !.opened = TRUE]
  <2>1. Typed(s) /\ Asked(s)
    BY <1>1 DEF Typed, Asked, State
  <2>2. \/ storage' \in OpenSecretsDB(s)
        \/ \E o \in MountFileSystem(s) : storage' = o.to
    BY <1>7 DEF OpenCredentialsSystem, Handle
  <2> HIDE DEF s
  <2> QED
    BY <2>1, <2>2, OpenKeeps, MountKeeps DEF SameKeys, Asked
<1>8. CASE CloseCredentialsSystem
  <2> DEFINE s == [Handler EXCEPT !.opened = FALSE]
  <2>1. Typed(s) /\ Asked(s)
    BY <1>1 DEF Typed, Asked, State
  <2>2. storage' = s \/ storage' = UnmountFileSystem(s)
    BY <1>8 DEF CloseCredentialsSystem, Handle
  <2> HIDE DEF s
  <2> QED
    BY <2>1, <2>2, UnmountKeeps DEF SameKeys, Asked
<1>9. CASE Restart
  <2>1. PICK s \in Interrupted(Handler) :
          storage' = [UnmountFileSystem(s) EXCEPT
                        !.opened = FALSE, !.key = NoKey,
                        !.inserted = {}, !.authorized = {}]
    BY <1>9 DEF Restart
  <2>2. Typed(UnmountFileSystem(s))
    BY <1>1, InterruptedKeeps, UnmountKeeps
  <2> QED
    BY <2>1, <2>2 DEF Typed, State, Asked
<1>10. CASE UNCHANGED vars
  BY <1>10 DEF vars
<1> QED
  BY <1>2, <1>3, <1>4, <1>5, <1>6, <1>7, <1>8, <1>9, <1>10 DEF Next

--------------------------------------------------------------------------------
(* Keys that open the storage.  Where no tool fails, the storage that is set up
   is a whole one, and whatever the code takes for a sign that a key is in use,
   an entry of the keychain, the key of the mount, an authorization, is one:
   the key has a slot, or has been revoked since. *)
Reliable == "tools" \notin interference /\ "mount" \notin interference

Opens(s, k) == s.slots[k] > 0 \/ k \in s.revoked

InUse(s, k) == Listed(s, k) \/ (s.mounted /\ k = s.key) \/ k \in s.authorized

Sound(s) ==
  /\ s.place = "encrypted"
  /\ s.setup => s.formatted
  /\ \A k \in AnyKey : InUse(s, k) => Opens(s, k)

LEMMA UnmountIsSound ==
  ASSUME NEW s, Typed(s), Sound(s)
  PROVE  /\ Sound(UnmountFileSystem(s))
         /\ UnmountFileSystem(s).slots = s.slots
BY DEF Typed, Sound, InUse, Opens, Listed, Chain, UnmountFileSystem, State

LEMMA OpenIsSound ==
  ASSUME NEW s, Typed(s), Sound(s), NEW t \in OpenSecretsDB(s)
  PROVE  Sound(t) /\ t.slots = s.slots
BY DEF Typed, Sound, InUse, Opens, Listed, Chain, OpenSecretsDB, If, State

LEMMA AnnounceIsSound ==
  ASSUME NEW s, Typed(s), Sound(s), Opens(s, s.key), NEW t \in AnnounceMounted(s)
  PROVE  Sound(t) /\ t.slots = s.slots
<1> DEFINE u == [s EXCEPT !.mounted = TRUE]
<1>1. Typed(u) /\ Sound(u) /\ u.slots = s.slots
  BY DEF Typed, Sound, InUse, Opens, Listed, Chain, State
<1>2. t = u \/ t \in OpenSecretsDB(u)
  BY DEF AnnounceMounted
<1> HIDE DEF u
<1> QED
  BY <1>1, <1>2, OpenIsSound

LEMMA AddToKeychainIsSound ==
  ASSUME NEW s, Typed(s), Sound(s), NEW k \in AnyKey, Opens(s, k)
  PROVE  /\ Sound(AddKeyToKeychain(s, k))
         /\ AddKeyToKeychain(s, k).slots = s.slots
         /\ AddKeyToKeychain(s, k).key = s.key
<1> DEFINE t == AddKeyToKeychain(s, k)
<1>1. CASE Listed(s, k)
  BY <1>1 DEF AddKeyToKeychain
<1>2. CASE ~Listed(s, k)
  <2> DEFINE new == Cardinality(Chain(s)) + 1
             chain == {entry \in Chain(s) : entry[1] # new} \cup {<<new, k>>}
  <2>1. s.place \in Place /\ s.keychain \in [Place -> SUBSET (Nat \X AnyKey)]
    BY DEF Typed, State
  <2>2. t = [s EXCEPT !.keychain[s.place] = chain]
    BY <1>2, <2>1 DEF AddKeyToKeychain, Chain, Typed, State
  <2>3. \A entry \in chain : entry \in Chain(s) \/ entry[2] = k
    OBVIOUS
  <2> HIDE DEF chain
  <2>4. /\ Chain(t) = chain
        /\ t.place = s.place /\ t.setup = s.setup /\ t.formatted = s.formatted
        /\ t.mounted = s.mounted /\ t.key = s.key /\ t.slots = s.slots
        /\ t.authorized = s.authorized /\ t.revoked = s.revoked
    BY <2>1, <2>2 DEF Typed, State, Chain
  <2>5. \A j \in AnyKey : Listed(t, j) => Listed(s, j) \/ j = k
    BY <2>3, <2>4 DEF Listed
  <2> HIDE DEF t
  <2> QED
    BY <2>4, <2>5 DEF Sound, InUse, Opens, t
<1> QED
  BY <1>1, <1>2

LEMMA SetKeyIsSound ==
  ASSUME NEW s, Typed(s), Sound(s), NEW k \in AnyKey
  PROVE  /\ Sound(SetEncryptionKey(s, k))
         /\ SetEncryptionKey(s, k).slots = s.slots
         /\ SetEncryptionKey(s, k).mounted = s.mounted
         /\ ~s.mounted => SetEncryptionKey(s, k).key = k
BY DEF Typed, Sound, InUse, Opens, Listed, Chain, SetEncryptionKey, State

LEMMA MountDeviceIsSound ==
  ASSUME Reliable, NEW s, Typed(s), Sound(s), s.formatted, Opens(s, s.key),
         NEW t \in MountMappedDevice(s)
  PROVE  Sound(t) /\ t.slots = s.slots
<1> DEFINE u == [s EXCEPT !.place = "encrypted"]
           v == AddKeyToKeychain(u, s.key)
<1>1. t \in AnnounceMounted(v)
  BY DEF MountMappedDevice, If, Reliable
<1>2. u = s /\ s.key \in AnyKey
  BY DEF Typed, Sound, State
<1>3. Typed(v) /\ Sound(v) /\ v.slots = s.slots /\ v.key = s.key /\ SameKeys(s, v)
  BY <1>2, AddToKeychainIsSound, KeychainKeeps
<1> HIDE DEF v
<1>4. Opens(v, v.key)
  BY <1>3 DEF Opens, SameKeys
<1> QED
  BY <1>1, <1>3, <1>4, AnnounceIsSound

LEMMA MountIsSound ==
  ASSUME Reliable, NEW s, Typed(s), Sound(s), NEW o \in MountFileSystem(s)
  PROVE  /\ Sound(o.to) /\ o.to.slots = s.slots
         /\ o.ok => s.slots[s.key] > 0
<1>1. \/ o = Fails(s)
      \/ /\ s.setup /\ s.slots[s.key] > 0
         /\ \E t \in MountMappedDevice(s) : o = Succeeds(t)
  BY DEF MountFileSystem, If, Reliable
<1>2. ASSUME s.setup, s.slots[s.key] > 0, NEW t \in MountMappedDevice(s)
      PROVE  Sound(t) /\ t.slots = s.slots
  BY <1>2, MountDeviceIsSound DEF Sound, Opens
<1> QED
  BY <1>1, <1>2 DEF Fails, Succeeds

LEMMA SetupIsSound ==
  ASSUME Reliable, NEW s, Typed(s), Sound(s), s.authorized = {},
         NEW o \in SetupFileSystem(s)
  PROVE  /\ Sound(o.to)
         /\ o.ok => ~s.mounted /\ o.to.slots[s.key] > 0
<1> DEFINE u == [NewHeader(s) EXCEPT !.formatted = TRUE]
<1>1. \/ o = Fails(s)
      \/ ~s.mounted /\ \E t \in MountMappedDevice(u) : o = Succeeds(t)
  BY DEF SetupFileSystem, If, Reliable
<1>2. ASSUME ~s.mounted
      PROVE  /\ Typed(u) /\ Sound(u) /\ u.formatted
             /\ u.key = s.key /\ s.key \in AnyKey /\ u.slots[s.key] = 1
  <2>1. Typed(NewHeader(s)) /\ SameKeys(s, NewHeader(s))
    BY NewHeaderKeeps
  <2>2. Typed(u)
    BY <2>1 DEF Typed, State
  <2>3. /\ u.formatted /\ u.place = "encrypted" /\ Chain(u) = {}
        /\ u.key = s.key /\ s.key \in AnyKey /\ u.slots[s.key] = 1
        /\ ~u.mounted /\ u.authorized = {}
    BY <1>2 DEF Typed, Sound, State, NewHeader, Chain, Place
  <2> HIDE DEF u
  <2>4. Sound(u)
    BY <2>3 DEF Sound, InUse, Listed
  <2> QED
    BY <2>2, <2>3, <2>4
<1> HIDE DEF u
<1>3. ASSUME ~s.mounted, NEW t \in MountMappedDevice(u)
      PROVE  Sound(t) /\ t.slots[s.key] = 1
  <2>1. Typed(u) /\ Sound(u) /\ u.formatted /\ u.slots[s.key] = 1 /\ u.key = s.key
    BY <1>2, <1>3
  <2>2. Opens(u, u.key)
    BY <2>1 DEF Opens
  <2>3. Sound(t) /\ t.slots = u.slots
    BY <1>3, <2>1, <2>2, MountDeviceIsSound
  <2> QED
    BY <2>1, <2>3
<1> QED
  BY <1>1, <1>3 DEF Fails, Succeeds

(* addEncryptionKey(): the slot is taken before the key is listed. *)
LEMMA AddIsSound ==
  ASSUME NEW s, Typed(s), Sound(s), NEW k \in AnyKey, NEW a \in AnyKey,
         NEW o \in AddEncryptionKey(s, k, a)
  PROVE  Sound(o.to) /\ (o.ok => o.to.slots[k] > 0)
<1> DEFINE u == AddKeySlot(s, k)
           t == AddKeyToKeychain(u, k)
<1>1. o = Fails(s) \/ o = Succeeds(t)
  BY DEF AddEncryptionKey, If
<1>2. Typed(u) /\ Sound(u) /\ u.slots[k] > 0
  <2>1. Typed(u)
    BY SlotsKeep
  <2>2. s.slots \in [AnyKey -> Nat]
    BY DEF Typed, State
  <2>3. \A j \in AnyKey : u.slots[j] >= s.slots[j]
    BY <2>2 DEF Typed, State, AddKeySlot
  <2>4. u.slots[k] > 0
    BY <2>2 DEF Typed, State, AddKeySlot
  <2>5. /\ u.place = s.place /\ u.setup = s.setup /\ u.formatted = s.formatted
        /\ u.mounted = s.mounted /\ u.key = s.key /\ u.keychain = s.keychain
        /\ u.authorized = s.authorized /\ u.revoked = s.revoked
    BY DEF Typed, State, AddKeySlot
  <2>6. u.slots \in [AnyKey -> Nat]
    BY <2>1 DEF Typed, State
  <2> HIDE DEF u
  <2>7. \A j \in AnyKey : Opens(s, j) => Opens(u, j)
    BY <2>2, <2>3, <2>5, <2>6 DEF Opens
  <2>8. \A j \in AnyKey : InUse(u, j) => InUse(s, j)
    BY <2>5 DEF InUse, Listed, Chain
  <2> QED
    BY <2>1, <2>4, <2>5, <2>7, <2>8 DEF Sound
<1> HIDE DEF u
<1>3. Sound(t) /\ t.slots = u.slots
  BY <1>2, AddToKeychainIsSound DEF Opens
<1> HIDE DEF t
<1> QED
  BY <1>1, <1>2, <1>3 DEF Fails, Succeeds

(* removeEncryptionKey(), once the key counts as revoked: no other key is
   affected. *)
LEMMA RemoveIsSound ==
  ASSUME NEW s, Typed(s), Sound(s), NEW k \in AnyKey, NEW a \in AnyKey,
         NEW o \in RemoveEncryptionKey(s, k, a)
  PROVE  Sound(IF o.ok THEN Revoked(o.to, k) ELSE o.to)
<1> DEFINE u == RemoveKeySlot(s, k)
           t == RemoveKeyFromKeychain(u, k)
<1> HIDE DEF t
<1>1. o \in {Fails(s), Succeeds(s)} \/ (s.slots[k] > 0 /\ o = Succeeds(t))
  BY DEF RemoveEncryptionKey, If, t
<1> USE DEF t
<1>2. s.slots \in [AnyKey -> Nat] /\ s.keychain \in [Place -> SUBSET (Nat \X AnyKey)]
  BY DEF Typed, State
<1>3. ASSUME NEW x, Typed(x), SameKeys(s, x),
             x.place = s.place, x.setup = s.setup, x.formatted = s.formatted,
             x.mounted = s.mounted, x.key = s.key, Chain(x) \subseteq Chain(s),
             \A j \in AnyKey \ {k} : x.slots[j] = s.slots[j]
      PROVE  Sound(Revoked(x, k))
  <2> DEFINE y == Revoked(x, k)
  <2>1. /\ y.place = s.place /\ y.setup = s.setup /\ y.formatted = s.formatted
        /\ y.mounted = s.mounted /\ y.key = s.key /\ Chain(y) \subseteq Chain(s)
        /\ y.authorized = s.authorized \ {k} /\ y.revoked = s.revoked \cup {k}
        /\ y.slots = x.slots
    BY <1>3 DEF Typed, State, SameKeys, Revoked, Chain
  <2> HIDE DEF y
  <2>2. \A j \in AnyKey : InUse(y, j) => InUse(s, j)
    BY <2>1 DEF InUse, Listed
  <2>3. \A j \in AnyKey : Opens(s, j) => Opens(y, j)
    BY <1>3, <2>1 DEF Opens
  <2> QED
    BY <2>1, <2>2, <2>3 DEF Sound, y
<1>4. Sound(Revoked(s, k))
  BY <1>3 DEF SameKeys
<1>5. ASSUME s.slots[k] > 0 PROVE Sound(Revoked(t, k))
  <2>1. Typed(u) /\ SameKeys(s, u)
    BY <1>5, SlotsKeep
  <2>2. /\ u.place = s.place /\ u.setup = s.setup /\ u.formatted = s.formatted
        /\ u.mounted = s.mounted /\ u.key = s.key /\ u.keychain = s.keychain
        /\ \A j \in AnyKey \ {k} : u.slots[j] = s.slots[j]
    BY <1>2 DEF RemoveKeySlot, Typed, State
  <2> HIDE DEF u
  <2>3. Typed(t) /\ SameKeys(u, t)
    BY <2>1, KeychainKeeps
  <2>4. /\ t.place = s.place /\ t.setup = s.setup /\ t.formatted = s.formatted
        /\ t.mounted = s.mounted /\ t.key = s.key /\ t.slots = u.slots
        /\ Chain(t) \subseteq Chain(s)
    BY <2>1, <2>2 DEF RemoveKeyFromKeychain, Typed, State, Chain
  <2> HIDE DEF t
  <2> QED
    BY <1>3, <2>1, <2>2, <2>3, <2>4 DEF SameKeys
<1> QED
  BY <1>1, <1>4, <1>5 DEF Fails, Succeeds

(* encryptionKeyInUse(): what it says of a key that is not revoked is true. *)
LEMMA InUseIsSound ==
  ASSUME Reliable, NEW s, Typed(s), Sound(s), NEW k \in AnyKey, k \notin s.revoked,
         NEW o \in EncryptionKeyInUse(s, k)
  PROVE  Sound(o.to) /\ (o.ok => o.to.slots[k] > 0)
<1> DEFINE u == SetEncryptionKey(s, k)
<1>1. \/ ~s.mounted /\ o \in MountFileSystem(u)
      \/ s.mounted /\ (s.key = k \/ Listed(s, k)) /\ o = Succeeds(s)
      \/ o = Fails(s)
  BY DEF EncryptionKeyInUse
<1>2. Typed(u) /\ Sound(u) /\ (~s.mounted => u.key = k)
  BY SetKeyKeeps, SetKeyIsSound
<1> HIDE DEF u
<1>3. ASSUME ~s.mounted, o \in MountFileSystem(u)
      PROVE  Sound(o.to) /\ (o.ok => o.to.slots[k] > 0)
  BY <1>2, <1>3, MountIsSound
<1>4. ASSUME s.mounted, s.key = k \/ Listed(s, k) PROVE s.slots[k] > 0
  BY <1>4 DEF Sound, InUse, Opens
<1> QED
  BY <1>1, <1>3, <1>4 DEF Fails, Succeeds

LEMMA MountedIsSound ==
  ASSUME Reliable, NEW s, Typed(s), Sound(s), NEW k \in AnyKey,
         NEW o \in Mounted(s, k)
  PROVE  Sound(o.to)
<1>1. o = Succeeds(s) \/ o \in MountFileSystem(SetEncryptionKey(s, k))
  BY DEF Mounted
<1> QED
  BY <1>1, SetKeyKeeps, SetKeyIsSound, MountIsSound DEF Succeeds

--------------------------------------------------------------------------------
(* KeyHandler believes only what is so: a key becomes authorized when it has
   opened the storage, has been given a slot or is the one it is formatted
   with. *)
LEMMA AuthorizedIsSound ==
  ASSUME NEW s, Typed(s), Sound(s), NEW k \in AnyKey, s.slots[k] > 0
  PROVE  Sound(Authorized(s, k)) /\ Sound([s EXCEPT !.authorized = @ \cup {k}])
BY DEF Typed, Sound, InUse, Opens, Listed, Chain, Authorized, State

LEMMA AuthorizeIsSound ==
  ASSUME Reliable, NEW s, Typed(s), Sound(s), NEW k \in AnyKey,
         NEW format \in BOOLEAN, NEW t \in AuthorizeKey(s, k, format)
  PROVE  Sound(t)
<1> DEFINE u == [s EXCEPT !.authorized = {}]
           v == SetEncryptionKey(u, k)
<1>1. /\ Typed(v) /\ Sound(v) /\ v.authorized = {}
      /\ ~v.mounted => v.key = k
  <2>1. Typed(u) /\ Sound(u) /\ u.authorized = {}
    BY DEF Typed, Sound, InUse, Opens, Listed, Chain, State
  <2> HIDE DEF u
  <2> QED
    BY <2>1, SetKeyKeeps, SetKeyIsSound DEF SameKeys
<1>2. ASSUME t \in FormatWith(s, k) PROVE Sound(t)
  <2>1. PICK o \in SetupFileSystem(v) : t = IF o.ok THEN Authorized(o.to, k) ELSE o.to
    BY <1>2 DEF FormatWith
  <2> HIDE DEF v
  <2>2. Typed(o.to) /\ Sound(o.to)
    BY <1>1, SetupKeeps, SetupIsSound
  <2>3. o.ok => o.to.slots[k] > 0
    BY <1>1, SetupIsSound
  <2> QED
    BY <2>1, <2>2, <2>3, AuthorizedIsSound
<1>3. ASSUME NEW a \in s.authorized, t \in AddWith(s, k, a) PROVE Sound(t)
  <2>1. PICK o \in Mounted(s, a) :
          \E added \in IF o.ok THEN AddEncryptionKey(o.to, k, a) ELSE {o} :
            t = IF added.ok THEN Authorized(added.to, k) ELSE added.to
    BY <1>3 DEF AddWith
  <2>2. PICK added \in IF o.ok THEN AddEncryptionKey(o.to, k, a) ELSE {o} :
            t = IF added.ok THEN Authorized(added.to, k) ELSE added.to
    BY <2>1
  <2>3. a \in AnyKey
    BY DEF Typed, State
  <2>4. Typed(o.to) /\ Sound(o.to)
    BY <2>3, MountedKeeps, MountedIsSound
  <2>5. CASE o.ok
    <3>1. Typed(added.to) /\ Sound(added.to) /\ (added.ok => added.to.slots[k] > 0)
      BY <2>2, <2>3, <2>4, <2>5, AddKeeps, AddIsSound
    <3> QED
      BY <2>2, <3>1, AuthorizedIsSound
  <2>6. CASE ~o.ok
    BY <2>2, <2>4, <2>6
  <2> QED
    BY <2>5, <2>6
<1> QED
  BY <1>2, <1>3 DEF AuthorizeKey

LEMMA RevokeIsSound ==
  ASSUME Reliable, NEW s, Typed(s), Sound(s), NEW k \in AnyKey,
         NEW t \in RevokeKeyAuthorization(s, k)
  PROVE  Sound(t)
<1>1. ASSUME NEW a \in s.authorized, t \in RemoveWith(s, k, a) PROVE Sound(t)
  <2>1. PICK o \in Mounted(s, a) :
          \E removed \in IF o.ok THEN RemoveEncryptionKey(o.to, k, a) ELSE {o} :
            t = IF removed.ok THEN Revoked(removed.to, k) ELSE removed.to
    BY <1>1 DEF RemoveWith
  <2>2. PICK removed \in IF o.ok THEN RemoveEncryptionKey(o.to, k, a) ELSE {o} :
            t = IF removed.ok THEN Revoked(removed.to, k) ELSE removed.to
    BY <2>1
  <2>3. a \in AnyKey
    BY DEF Typed, State
  <2>4. Typed(o.to) /\ Sound(o.to)
    BY <2>3, MountedKeeps, MountedIsSound
  <2> QED
    BY <2>2, <2>3, <2>4, RemoveIsSound
<1> QED
  BY <1>1 DEF RevokeKeyAuthorization

LEMMA InsertedIsSound ==
  ASSUME Reliable, NEW s, Typed(s), Sound(s), NEW k \in Key, k \notin s.revoked,
         NEW t \in OnKeyInserted(s, k)
  PROVE  Sound(t)
<1> DEFINE u == [s EXCEPT !.inserted = @ \cup {k}]
<1>1. k \in AnyKey /\ Typed(u) /\ Sound(u) /\ k \notin u.revoked
  BY DEF AnyKey, Typed, Sound, InUse, Opens, Listed, Chain, State
<1>2. PICK v \in Recognized(s, k) : t = v \/ t \in QueryKeyAuthorization(v, k)
  BY DEF OnKeyInserted
<1>3. Typed(v) /\ Sound(v)
  <2>1. \/ v = u
        \/ \E o \in EncryptionKeyInUse(u, k) :
             v = IF o.ok THEN [o.to EXCEPT !.authorized = @ \cup {k}] ELSE o.to
    BY <1>2 DEF Recognized
  <2> HIDE DEF u
  <2>2. ASSUME NEW o \in EncryptionKeyInUse(u, k)
        PROVE  /\ Typed(o.to) /\ Sound(o.to)
               /\ o.ok => Sound([o.to EXCEPT !.authorized = @ \cup {k}])
    BY <1>1, InUseKeeps, InUseIsSound, AuthorizedIsSound
  <2>3. ASSUME NEW x, Typed(x) PROVE Typed([x EXCEPT !.authorized = @ \cup {k}])
    BY <1>1, <2>3 DEF Typed, State
  <2> QED
    BY <1>1, <2>1, <2>2, <2>3
<1>4. ASSUME t \in QueryKeyAuthorization(v, k) PROVE Sound(t)
  BY <1>1, <1>3, <1>4, AuthorizeIsSound DEF QueryKeyAuthorization
<1> QED
  BY <1>2, <1>3, <1>4

LEMMA DisabledIsSound ==
  ASSUME NEW s, Typed(s), Sound(s), NEW k \in Key
  PROVE  Sound(OnKeyDisabled(s, k))
<1> DEFINE u == [s EXCEPT !.inserted = @ \ {k}]
<1>1. Typed(u) /\ Sound(u)
  BY DEF Typed, Sound, InUse, Opens, Listed, Chain, State
<1>2. OnKeyDisabled(s, k) = u \/ OnKeyDisabled(s, k) = UnmountFileSystem(u)
  BY DEF OnKeyDisabled
<1> HIDE DEF u
<1> QED
  BY <1>1, <1>2, UnmountIsSound

LEMMA SoundStep ==
  ASSUME {"again", "crash", "tools", "mount"} \cap interference = {},
         TypeInv, Sound(storage), [Next]_vars
  PROVE  Sound(storage')
<1>1. Reliable
  BY DEF Reliable
<1>2. Typed(Handler) /\ Sound(Handler) /\ SameKeys(storage, Handler)
  BY HandlerTyped
  DEF TypeInv, Typed, Sound, InUse, Opens, Listed, Chain, Handler, State
<1>3. ASSUME NEW k \in Key, KeyInserted(k) PROVE Sound(storage')
  <2>1. k \notin Handler.revoked
    BY <1>2, <1>3 DEF KeyInserted, Orderly, SameKeys
  <2> QED
    BY <1>1, <1>2, <1>3, <2>1, InsertedIsSound DEF KeyInserted, Handle
<1>4. ASSUME NEW k \in Key, KeyDisabled(k) PROVE Sound(storage')
  BY <1>2, <1>4, DisabledIsSound DEF KeyDisabled, Handle
<1>5. ASSUME NEW k \in Key, KeyRemoved(k) PROVE Sound(storage')
  <2> DEFINE s == OnKeyDisabled(Handler, k)
  <2>1. Typed(s) /\ Sound(s) /\ k \in AnyKey
    BY <1>2, DisabledKeepsTypes, DisabledIsSound DEF AnyKey
  <2>2. storage' = s \/ storage' \in RevokeKeyAuthorization(s, k)
    BY <1>5 DEF KeyRemoved, Handle, OnKeyRemoved
  <2> HIDE DEF s
  <2> QED
    BY <1>1, <2>1, <2>2, RevokeIsSound
<1>6. ASSUME NEW k \in Key, DisabledWhileClosed(k) PROVE Sound(storage')
  BY <1>2, <1>6 DEF DisabledWhileClosed
<1>7. CASE StorageNeeded
  <2>1. NoKey \in AnyKey
    BY DEF AnyKey
  <2> QED
    BY <1>1, <1>2, <1>7, <2>1, AuthorizeIsSound
    DEF StorageNeeded, Handle, QueryKeyAuthorization
<1>8. CASE OpenCredentialsSystem
  <2> DEFINE s == [Handler EXCEPT !.opened = TRUE]
  <2>1. Typed(s) /\ Sound(s)
    BY <1>2 DEF Typed, Sound, InUse, Opens, Listed, Chain, State
  <2>2. \/ storage' \in OpenSecretsDB(s)
        \/ \E o \in MountFileSystem(s) : storage' = o.to
    BY <1>8 DEF OpenCredentialsSystem, Handle
  <2> HIDE DEF s
  <2> QED
    BY <1>1, <2>1, <2>2, OpenIsSound, MountIsSound
<1>9. CASE CloseCredentialsSystem
  <2> DEFINE s == [Handler EXCEPT !.opened = FALSE]
  <2>1. Typed(s) /\ Sound(s)
    BY <1>2 DEF Typed, Sound, InUse, Opens, Listed, Chain, State
  <2>2. storage' = s \/ storage' = UnmountFileSystem(s)
    BY <1>9 DEF CloseCredentialsSystem, Handle
  <2> HIDE DEF s
  <2> QED
    BY <2>1, <2>2, UnmountIsSound
<1>10. CASE Restart
  <2> DEFINE s == UnmountFileSystem(Handler)
  <2>1. Interrupted(Handler) = {Handler}
    BY DEF Interrupted, If
  <2>2. storage' = [s EXCEPT !.opened = FALSE, !.key = NoKey,
                             !.inserted = {}, !.authorized = {}]
    BY <1>10, <2>1 DEF Restart
  <2>3. Typed(s) /\ Sound(s) /\ ~s.mounted
    BY <1>2, UnmountKeeps, UnmountIsSound DEF UnmountFileSystem, Typed, State
  <2> HIDE DEF s
  <2> QED
    BY <2>2, <2>3 DEF Typed, Sound, InUse, Opens, Listed, Chain, State
<1>11. CASE UNCHANGED vars
  BY <1>11 DEF vars
<1> QED
  BY <1>3, <1>4, <1>5, <1>6, <1>7, <1>8, <1>9, <1>10, <1>11 DEF Next

(* A key that is believed authorized opens the storage: the keychain, the key of
   the mount and KeyHandler's set agree with the header, whatever keys come and
   go, and through restarts, backups and failures to write a key slot. *)
THEOREM AuthorizationIsTrue ==
  Spec => []({"again", "crash", "tools", "mount"} \cap interference = {}
               => AuthorizedKeysOpen)
<1> DEFINE Quiet == {"again", "crash", "tools", "mount"} \cap interference = {}
           Inv == TypeInv /\ (Quiet => Asked(storage) /\ Sound(storage))
<1>1. Init => Inv
  <2>1. IsFiniteSet({})
    BY FS_EmptySet
  <2>2. Init => TypeInv
    BY <2>1 DEF Init, TypeInv, Typed, State, AnyKey, Place
  <2>3. Init => Asked(storage) /\ Sound(storage)
    BY DEF Init, Asked, Sound, InUse, Listed, Chain, Place
  <2> QED
    BY <2>2, <2>3
<1>2. Inv /\ [Next]_vars => Inv'
  <2> SUFFICES ASSUME Inv, [Next]_vars PROVE Inv'
    OBVIOUS
  <2>1. TypeInv' /\ Quiet' = Quiet
    BY TypeStep, InterferenceStays
  <2>2. Quiet => Asked(storage') /\ Sound(storage')
    BY AskedStep, SoundStep
  <2> QED
    BY <2>1, <2>2
<1>3. Inv => (Quiet => AuthorizedKeysOpen)
  BY DEF Sound, InUse, Opens, Asked, AuthorizedKeysOpen, AnyKey
<1> QED
  BY <1>1, <1>2, <1>3, PTL DEF Spec

--------------------------------------------------------------------------------
(* What the methods leave alone, and what a mount does. *)
Leaves(s, t) ==
  /\ t.setup = s.setup /\ t.slots = s.slots /\ t.wiped = s.wiped
  /\ t.key = s.key /\ t.opened = s.opened

(* The secrets DB after it has been announced that the storage is mounted *)
DBFollows(s, t) ==
  /\ ~s.opened => t.dbOpen = s.dbOpen
  /\ s.opened /\ "db" \notin interference => t.dbOpen

LEMMA KeychainLeaves ==
  ASSUME NEW s, Typed(s), NEW k \in AnyKey
  PROVE  /\ Leaves(s, AddKeyToKeychain(s, k)) /\ Leaves(s, RemoveKeyFromKeychain(s, k))
         /\ AddKeyToKeychain(s, k).mounted = s.mounted
         /\ AddKeyToKeychain(s, k).dbOpen = s.dbOpen
         /\ RemoveKeyFromKeychain(s, k).mounted = s.mounted
         /\ RemoveKeyFromKeychain(s, k).dbOpen = s.dbOpen
<1> DEFINE Same(t) == Leaves(s, t) /\ t.mounted = s.mounted /\ t.dbOpen = s.dbOpen
<1>1. ASSUME NEW chains PROVE Same([s EXCEPT !.keychain = chains])
  BY DEF Typed, State, Leaves
<1>2. \E chains : RemoveKeyFromKeychain(s, k) = [s EXCEPT !.keychain = chains]
  BY DEF RemoveKeyFromKeychain
<1>3. Same(RemoveKeyFromKeychain(s, k))
  BY <1>1, <1>2
<1>4. \/ AddKeyToKeychain(s, k) = s
      \/ \E chains : AddKeyToKeychain(s, k) = [s EXCEPT !.keychain = chains]
  BY DEF AddKeyToKeychain
<1>5. Same(s)
  BY DEF Leaves
<1>6. Same(AddKeyToKeychain(s, k))
  BY <1>1, <1>4, <1>5
<1> QED
  BY <1>3, <1>6

LEMMA AnnounceLeaves ==
  ASSUME NEW s, Typed(s), NEW t \in AnnounceMounted(s)
  PROVE  Leaves(s, t) /\ t.mounted /\ DBFollows(s, t)
<1> DEFINE m == [s EXCEPT !.mounted = TRUE]
           d == [m EXCEPT !.dbOpen = TRUE]
<1>1. \/ t = m /\ (m.opened /\ "db" \notin interference => m.dbOpen)
      \/ t = d /\ m.opened
  BY DEF AnnounceMounted, OpenSecretsDB, If
<1>2. Leaves(s, m) /\ m.mounted /\ m.dbOpen = s.dbOpen /\ m.opened = s.opened
  BY DEF Typed, State, Leaves
<1>3. Leaves(s, d) /\ d.mounted /\ d.dbOpen
  BY DEF Typed, State, Leaves
<1> HIDE DEF m, d
<1> QED
  BY <1>1, <1>2, <1>3 DEF DBFollows

LEMMA MountDeviceLeaves ==
  ASSUME NEW s, Typed(s), NEW t \in MountMappedDevice(s)
  PROVE  Leaves(s, t) /\ t.mounted /\ DBFollows(s, t)
<1>1. PICK place \in Place :
        t \in AnnounceMounted(AddKeyToKeychain([s EXCEPT !.place = place], s.key))
  BY DEF MountMappedDevice, If, Place
<1> DEFINE u == [s EXCEPT !.place = place]
           v == AddKeyToKeychain(u, s.key)
<1>2. Typed(u) /\ Leaves(s, u) /\ u.dbOpen = s.dbOpen /\ s.key \in AnyKey
  BY DEF Typed, Leaves, State
<1> HIDE DEF u
<1>3. Typed(v) /\ Leaves(u, v) /\ v.dbOpen = u.dbOpen
  BY <1>2, KeychainKeeps, KeychainLeaves
<1> HIDE DEF v
<1>4. Leaves(v, t) /\ t.mounted /\ DBFollows(v, t)
  BY <1>1, <1>3, AnnounceLeaves DEF u, v
<1> QED
  BY <1>2, <1>3, <1>4 DEF Leaves, DBFollows

(* mountFileSystem() succeeds for a key of the header, if the tools do. *)
LEMMA MountLeaves ==
  ASSUME NEW s, Typed(s), NEW o \in MountFileSystem(s)
  PROVE  /\ Leaves(s, o.to)
         /\ ~o.ok => o.to = s
         /\ o.ok => /\ ~s.mounted /\ s.key # NoKey /\ s.setup /\ s.slots[s.key] > 0
                    /\ o.to.mounted /\ DBFollows(s, o.to)
         /\ /\ "tools" \notin interference
            /\ ~s.mounted /\ s.key # NoKey /\ s.setup /\ s.slots[s.key] > 0
            => o.ok
<1>1. \/ o = Fails(s)
      \/ /\ ~s.mounted /\ s.key # NoKey /\ s.setup /\ s.slots[s.key] > 0
         /\ \E t \in MountMappedDevice(s) : o = Succeeds(t)
  BY DEF MountFileSystem, If
<1>2. ASSUME "tools" \notin interference,
             ~s.mounted /\ s.key # NoKey /\ s.setup /\ s.slots[s.key] > 0
      PROVE  \E t \in MountMappedDevice(s) : o = Succeeds(t)
  BY <1>2 DEF MountFileSystem, If
<1>3. Leaves(s, s)
  BY DEF Leaves
<1> QED
  BY <1>1, <1>2, <1>3, MountDeviceLeaves DEF Fails, Succeeds

LEMMA SetKeyLeaves ==
  ASSUME NEW s, Typed(s), NEW k \in AnyKey
  PROVE  LET t == SetEncryptionKey(s, k)
         IN /\ t.setup = s.setup /\ t.slots = s.slots /\ t.wiped = s.wiped
            /\ t.opened = s.opened /\ t.mounted = s.mounted /\ t.dbOpen = s.dbOpen
            /\ IF s.mounted THEN t = s ELSE t.key = k
BY DEF Typed, SetEncryptionKey, State

(* The mount that an authorized key is used for, if nothing is mounted yet *)
LEMMA MountedLeaves ==
  ASSUME NEW s, Typed(s), NEW k \in AnyKey, NEW o \in Mounted(s, k)
  PROVE  /\ o.to.setup = s.setup /\ o.to.slots = s.slots /\ o.to.wiped = s.wiped
         /\ o.to.opened = s.opened
         /\ s.mounted => o.ok /\ o.to = s
         /\ o.ok /\ ~s.mounted => o.to.mounted /\ o.to.key = k /\ DBFollows(s, o.to)
<1>1. CASE s.mounted
  BY <1>1 DEF Mounted, Succeeds
<1>2. CASE ~s.mounted
  <2> DEFINE u == SetEncryptionKey(s, k)
  <2>1. o \in MountFileSystem(u)
    BY <1>2 DEF Mounted
  <2>2. /\ Typed(u) /\ u.setup = s.setup /\ u.slots = s.slots /\ u.wiped = s.wiped
        /\ u.opened = s.opened /\ u.dbOpen = s.dbOpen /\ u.key = k
    BY <1>2, SetKeyKeeps, SetKeyLeaves
  <2> HIDE DEF u
  <2> QED
    BY <1>2, <2>1, <2>2, MountLeaves DEF Leaves, DBFollows
<1> QED
  BY <1>1, <1>2

--------------------------------------------------------------------------------
(* Formatting: where no tool fails and some authorized key stays, no key is
   authorized only as long as none has been inserted since the daemon was started. *)
Lost(s) ==
  /\ s.authorized = {} => s.inserted = {} /\ ~s.mounted /\ s.key = NoKey
  /\ s.authorized # {} => s.setup
  /\ ~s.setup => \A k \in AnyKey : s.slots[k] = 0

LEMMA AddWithLeaves ==
  ASSUME NEW s, Typed(s), NEW k \in AnyKey, NEW a \in s.authorized,
         NEW t \in AddWith(s, k, a)
  PROVE  /\ t.setup = s.setup /\ t.wiped = s.wiped
         /\ s.authorized \subseteq t.authorized
<1>1. PICK o \in Mounted(s, a) :
        \E added \in IF o.ok THEN AddEncryptionKey(o.to, k, a) ELSE {o} :
          t = IF added.ok THEN Authorized(added.to, k) ELSE added.to
  BY DEF AddWith
<1>2. PICK added \in IF o.ok THEN AddEncryptionKey(o.to, k, a) ELSE {o} :
          t = IF added.ok THEN Authorized(added.to, k) ELSE added.to
  BY <1>1
<1>3. a \in AnyKey
  BY DEF Typed, State
<1>4. /\ Typed(o.to) /\ o.to.setup = s.setup /\ o.to.wiped = s.wiped
      /\ o.to.authorized = s.authorized
  BY <1>3, MountedKeeps, MountedLeaves DEF SameKeys
<1>5. /\ Typed(added.to) /\ added.to.setup = s.setup /\ added.to.wiped = s.wiped
      /\ added.to.authorized = s.authorized
  <2>1. ASSUME NEW x, Typed(x), NEW y \in AddEncryptionKey(x, k, a)
        PROVE  y.to.setup = x.setup /\ y.to.wiped = x.wiped
    <3>1. y = Fails(x) \/ y = Succeeds(AddKeyToKeychain(AddKeySlot(x, k), k))
      BY <2>1 DEF AddEncryptionKey, If
    <3>2. /\ Typed(AddKeySlot(x, k)) /\ AddKeySlot(x, k).setup = x.setup
          /\ AddKeySlot(x, k).wiped = x.wiped
      BY <2>1, SlotsKeep DEF AddKeySlot, Typed, State
    <3> QED
      BY <3>1, <3>2, KeychainLeaves DEF Leaves, Fails, Succeeds
  <2> QED
    BY <1>2, <1>3, <1>4, <2>1, AddKeeps DEF SameKeys
<1> QED
  BY <1>2, <1>5 DEF Authorized, Typed, State

LEMMA RemoveWithLeaves ==
  ASSUME NEW s, Typed(s), NEW k \in AnyKey, NEW a \in s.authorized,
         NEW t \in RemoveWith(s, k, a)
  PROVE  /\ t.setup = s.setup /\ t.wiped = s.wiped
         /\ s.authorized \ {k} \subseteq t.authorized
<1>1. PICK o \in Mounted(s, a) :
        \E removed \in IF o.ok THEN RemoveEncryptionKey(o.to, k, a) ELSE {o} :
          t = IF removed.ok THEN Revoked(removed.to, k) ELSE removed.to
  BY DEF RemoveWith
<1>2. PICK removed \in IF o.ok THEN RemoveEncryptionKey(o.to, k, a) ELSE {o} :
          t = IF removed.ok THEN Revoked(removed.to, k) ELSE removed.to
  BY <1>1
<1>3. a \in AnyKey
  BY DEF Typed, State
<1>4. /\ Typed(o.to) /\ o.to.setup = s.setup /\ o.to.wiped = s.wiped
      /\ o.to.authorized = s.authorized
  BY <1>3, MountedKeeps, MountedLeaves DEF SameKeys
<1>5. /\ Typed(removed.to) /\ removed.to.setup = s.setup /\ removed.to.wiped = s.wiped
      /\ removed.to.authorized = s.authorized
  <2>1. ASSUME NEW x, Typed(x), NEW y \in RemoveEncryptionKey(x, k, a)
        PROVE  y.to.setup = x.setup /\ y.to.wiped = x.wiped
    <3>1. \/ y = Fails(x) \/ y = Succeeds(x)
          \/ /\ x.slots[k] > 0
             /\ y = Succeeds(RemoveKeyFromKeychain(RemoveKeySlot(x, k), k))
      BY <2>1 DEF RemoveEncryptionKey, If
    <3>2. /\ x.slots[k] > 0 => Typed(RemoveKeySlot(x, k))
          /\ RemoveKeySlot(x, k).setup = x.setup /\ RemoveKeySlot(x, k).wiped = x.wiped
      BY <2>1, SlotsKeep DEF RemoveKeySlot, Typed, State
    <3> QED
      BY <3>1, <3>2, KeychainLeaves DEF Leaves, Fails, Succeeds
  <2> QED
    BY <1>2, <1>3, <1>4, <2>1, RemoveKeeps DEF SameKeys
<1> QED
  BY <1>2, <1>5 DEF Revoked, Typed, State

(* setupFileSystem() with the first key *)
LEMMA FormatLeaves ==
  ASSUME "tools" \notin interference, NEW s, Typed(s), ~s.mounted,
         NEW k \in AnyKey, NEW t \in FormatWith(s, k)
  PROVE  /\ k = NoKey => t = [s EXCEPT !.authorized = {}, !.key = NoKey]
         /\ k # NoKey => t.setup /\ t.authorized = {k} /\ t.inserted = s.inserted
<1> DEFINE u == [s EXCEPT !.authorized = {}]
           v == SetEncryptionKey(u, k)
           w == [NewHeader(v) EXCEPT !.formatted = TRUE]
<1>1. Typed(u) /\ u.authorized = {} /\ u.inserted = s.inserted /\ ~u.mounted
  BY DEF Typed, State
<1>2. v = [s EXCEPT !.authorized = {}, !.key = k]
  BY <1>1 DEF SetEncryptionKey, Typed, State
<1> HIDE DEF u
<1>3. Typed(v) /\ v.authorized = {} /\ v.inserted = s.inserted /\ ~v.mounted /\ v.key = k
  BY <1>1, SetKeyKeeps, SetKeyLeaves DEF SameKeys
<1>4. PICK o \in SetupFileSystem(v) : t = IF o.ok THEN Authorized(o.to, k) ELSE o.to
  BY DEF FormatWith, u, v
<1> HIDE DEF v
<1>5. CASE k = NoKey
  BY <1>2, <1>3, <1>4, <1>5 DEF SetupFileSystem, Fails
<1>6. CASE k # NoKey
  <2>1. PICK x \in MountMappedDevice(w) : o = Succeeds(x)
    BY <1>3, <1>4, <1>6 DEF SetupFileSystem, If
  <2>2. Typed(w) /\ w.authorized = {} /\ w.inserted = s.inserted /\ w.setup
    <3>1. /\ Typed(NewHeader(v)) /\ SameKeys(v, NewHeader(v)) /\ NewHeader(v).setup
      BY <1>3, NewHeaderKeeps DEF NewHeader, Typed, State
    <3> HIDE DEF u
    <3> QED
      BY <1>3, <3>1 DEF Typed, State, SameKeys
  <2> HIDE DEF w
  <2>3. Typed(x) /\ x.authorized = {} /\ x.inserted = s.inserted /\ x.setup
    BY <2>1, <2>2, MountDeviceKeeps, MountDeviceLeaves DEF SameKeys, Leaves
  <2> QED
    BY <1>4, <1>6, <2>1, <2>3 DEF Succeeds, Authorized, Typed, State
<1> QED
  BY <1>5, <1>6

(* A key that is inserted: the storage is formatted only if it is the first one since
   the start and the header does not know it. *)
LEMMA InsertedIsLost ==
  ASSUME "tools" \notin interference, NEW s, Typed(s), Lost(s), ~s.wiped,
         NEW k \in Key, NEW t \in OnKeyInserted(s, k)
  PROVE  /\ Lost(t)
         /\ t.wiped => s.authorized = {} /\ t.inserted = {k} /\ s.slots[k] = 0
<1> DEFINE u == [s EXCEPT !.inserted = @ \cup {k}]
<1>1. /\ k \in AnyKey /\ k # NoKey /\ Typed(u)
      /\ u.setup = s.setup /\ u.slots = s.slots /\ u.wiped = s.wiped /\ u.key = s.key
      /\ u.mounted = s.mounted /\ u.authorized = s.authorized
      /\ u.inserted = s.inserted \cup {k}
  BY KeyAssumption DEF AnyKey, Typed, State
<1>2. PICK v \in Recognized(s, k) :
        IF k \in v.authorized THEN t = v ELSE t \in QueryKeyAuthorization(v, k)
  BY DEF OnKeyInserted
<1>3. \/ ~s.setup /\ v = u
      \/ /\ s.setup
         /\ \E o \in EncryptionKeyInUse(u, k) :
              v = IF o.ok THEN [o.to EXCEPT !.authorized = @ \cup {k}] ELSE o.to
  BY <1>2 DEF Recognized
<1> HIDE DEF u
<1>4. ASSUME NEW o \in EncryptionKeyInUse(u, k)
      PROVE  /\ Typed(o.to) /\ o.to.setup = u.setup /\ o.to.wiped = u.wiped
             /\ o.to.authorized = u.authorized /\ o.to.inserted = u.inserted
             /\ ~u.mounted /\ ~o.ok => ~o.to.mounted
             /\ ~u.mounted /\ u.setup /\ u.slots[k] > 0 => o.ok
  <2> DEFINE x == SetEncryptionKey(u, k)
  <2>1. \/ u.mounted /\ o \in {Fails(u), Succeeds(u)}
        \/ ~u.mounted /\ o \in MountFileSystem(x)
    BY <1>4 DEF EncryptionKeyInUse
  <2>2. /\ Typed(x) /\ SameKeys(u, x) /\ x.setup = u.setup /\ x.slots = u.slots
        /\ x.wiped = u.wiped /\ x.mounted = u.mounted /\ (~u.mounted => x.key = k)
    BY <1>1, SetKeyKeeps, SetKeyLeaves
  <2> HIDE DEF x
  <2>3. ASSUME ~u.mounted, o \in MountFileSystem(x)
        PROVE  /\ Typed(o.to) /\ o.to.setup = u.setup /\ o.to.wiped = u.wiped
               /\ o.to.authorized = u.authorized /\ o.to.inserted = u.inserted
               /\ ~o.ok => ~o.to.mounted
               /\ u.setup /\ u.slots[k] > 0 => o.ok
    BY <1>1, <2>2, <2>3, MountKeeps, MountLeaves DEF SameKeys, Leaves
  <2> QED
    BY <1>1, <2>1, <2>3 DEF Fails, Succeeds
<1>5. /\ Typed(v) /\ v.setup = s.setup /\ ~v.wiped
      /\ v.inserted = s.inserted \cup {k}
      /\ s.authorized \subseteq v.authorized
  BY <1>1, <1>3, <1>4 DEF Typed, State
<1>6. CASE s.authorized = {}
  <2>1. s.inserted = {} /\ ~s.mounted
    BY <1>6 DEF Lost
  <2>2. CASE k \in v.authorized
    <3>1. v.setup
      BY <1>1, <1>3, <1>5, <1>6, <2>2
    <3> QED
      BY <1>2, <1>5, <2>2, <3>1 DEF Lost
  <2>3. CASE k \notin v.authorized
    <3>1. v.authorized = {} /\ ~v.mounted
      BY <1>1, <1>3, <1>4, <1>6, <2>1, <2>3 DEF Typed, State
    <3>2. s.slots[k] = 0
      <4>1. s.slots[k] \in Nat
        BY <1>1 DEF Typed, State
      <4>2. CASE s.setup
        <5>1. PICK o \in EncryptionKeyInUse(u, k) :
                v = IF o.ok THEN [o.to EXCEPT !.authorized = @ \cup {k}] ELSE o.to
          BY <1>3, <4>2
        <5>2. ~o.ok
          BY <1>4, <2>3, <5>1 DEF Typed, State
        <5>3. ~(u.slots[k] > 0)
          BY <1>1, <1>4, <2>1, <4>2, <5>2
        <5> QED
          BY <1>1, <4>1, <5>3
      <4> QED
        BY <1>1, <4>2 DEF Lost
    <3>3. t \in FormatWith(v, k)
      BY <1>2, <2>3, <3>1 DEF QueryKeyAuthorization, AuthorizeKey
    <3>4. t.setup /\ t.authorized = {k} /\ t.inserted = {k}
      <4>1. k \in AnyKey /\ k # NoKey /\ Typed(v) /\ ~v.mounted
        BY <1>1, <1>5, <3>1
      <4>2. t.setup /\ t.authorized = {k} /\ t.inserted = v.inserted
        BY <3>3, <4>1, FormatLeaves
      <4> QED
        BY <1>5, <2>1, <4>2
    <3> QED
      BY <1>6, <3>2, <3>4 DEF Lost
  <2> QED
    BY <2>2, <2>3
<1>7. CASE s.authorized # {}
  <2>1. s.setup
    BY <1>7 DEF Lost
  <2>2. t = v \/ \E a \in v.authorized : t \in AddWith(v, k, a)
    BY <1>2, <1>5, <1>7, <2>1 DEF QueryKeyAuthorization, AuthorizeKey
  <2>3. t.setup /\ ~t.wiped /\ s.authorized \subseteq t.authorized
    <3>1. ASSUME NEW a \in v.authorized, t \in AddWith(v, k, a)
          PROVE  t.setup = v.setup /\ t.wiped = v.wiped /\ v.authorized \subseteq t.authorized
      BY <1>1, <1>5, <3>1, AddWithLeaves
    <3> QED
      BY <1>5, <2>1, <2>2, <3>1
  <2> QED
    BY <1>7, <2>3 DEF Lost
<1> QED
  BY <1>6, <1>7

LEMMA LostStep ==
  ASSUME {"remove", "tools"} \cap interference = {},
         TypeInv, Lost(storage), Next
  PROVE  /\ Lost(storage')
         /\ storage'.wiped => \A k \in storage.authorized \cup storage'.inserted :
                                storage.slots[k] = 0
<1>1. /\ Typed(Handler) /\ Lost(Handler) /\ ~Handler.wiped
      /\ SameKeys(storage, Handler) /\ Handler.slots = storage.slots
      /\ Handler.opened = storage.opened /\ Handler.mounted = storage.mounted
  BY HandlerTyped DEF TypeInv, Typed, Lost, SameKeys, Handler, State
<1>2. ASSUME ~storage'.wiped, Lost(storage')
      PROVE  /\ Lost(storage')
             /\ storage'.wiped => \A k \in storage.authorized \cup storage'.inserted :
                                    storage.slots[k] = 0
  BY <1>2
<1>3. ASSUME NEW k \in Key, KeyInserted(k)
      PROVE  /\ Lost(storage')
             /\ storage'.wiped => storage.authorized = {} /\ storage'.inserted = {k}
                                    /\ storage.slots[k] = 0
  BY <1>1, <1>3, InsertedIsLost DEF KeyInserted, Handle, SameKeys
<1>4. ASSUME NEW s, Typed(s), NEW k \in Key
      PROVE  LET t == OnKeyDisabled(s, k)
             IN /\ Typed(t) /\ t.setup = s.setup /\ t.slots = s.slots
                /\ t.wiped = s.wiped /\ t.authorized = s.authorized /\ t.key = s.key
                /\ t.inserted \subseteq s.inserted /\ (t.mounted => s.mounted)
  BY <1>4, DisabledKeepsTypes DEF OnKeyDisabled, UnmountFileSystem, Typed, State
<1>5. ASSUME NEW k \in Key, KeyDisabled(k)
      PROVE  ~storage'.wiped /\ Lost(storage')
  BY <1>1, <1>4, <1>5 DEF KeyDisabled, Handle, Lost
<1>6. ASSUME NEW k \in Key, KeyRemoved(k)
      PROVE  ~storage'.wiped /\ Lost(storage')
  <2> DEFINE s == OnKeyDisabled(Handler, k)
  <2>1. /\ Typed(s) /\ s.setup = Handler.setup /\ ~s.wiped
        /\ s.authorized = Handler.authorized
    BY <1>1, <1>4
  <2>2. storage' = s \/ storage' \in RevokeKeyAuthorization(s, k)
    BY <1>6 DEF KeyRemoved, Handle, OnKeyRemoved
  <2> HIDE DEF s
  <2>3. PICK j \in Handler.authorized : j # k
    BY <1>1, <1>6 DEF KeyRemoved, Orderly, AuthorizedInsertedKeys, SameKeys
  <2>4. k \in AnyKey /\ Handler.setup
    BY <1>1, <2>3 DEF AnyKey, Lost
  <2>5. storage' = s \/ \E a \in s.authorized : storage' \in RemoveWith(s, k, a)
    BY <2>2 DEF RevokeKeyAuthorization
  <2>6. storage'.setup /\ ~storage'.wiped /\ j \in storage'.authorized
    BY <2>1, <2>3, <2>4, <2>5, RemoveWithLeaves
  <2> QED
    BY <2>6 DEF Lost
<1>7. ASSUME NEW k \in Key, DisabledWhileClosed(k)
      PROVE  ~storage'.wiped /\ Lost(storage')
  BY <1>1, <1>7 DEF DisabledWhileClosed
<1>8. ASSUME StorageNeeded
      PROVE  ~storage'.wiped /\ Lost(storage')
  <2>1. NoKey \in AnyKey /\ storage' \in QueryKeyAuthorization(Handler, NoKey)
    BY <1>8 DEF StorageNeeded, Handle, AnyKey
  <2>2. CASE Handler.authorized = {}
    <3>1. storage' \in FormatWith(Handler, NoKey) /\ ~Handler.mounted
          /\ Handler.key = NoKey
      BY <1>1, <2>1, <2>2 DEF QueryKeyAuthorization, AuthorizeKey, Lost
    <3>2. storage' = [Handler EXCEPT !.authorized = {}, !.key = NoKey]
      <4>1. "tools" \notin interference /\ Typed(Handler) /\ NoKey \in AnyKey
        BY <1>1, <2>1
      <4> QED
        BY <3>1, <4>1, FormatLeaves
    <3>3. storage' = Handler
      BY <1>1, <2>2, <3>1, <3>2 DEF Typed, State
    <3> QED
      BY <1>1, <3>3
  <2>3. CASE Handler.authorized # {}
    <3>1. Handler.setup
      BY <1>1, <2>3 DEF Lost
    <3>2. \/ storage' = Handler
          \/ \E a \in Handler.authorized : storage' \in AddWith(Handler, NoKey, a)
      BY <2>1, <2>3, <3>1 DEF QueryKeyAuthorization, AuthorizeKey
    <3>3. storage'.setup /\ ~storage'.wiped
          /\ Handler.authorized \subseteq storage'.authorized
      BY <1>1, <2>1, <3>1, <3>2, AddWithLeaves
    <3> QED
      BY <2>3, <3>3 DEF Lost
  <2> QED
    BY <2>2, <2>3
<1>9. ASSUME OpenCredentialsSystem
      PROVE  ~storage'.wiped /\ Lost(storage')
  <2> DEFINE s == [Handler EXCEPT !.opened = TRUE]
  <2>1. Typed(s) /\ Lost(s) /\ ~s.wiped
    BY <1>1 DEF Typed, Lost, State
  <2>2. \/ s.mounted /\ storage' \in OpenSecretsDB(s)
        \/ ~s.mounted /\ \E o \in MountFileSystem(s) : storage' = o.to
    BY <1>9 DEF OpenCredentialsSystem, Handle
  <2> HIDE DEF s
  <2>3. ASSUME storage' \in OpenSecretsDB(s)
        PROVE  ~storage'.wiped /\ Lost(storage')
    BY <2>1, <2>3 DEF OpenSecretsDB, If, Lost, Typed, State
  <2>4. ASSUME NEW o \in MountFileSystem(s), storage' = o.to
        PROVE  ~storage'.wiped /\ Lost(storage')
    <3>1. Leaves(s, storage') /\ SameKeys(s, storage')
      BY <2>1, <2>4, MountLeaves, MountKeeps
    <3>2. CASE ~o.ok
      BY <2>1, <2>4, <3>2, MountLeaves
    <3>3. CASE o.ok
      <4>1. s.key # NoKey
        BY <2>1, <3>3, MountLeaves
      <4>2. s.authorized # {} /\ s.setup
        BY <2>1, <4>1 DEF Lost
      <4> QED
        BY <2>1, <3>1, <4>2 DEF Lost, Leaves, SameKeys
    <3> QED
      BY <3>2, <3>3
  <2> QED
    BY <2>2, <2>3, <2>4
<1>10. ASSUME CloseCredentialsSystem
       PROVE  ~storage'.wiped /\ Lost(storage')
  <2> DEFINE s == [Handler EXCEPT !.opened = FALSE]
  <2>1. Typed(s) /\ Lost(s) /\ ~s.wiped
    BY <1>1 DEF Typed, Lost, State
  <2>2. storage' = s \/ storage' = UnmountFileSystem(s)
    BY <1>10 DEF CloseCredentialsSystem, Handle
  <2> HIDE DEF s
  <2> QED
    BY <2>1, <2>2 DEF UnmountFileSystem, Lost, Typed, State
<1>11. ASSUME Restart
       PROVE  /\ Lost(storage') /\ storage'.inserted = {}
              /\ storage'.wiped => storage.authorized = {}
  <2>1. PICK s \in Interrupted(Handler) :
          storage' = [UnmountFileSystem(s) EXCEPT
                        !.opened = FALSE, !.key = NoKey,
                        !.inserted = {}, !.authorized = {}]
    BY <1>11 DEF Restart
  <2>2. Typed(s)
    BY <1>1, <2>1, InterruptedKeeps
  <2>3. /\ storage'.inserted = {} /\ storage'.authorized = {} /\ ~storage'.mounted
        /\ storage'.key = NoKey /\ storage'.setup = s.setup
        /\ storage'.slots = s.slots /\ storage'.wiped = s.wiped
    BY <2>1, <2>2 DEF UnmountFileSystem, Typed, State
  <2>4. \/ s = Handler
        \/ Handler.mounted /\ \E k \in AnyKey : s = AddKeySlot(Handler, k)
        \/ Handler.mounted /\ \E k \in AnyKey : s = RemoveKeySlot(Handler, k)
        \/ /\ Handler.authorized = {}
           /\ \E k \in Key : s = NewHeader([Handler EXCEPT !.key = k])
    BY <1>1 DEF Interrupted, If, AnyKey, Typed, State
  <2>5. Handler.mounted => Handler.setup
    BY <1>1 DEF Lost
  <2>6. s = Handler \/ s.setup
    BY <1>1, <2>4, <2>5 DEF AddKeySlot, RemoveKeySlot, NewHeader, Typed, State
  <2>7. s.wiped => Handler.authorized = {}
    BY <1>1, <2>4 DEF AddKeySlot, RemoveKeySlot, Typed, State
  <2> QED
    BY <1>1, <2>3, <2>6, <2>7 DEF Lost, SameKeys
<1> QED
  BY <1>2, <1>3, <1>5, <1>6, <1>7, <1>8, <1>9, <1>10, <1>11 DEF Next

(* The storage is formatted only if no key that is authorized or inserted opens it, as
   long as no system tool fails and the last key is not removed: whatever happens
   to the keychain, to the mount and to the header between. *)
THEOREM SecretsAreNotFormatted ==
  ASSUME \A kinds \in Interferences : {"remove", "tools"} \cap kinds = {}
  PROVE  Spec => FormattedOnlyIfLost
<1> DEFINE Inv == TypeInv /\ Lost(storage)
           Step == storage'.wiped => \A k \in storage.authorized \cup storage'.inserted :
                                       storage.slots[k] = 0
<1>1. Init => Inv
  <2>1. IsFiniteSet({})
    BY FS_EmptySet
  <2>2. Init => TypeInv
    BY <2>1 DEF Init, TypeInv, Typed, State, AnyKey, Place
  <2>3. Init => Lost(storage)
    BY DEF Init, Lost
  <2> QED
    BY <2>2, <2>3
<1>2. Inv /\ [Next]_vars => Inv' /\ [Step]_vars
  <2> SUFFICES ASSUME Inv, [Next]_vars PROVE Inv' /\ [Step]_vars
    OBVIOUS
  <2>1. TypeInv'
    BY TypeStep
  <2>2. CASE Next
    <3>1. {"remove", "tools"} \cap interference = {}
      BY DEF TypeInv
    <3> QED
      BY <2>1, <2>2, <3>1, LostStep
  <2>3. CASE UNCHANGED vars
    BY <2>1, <2>3 DEF vars
  <2> QED
    BY <2>2, <2>3
<1> QED
  BY <1>1, <1>2, PTL DEF Spec, FormattedOnlyIfLost

--------------------------------------------------------------------------------
(* The storage of a daemon that nothing but the secrets DB disturbs: the keys
   authorized are those of the header, with a slot each; those inserted are all
   authorized; and it is mounted exactly while there are some. *)
Slots(s) == [k \in AnyKey |-> IF k \in s.authorized THEN 1 ELSE 0]

Exact(s) ==
  /\ s.authorized \subseteq Key /\ s.inserted \subseteq s.authorized
  /\ s.setup = (s.authorized # {})
  /\ s.slots = Slots(s)
  /\ s.mounted = (s.inserted # {})
  /\ ~s.mounted /\ ~s.opened => s.key = NoKey
  /\ ~(s.mounted /\ s.opened) => ~s.dbOpen
  /\ s.mounted /\ s.opened /\ "db" \notin interference => s.dbOpen

FewKeys == IsFiniteSet(Key) /\ Cardinality(Key) <= MaxSlots

(* There is a slot for a key that has none. *)
LEMMA SlotIsFree ==
  ASSUME FewKeys, NEW s, s.authorized \subseteq Key, s.slots = Slots(s),
         NEW k \in Key \ s.authorized
  PROVE  FreeSlot(s)
<1> DEFINE A == s.authorized
           used == {slot \in AnyKey \X (1 .. MaxSlots) : slot[2] <= s.slots[slot[1]]}
<1>1. MaxSlots \in Nat \ {0} /\ IsFiniteSet(Key) /\ Cardinality(Key) <= MaxSlots
  BY KeyAssumption DEF FewKeys
<1>2. used = A \X {1}
  <2>1. ASSUME NEW j \in AnyKey, NEW n \in 1 .. MaxSlots
        PROVE  n <= s.slots[j] <=> j \in A /\ n = 1
    BY <1>1, <2>1 DEF Slots
  <2>2. A \subseteq AnyKey /\ 1 \in 1 .. MaxSlots
    BY <1>1 DEF AnyKey
  <2> QED
    BY <2>1, <2>2
<1>3. /\ IsFiniteSet(Key \ {k}) /\ Cardinality(Key \ {k}) = Cardinality(Key) - 1
      /\ Cardinality(Key) \in Nat
  BY <1>1, FS_RemoveElement, FS_CardinalityType
<1>4. IsFiniteSet(A) /\ Cardinality(A) <= Cardinality(Key \ {k})
  <2>1. A \subseteq Key \ {k}
    OBVIOUS
  <2> QED
    BY <1>3, <2>1, FS_Subset
<1>5. IsFiniteSet({1}) /\ Cardinality({1}) = 1 /\ Cardinality(A) \in Nat
  BY <1>4, FS_Singleton, FS_CardinalityType
<1>6. Cardinality(A \X {1}) = Cardinality(A)
  <2>1. Cardinality(A \X {1}) = Cardinality(A) * Cardinality({1})
    BY <1>4, <1>5, FS_Product
  <2> QED
    BY <1>5, <2>1
<1>7. Cardinality(A) < MaxSlots
  BY <1>1, <1>3, <1>4, <1>5
<1>8. Cardinality(used) < MaxSlots
  BY <1>2, <1>6, <1>7
<1> QED
  BY <1>8 DEF FreeSlot

(* The mount by an authorized key, if nothing is mounted *)
LEMMA ExactMount ==
  ASSUME Reliable, NEW s, Typed(s), s.setup, s.slots = Slots(s), s.authorized \subseteq Key,
         NEW a \in s.authorized, NEW o \in Mounted(s, a)
  PROVE  /\ o.ok /\ o.to.mounted /\ Typed(o.to)
         /\ SameKeys(s, o.to) /\ o.to.setup /\ o.to.slots = s.slots
         /\ o.to.opened = s.opened
         /\ s.mounted => o.to = s
         /\ ~s.mounted => DBFollows(s, o.to)
<1>1. a \in Key /\ a \in AnyKey /\ a # NoKey /\ s.slots[a] > 0
  BY KeyAssumption DEF AnyKey, Slots
<1>2. Typed(o.to) /\ SameKeys(s, o.to)
  BY <1>1, MountedKeeps
<1>3. o.ok
  <2>1. CASE s.mounted
    BY <1>1, <2>1, MountedLeaves
  <2>2. CASE ~s.mounted
    <3> DEFINE u == SetEncryptionKey(s, a)
    <3>1. o \in MountFileSystem(u)
      BY <2>2 DEF Mounted
    <3>2. Typed(u) /\ u.setup /\ u.slots = s.slots /\ u.key = a /\ ~u.mounted
      BY <1>1, <2>2, SetKeyKeeps, SetKeyLeaves
    <3> HIDE DEF u
    <3> QED
      BY <1>1, <3>1, <3>2, MountLeaves DEF Reliable
  <2> QED
    BY <2>1, <2>2
<1> QED
  BY <1>1, <1>2, <1>3, MountedLeaves

(* A slot for a further key *)
LEMMA ExactAdd ==
  ASSUME FewKeys, "slot" \notin interference, NEW s, Typed(s), s.mounted,
         s.slots = Slots(s), s.authorized \subseteq Key, NEW a \in s.authorized,
         NEW k \in Key \ s.authorized, NEW o \in AddEncryptionKey(s, k, a),
         NEW t, t = Authorized(o.to, k)
  PROVE  /\ o.ok /\ t.authorized = s.authorized \cup {k} /\ t.inserted = s.inserted
         /\ t.slots = Slots(t) /\ t.setup = s.setup /\ t.opened = s.opened
         /\ t.mounted /\ t.dbOpen = s.dbOpen
<1> DEFINE u == AddKeySlot(s, k)
           v == AddKeyToKeychain(u, k)
<1>1. a \in AnyKey /\ k \in AnyKey /\ s.slots[a] = 1 /\ s.slots[k] = 0
  BY DEF AnyKey, Slots
<1>2. FreeSlot(s)
  BY SlotIsFree
<1>3. o.ok /\ t = Authorized(v, k)
  BY <1>1, <1>2 DEF AddEncryptionKey, If, Succeeds
<1>4. /\ Typed(u) /\ SameKeys(s, u) /\ u.setup = s.setup /\ u.opened = s.opened
      /\ u.mounted /\ u.dbOpen = s.dbOpen
      /\ u.slots = [s.slots EXCEPT ![k] = 1]
  <2>1. Typed(u) /\ SameKeys(s, u)
    BY <1>1, SlotsKeep
  <2>2. u = [s EXCEPT !.slots = [s.slots EXCEPT ![k] = 1]]
    BY <1>1 DEF AddKeySlot, Typed, State
  <2> QED
    BY <2>1, <2>2 DEF Typed, State
<1> HIDE DEF u
<1>5. /\ Typed(v) /\ SameKeys(s, v) /\ v.setup = s.setup /\ v.opened = s.opened
      /\ v.mounted /\ v.dbOpen = s.dbOpen /\ v.slots = u.slots
  <2>1. Typed(v) /\ SameKeys(u, v)
    BY <1>1, <1>4, KeychainKeeps
  <2>2. Leaves(u, v) /\ v.mounted = u.mounted /\ v.dbOpen = u.dbOpen
    BY <1>1, <1>4, KeychainLeaves
  <2> HIDE DEF v
  <2> QED
    BY <1>4, <2>1, <2>2 DEF SameKeys, Leaves
<1> HIDE DEF v
<1>6. /\ t.authorized = s.authorized \cup {k} /\ t.inserted = s.inserted
      /\ t.setup = s.setup /\ t.opened = s.opened /\ t.mounted /\ t.dbOpen = s.dbOpen
      /\ t.slots = [s.slots EXCEPT ![k] = 1]
  <2>1. /\ t.authorized = v.authorized \cup {k} /\ t.inserted = v.inserted
        /\ t.setup = v.setup /\ t.opened = v.opened /\ t.mounted = v.mounted
        /\ t.dbOpen = v.dbOpen /\ t.slots = v.slots
    BY <1>3, <1>5 DEF Authorized, Typed, State
  <2> QED
    BY <1>4, <1>5, <2>1 DEF SameKeys
<1>7. t.slots = Slots(t)
  BY <1>1, <1>6 DEF Slots
<1> QED
  BY <1>3, <1>6, <1>7

(* setupFileSystem(): the header has one slot, of the first key. *)
LEMMA ExactFormat ==
  ASSUME Reliable, NEW s, Typed(s), ~s.mounted, NEW k \in Key, NEW t \in FormatWith(s, k)
  PROVE  /\ t.setup /\ t.mounted /\ t.authorized = {k} /\ t.inserted = s.inserted
         /\ t.slots = Slots(t) /\ t.opened = s.opened /\ DBFollows(s, t)
<1> DEFINE u == [s EXCEPT !.authorized = {}]
           v == SetEncryptionKey(u, k)
           w == [NewHeader(v) EXCEPT !.formatted = TRUE]
<1>1. k \in AnyKey /\ k # NoKey
  BY KeyAssumption DEF AnyKey
<1>2. /\ Typed(u) /\ u.authorized = {} /\ u.inserted = s.inserted /\ ~u.mounted
      /\ u.opened = s.opened /\ u.dbOpen = s.dbOpen
  BY DEF Typed, State
<1>3. /\ Typed(v) /\ v.authorized = {} /\ v.inserted = s.inserted /\ ~v.mounted
      /\ v.key = k /\ v.opened = s.opened /\ v.dbOpen = s.dbOpen
  <2> HIDE DEF u
  <2> QED
    BY <1>1, <1>2, SetKeyKeeps, SetKeyLeaves DEF SameKeys
<1>4. PICK o \in SetupFileSystem(v) : t = IF o.ok THEN Authorized(o.to, k) ELSE o.to
  BY DEF FormatWith
<1> HIDE DEF u, v
<1>5. PICK x \in MountMappedDevice(w) : o = Succeeds(x)
  BY <1>1, <1>3, <1>4 DEF SetupFileSystem, If, Reliable
<1>6. /\ Typed(w) /\ w.authorized = {} /\ w.inserted = s.inserted /\ w.setup
      /\ w.opened = s.opened /\ w.dbOpen = s.dbOpen
      /\ w.slots = [j \in AnyKey |-> IF j = k THEN 1 ELSE 0]
  <2>1. /\ Typed(NewHeader(v)) /\ NewHeader(v).authorized = {} /\ NewHeader(v).setup
        /\ NewHeader(v).inserted = s.inserted /\ NewHeader(v).opened = s.opened
        /\ NewHeader(v).dbOpen = s.dbOpen
        /\ NewHeader(v).slots = [j \in AnyKey |-> IF j = k THEN 1 ELSE 0]
    <3>1. Typed(NewHeader(v)) /\ SameKeys(v, NewHeader(v))
      BY <1>3, NewHeaderKeeps
    <3>2. /\ NewHeader(v).setup /\ NewHeader(v).opened = v.opened
          /\ NewHeader(v).dbOpen = v.dbOpen
          /\ NewHeader(v).slots = [j \in AnyKey |-> IF j = v.key THEN 1 ELSE 0]
      BY <1>3 DEF NewHeader, Typed, State
    <3> QED
      BY <1>3, <3>1, <3>2 DEF SameKeys
  <2> QED
    BY <2>1 DEF Typed, State
<1> HIDE DEF w
<1>7. /\ Typed(x) /\ x.authorized = {} /\ x.inserted = s.inserted
      /\ Leaves(w, x) /\ x.mounted /\ DBFollows(w, x)
  BY <1>5, <1>6, MountDeviceKeeps, MountDeviceLeaves DEF SameKeys
<1>8. /\ t.authorized = {k} /\ t.inserted = s.inserted /\ t.setup /\ t.mounted
      /\ t.opened = s.opened /\ t.dbOpen = x.dbOpen /\ t.slots = w.slots
  BY <1>4, <1>5, <1>6, <1>7 DEF Succeeds, Authorized, Leaves, Typed, State
<1>9. t.slots = Slots(t)
  BY <1>6, <1>8 DEF Slots
<1> QED
  BY <1>6, <1>7, <1>8, <1>9 DEF DBFollows

(* What an event leaves when some inserted key is authorized *)
LEMMA KeyedIsExact ==
  ASSUME NEW s, Exact(s), NEW t, t.mounted, t.inserted # {}, t.inserted \subseteq t.authorized,
         t.authorized \subseteq Key, t.setup, t.setup \in BOOLEAN, t.mounted \in BOOLEAN,
         t.slots = Slots(t), t.opened = s.opened,
         s.mounted => t.dbOpen = s.dbOpen, ~s.mounted => DBFollows(s, t)
  PROVE  Exact(t)
BY DEF Exact, DBFollows

LEMMA InsertedIsExact ==
  ASSUME interference \subseteq {"db"}, FewKeys, NEW s, Typed(s), Sound(s), Exact(s),
         NEW k \in Key, k \notin s.revoked, NEW t \in OnKeyInserted(s, k)
  PROVE  Exact(t)
<1> DEFINE u == [s EXCEPT !.inserted = @ \cup {k}]
<1>1. Reliable /\ "slot" \notin interference /\ k \in AnyKey /\ k # NoKey
  BY KeyAssumption DEF Reliable, AnyKey
<1>2. /\ Typed(u) /\ u.inserted = s.inserted \cup {k} /\ u.authorized = s.authorized
      /\ u.setup = s.setup /\ u.slots = s.slots /\ u.key = s.key /\ u.opened = s.opened
      /\ u.mounted = s.mounted /\ u.dbOpen = s.dbOpen
      /\ Listed(u, k) = Listed(s, k)
  BY DEF Typed, State, Listed, Chain
<1>3. PICK v \in Recognized(s, k) :
        IF k \in v.authorized THEN t = v ELSE t \in QueryKeyAuthorization(v, k)
  BY DEF OnKeyInserted
<1>4. \/ ~s.setup /\ v = u
      \/ /\ s.setup
         /\ \E o \in EncryptionKeyInUse(u, k) :
              v = IF o.ok THEN [o.to EXCEPT !.authorized = @ \cup {k}] ELSE o.to
  BY <1>3 DEF Recognized
<1> HIDE DEF u
<1>5. CASE k \in s.authorized
  <2>1. PICK o \in EncryptionKeyInUse(u, k) :
          v = IF o.ok THEN [o.to EXCEPT !.authorized = @ \cup {k}] ELSE o.to
    BY <1>4, <1>5 DEF Exact
  <2>2. /\ Typed(o.to) /\ o.to.mounted /\ o.to.setup /\ o.to.slots = s.slots
        /\ o.to.authorized = s.authorized /\ o.to.inserted = s.inserted \cup {k}
        /\ o.to.opened = s.opened
        /\ s.mounted => o.to.dbOpen = s.dbOpen
        /\ ~s.mounted => DBFollows(s, o.to)
    <3>1. CASE s.mounted
      <4>1. o.to = u
        BY <1>2, <3>1 DEF EncryptionKeyInUse, Fails, Succeeds
      <4>2. s.setup
        BY <1>5 DEF Exact
      <4> QED
        BY <1>2, <3>1, <4>1, <4>2
    <3>2. CASE ~s.mounted
      <4>1. o \in Mounted(u, k)
        BY <1>2, <2>1, <3>2 DEF EncryptionKeyInUse, Mounted
      <4>2. u.setup /\ u.slots = Slots(u) /\ u.authorized \subseteq Key
        BY <1>2, <1>5 DEF Exact, Slots
      <4>3. /\ o.ok /\ o.to.mounted /\ Typed(o.to)
            /\ SameKeys(u, o.to) /\ o.to.setup /\ o.to.slots = u.slots
            /\ o.to.opened = u.opened /\ (~u.mounted => DBFollows(u, o.to))
        BY <1>1, <1>2, <1>5, <4>1, <4>2, ExactMount
      <4> QED
        BY <1>2, <3>2, <4>3 DEF SameKeys, DBFollows
    <3> QED
      BY <3>1, <3>2
  <2>3. /\ v.mounted /\ v.setup /\ v.slots = s.slots /\ v.authorized = s.authorized
        /\ v.inserted = s.inserted \cup {k} /\ v.opened = s.opened
        /\ v.setup \in BOOLEAN /\ v.mounted \in BOOLEAN
        /\ s.mounted => v.dbOpen = s.dbOpen
        /\ ~s.mounted => DBFollows(s, v)
    <3>1. s.authorized \cup {k} = s.authorized
      BY <1>5
    <3>2. v.authorized = s.authorized
      BY <2>1, <2>2, <3>1 DEF Typed, State
    <3> QED
      BY <2>1, <2>2, <3>2 DEF Typed, State, DBFollows
  <2>4. v.slots = Slots(v)
    BY <2>3 DEF Exact, Slots
  <2>5. v.authorized \subseteq Key /\ v.inserted \subseteq v.authorized
    BY <1>5, <2>3 DEF Exact
  <2>6. Exact(v)
    BY <2>3, <2>4, <2>5, KeyedIsExact
  <2> QED
    BY <1>3, <1>5, <2>3, <2>6
<1>6. CASE k \notin s.authorized /\ s.authorized = {}
  <2>1. ~s.setup /\ s.inserted = {} /\ ~s.mounted
    BY <1>6 DEF Exact
  <2>2. t \in FormatWith(u, k)
    BY <1>2, <1>3, <1>4, <1>6, <2>1 DEF QueryKeyAuthorization, AuthorizeKey
  <2>3. /\ t.setup /\ t.mounted /\ t.authorized = {k} /\ t.inserted = {k}
        /\ t.slots = Slots(t) /\ t.opened = s.opened /\ DBFollows(u, t)
    BY <1>1, <1>2, <2>1, <2>2, ExactFormat
  <2>4. DBFollows(s, t)
    BY <1>2, <2>3 DEF DBFollows
  <2>5. Typed(t)
    BY InsertedKeepsTypes
  <2>6. t.setup \in BOOLEAN /\ t.mounted \in BOOLEAN
    BY <2>5 DEF Typed, State
  <2> QED
    BY <2>1, <2>3, <2>4, <2>6, KeyedIsExact
<1>7. CASE k \notin s.authorized /\ s.authorized # {}
  <2>1. s.setup /\ s.slots[k] = 0
    BY <1>1, <1>7 DEF Exact, Slots
  <2>2. PICK o \in EncryptionKeyInUse(u, k) :
          v = IF o.ok THEN [o.to EXCEPT !.authorized = @ \cup {k}] ELSE o.to
    BY <1>4, <2>1
  <2>3. /\ ~o.ok /\ Typed(o.to) /\ SameKeys(u, o.to)
        /\ o.to.mounted = s.mounted /\ o.to.setup /\ o.to.slots = s.slots
        /\ o.to.opened = s.opened /\ o.to.dbOpen = s.dbOpen
    <3>1. Typed(o.to) /\ SameKeys(u, o.to)
      BY <1>1, <1>2, <2>2, InUseKeeps
    <3>2. CASE s.mounted
      <4>1. ~(s.key = k \/ Listed(s, k))
        BY <1>1, <2>1, <3>2 DEF Sound, InUse, Opens
      <4> QED
        <5>1. ~o.ok /\ o.to = u
          BY <1>2, <3>2, <4>1 DEF EncryptionKeyInUse, Fails
        <5> QED
          BY <1>2, <2>1, <3>1, <5>1
    <3>3. CASE ~s.mounted
      <4> DEFINE x == SetEncryptionKey(u, k)
      <4>1. o \in MountFileSystem(x)
        BY <1>2, <2>2, <3>3 DEF EncryptionKeyInUse
      <4>2. /\ Typed(x) /\ x.setup = s.setup /\ x.slots = s.slots /\ x.key = k
            /\ x.mounted = s.mounted /\ x.opened = s.opened /\ x.dbOpen = s.dbOpen
        BY <1>1, <1>2, <3>3, SetKeyKeeps, SetKeyLeaves
      <4> HIDE DEF x
      <4>3. ~o.ok
        BY <2>1, <4>1, <4>2, MountLeaves
      <4> QED
        BY <2>1, <3>1, <4>1, <4>2, <4>3, MountLeaves
    <3> QED
      BY <3>2, <3>3
  <2>4. /\ v = o.to /\ v.authorized = s.authorized /\ v.inserted = s.inserted \cup {k}
    BY <1>2, <2>2, <2>3 DEF SameKeys
  <2>5. PICK a \in v.authorized : t \in AddWith(v, k, a)
    BY <1>3, <1>7, <2>3, <2>4 DEF QueryKeyAuthorization, AuthorizeKey
  <2>6. PICK m \in Mounted(v, a) :
          \E added \in IF m.ok THEN AddEncryptionKey(m.to, k, a) ELSE {m} :
            t = IF added.ok THEN Authorized(added.to, k) ELSE added.to
    BY <2>5 DEF AddWith
  <2>7. v.slots = Slots(v) /\ v.authorized \subseteq Key
    BY <2>3, <2>4 DEF Exact, Slots
  <2>8. /\ m.ok /\ m.to.mounted /\ Typed(m.to) /\ SameKeys(v, m.to)
        /\ m.to.setup /\ m.to.slots = v.slots /\ m.to.opened = v.opened
        /\ v.mounted => m.to = v
        /\ ~v.mounted => DBFollows(v, m.to)
    BY <1>1, <2>3, <2>4, <2>5, <2>6, <2>7, ExactMount
  <2>9. PICK added \in AddEncryptionKey(m.to, k, a) :
            t = IF added.ok THEN Authorized(added.to, k) ELSE added.to
    BY <2>6, <2>8
  <2>10. /\ m.to.authorized = s.authorized /\ m.to.inserted = s.inserted \cup {k}
         /\ m.to.slots = Slots(m.to) /\ m.to.authorized \subseteq Key
         /\ k \in Key \ m.to.authorized /\ a \in m.to.authorized
    BY <1>7, <2>4, <2>5, <2>7, <2>8 DEF SameKeys, Slots
  <2>11. /\ t = Authorized(added.to, k) /\ t.authorized = s.authorized \cup {k}
         /\ t.inserted = s.inserted \cup {k} /\ t.slots = Slots(t)
         /\ t.setup = m.to.setup /\ t.opened = m.to.opened
         /\ t.mounted /\ t.dbOpen = m.to.dbOpen
    <3>1. added.ok
      BY <1>1, <2>8, <2>9, <2>10, ExactAdd
    <3>2. t = Authorized(added.to, k)
      BY <2>9, <3>1
    <3> DEFINE x == m.to
    <3>3. /\ Typed(x) /\ x.mounted /\ x.slots = Slots(x) /\ x.authorized \subseteq Key
          /\ a \in x.authorized /\ k \in Key \ x.authorized
          /\ added \in AddEncryptionKey(x, k, a) /\ "slot" \notin interference
      BY <1>1, <2>8, <2>9, <2>10
    <3> HIDE DEF x
    <3>4. /\ t.authorized = x.authorized \cup {k} /\ t.inserted = x.inserted
          /\ t.slots = Slots(t) /\ t.setup = x.setup /\ t.opened = x.opened
          /\ t.mounted /\ t.dbOpen = x.dbOpen
      BY <3>3, <3>2, ExactAdd
    <3>5. /\ t.authorized = m.to.authorized \cup {k} /\ t.inserted = m.to.inserted
          /\ t.slots = Slots(t) /\ t.setup = m.to.setup /\ t.opened = m.to.opened
          /\ t.mounted /\ t.dbOpen = m.to.dbOpen
      BY <3>4 DEF x
    <3> QED
      BY <2>10, <3>2, <3>5
  <2>12. /\ s.mounted => t.dbOpen = s.dbOpen
         /\ ~s.mounted => DBFollows(s, t)
    BY <2>3, <2>4, <2>8, <2>11 DEF DBFollows
  <2>13. /\ t.setup \in BOOLEAN /\ t.mounted \in BOOLEAN
    <3>1. Typed(t)
      BY InsertedKeepsTypes
    <3> QED
      BY <3>1 DEF Typed, State
  <2>14. /\ t.authorized \subseteq Key /\ t.inserted \subseteq t.authorized
         /\ t.setup /\ t.opened = s.opened /\ t.inserted # {}
    BY <2>3, <2>4, <2>8, <2>11 DEF Exact
  <2> QED
    BY <2>11, <2>12, <2>13, <2>14, KeyedIsExact
<1> QED
  BY <1>5, <1>6, <1>7

LEMMA DisabledIsExact ==
  ASSUME NEW s, Typed(s), Exact(s), NEW k \in s.inserted, ~NullDB(s, k)
  PROVE  Exact(OnKeyDisabled(s, k))
<1> DEFINE u == [s EXCEPT !.inserted = @ \ {k}]
           t == OnKeyDisabled(s, k)
<1>1. /\ Typed(u) /\ u.inserted = s.inserted \ {k} /\ u.authorized = s.authorized
      /\ u.setup = s.setup /\ u.slots = s.slots /\ u.key = s.key /\ u.opened = s.opened
      /\ u.mounted = s.mounted /\ u.dbOpen = s.dbOpen
  BY DEF Typed, State
<1>2. k \in s.authorized /\ s.mounted
  BY DEF Exact
<1>3. AuthorizedInsertedKeys(u) = u.inserted
  BY <1>1 DEF Exact, AuthorizedInsertedKeys
<1>4. t = IF u.inserted = {} THEN UnmountFileSystem(u) ELSE u
  BY <1>1, <1>2, <1>3 DEF OnKeyDisabled
<1>5. u.inserted = {} => s.opened
  BY <1>2, <1>3 DEF NullDB
<1> HIDE DEF u
<1>6. CASE u.inserted = {}
  <2>1. /\ t.inserted = {} /\ t.authorized = s.authorized /\ t.setup = s.setup
        /\ t.slots = s.slots /\ t.opened = s.opened /\ t.mounted = FALSE
        /\ t.dbOpen = FALSE
    BY <1>1, <1>4, <1>6 DEF UnmountFileSystem, Typed, State
  <2> HIDE DEF t
  <2> QED
    BY <1>5, <1>6, <2>1 DEF Exact, Slots, t
<1>7. CASE u.inserted # {}
  BY <1>1, <1>2, <1>4, <1>7 DEF Exact, Slots
<1> QED
  BY <1>6, <1>7

LEMMA RemovedIsExact ==
  ASSUME interference \subseteq {"db"}, NEW s, Typed(s), Exact(s), NEW k \in Key,
         s.inserted \ {k} # {}, NEW t \in OnKeyRemoved(s, k)
  PROVE  Exact(t)
<1> DEFINE u == OnKeyDisabled(s, k)
<1>1. Reliable /\ "slot" \notin interference /\ k \in AnyKey
  BY DEF Reliable, AnyKey
<1>2. u = [s EXCEPT !.inserted = @ \ {k}]
  <2> DEFINE x == [s EXCEPT !.inserted = @ \ {k}]
  <2>1. x.inserted = s.inserted \ {k} /\ x.authorized = s.authorized
    BY DEF Typed, State
  <2>2. AuthorizedInsertedKeys(x) # {}
    BY <2>1 DEF AuthorizedInsertedKeys, Exact
  <2> QED
    BY <2>2 DEF OnKeyDisabled
<1>3. /\ Typed(u) /\ u.inserted = s.inserted \ {k} /\ u.authorized = s.authorized
      /\ u.setup /\ u.slots = s.slots /\ u.key = s.key /\ u.opened = s.opened
      /\ u.mounted /\ s.mounted /\ u.dbOpen = s.dbOpen
  BY <1>2 DEF Typed, State, Exact
<1>4. IF k \in u.authorized THEN t \in RevokeKeyAuthorization(u, k) ELSE t = u
  BY DEF OnKeyRemoved
<1> HIDE DEF u
<1>5. CASE k \notin s.authorized
  <2>1. t = u /\ u.slots = Slots(u) /\ u.setup \in BOOLEAN /\ u.mounted \in BOOLEAN
    BY <1>3, <1>4, <1>5 DEF Exact, Slots, Typed, State
  <2>2. u.inserted \subseteq u.authorized /\ u.authorized \subseteq Key
    BY <1>3 DEF Exact
  <2> QED
    BY <1>3, <2>1, <2>2, KeyedIsExact
<1>6. CASE k \in s.authorized
  <2>1. PICK a \in u.authorized : t \in RemoveWith(u, k, a)
    BY <1>3, <1>4, <1>6 DEF RevokeKeyAuthorization
  <2>2. Mounted(u, a) = {Succeeds(u)}
    BY <1>3 DEF Mounted
  <2>3. PICK o \in RemoveEncryptionKey(u, k, a) :
          t = IF o.ok THEN Revoked(o.to, k) ELSE o.to
    BY <2>1, <2>2 DEF RemoveWith, Succeeds
  <2>4. s.slots[k] = 1 /\ u.slots[k] > 0
    BY <1>1, <1>3, <1>6 DEF Exact, Slots
  <2> DEFINE r == RemoveKeySlot(u, k)
             v == RemoveKeyFromKeychain(r, k)
  <2>5. t = Revoked(v, k)
    BY <1>1, <1>3, <2>3, <2>4 DEF RemoveEncryptionKey, If, Succeeds
  <2>6. /\ Typed(r) /\ SameKeys(u, r) /\ r.setup /\ r.opened = s.opened
        /\ r.mounted /\ r.dbOpen = s.dbOpen
        /\ r.slots = [s.slots EXCEPT ![k] = 0]
    <3>1. Typed(r) /\ SameKeys(u, r)
      BY <1>1, <1>3, <2>4, SlotsKeep
    <3>2. r = [u EXCEPT !.slots = [s.slots EXCEPT ![k] = 0]]
      BY <1>1, <1>3, <2>4 DEF RemoveKeySlot, Typed, State
    <3> QED
      BY <1>3, <3>1, <3>2 DEF Typed, State
  <2> HIDE DEF r
  <2>7. /\ Typed(v) /\ SameKeys(r, v) /\ Leaves(r, v) /\ v.mounted = r.mounted
        /\ v.dbOpen = r.dbOpen
    BY <1>1, <2>6, KeychainKeeps, KeychainLeaves
  <2> HIDE DEF v
  <2>8. /\ t.authorized = s.authorized \ {k} /\ t.inserted = s.inserted \ {k}
        /\ t.setup /\ t.opened = s.opened /\ t.mounted /\ t.dbOpen = s.dbOpen
        /\ t.slots = [s.slots EXCEPT ![k] = 0]
        /\ t.setup \in BOOLEAN /\ t.mounted \in BOOLEAN
    <3>1. /\ v.authorized = s.authorized /\ v.inserted = s.inserted \ {k}
          /\ v.setup /\ v.opened = s.opened /\ v.mounted /\ v.dbOpen = s.dbOpen
          /\ v.slots = [s.slots EXCEPT ![k] = 0]
      BY <1>3, <2>6, <2>7 DEF SameKeys, Leaves
    <3> QED
      BY <2>5, <2>7, <3>1 DEF Revoked, Typed, State
  <2>9. t.slots = Slots(t)
    BY <1>1, <2>8 DEF Exact, Slots
  <2>10. t.inserted \subseteq t.authorized /\ t.authorized \subseteq Key
    BY <2>8 DEF Exact
  <2> QED
    BY <1>3, <2>8, <2>9, <2>10, KeyedIsExact
<1> QED
  BY <1>5, <1>6

LEMMA ExactStep ==
  ASSUME interference \subseteq {"db"}, FewKeys, TypeInv, Asked(storage), Sound(storage),
         Exact(storage), running, [Next]_vars
  PROVE  Exact(storage') /\ running'
<1>1. /\ Typed(Handler) /\ Sound(Handler) /\ Exact(Handler)
      /\ SameKeys(storage, Handler) /\ Handler.opened = storage.opened
      /\ Handler.mounted = storage.mounted
  BY HandlerTyped
  DEF TypeInv, Typed, Sound, InUse, Opens, Listed, Chain, Exact, Slots, Handler, State,
      SameKeys
<1>2. ASSUME NEW k \in Key, KeyInserted(k) PROVE Exact(storage') /\ running'
  <2>1. k \notin Handler.revoked
    BY <1>1, <1>2 DEF KeyInserted, Orderly, SameKeys
  <2> QED
    BY <1>1, <1>2, <2>1, InsertedIsExact DEF KeyInserted, Handle
<1>3. \A k : NullDB(storage, k) <=> NullDB(Handler, k)
  BY <1>1 DEF NullDB, AuthorizedInsertedKeys, SameKeys, Handler, TypeInv, Typed, State
<1>4. ASSUME NEW k \in Key, KeyDisabled(k) PROVE Exact(storage') /\ running'
  <2>1. k \in Handler.inserted /\ ~NullDB(Handler, k)
    BY <1>1, <1>3, <1>4 DEF KeyDisabled, SameKeys
  <2> QED
    BY <1>1, <1>4, <2>1, DisabledIsExact DEF KeyDisabled, Handle
<1>5. ASSUME NEW k \in Key, KeyRemoved(k) PROVE Exact(storage') /\ running'
  <2>1. Handler.inserted \ {k} # {}
    BY <1>1, <1>5 DEF KeyRemoved, Orderly, AuthorizedInsertedKeys, SameKeys
  <2> QED
    BY <1>1, <1>5, <2>1, RemovedIsExact DEF KeyRemoved, Handle
<1>6. ASSUME OpenCredentialsSystem PROVE Exact(storage') /\ running'
  <2> DEFINE s == [Handler EXCEPT !.opened = TRUE]
  <2>1. /\ s.inserted = Handler.inserted /\ s.authorized = Handler.authorized
        /\ s.setup = Handler.setup /\ s.slots = Handler.slots /\ s.key = Handler.key
        /\ s.mounted = Handler.mounted /\ ~s.dbOpen /\ s.opened /\ Typed(s)
        /\ ~Handler.opened
    BY <1>1, <1>6 DEF OpenCredentialsSystem, Exact, Typed, State
  <2>2. IF s.mounted THEN storage' \in OpenSecretsDB(s)
                     ELSE \E o \in MountFileSystem(s) : storage' = o.to
    BY <1>6 DEF OpenCredentialsSystem, Handle
  <2> HIDE DEF s
  <2>3. CASE s.mounted
    <3>1. \/ storage' = [s EXCEPT !.dbOpen = TRUE]
          \/ "db" \in interference /\ storage' = s
      BY <2>2, <2>3 DEF OpenSecretsDB, If
    <3>2. /\ storage'.inserted = s.inserted /\ storage'.authorized = s.authorized
          /\ storage'.setup = s.setup /\ storage'.slots = s.slots
          /\ storage'.mounted = s.mounted /\ storage'.opened
          /\ "db" \notin interference => storage'.dbOpen
      BY <2>1, <3>1 DEF Typed, State
    <3>3. Exact(storage')
      <4>1. storage'.slots = s.slots /\ Slots(storage') = Slots(Handler)
        BY <2>1, <3>2 DEF Slots
      <4>2. storage'.slots = Slots(storage')
        BY <1>1, <2>1, <4>1 DEF Exact
      <4> QED
        BY <1>1, <2>1, <2>3, <3>2, <4>2 DEF Exact
    <3> QED
      BY <1>6, <3>3 DEF OpenCredentialsSystem, Handle
  <2>4. CASE ~s.mounted
    <3>1. s.key = NoKey
      BY <1>1, <2>1, <2>4 DEF Exact
    <3>2. storage' = s
      BY <2>2, <2>4, <3>1 DEF MountFileSystem, Fails
    <3>3. Exact(storage')
      BY <1>1, <2>1, <2>4, <3>2 DEF Exact, Slots
    <3> QED
      BY <1>6, <3>3 DEF OpenCredentialsSystem, Handle
  <2> QED
    BY <2>3, <2>4
<1>7. ~StorageNeeded /\ ~CloseCredentialsSystem /\ ~Restart
      /\ \A k \in Key : ~DisabledWhileClosed(k)
  BY DEF StorageNeeded, CloseCredentialsSystem, Restart, DisabledWhileClosed, Orderly
<1>8. CASE UNCHANGED vars
  BY <1>8 DEF vars
<1> QED
  BY <1>2, <1>4, <1>5, <1>6, <1>7, <1>8 DEF Next

(* The storage is open exactly while an authorized key is inserted, and a revoked key
   opens nothing, in a daemon that is disturbed by nothing but a secrets DB that
   cannot be opened, whose keys all find a slot in the header. *)
THEOREM OpenExactlyWhileKeyed ==
  ASSUME FewKeys
  PROVE  Spec => []OpenWhileKeyed
<1> DEFINE Steady == interference \subseteq {"db"}
           Held == Asked(storage) /\ Sound(storage) /\ Exact(storage) /\ running
           Inv == TypeInv /\ (Steady => Held)
<1>1. Init => Inv
  <2>1. IsFiniteSet({})
    BY FS_EmptySet
  <2>2. Init => TypeInv
    BY <2>1 DEF Init, TypeInv, Typed, State, AnyKey, Place
  <2>3. Init => Held
    <3>1. Init => Asked(storage) /\ Sound(storage) /\ running
      BY DEF Init, Asked, Sound, InUse, Listed, Chain, Place
    <3>2. ASSUME Init PROVE Exact(storage)
      <4>1. /\ storage.authorized = {} /\ storage.inserted = {} /\ storage.setup = FALSE
            /\ storage.slots = [k \in AnyKey |-> 0] /\ storage.mounted = FALSE
            /\ storage.key = NoKey /\ storage.dbOpen = FALSE
        BY <3>2 DEF Init
      <4>2. storage.slots = Slots(storage)
        BY <4>1 DEF Slots
      <4> QED
        BY <4>1, <4>2 DEF Exact
    <3> QED
      BY <3>1, <3>2
  <2> QED
    BY <2>2, <2>3
<1>2. Inv /\ [Next]_vars => Inv'
  <2> SUFFICES ASSUME Inv, [Next]_vars PROVE Inv'
    OBVIOUS
  <2>1. TypeInv' /\ Steady' = Steady
    BY TypeStep, InterferenceStays
  <2>2. Steady => Held'
    <3> SUFFICES ASSUME Steady PROVE Held'
      OBVIOUS
    <3>1. /\ "again" \notin interference
          /\ {"again", "crash", "tools", "mount"} \cap interference = {}
      OBVIOUS
    <3>2. Asked(storage') /\ Sound(storage')
      BY <3>1, AskedStep, SoundStep
    <3>3. Exact(storage') /\ running'
      BY ExactStep
    <3>4. Exact(storage)'
      BY <3>3, InterferenceStays DEF Exact
    <3> QED
      BY <3>2, <3>3, <3>4
  <2> QED
    BY <2>1, <2>2
<1>3. Inv => OpenWhileKeyed
  <2> SUFFICES ASSUME Inv, Steady
               PROVE  /\ OpenOnlyWithKey /\ RevokedKeysAreOut
                      /\ interference = {} => OpenWheneverKeyed
    BY DEF OpenWhileKeyed
  <2>1. AuthorizedInsertedKeys(storage) = storage.inserted
    BY DEF Exact, AuthorizedInsertedKeys
  <2>2. OpenOnlyWithKey
    BY <2>1 DEF Exact, OpenOnlyWithKey
  <2>3. RevokedKeysAreOut
    BY DEF Exact, Slots, Asked, RevokedKeysAreOut, TypeInv, Typed, State
  <2>4. interference = {} => OpenWheneverKeyed
    BY <2>1 DEF Exact, OpenWheneverKeyed
  <2> QED
    BY <2>2, <2>3, <2>4
<1> QED
  BY <1>1, <1>2, <1>3, PTL DEF Spec

================================================================================
