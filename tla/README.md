# signon: a TLA+ model of the single sign-on daemon

signon stores credentials and authenticates on behalf of applications. A
daemon, `signond`, owns the databases and runs one plug-in process per
authentication method and identity; applications use it over D-Bus through the
client library; a dialog service, `signon-ui`, talks to the user. This
directory holds TLA+ modules of the parts whose correctness depends on the
order of events, TLC configurations that check them on small instances, and
TLAPS proofs of what holds for every instance.

## Running

```
tlc -workers 2 -config core_cancel.cfg MCSessionCore
tlc -workers 2 -config core_faults.cfg MCSessionCore
tlc -workers 2 -config cred_orderly.cfg MCStoredCredentials
tlc -workers 2 -config keys.cfg MCSecureStorage
tlc -workers 2 -config ident.cfg MCIdentities
tlc -workers 2 -config client.cfg MCClient
tlc -workers 2 -config daemon.cfg MCDaemon
tlc -workers 2 -config processes.cfg MCProcesses
tlc -config bug_next_before_cancel.cfg MCSessionCore     # and bug_ui_reply_assert.cfg
tlc -config bug_removed_identity.cfg MCStoredCredentials
tlc -config bug_revoked_opens.cfg SecureStorage
tlapm SessionCoreProofs.tla                              # and the other *Proofs modules
```

`PROJECT.json` lists the runs, the lines of the code behind every definition
(`map`), the hazards the properties are for, and the disagreements found between the code
and its documentation (`findings`).

### How a run holds several instances

A component is asked several questions, and each needs constants of its own: one instance in
which nothing goes wrong, another in which the daemon ends, and so on. An `MC` module makes
them with `INSTANCE ... WITH` and has a variable (`instance`, `orderly`) that says
which of them a behaviour belongs to; it is set in the initial state and never changes, so that the states
of a run are those of its instances side by side. A property of an `MC` module says which
instances it is claimed of; it is the property of the component's module there. An instance
that a property is not claimed of is one where it fails, or one it has nothing to do with.

The state properties of a component that are checked together are the conjuncts of one invariant
there (`SessionsInv`, `TablesInv`, `FilesInv`, `LifeInv`, `PipeInv`, `SessionInv`, `IdentityInv`,
`ServiceInv`, with the type invariant; `RequestsKeptApart`, `CoreActsInTime`,
`OpenWhileKeyed`, `OrderlyAnswersAreTrue`), and so are some action and
liveness properties (`StorageIsKept`, `NewsHeeded`, `ClientsAreServed`, `CallsEnd`, `EndsWhenDue`).
The sections below speak of the conjuncts by their own names.

`Interference`, a constant of most modules, is the set of kinds of disorder that an instance
allows; a guard that mentions a kind excludes it elsewhere. The sections below list what each
kind breaks. To see it, put the kind into the `WITH` clause of an instance, or into a
configuration, and claim the property of that instance. In parts C, D and E, and for sessions and the service in
part F, it is the variable `interference`, which
never changes either: a behaviour has one of the sets in `Interferences`, and a property says which
it is claimed of, so that a theorem can state it; in part I it belongs to the variable `setup`. `CHECK_DEADLOCK FALSE` is set where
the bounds, or the end of the process, leave nothing to do.

## Inventory

Paths are below `src/`. "Hard" names what makes the component difficult to test.

| Component | State | Operations and interactions | Hard | Correct if |
|---|---|---|---|---|
| Session core, `src/signond/signonsessioncore.cpp` | queue of requests, `m_requestIsActive`, `m_canceled`, `m_watcher`, `m_queryCredsUiDisplayed`, `m_tmp*` | `process`, `cancel` from D-Bus; slots called directly by the proxy; events posted to itself; dialogs through signon-ui | cancellation against answers in flight, late dialog replies, crash, disposal | requests served one at a time and in order, each answered once, nothing of one request reaches another |
| Plug-in proxy, `src/signond/pluginproxy.cpp` | `m_isProcessing`, `m_isResultObtained`, `m_uiPolicy`, the child process | operations written to a pipe, responses read from one; restart; exit | responses carry no request; restart during use | one final answer per operation, forwarded to its request |
| Plug-in process and plug-ins, `src/remotepluginprocess`, `src/plugins` | the operation at work, a pending dialog | reads operations, answers | may crash, hang or ignore `cancel` | one final answer per `process` |
| Blob I/O, `lib/plugins/signon-plugins-common` | bytes still to come | splits and joins data over the pipes | partial reads | data arrives whole or an error is reported |
| Sessions on D-Bus, `signonauthsession*.cpp` | core, owner pid | register, forward, unregister | disposal while in use | belongs to one client |
| Daemon, `signondaemon*.cpp` | `m_storedIdentities`, configuration | creates identities and sessions; signals | doomed objects still listed | one object per stored identity |
| Identities, `signonidentity*.cpp` | `m_pInfo` cache, `autoDestruct`, open dialogs | store, remove, sign out, verify, query the user | cached data used after a dialog; several dialogs at once | callers get answers about their identity as stored |
| Disposable objects, `signondisposable.cpp` | list of objects, two timers | `keepInUse`, `destroyUnused` | an object that declines to be destroyed | idle objects go, used ones stay, the daemon ends only when idle |
| Credentials access manager, `credentialsaccessmanager.cpp` | opened, ready, notifiers waiting for storage | opens and closes the databases as the encrypted storage comes and goes | key events at any moment | secrets are open only while authorized keys are there |
| Keys and crypto managers, `lib/signond/SignOn/key-handler.cpp`, `src/extensions/cryptsetup` | inserted and authorized keys, mount state, keychain, LUKS slots | insert, authorize, revoke, mount | half-done operations | the keys believed authorized are those that open the storage |
| Credentials database and secrets, `credentialsdb.cpp`, `default-secrets-storage.cpp` | metadata DB, secrets DB, cache while secrets are closed | insert, update, remove, check, load, clear, open, close | two databases and a cache without a common transaction | secrets read are the last ones stored; removed ones are gone |
| Backup, `backup.cpp` | files and their `.bak` copies | backup and restore with the databases closed | a failing step | either all old or all new |
| Access control, `accesscontrolmanagerhelper.cpp`, `signonidentityinfo.cpp` | none | predicates on access control lists | empty and wildcard lists | as documented |
| Client library, `lib/SignOn` | call queue, object path, connection status, `m_processCall` | queues calls until registered, retries, cancels | reconnection, calls in flight | each call ends with one reply or error |
| signon-ui adaptor, tracing, `main.cpp` | none | D-Bus calls, logging, start-up | | |

## Modules

| Part | Component modules | Checked by | Proved in |
|---|---|---|---|
| A. Session core and plug-in proxy | `RequestQueue`, `PluginProxy`, `SessionCore` | `MCSessionCore` | `SessionCoreProofs` on `SeqLemmas` |
| B. Credentials and secrets | `Vault`, `CredentialsDB`, `StoredCredentials` | `MCStoredCredentials`, `MCDaemon` | `StoredCredentialsProofs` |
| C. Keys and secure storage | `CryptoManager`, `SecureStorage` | `MCSecureStorage` | `SecureStorageProofs` |
| D. Identity objects | `Identities` | `MCIdentities` | `IdentitiesProofs` |
| E. Sessions on D-Bus, access control | `AccessControl`, `AuthSessions` | `MCDaemon` | `DaemonProofs` |
| F. Client library | `ClientProxy`, `ClientSession`, `ClientIdentity`, `ClientService` | `MCClient` | `ClientProofs` (not `ClientIdentity`) |
| G. The metadata database | `MetaDataDB` | `MCDaemon` | |
| H. The daemon's life | `DaemonLife` | `MCProcesses` | `ProcessesProofs` |
| I. Backup | `Backup` | `MCDaemon` | `DaemonProofs` |
| J. Blob I/O | `BlobIO` | `MCProcesses` | `ProcessesProofs` |

`SessionCore` extends `PluginProxy`, `StoredCredentials` extends `CredentialsDB`,
`SecureStorage` extends `CryptoManager`, `AuthSessions` extends `AccessControl`, and
`ClientSession` and `ClientService` extend `ClientProxy`: in each case one handler of the code
is a step of both. The other parts meet at their edges only, and each has the other as what
it sends or stores: a request begins and ends in `AuthSessions` and is worked on in
`SessionCore`; `Identities` and `StoredCredentials` have a row per identity where `MetaDataDB` has
tables; `PluginProxy` has whole messages where `BlobIO` has pages; the daemon that a client's
object talks to is its answers.

### What is proved, and what is not

The theorems cover every invariant of the passing runs but `IdentityInv` and `TablesInv`, every action property but
`NewsHeeded` and the part of `StorageIsKept` that is about tables, and both refinements, for
every value of the constants. Only model-checked are:

* *Liveness* (`EventuallyAnswered`, `CallsEnd`, `EndsWhenDue`, `Answered`): it needs fairness and
  `ENABLED`, which the provers do not handle.
* `IdentityInv` and `NewsHeeded` (F): how many registrations and messages are in transit is counted over a sequence
  (`SelectSeq`), which is induction over data.
* `TablesInv` and the rest of `StorageIsKept` (G): an operation of `MetaDataDB` is a fold of statements over sets of
  rows (`Each`), which is induction over data, too.

What is checked of `RemovedIsGone` in the instance `failing secrets` (B) is an instance of the theorem `RemovalIsFinal`.

## Module A: the session core

### Modules and code

`RequestQueue` is the abstract specification: requests wait in order, one runs,
a waiting one may be withdrawn, none runs twice.

`PluginProxy` has the state of `PluginProxy` (`isProcessing`,
`isResultObtained`, `uiPolicy`), of the child process (`process`, `plugin`) and
of the two pipes (`toPlugin`, `fromPlugin`). Its operators are pieces of
actions: the proxy's signals are direct calls into the session core, so a
handler of the proxy is one step of both. The proxy refuses a dialog itself
when the request's policy forbids it (`RefuseUi`).

`SessionCore` extends it with the members of `SignonSessionCore` under their
own names, without the `m_`. Its actions are the handlers of the daemon's event loop:

| Action | Code |
|---|---|
| `Process`, `Cancel` | `process()`, `cancel()`, called over D-Bus |
| `CredentialsSystemReady` | `credentialsSystemReady()` |
| `StartNewRequest` | the posted event, `startNewRequest()`, `startProcess()` |
| `ReadResponse` | `onReadStandardOutput()`, `handlePluginResponse()` and the slot it reaches: `processResultReply`, `processError`, `processStore`, `processUiRequest`, `processRefreshRequest` |
| `BrokenResponse` | `blobIOError()` |
| `OnExit` | `onExit()` |
| `SignonUiReplies` | the D-Bus reply of signon-ui (external) |
| `QueryUiSlot` | the posted `finished()` of the watcher, `queryUiSlot()` |
| `Destroy` | `destroy()`, called when the object has been idle |
| `Child` | the plug-in process: `RemotePluginProcess`, the plug-in, a crash |

History variables (`sent`, `cancelSent`, `started`, `replies`, `uiFor`,
`openUi`, `storageEvents`, and the `req` and `of` fields) record what the
properties speak of and are read by no guard of the code. `uiFor` stands for
the parameters that `processUiRequest()` stored in the request it opened the
dialog for.

Data is reduced to what the properties tell apart: a request is a model value
that belongs to a session, user name and password are the request they came
from. `SIGNAL` responses (progress messages) are in `BlobIO`, `setId()` and
`queryAvailableMechanisms()` in `AuthSessions`; the contents of session data are left out.

### Assumptions

* *Posted events come first* (`Turn`). An event posted by a handler is
  delivered in the current or the next turn of the event loop; an operation
  written to the child takes a process switch, the plug-in's work and the way back.
  The child therefore reads its input only when nothing is posted. Output
  already on its way may be read before a posted event, and a crash may happen at any time.
* *One open call per client session* (`SessionFree`, `LastOf`).
  `AuthSessionImpl::process()` refuses a second call while `m_processCall` is
  set, and `cancel()` clears it.
* *The inactivity timeout is long* (guards of `Destroy`): seconds against the
  delivery of an event that has been posted or of output already written.
* *An assertion ends the daemon* (`AssertQueueNotEmpty`), as in a debug build.
* `StorageLocked`: the identity is validated and the secrets storage closed,
  the situation in which the storage events of the code matter.
* `HasIdentity` is false for sessions on an identity that is not stored.

### Bounds

Three requests on two sessions, the first and the third on the same one: enough
for a request to be active, one behind it and a second one of a cancelled
session. `MaxUi` bounds the dialogs (a refresh uses one more), `MaxFaults` the
crashes, failed restarts and broken responses of a behaviour. The faults that
a run allows, the sessions that may cancel and the requests that forbid
dialogs are constants.

### What the runs show

| Run | Question | Bounds | Result |
|---|---|---|---|
| `core_cancel` | cancellation of any session at any moment, also before the credentials system is ready, and a plug-in that stores: types, `NoStall`, the refinement `ImplementsRequestQueue`; does a core start before the credentials are ready (`WaitsForCredentials`); is every request answered in the end (`EventuallyAnswered`); is a core disposed of with requests (`DestroyLosesNothing`), or asked to be and left alive (`DestroyNeverDeclines`; both are in `CoreActsInTime`); before anybody has cancelled, does anything of one request reach another (`RequestsKeptApart`: `ResultFromOwnRequest`, `CredsOfHead`, `WatcherServesHead`, `UiPolicyRespected`) | two dialogs, of one request, no faults | hold |
| `core_faults` | crashes, failed restarts, broken data: `AnsweredOnce`, `UiClosedWhenDone`, `EventuallyAnswered` | two faults of any kind and one dialog, no cancellation | hold |
| `bug_next_before_cancel`, `bug_ui_reply_assert` | see below | the smallest that shows it | violated |

`RequestsKeptApart` is claimed as long as nothing has
failed and nobody has cancelled (`Undisturbed`), and so is `StorageEventAfterQuery`, which is in no run. Without this condition they are
false, as the table further below shows. `UiClosedWhenDone` is not claimed of plug-ins that store.

Each of the `bug_*` runs checks one statement of a comment, a header or an assertion
that the code does not keep; `findings` quotes them.

* `bug_next_before_cancel`: the end of a cancelled request is guessed. The next
  final answer of the plug-in is taken for the reply to `cancel`; if it had
  been sent before, the next request starts too early and is itself cancelled.
* `bug_ui_reply_assert`: a dialog outlives its request, and its reply finds an
  empty queue.

The same causes have further effects. More statements are violated in
other instances; to see one, change the constants of a configuration as shown
and check the property, without its condition `Undisturbed` if it has that:

| Property | Constants (others as in `bug_next_before_cancel`) | What happens |
|---|---|---|
| `NoUiAfterCancel` | `Cancellable = {s1, s2}` | a start event resets `m_canceled` too early, and a cancelled request, already answered, opens a dialog ("Cancels the ongoing challenge", `lib/SignOn/authsession.h`) |
| `CancelAnswersItsRequest` | `Cancellable = {s1, s2}` | a key names the session, not the request: the second cancellation of a session finds its first request |
| `ResultFromOwnRequest` | `Cancellable = {s1, s2}` | after a cancellation the answers run one request ahead: a client receives the result of another request |
| `ResultFromOwnRequest` | no cancellation, `Faults = {"blob"}`, `PluginStores = TRUE` | `blobIOError()` does not record that the request has been answered; the result that follows answers the next one |
| `EventuallyAnswered` (`FairSpec`) | `PluginAnswersCancel = FALSE` | a plug-in that keeps the empty `cancel()` asks for a dialog nobody opens, and the queue stands still |
| `EventuallyAnswered` (`FairSpec`) | `Cancellable = {s2}`, `Faults = {"crash"}` | `m_canceled` outlives the cancelled request; the crash removes the next one without a reply |
| `UiPolicyRespected` | no cancellation, `Faults = {"crash"}`, `MaxUi = 2` | a late dialog reply is sent on as the refresh of the next request, which forbids dialogs |
| `StorageEventAfterQuery` | `Cancellable = {s1, s2}` | a cancelled request leaves `m_queryCredsUiDisplayed` set for the next |
| `UiClosedWhenDone` | no cancellation, `PluginStores = TRUE` | `processStore()` clears the flag, and signon-ui is not told that the request is done |
| `DestroyLosesNothing` without `credsReady` | no cancellation, `InitiallyReady = FALSE` | a core whose requests wait for the credentials system is idle in the eyes of `destroy()` |

The passing runs say where the same properties do hold, and so how
far each disagreement reaches: cancellation never breaks the order of the
queue, a crash alone never loses a request, and so on.

### Fairness

`FairSpec` assumes weak fairness of every delivery of the event loop
(`StartNewRequest`, `QueryUiSlot`, `ReadResponse`, `OnExit`,
`CredentialsSystemReady`), of the user (`SignonUiReplies`: signon-ui answers
or its D-Bus call times out), of the child reading its input and of the
plug-in answering. Qt's event loop delivers every event that is posted and
every readable descriptor; a plug-in that is at work is assumed to come to an
answer, since the daemon has no timeout for it. No fairness is assumed for
clients, faults or disposal. `EventuallyAnswered` is checked with it.

### What is proved

In `SessionCoreProofs`, for every set of requests and sessions and every bound:

* `TypeCorrect`: `TypeOK` is inductive.
* `QueueCorrect`, `QueueRefinement`: each step of the
  core has one of five effects on the queue (`QueueStep`: untouched, enqueued,
  withdrawn, activated, dequeued). `QueueInv` (the active request is at the
  head, no request twice, none that was not sent) follows from the effects
  alone, and each effect is a step of `RequestQueue` under the refinement
  mapping, or none. This holds with cancellation and with every fault.
* `NoSecondAnswer`: without cancellation no request is answered twice whatever
  faults occur. `AnswerInv` adds that only requests that have left the queue
  are answered, and that every reply goes to the head as it leaves.
  (With cancellation it is false: a session's second cancellation answers its first request again.)
* `NoRequestStalls`: `NoStall` if no data is broken and either nothing crashes or nobody
  cancels. It is not inductive. `ServiceInv` adds what is known of the child (`ChildLives`: it is never told to stop, and
  leaves nothing behind when it crashes) and `ServingInv`: a pending dialog belongs to an active request, so that the early return of
  `startNewRequest()` always has a request whose end will post the next event, and while no request is active a posted start event
  comes after everything else that a crash has left (`StartIsLast`, `NothingLeft`). Each
  hypothesis is needed: with crashes and broken responses together TLC finds `NoStall` violated
  (three requests, `MaxUi = 4`, `MaxFaults = 3`: a broken response ends the request, its late dialog
  reply makes the plug-in ask again, and the dialog of a request that is not active swallows the next
  start event), and so it does with crashes and cancellation (`MaxUi = 2`).
* `DestroyIsSafe`: under the same conditions a core that can read its credentials is never
  disposed of with requests (`DestroyLosesNothing`, of every step); it follows from the
  invariant of `NoStall`, because `Destroy` waits for posted events.
* `ActsInTime`: without faults, `CoreActsInTime`, of which `EarlyInv` (before the credentials are ready nothing has
  started, and no event is posted) is the reason for one part and `ServiceInv` for the other. A plug-in that crashes before the
  credentials are ready makes `onExit()` post a start event, and `WaitsForCredentials` is violated.
* `DialogsAreClosed`: without cancellation, broken data and plug-ins that store, `UiClosedWhenDone`.
  `DialogInv` says that every dialog ever opened is closed but perhaps that of the head, for which
  `m_queryCredsUiDisplayed` is then set.
* `KeptApart`: `RequestsKeptApart`, with no hypothesis. Its invariant `ApartInv` says in which stage of its
  service the head of the queue is (`Stage`: waiting in the pipe, at work in the plug-in, answered, in a dialog, and so on) and what
  the two pipes, the watcher and the policy hold in each; a handler takes one stage to another. This is
  what makes an answer without a request's name safe to forward.

The proofs rest on `ProxyAssumption` and `CoreAssumption`, which TLC evaluates
in every run, and on `SeqLemmas`, facts about sequences derived from the
standard theorem modules. Only model-checked: liveness (`EventuallyAnswered`), which needs fairness and
`ENABLED`.

## Module B: credentials and secrets

### Modules and code

`Vault` is the abstract specification: one secret per identity, in memory or
on disk. While the storage is locked a secret can only be held in memory; it is
written down when the storage is unlocked if the identity is one whose secrets
are kept, and forgotten otherwise. A crash loses what is in memory.

`CredentialsDB` has the state that the class of this name hides behind one
interface: `metadata` and `lastId` (the metadata DB), `secrets` and `blobs` (the
secrets DB, on an encrypted file system), `open`, and the cache for the time the
secrets DB is closed (`cachedSecrets`, `cachedBlobs`). Its operators are the
methods of the class, with the order of their writes and with the errors they
swallow.

`StoredCredentials` extends it with the callers. Each handler runs to its end on the
daemon's event loop. Two things span several: a session, which reads an identity
when its request starts and writes it back when the plug-in has answered; and the object of an
identity, which keeps what it has read (`copy`, the secrets in `m_pInfo`) and stores it again with what a
client gives it: `SignonIdentityInfo::update()` leaves the keys that the client's info does not contain as they
are (`Updated`), so that a `store()` without a password writes the password of the copy. `deaf` has
the identities whose object was made before the last backup, and is not connected to
the `credentialsUpdated()` of the new `CredentialsDB`.

| Action | Code |
|---|---|
| `StoreNew`, `Store` | `SignonIdentity::store()`, `storeCredentials()`, which deletes the copy |
| `StoreFails`, an outcome of `Store` | a `store()` whose metadata are not written: the copy stays, with what the client gave |
| `QueryInfo` | `verifyUser()`, `verifySecret()`: the copy is made, if there is none with a password |
| `VerifyUiSlot` | `verifyUiSlot()`, which deletes the copy |
| `Destroy` | the object is disposed of |
| `Remove`, `Clear` | `SignonIdentity::remove()`, `SignonDaemon::clear()` |
| `SignOut` | `SignonIdentity::signOut()` |
| `StartProcess` | `startProcess()`: the client's parameters completed from the database |
| `QueryUiSlot` | `queryUiSlot()`: what the user typed replaces them |
| `ProcessStore`, `ProcessResultReply` | data and result of the plug-in, stored by `processStoreOperation()`; the object deletes its copy in `onCredentialsUpdated()` |
| `ProcessError` | a request that ends without a result |
| `OnEncryptedFSMounted`, `OnEncryptedFSUnmounting` | the slots of the access manager that open and close the secrets DB |
| `Backup` | `backupStarts()`: the databases are closed and opened again under the sessions |
| `Restart` | the daemon ends and is started again |

The history variables `created`, `lastPassword` and `lastData` record what
clients, users and plug-ins have stored, and `own` whether a session's password was
given to it or read from the database. No guard of the code reads them.

### What may interfere

The code does not keep its promises under every use. `Interference` is the set of
kinds of disorder that a run allows; `Orderly` guards each of them.

| Kind | What it is | Violated with it |
|---|---|---|
| `options` | a client changes `storePassword` of an identity: the secret that should go stays in the secrets DB, the one that should be kept in the cache | `PasswordIsLastStored`, `NotOnDisk`, `ImplementsVault` |
| `store` | an identity is stored, or used by a second session, while a session is at work on it: the session's password overwrites the newer one | `PasswordIsLastStored` |
| `remove` | an identity is removed while a session is at work on it: its answer inserts a new identity with its secrets | `PasswordIsLastStored`, `RemovedIsGone`, `OnlyStoredIdentities` |
| `name` | a secret user name is given without the password: the row is replaced with an empty password | `PasswordIsLastStored`, `ImplementsVault` |
| `erase` | a client stores the empty password: `storeToDB()` passes over an empty cache entry and leaves the old password in the DB | `PasswordIsLastStored`, `ImplementsVault` |
| `copy` | the copy of an object is not, or does not stay, what is stored: it is read while the secrets DB, which has the password, is closed; a removal fails halfway; a backup leaves the object `deaf` | `PasswordIsLastStored`, and with two identities `ImplementsVault` |
| `write` | a statement fails, of the secrets DB or of a store's metadata: `updateCredentials()` ignores the result, `DefaultSecretsStorage` does not pass the error on, and `openSecretsDB()` empties the cache all the same | `PasswordIsLastStored`, `DataIsLastStored`, `ImplementsVault` |

The kind `copy` needs no misuse of a client: `verifyUser()` or `verifySecret()` while the secrets DB is closed makes a copy whose
password is empty, which `openSecretsDB()` does not touch; a `store()` after it that gives no
password, to change a caption, say, then replaces the stored password by the empty one. The code does lose the password
then; `PasswordIsLastStored` and `ImplementsVault` are claims about objects whose copies were made while the password
could be read. What the runs and theorems do cover of the copy is that every other way in which it
could grow old (a session's result, another store, a dialog) drops it in time.

With `TooLarge` not empty, `DataIsLastStored` is violated as well: the cache
accepts data that the secrets DB refuses when the cache is written to it.

To see one, put the kind in `Interference` of `cred_orderly.cfg`. Each property
holds with every kind it is not named for, by the theorems below.

### Assumptions

* The data of all authentication methods is one value; methods do not interact.
* Only secret user names are modelled: others are columns of the metadata.
* A transaction of the metadata DB is atomic, and a statement of either database
  that fails and is reported changes nothing; reading does not fail. The
  failures that have an effect are steps: `RemoveSecretsOnly`, the interference
  `write`, the `lost` entries of `OpenSecretsDB`.
* `removeCredentials()` does not touch the cache. A password that is not to be
  stored therefore remains in memory after a removal; identifiers are never
  given twice (`AUTOINCREMENT`), so that it is not seen again. `lastPassword` follows.
* A backup does not fail between closing and opening the databases.
* An identity has one object (`OneObjectPerIdentity`, module D). The copy of an object that is not stored yet, after
  a failed first store, is not followed.

### Bounds and runs

Two identities (`MaxId`), one of them with a secret user name in `cred_orderly`,
two passwords, one value of data, one session. The constraint `Bound` lets one object at a time have a copy, and
plug-ins store data for one of the identities only. Identities meet only in
the identifier that the next one gets, so that a second one is enough for a
removed one to be told from a new one; two passwords tell an old one from a
new one, and are interchangeable (`Passwords`, a symmetry). That is 425,302 states. The instance
`failing secrets` of `MCDaemon` has one identity and one password, because its property
asks whether there is one.

| Run | Question | Interference | Result |
|---|---|---|---|
| `cred_orderly` | `PasswordIsLastStored`, `DataIsLastStored`: does a reader get what was stored last, through openings, closings, backups and restarts; `NotOnDisk`; `RemovedIsGone`; the refinement `ImplementsVault` (`OnlyStoredIdentities` is proved) | none | hold |
| `daemon`, instance `failing secrets` | `RemovedIsGone` | `options`, `copy`, `write` | holds |
| `bug_removed_identity` | `OnlyStoredIdentities` | `remove` | violated |

There is no fairness in this part: nothing in the database waits for anything.

### What is proved

In `StoredCredentialsProofs`, for any number of identities, passwords, data and
sessions:

* `StoredTypeCorrect`: `TypeOK` is inductive.
* `NothingToHideOnDisk`: without `options`, and with every other kind of
  interference, `NotOnDisk`. It is not inductive: `DiskInv` adds that cache
  entries agree with the metadata on `storePassword` (`CacheAgrees`), for
  `storeToDB()` looks at the entry and not at the metadata, and that nothing is
  known of identifiers not yet given (`Fresh`), for a new identity must not find
  a row of its identifier.
* `RemovalIsFinal`: without `remove`, and with every other kind of interference,
  `RemovedIsGone` and `OnlyStoredIdentities`. `GoneInv` adds that sessions work
  on identities that exist, and that the cache has nothing to be written to
  the disk of any identity while the secrets DB is open, and of a removed one at
  any time (`NothingToFlush`): a removal needs the DB open, and what the
  cache holds then is not to be stored.

* `PasswordsAreKept`: without interference, `PasswordIsLastStored`. Its
  invariant `PasswordInv` says where the password is: in the cache if that has
  one, in the secrets DB otherwise, and only there while it is open
  (`HoldsPassword`). Two more facts are needed: no secret name is stored without its
  password, or `storeToDB()` would replace a row by one without it; and a session is
  the only one of its identity and holds the password last stored unless it was
  given one (`HoldsSession`). For the copies the invariant has that a password in one is the password last stored
  (`HoldsCopy`), that an empty one is that of an identity that has none (`CopyHolds`), and that no object is `deaf`, so that
  each store drops its copy. What the theorem assumes away is
  what the table above shows to be needed.

* `DataIsKept`: without `write` and with nothing too large, and with every other kind,
  `DataIsLastStored`. `DataInv` says, as for passwords, where the data is (`HoldsData`): an entry of the
  cache is written over the row of the database when that is opened, so that it must be no older.
* `VaultRefinement`: where only `store` and `remove` interfere, `ImplementsVault`: every step is one of the
  vault under the refinement mapping, or none. `VaultInv` adds to `DiskInv` that no user name is held
  without its password (`Named`), in the cache, on disk or in a session, since such an entry of the cache
  is passed over when the database is opened; and that the cache has nothing to be kept while the database
  is open, nor ever for an identity that is gone (`VaultRow`); and what `CopyInv` says of copies, as above. `UpdateRefines` is the main
  lemma: what `updateCredentials()` does to cache and tables is a step of the vault.

`UpdateEffect`, what `updateCredentials()` does to each table, is the lemma they
rest on; `NextCases` lists the steps. `DBAssumption` and `StoredAssumption` are
their assumptions.

## Module C: keys and secure storage

### Modules and code

The secrets DB lies on a LUKS partition in a file. Key managers, which are
extensions, report keys: inserted, disabled, removed. Which keys open the
storage is known in four places that are changed one after the other: the slots of
the LUKS header, the `keychain` file inside the file system, the key of
the mount, and the sets of `KeyHandler`.

`CryptoManager` has no variables but `interference`. Its methods are operators from a state of
the system to the set of their outcomes, `[ok, to]`, because one handler of the
daemon chains several of them and any may fail. They include the slots of the access
manager that the mount signals call. `slots[k]` counts the slots of the header a key
opens; `keychain` is the set of entries `<<name, key>>`, in the file system and
in the directory below, for that is where it is written if `mount(2)` fails.

`SecureStorage` adds the handlers. All signals are direct calls, so that an event
of a key manager is one step with everything `KeyHandler`,
`CredentialsAccessManager`, `DefaultKeyAuthorizer` and `CryptoManager` do.
Its variables are `storage`, a record of that state, `running`, and `interference`.

| Action | Code |
|---|---|
| `KeyInserted` | `KeyHandlerPrivate::onKeyInserted()` (`Recognized`), the access manager's `onKeyInserted()`, the authorizer's answer, `authorizeKey()` |
| `KeyDisabled` | `onKeyDisabled()`, `onLastAuthorizedKeyRemoved()`, `closeSecretsDB()` |
| `KeyRemoved` | the same, then the access manager's `onKeyRemoved()`, `revokeKeyAuthorization()` |
| `DisabledWhileClosed` | either, if `isSecretsDBOpen()` looks into a deleted object |
| `StorageNeeded` | `customEvent()`: a session asks for the storage |
| `OpenCredentialsSystem`, `CloseCredentialsSystem` | the methods of these names, at start-up and by a backup |
| `Restart` | the daemon ends, or crashes, and starts: the disk stays |

`revoked` and `wiped` are history: the keys revoked and not authorized since, and
whether the last handler formatted the storage.

### What may interfere

`Interferences` names what a run allows, a set of kinds for each of its behaviours. With one kind alone (four keys,
six slots):

| Kind | What it is | Violated with it |
|---|---|---|
| `remove` | the last inserted authorized key is removed: `revokeKeyAuthorization()` mounts the storage again, with no key inserted; it accepts the key to be removed as the remaining one | `OpenOnlyWithKey`, `NeverKeyless` |
| `again` | a removed key is inserted again: it is still the key of the mount, and `encryptionKeyInUse()` says yes | `RevokedKeysAreAsked`, `AuthorizedKeysOpen`, `OpenWheneverKeyed`, `NeverKeyless` |
| `need` | a session needs the storage: the authorizer is asked about the empty key and approves it if any key is authorized, inserted or not | `NoEmptyKey`, `OpenOnlyWithKey` |
| `backup` | the credentials system is closed and opened: it is mounted with the key remembered, which may be out by now, or be one that has been removed | `OpenOnlyWithKey`, `OpenWheneverKeyed` |
| `closed` | a key is disabled during a backup | `NoCrash` |
| `restart` | the keychain, which names an entry after the number of entries, forgets a key; it is added to the header again, and the header fills with slots nobody releases | `RevokedKeysAreOut`, `OpenOnlyWithKey` |
| `crash` (with `restart`) | header and keychain, or header and file system, disagree | all but `RevokedKeysAreAsked`, `NoEmptyKey`, `FormattedOnlyIfLost` |
| `tools` | a system tool fails while the storage is formatted or mounted, after the authorized keys have been cleared | `OpenOnlyWithKey`, `OpenWheneverKeyed`, `NeverKeyless`, `SecretsStayEncrypted`, `FormattedOnlyIfLost` |
| `mount` | `mountMappedDevice()` ignores the result of `mount(2)`: the secrets are written beside the encrypted file system | `SecretsStayEncrypted` |
| `slot` | `removeEncryptionKey()` reports success although no slot was released | `RevokedKeysAreOut`, `OpenOnlyWithKey` |
| `db` | the secrets DB cannot be opened | `OpenWheneverKeyed` |

Some of these contradict what the headers say, beside `bug_revoked_opens`:
`abstract-crypto-manager.h` says of `removeEncryptionKey()` "The system cannot remain
keyless" (`NeverKeyless` under `remove`), and `abstract-key-manager.h` says of a removed
key that "if it will be inserted again, it will have to be re-authenticated"
(`RevokedKeysAreAsked` under `again`). Where `again` may not happen,
`RevokedKeysAreAsked` is the fact `Asked` of the proofs.

`FormattedOnlyIfLost` needs one more restriction: with `remove` and `backup` together,
a key that is inserted and opens the storage may be missing in the keychain and not
be authorized; once the backup has unmounted the storage, and the authorized ones are removed,
the next new key is made the only one and the storage is formatted over its head.

### Assumptions

* `umount(2)`, `luksClose` and `losetup -d` take effect: the code goes to
  `Unmounted` whatever they answer.
* A tool that fails is seen to fail. `makeCall()` does not look at exit codes, so
  that `mkfs` may also fail unseen; the mount that follows then fails, which is
  `mount`.
* A crash falls between the two writes of a change (`Interrupted`): a slot taken
  or released and the keychain not written, or a header without a file system.
* The default authorizer answers at once. An extension's may ask the user.
* Keys are not empty except the one of `StorageNeeded`. A key manager that has
  no key reports the empty one, which counts for readiness only; SessionCore's
  `CredentialsSystemReady` is that event.
* Any authorized key may be the one `anyAuthorizedKey()` picks (the order of a
  hash table).

### Bounds and runs

Keys are interchangeable (`Keys`, a symmetry). Four keys and six slots: two
inserted, one disabled and one removed, with room in the header. `bug_revoked_opens` has three
keys and four slots, which let the header fill with slots of keys that were revoked.

| Run | Question | Interference | Result |
|---|---|---|---|
| `keys` | types; `AuthorizedKeysOpen`: do the four places agree; `FormattedOnlyIfLost` | `need`, `backup`, `closed`, `restart`, `slot`, `db` | hold |
| `keys` | `OpenWhileKeyed`: are the secrets open exactly while an authorized key is inserted (`OpenOnlyWithKey`, `OpenWheneverKeyed`), is a revoked key out (`RevokedKeysAreOut`) | none; `db`, without `OpenWheneverKeyed` | hold |
| `bug_revoked_opens` | `RevokedKeysAreOut` | `restart` | violated |

### What is proved

In `SecureStorageProofs`, for any number of keys and slots:

* `KeysTypeCorrect`: types, with every kind of interference. Two facts make it more than
  bookkeeping: a slot is released only if the key has one, and the keychain stays
  finite, for its length names the next entry.
* `AuthorizationIsTrue`: without `again`, `crash`, `tools` and `mount`, and with every
  other kind, `AuthorizedKeysOpen`. The invariant is about all the signs by
  which the code knows a key (`InUse`: listed in the keychain, key of the mount,
  authorized): each means that the key has a slot or has been revoked
  (`Sound`); an authorized one has not been revoked (`Asked`). It needs that what is set
  up is also formatted and mounted where it should be, which `tools` and `mount` break. The
  lemmas go method by method (`...Keeps` for types, `...IsSound`).

* `SecretsAreNotFormatted`: without `remove` and `tools`, and with every other kind, `FormattedOnlyIfLost`.
  `Lost` is the invariant: as long as no key is authorized, none has been inserted since the start, nothing is
  mounted and no key is remembered. The first key is therefore tried on the header before the storage
  is formatted with it, which happens only if it has no slot; and once a key is authorized one always is.
* `OpenExactlyWhileKeyed`: `OpenWhileKeyed`, for keys of which the header can hold all (`FewKeys`). `Exact` says what the
  state is in an undisturbed daemon: the keys authorized are those of the header, with one slot each, those inserted
  are among them, and the storage is mounted exactly while there are some. Each of its parts is needed for another:
  a key that is back is opened with because it is authorized, and a new one is added because an authorized key
  mounts. `FewKeys` is needed: with three keys and two slots TLC finds that a key
  which is not accepted leaves the storage mounted by one that is not inserted.

`KeyAssumption` is used for the empty key, which opens nothing, and for `MaxSlots`; `InterferenceAssumption`
not at all. There is no fairness: no key manager need ever report anything.

## Module D: identity objects

### Module and code

`Identities` has the `SignonIdentity` objects with their members (`id`, `info` for `m_pInfo`,
`autoDestruct`, whether the object is on the bus, watched by the daemon, idle or doomed by
`deleteLater()`), the daemon's map `storedIdentities`, and the databases as a row per identity
(`row`, `lastId`). `orphan` are identifiers that have rows in the table OWNER and no identity: an
update of a removed identity leaves them, and the access control helper then still admits their
owners. `path` and `known` are what a client has: the object, and the identifier it was given.
`call` is the call of a client that waits for signon-ui; `answer` is history, the last reply
(`value`) beside the truth (`right`).

| Action | Code |
|---|---|
| `RegisterNewIdentity`, `GetIdentity` | `SignonDaemon`'s methods with the adaptor's part, which runs `destroyUnused()`: `HandOut`, `NotFound` |
| `RequestCredentialsUpdate`, `VerifyUser`, `GetInfo`, `VerifySecret`, `Store`, `Remove`, `SignOut` | the methods of `SignonIdentity`, with the cache as `queryInfo()` leaves it |
| `QueryUiSlot`, `VerifyUiSlot`, `UiFails` | the replies of signon-ui, with the retries of `verifyUiSlot()` |
| `RemoveCompleted`, `SignOutCompleted` | the replies to the dialogs that forget what was remembered |
| `SessionStores`, `Clear` | a session's `processStore()`; `SignonDaemon::clear()` |
| `Inactive`, `DisposeTimer`, `Delete` | an object has been idle; `destroyUnused()`; the deferred deletion with `onIdentityDestroyed()` |

### What may interfere

Each behaviour has one of the sets in `Interferences` (variable `interference`), and the properties say of which
kinds they need to be free.

| Kind | What it is | Violated with it |
|---|---|---|
| `dialogs` | an object has a second dialog while one is open: `autoDestruct` is one flag, the first reply allows the object to be disposed of, and the caller of the other dialog never hears | `VerifiedAgainstStored`, `AnsweredIfClosed` |
| `meanwhile` | the identity is stored or removed while its object has a dialog open: the reply is compared with a copy of an earlier password, or of none | `VerifiedAgainstStored` |
| `removed` | a removed identity is used, stored again under a new identifier, or cleared: `onIdentityDestroyed()` takes the entry of the new identifier from the map | `MapIsLive`, `VerifiedAgainstStored`, `SuccessMeansStored`, `InfoIsStored`, `AnsweredIfClosed` |
| `write` | the database refuses a statement: a failed update of an existing identity is reported as a success, and the object's copy keeps what was not stored | `VerifiedAgainstStored`, `SuccessMeansStored`; `InfoIsStored` with two passwords |
| `late` | a client asks for an identity between `deleteLater()` and the deletion of its object, and gets the path of what is about to go | `PathIsLive`, `AnsweredIfClosed` |

To see one, add its set to `Interferences` in `ident.cfg` and drop the condition on `interference` from the
property.

### Assumptions and bounds

* The access control list of an identity admits every client (module E has the lists).
* A failing read is not modelled; a dialog that signon-ui does not answer is `UiFails`.
* `None` is none of the records it is told from (`NoneAssumption`).
* Two objects, two clients, two identities: an object and another that takes its place, an
  identity and the one that a store after a removal makes. Two passwords and two user names where
  there is no disorder, but not both second ones together; with disorder, where the question is whether
  an object or an entry is there, the constraint `Bound` leaves one of each and one attempt at a password, and
  one identity where writes fail. Objects and clients are interchangeable.

| Run `ident`: question | Interference | Result |
|---|---|---|
| `OneObjectPerIdentity` (and the types) | each of the four sets of `ident.cfg` | hold |
| `MapIsLiveUnlessRemoved`: `MapIsLive` | none; `dialogs`, `meanwhile`, `late` | holds |
| `OrderlyAnswersAreTrue`: `VerifiedAgainstStored`, `SuccessMeansStored`, `InfoIsStored` | none | holds |
| `ClientsAreServed`: `AnsweredIfClosed` | none | holds |
| `ClientsAreServed`: `PathIsLive` | none; `removed`; `removed`, `write` | holds |

### What is proved

All properties of the run are, in `IdentitiesProofs`, for any number of objects, clients, identities and
passwords and any sets of kinds of interference (the run has four). The first two have every kind.

* `IdentitiesTypeCorrect`: `TypeOK` is inductive.
* `OneObject`: `OneObjectPerIdentity`. `MapInv` adds to it that the map holds every watched
  object under the identifier it has (`InMap`), that what is on the bus is watched (`LiveWatched`,
  `ExportedWatched`), that identifiers are given in their order, so that a new one is in nobody's
  hands (`IdsGiven`), and that what was not found stays so (`NotFoundStays`): an object made for an
  identifier without a row is destroyed unwatched, and must not be found under it later.
* `MapNamesLiveObjects`: `MapIsLiveUnlessRemoved`. `MapIsLive` depends on what the entry is taken out
  by: `onIdentityDestroyed()` uses the identifier the object has then. `IdsInv` adds that every object is watched
  (`AllWatched`; without removed identities none is made for an identifier that has no row), that the copy of an
  object has its identifier (`InfoIsOwn`, for `store()` takes it from there), that a client knows the
  identifier of the object it uses (`PathsAgree`), and that nobody else has the path of an object that is not stored yet
  (`NewIsOwn`): when `store()` gives it an identifier, only the caller's knowledge has to follow.
* `AnswersAreTrue`: `OrderlyAnswersAreTrue`, without interference. `OrderlyInv` says that a copy agrees with the row
  of its identity while that exists (`CopyIsTrue`), and what a dialog relies on until its reply (`DialogsStay`): the
  object is on the bus and not to be disposed of, its copy and the row are there, and for `verifyUser()` the
  copy has the password. That takes `OneDialog`, since a second dialog would clear
  `autoDestruct`, and `NoOwnersLeft`: without rows in OWNER for removed identities, no handler runs for one.
* `ClientsGetReplies`: `ClientsAreServed`. `AnsweredIfClosed` follows from `DialogsStay`: the only steps that end a
  call without a reply are deletions, and an object with a dialog is not deleted. `PathIsLive` follows from the
  map, whatever is removed and whatever the database refuses.

There is no fairness in this part, for a dialog need never be answered.

## Module E: sessions on D-Bus and access control

### Modules and code

`AccessControl` is pure: what the access control list, the owners and the method list of an identity
permit (`PeerAllowed`, `Ownership`, `MayChange`), and `Granted`, which words of a
mechanism string `checkMethodAndMechanism()` lets through. An application is its security token. The
operators are the guards and results of the actions below.

`AuthSessions` has the cores with what decides their fate (identity, method, queue, `active`,
`autoDestruct`, idle, doomed), the two registries (`stored`, `nonStored`), the session objects with
parent and owner, the `lists` of each identity, and the access `request` that waits for the
manager. `opened` is history: the session whose path has just been replied.

| Action | Code |
|---|---|
| `GetAuthSession`; `RequestAccess`, `Accepted`, `Declined` | `getAuthSessionObjectPath()`, served at once, or once the access control manager has answered |
| `Process`, `Cancel`, `Query`, `SetId`, `ObjectUnref` | the adaptor's slots with their checks |
| `StartNewRequest`, `RequestDone` | the core's posted event, and the end of a request |
| `Inactive`, `DisposeTimer`, `DeleteSession`, `DeleteCore` | idleness, disposal, and the deferred deletions |
| `StoreLists` | an identity is stored with other lists |
| `StopAll` | the daemon ends, `stopAllAuthSessions()`, and is started again |

### What may interfere

Each behaviour has one of the sets in `Interferences` (variable `interference`); `SessionsInv` and
`StartedAsPermitted` say which kinds a claim needs to be free of.

| Kind | What it is | Violated with it |
|---|---|---|
| `reassign` | `setId()` of a session that already has a stored identity: the old key stays in the registry, also when the core has been deleted | `RegistryIsFaithful`, `OpenedWhenAllowed` |
| `waiting` | `setId()`, or a store of other lists, while a request waits: what was checked for one identity, or against older lists, is started | `StartedAsPermitted` |
| `closed` | a request arrives while the credentials system is closed: there is no database to check it with, and it is queued as it came | `StartedAsPermitted` |
| `again` | a session is used again while a request that it cancelled is in the queue: `objectUnref()` withdraws one of the two | `NoOrphanRequests` |
| `late` | the access control manager accepts after the core it is for has become idle: the handler makes a session, and its `destroyUnused()` disposes of the core | `HandedOutLive` |

### Bounds and runs

In `daemon`, the instance `sessions`: two clients, one of them the keychain, two methods of which one
has no plug-in, two words, two cores, two sessions, two requests in a queue. The lists that an identity may
have are three: private, shared with another client for one mechanism, and without an owner. Two cores suffice
for a second one of a key, two sessions for one that stays when the other goes. `Interferences` has two sets, and
the constraint `Bound` makes each small: without interference one of the two identities is used;
with `waiting`, `closed` and `late` both are, by one session at a time with one request.

| Property | Claimed without | In the run |
|---|---|---|
| `RegistryIsFaithful`, `OneCorePerIdentity`, `OpenedWhenAllowed` | `reassign` | both sets |
| `HandedOutLive` | `reassign`, `late` | no interference |
| `NoOrphanRequests` | `reassign`, `again` | both sets |
| `StartedAsPermitted` | `waiting`, `closed` | no interference |

### What is proved

Both properties of the run are, in `DaemonProofs`, for any number of clients, cores, sessions, identities and
words, any bound of the queues, any lists and any sets of kinds of interference.

Handlers that open a session or run `destroyUnused()` change cores, registries and sessions in several steps; in the module they are
operators on a record of these (`World`), and each predicate of the proof is one on such a record, so that a lemma says of
each step that it keeps the predicate, and `Accepted`, which makes a core and then destroys the unused ones, composes them.

* `SessionsAreOrderly`: `SessionsInv`. `Kept` has the three conjuncts of `RegistryIsFaithful` (`Keyed`, `Unkeyed`, `Found`)
  and what they rest on. A session has a core that is alive (`Housed`), so that no call
  brings work to one that is going. A core with requests is one that `destroyUnused()` leaves alone (`Served`): either it is at
  work, and then `setAutoDestruct(false)` has been called, or a start event is on its way, and then it is not idle
  unless it still must not be destroyed. So a core goes without a request, and `destroy()`, which declines for a core at
  work, never has to (`UnusedIsGone`). `OneCorePerIdentity` follows from the registries; `OpenedWhenAllowed` takes that the core
  found under a key has the identity of the key, beside the second look at the lists.
  `Orderly` says of `NoOrphanRequests` also that no session has two requests in a queue (`Single`), because
  `cancel()` withdraws the first one only (`WithdrawnOrderly`).
* `StartsArePermitted`: `StartedAsPermitted`, from the invariant that what waits is permitted by the lists that the identity of its
  core has now (`AllPermitted`); it needs nothing of the registries, so that `reassign` does not matter.

There is no fairness in this part: nothing obliges a client to call, or a core to become idle.

## Module F: the client library

### Modules and code

`ClientProxy` has the way to the daemon: the `ConnectionManager` (`manager`), `AsyncDBusProxy`
objects (`proxy`: connection, object path, whether a path is needed) and `PendingCall`s (`call`: queued, failing, sent,
done, with the answers that may come). Its operators take the world as a record, because a signal
of the proxy runs the slots of the object it belongs to within the same handler.

`ClientSession` and `ClientService` extend it with `AuthSessionImpl` and `AuthServiceImpl`.
`ClientIdentity` has `IdentityImpl` over a connection that stays up: its difficulty is in the
state, the copy of the data and the messages in transit, of which `inbox` keeps the order.

| Action | Code |
|---|---|
| `Process`, `Request`, `Cancel`, `Withdraw` (session) | `process()`, other calls, `cancel()` of a call that has been sent, and of one that has not |
| `SessionReply`, `Fail`, `ServiceReply` | `PendingCall::onFinished()` and the posted `fail()`, with `errorSlot()`, `authenticationSlot()`, `responseSlot()` or their like |
| `ObjectGone`, `Unregistered` | the daemon disposes of the object; `unregisteredSlot()` |
| `...Ends`, `...Activated`, `...ActivationDone`, `...Disconnected` (`Session` or `Service`) | the daemon ends; the bus starts it, or cannot; the slots of the connection manager |
| `QueryInfo`, `QueryAvailableMethods`, `StoreCredentials`, `RequestCredentialsUpdate`, `Remove`, `Verify`, `SignOut`, `CreateSession`, `DestroySession` (identity) | the calls of the application |
| `Deliver` | the slot for the next reply or signal: `registerReply()`, `infoUpdated()`, `errorReply()`, ... |
| `Handle`, `Complete`, `OtherStores`, `OtherRemoves`, `OtherSignsOut`, `Disposed` | the daemon and other clients (external) |
| `QueryMechanisms`, `SendRequest` (service) | `queryMechanisms()`, whose answers are matched by order, and other calls |

### What may interfere

| Object | Kind | What it is | Violated with it |
|---|---|---|---|
| session | `ends` | the daemon ends, which breaks a peer-to-peer connection: `update()` fails the waiting calls and each of them fails them all; a call sent before is reported by two errors | `ReportedOnce`, `OneProcessAtATime`, `OneRegistration`, and `CallsEnd` on a peer-to-peer connection |
| session | `refused` | a call other than `process()` is answered with an error, which clears `m_processCall` | `OneProcessAtATime` |
| session | `again` | `process()` is called while one that was cancelled is open | in combination only |
| session, service | `activation` | the bus cannot start the daemon: the manager's state stays at `ServiceActivating` | `CallsEnd` |
| identity | `eager` | a call is made while the object registers for the sake of a query, which has overwritten `PendingRegistration`: a second registration is sent, and its answer fails the assertion of `setObjectPath()` | `OneRegistration`, `RemovedStays` |
| identity | `overtaken` | the daemon disposes of the object while another registration, or its answer, is on its way | in combination with `eager`: a call that is repeated stays in the queue |
| identity | `removing` | a store or an update is asked for while a removal is under way | `RemovedStays` |
| identity | `refused` | a registration is answered with an error | `CallsServed`, `QueriesEnd` |
| identity | `removed` | another client removes the identity | `CallsServed`, `RemovedStays`, `QueriesEnd` |
| identity | `disposed` | the daemon's object of a removed identity is disposed of | `RemovedStays` |
| identity | `signouts` | two clients sign out at once: the flag for the own sign-out takes the other's | `SignOutHeeded` |
| service | `refused` | the daemon answers with an error | none |
| service | `ends` | the end of a peer-to-peer connection makes the proxy forget the daemon's path, which is fixed and never set again | `CallsEnd` on a peer-to-peer connection |

### Assumptions

* D-Bus keeps the order of messages on a connection; what an object has answered is read
  before the signal that it is gone.
* Once a call has failed with "Disconnected" no other is answered on that connection.
* The application does not call a session it has deleted. `AuthServiceImpl`'s replies without arguments are left out.
* The daemon's object answers every call that reaches it, or the connection ends.
* A daemon that is gone has left no socket file: `setupSocketConnection()` finds none and the daemon is activated. With a
  stale file the error is another one, and the session bus is used (`connection-manager.cpp:102`).
* `Q_ASSERT` is compiled in: an identity whose object path would be replaced by another stops (state `Aborted`). A
  build without assertions goes on with the second path, which is not modelled.

### Fairness

`WF_vars(Progress)`: as long as a message, an event or a call to be handled is there, some of it is
handled. The bounded number of calls and ends makes this enough for all of it. Qt's
event loop and the bus justify it, and the daemon's part is what modules A to E say: it answers. The application, the
end of the daemon and the changes of other clients are not fair.

### Bounds and runs

In `client`, `MCClient` runs a session (`session`), the service (`service`) and three identities in behaviours of their own: one
that is used in order (`identity`), one whose application makes calls at any time (`eager`), and one that other clients
change, remove and sign out (`news`). A session has two `process()` calls, a query and a `cancel()`, with two registrations; the
service has three `queryMechanisms()` and another call; `identity` and `eager` have three calls and one change by others, `news` two of each. What may interfere is, for a session (`SessionInstances`), nothing, with two ends of the object; everything but
`activation`, over the bus; and everything, with a peer-to-peer connection; and likewise for the service
(`ServiceInstances`). That is 607,921 states. Two registrations at once take a query and a call after it; the third call of `eager` meets
what they leave.

| Property | Claimed of | Result |
|---|---|---|
| `ReportedOnce`, `OneRegistration` of a session | sessions without `ends` | hold |
| `OneProcessAtATime` | sessions without `ends`, `refused` and `again` | holds |
| `RegistrationUnderway` | sessions | holds |
| `HeardOnce`, `MechanismsOfMethod` | the service | hold |
| `CallsEnd` | sessions and the service without `activation`, and without `ends` on a peer-to-peer connection; queries of `identity` and, up to the failed assertion, of `eager` (`QueriesEnd`) | holds |
| `OneRegistration` of an identity | `identity`, `news` | holds |
| `OneUnlessQuerying`: two registrations only if a query waits or is on its way | `eager` | holds |
| `ReadyIsCurrent`, `SessionsFollow` | `identity`, `eager`, `news` | hold |
| `CallsServed` | `identity`, `eager` | holds |
| `RevivedByStore` and `SignOutEndsSessions`, of which `NewsHeeded` consists | `identity` | hold |

### What is proved

In `ClientProofs`, for any number of calls and registrations, whatever the daemon and the bus do, and any sets of kinds
of interference:

* `SessionCorrect`: `SessionInv`. A slot of the proxy calls slots of the session, in the midst of its own work, so that each
  operator of `ClientProxy` has a lemma about the world it leaves, and a handler is their composition.
  `SessionAlways` holds whatever ends: a proxy of a registration is there exactly as long as its call (for
  `RegistrationUnderway`), and after the object has gone no sent call has only its answers to come. `SessionOrderly`,
  without `ends`, relates the connection, the paths, the calls and the reports (`Orderly`, `OrderlyReports`): calls wait only
  while there is no path, registrations are one at a time, under `m_isAuthInProcessing` (`RegistrationsKnown`), and only
  while there is none; and what was sent to an object that has gone can only come back as "UnknownObject", to be
  tried again (`OrderlyAnswers`). So `errorSlot()`, which takes any error for one of the registration that
  is under way, finds no sent call that would be reported a second time. `ProcessOrderly` says that a `process()` that is open and was not given up is `m_processCall`; any refused
  call clears that, hence the condition.
* `ServiceCorrect`: `ServiceInv`. The path of the service's proxy is set once and fixed until a peer-to-peer
  connection goes (`ServiceWorld`), after which every sent call has failed (`Broken`). Until then `InOrder` holds: the methods that are
  waited for are in the order of their calls, and what was sent comes before what waits, so that
  the first method is that of the call that is answered. When a connection breaks, calls fail in any order, the methods no longer
  match theirs, and it follows from `Broken` that nobody will be told of one.

`IdentityInv` is only model-checked, for the reason given above, and so are `CallsEnd` and `NewsHeeded`.

## Module G: the metadata database

### Module and code

`MetaDataDB` has the tables of `db` as sets of rows and the operations as what their statements do,
one after the other. A connection (`Connection`) is the tables, what a rollback restores, whether a
transaction is open, the error of the last statement, and a count of statements: the statement
whose number is `fault` fails. `Exec` is one statement. The triggers that stand in for
foreign keys are part of the statements they belong to; one that refuses a row rolls the transaction back and
leaves the statements that follow on their own. `schema` is what of the tables has been made and
`user_version`; `wanted` is history, what a caller was told has been stored.

| Action | Code |
|---|---|
| `Insert`, `UpdateOld` | `MetaDataDB::updateIdentity()` for a new and an old identity |
| `Remove`, `Clear`, `AddReference`, `RemoveReference` | the operations of these names |
| `CreateTables`, `Start` | `SqlDatabase::init()` on a new file, on one that is up to date |
| `UpgradeDB`, `ClearOldDB` | `updateDB()`: from version 1; from anything else |
| `Stop` | the daemon closes the database |

### What may interfere

| Kind | What it is | Violated with it |
|---|---|---|
| `faults` | a statement fails: most of `updateIdentity()` does not look, and a later success clears the error, so that a part of an identity is committed | `RoundTrip` |
| `removed` | an identity is updated after it has been removed: the update is refused by a trigger whose rollback ends the transaction; the rows of owners stay | `RoundTrip`, `NoOrphans`, `FailureChangesNothing`, `DataSurvives` |
| `old` | the file was made by version 1 | none |
| `crash` | the process ends while it makes or upgrades the tables: the tables are there and `user_version` is 0, so that every later start clears them | `RoundTrip`, `FailureChangesNothing`, `DataSurvives`; with `old` also `OwnersMigrated` |

### Assumptions and bounds

* `BEGIN` succeeds. A `CREATE TABLE` fails only with the process. A read that fails is not modelled;
  a failing read of `user_version` would count as 0 and clear the database (`credentialsdb.cpp:162`).
* Names are rows of three tables and are compared only; the caption and other columns of an
  identity are its row.

In `daemon`: `one` (an identity, a method with a mechanism, two tokens, a realm, an old database), `two` (two
identities that share names), `faulty` (any of the first eight statements of an operation fails; with a
realm it finishes without an error too) and `crashed`. Rows of
an identity meet those of another only through a name that both refer to; two identities and one
name show it.

| Property | Instances | Result |
|---|---|---|
| `RoundTrip` | `one`, `two` | holds |
| `NoOrphans` | all four | holds |
| `NamesKept` | `one`, `two`, `faulty` | holds |
| `FailureChangesNothing` | `faulty` | holds |
| `OwnersMigrated`, `DataSurvives` | `one` | hold |
| `UpgradeKeepsOld` | `crashed` | holds |

## Module H: the daemon's life

### Module and code

`DaemonLife` has the list of disposable objects with their ages, `disposeTimer` and `notifyTimer` (`timers`), the events
posted to the main loop (`posted`), the `SignonDaemon` instances, of which a SIGHUP makes a second
one, and the socket pair of the signal handler (`sigFd`). Objects are only used, begun, ended and
disposed of; modules A, D and E say how. Time passes in seconds (`Tick`), and a timer may
fire late.

| Action | Code |
|---|---|
| `GetIdentity`, `GetAuthSession`, `GetIdentityUnfound`, `GetAuthSessionUnknown`, `Use` | calls of clients as far as they make, use or destroy objects |
| `Ask`, `AccessReplyFinished` | a call that waits for the user's consent |
| `Begin`, `End`, `ChildRemoved` | `setAutoDestruct()` around requests and dialogs; a deleted session object |
| `DisposeTimeout`, `NotifyTimeout` | the two timers |
| `Signal`, `HandleUnixSignal`, `OnDisconnected` | signals, and the loss of the bus |
| `Deliver` | the next posted event: `deleteLater()`, `init()`, `quit()` |
| `DeleteObject`, `Tick` | the deferred deletion of an object; the clock |

### What may be out of order

`disorder`, which never changes, is one of the sets of kinds in `Disorders`:

| Kind | What it is | Violated with it |
|---|---|---|
| `unfound` | a call is for an identity or method that does not exist: its object goes without `destroyUnused()`, and nothing starts the countdown of a daemon that has no other | `EndsAfterUse` |
| `asked` | the user takes longer to consent than the daemon waits for objects | `NoCallLeftBehind` |
| `early` | a signal arrives before the socket pair is made, or after it was closed | `EndsWhenTold` |
| `hangup` | SIGHUP: the old instance's end posts `quit()`, and the process ends instead of starting again | `RestartsOnHangup` |

`EndsAfterUse` and `EndsWhenTold` are stated for no disorder, `LifeInv` and `BusyStay` for any.
`NoCallLeftBehind` and `RestartsOnHangup` are in no run, since the kinds that make them say anything
violate them.

### Fairness, bounds and runs

Weak fairness of every event of the main loop, of the clock, and of the end of requests and
consents (`LifeFairness`): `QCoreApplication::exec()` delivers what is posted and what is due. Calls and
signals are not fair.

In `processes`: two objects, timeouts of one to three seconds that come from the configuration and the
environment, four calls and two signals, without disorder and with all four kinds at once. `MCProcesses` runs
this part and module J in behaviours of their own, and asks for fairness only where an end
is promised. Only the order of ages, timeouts and the two seconds added to them matters, so that
small timeouts stand for the default of five minutes. Where no timeout is configured for the daemon
(`DaemonTimeout` 0, the default) it has no timers, and nothing here but signals ends it.

### What is proved

`ProcessesProofs`, for any set of objects, any timeouts in the configuration and the environment that are whole numbers of seconds, any
number of calls and signals, and any kinds of disorder:

* `DisposalIsDue`: `LifeInv`. That another check is to come is not inductive: a check may find an object that is
  not old enough, and does not start the timer again. `Checked` says what makes that right: the timer's interval
  is longer than the timeout of every object that there is, and what has not been used for `age` seconds
  will be old enough at the check to come (`age + dispose` exceeds its timeout), or is already. It is kept by
  `KeepInUse`, which resets the age and the timer together, by `Made`, which raises the interval before the object is
  used, and by `Tick`; at the moment the timer fires (`dispose` 0) it follows that everything left is old enough or
  busy. `Kept` adds that some check is to come, `OneDaemon` that there are objects and timers only while one
  instance runs, and `Ordered` that what is posted is posted once and for it.
* `NothingBusyGoes`: `BusyStay`, from the same invariant (a busy object is never `autoDestruct`).

`EndsAfterUse` and `EndsWhenTold` need fairness and are only model-checked.

## Module I: backup

### Module and code

`Backup` has the files of the credentials system in the storage directory (`File`: the metadata DB and any number that
hold secrets), their `.bak` files, the
backup directory (`saved`), what the backup application has taken (`archive`), and the call that
runs with the file it is at. A step is one file, because the process may end between two; no other
handler runs meanwhile. `before` is history. `setup` never changes: the list of the files to be backed up, which of them
are listed by an absolute path, and the kinds of disorder; `Setups` has those of a run.

| Action | Code |
|---|---|
| `BackupStarts`, `CreateStorageFileTree`, `CopyToBackupDir`, `BackupFinished` | `backupStarts()` and its loops, `backupFinished()` |
| `RestoreFinished`, `MoveTarget`, `CopyFromBackupDir`, `Recover`, `Clean` | `restoreFinished()`, `copyFromBackupDir()` |
| `NullCryptoManager`, `Start` | the list before there is a crypto manager; `initStorage()`, or the mode `-backup` |
| `Crash`, `Store`, `TakeAway`, `BringBack`, `LastKeyRemovedWhileClosed` | the end of the process; clients; the backup application; a key event |

### What may interfere

| Kind of disorder | What it is | Violated with it |
|---|---|---|
| `copy` | a copy fails | `BackupSucceeds` |
| `rename` | a file cannot be renamed | none |
| `back` | a file cannot be renamed back when a restore has failed | none alone; `RestoreAllOrNothing` with `copy` or `rename` |
| `tree` | a file of the list cannot be created: the call fails without opening the system again | `BackupSucceeds`, `OpenAgain`, `NoCrash` |
| `umount` | the system cannot be closed, or only in part: as above | `OpenAgain`, `NoCrash` |
| `open` | the databases cannot be opened after the call | `RestoreAllOrNothing`, `OpenAgain`, `NoCrash` |
| `crash` | the process ends between two files | none |
| `unbrought` | a restore with nothing, or the rest of a failed backup, in the directory: a file that is not there has been renamed and is removed with the others' `.bak` | `RestoreAllOrNothing`, `NothingLost`, `IgnoredStay` |
| `mode` | the daemon is started with `-backup`, which initializes nothing, and a key is removed | `NoCrash` |

Without disorder, more depends on the list. The crypto manager of the repository lists its file by an
absolute path. `QDir` takes that as the file itself in whichever directory it is asked, but the code appends it to the
storage directory to make or copy the file. So `copyToBackupDir()` removes the file itself as the "target file" of an
earlier backup, finds no source, and goes on without it; the next `createStorageFileTree()`
tries to make it below the storage directory, in a directory that is not there, and `backupStarts()` returns without opening
the system again; and a restore renames the file and then deletes the `.bak`. With an absolute path
`BackupComplete`, `BackupSucceeds`, `OpenAgain`, `NoCrash`, `IgnoredStay` and, for that file, `OnlyRead` fail; the others speak
of the files that are listed by a name (`Relative`).
With the default manager, which lists nothing, the secrets are in no backup (`BackupComplete`).

### Assumptions, bounds and runs

`QFile::copy()` and `rename()` do not overwrite. Erasing the backup directory succeeds; a directory that
cannot be made counts as a copy that fails; `setUserOwnership()` is left out.

In `daemon`, the instance `files`: two files, two versions of their contents, and four setups
(`SetupsOfBackups`): both listed by name with what a restore can undo, the same with everything failing, the list of the
default crypto manager, and that of the repository's. `FilesInv` has the properties with what each is claimed without, and
`StorageIsKept` has `OnlyRead` among its conjuncts.

| Property | Claimed without |
|---|---|
| `BackupFaithful` | |
| `NothingLost` | `unbrought` |
| `RestoreAllOrNothing` | `unbrought`, `back`, `open` |
| `OpenAgain` | `tree`, `umount`, `open`, absolute paths |
| `NoCrash` | `tree`, `umount`, `open`, `mode`, absolute paths |
| `OnlyRead` | absolute paths, of the files listed so |

### What is proved

`DaemonProofs` has both for any number of files and contents, any list of distinct files that begins with the metadata DB, any
of them listed by an absolute path, and any kinds of disorder.

* `BackupsAreCopies`: `FilesInv`. The invariant `Inv` says of a restore that at any moment it can be undone from its two lists
  (`Undoable`): a file that has been moved is in its `.bak` as it was, and its place is empty or has a copy; a file that
  has not been moved is as it was, or was not there. `RestoreAllOrNothing` and `NothingLost` follow with `Replaced`, that the files
  which are no longer to come are those of the archive, and that takes `ArchiveWhole`: an archive has every file that is listed by a
  name, so that each file that is moved is replaced. The archive is whole because a backup makes the files that are
  missing first (`TreeMade`), and copies from then on what nobody changes (`CopiesTaken`). `ListsInOrder` keeps the
  lists of the loops apart.
* `BackupReadsOnly`: `BackupOnlyReads`, from the same invariant.

There is no fairness in this part; that a call ends follows from its finite list.

## Module J: blob I/O

### Module and code

`BlobIO` refines what `PluginProxy` takes as one message: an answer is an operation code with a size
and pages of 16 kB, written by the plug-in's process to a pipe (`stdout`), read by `QProcess`
(`arrived`) and taken from there by `onReadStandardOutput()` and a `BlobIOHandler` (`proxy`). `outcome` is history:
what the session core was told of each request; `sent`: what the plug-in sent.

| Action | Code |
|---|---|
| `Process`, `ProcessRestarting` | `process()`, and one that finds the plug-in ended: its greeting is read by a slot that is still connected, and the request is refused |
| `Result`, `Error`, `StatusChanged` | what the plug-in's process sends |
| `Arrive` | the pipe delivers a part |
| `OnReadStandardOutput` | the slot with `handlePluginResponse()`, `readBlob()`, `receiveData()` and `blobIOError()` |
| `OnExit` | `onExit()` |

### What may interfere

`interference`, which never changes, is one of the sets of kinds in `Interferences`:

| Kind | What it is | Violated with it |
|---|---|---|
| `big` | an answer of more than one page: its handler is given the notifier of the wrong file descriptor, the rest is never read, and the slot stays disconnected | `Answered`, `NeverDeaf` |
| `torn` | an answer arrives in parts: the handler finds no data and reports an error, and what comes later is read as an operation | `InStep`, `ToldOnce`, `ErrorsAreTrue` |
| `twice` | a plug-in answers twice: what is not forwarded is read as an operation, or as the next request's | `ErrorsAreTrue` |
| `exit` | the process ends | none |

### Assumptions, fairness, bounds and runs

Requests reach the plug-in whole. (`main.cpp:91` makes its standard input non-blocking, so that they
too may arrive in parts; that direction is taken for granted here.) A header that arrives in parts is left out, and what a torn page
leaves is read as an unknown operation. `WF_vars(Progress)`: what is written arrives, and the slot is called.

The properties are stated for what does not violate them: `PipeInv` has `InStep` and `ToldOnce` without `torn`, `ErrorsAreTrue` without
`torn` and `twice`, and `NeverDeaf` without `big`; so has `Answered`. An `exit` is one with a code; a
crash, of which the session core is always told, also while nothing is processed, is in module A. `PluginProxy` has both
outcomes of a restart, also that the first request after it is served, which in the code takes that the greeting
of the new process is not read by the slot that is still connected (`ProcessRestarting`).

In `processes`: three pages, three requests and five messages, with `big`, `torn` or `twice` interfering, and in
each case `exit`: an answer that arrives at once in several pages, one in parts, and one that is given twice.

### What is proved

`ProcessesProofs`, for any numbers of pages, requests and messages and any set of kinds that may interfere:

* `AnswersAreHeard`: `PipeInv`. `Hearing` has when the slot is connected, and that nothing waits for a slot that is and does
  not run. Without `torn`, what is in the pipe and what is being read are sequences of whole messages
  (`Whole`): each operation code is followed by exactly what belongs to it, so that reading one leaves
  whole messages; and a request that has been told of lets no other start until nothing of it is on
  its way (`InOrder`), which makes `ToldOnce` inductive. Without `twice` besides, at most one answer is on its way, it is
  what the plug-in sent for the request at work, and of that nothing has been told (`AnsweredAlone`).

`Answered` needs fairness and is only model-checked.

## Not modelled

* Tracing, command lines, the loading of extensions and the registration of D-Bus
  objects: input and output without a property of their own.
* The conversion of identities and session data to and from D-Bus types; captions, types, usernames that
  are not secret (in module B) and other columns that nothing depends on.
* `queryIdentities()`, `queryMethods()` and `queryMechanisms()` of the daemon: they read and change nothing.
* The authentication plug-ins' own work, SASL and the like, and what signon-ui shows: they are
  what they may answer.
* Authorizers of keys that ask the user, and with them the list of waiting notifiers of the
  credentials access manager; only the default authorizer is in the repository's daemon.
* The direction from `signond` to the plug-in on the level of pages.
* Failing reads of a database.
