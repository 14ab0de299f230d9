--------------------------- MODULE ClientIdentity ---------------------------
(***************************************************************************)
(* IdentityImpl: an application's identity object, with its state, the     *)
(* data it keeps of the identity and the sessions made from it, over a     *)
(* connection that stays up (module ClientProxy has those that do not).    *)
(* The daemon's side is reduced to the messages it sends, in their order:  *)
(* module Identities has it in full.                                       *)
(***************************************************************************)
EXTENDS Naturals, Sequences

CONSTANTS
  Method,        \* methods of the sessions made from the identity
  None,
  MaxCalls,      \* bound: calls of the application
  MaxNews,       \* bound: what happens to the identity otherwise
  Interference   \* the kinds of disorder the run allows

InterferenceKinds ==
  {"eager", "overtaken", "removing", "refused", "removed", "disposed", "signouts"}

\* What the constants are assumed to be
IdentityAssumption ==
  /\ None \notin Nat
  /\ MaxCalls \in Nat /\ MaxNews \in Nat
  /\ Interference \subseteq InterferenceKinds

VARIABLES
  impl,       \* the members of IdentityImpl
  proxy,      \* m_dbusProxy: the path, the calls that wait and those sent
  inbox,      \* replies and signals on their way
  daemon,     \* the object there, and what is stored
  waiting,    \* history: the queries whose outcome the application awaits
  calls,
  news

vars == <<impl, proxy, inbox, daemon, waiting, calls, news>>

MaxId == MaxCalls + 1
Version == 0 .. MaxCalls + MaxNews + 1
State == {"PendingRegistration", "NeedsRegistration", "NeedsUpdate", "PendingUpdate",
          "Removed", "Ready",
          "Aborted"}            \* an assertion has failed
Query == {"info", "methods"}
Registration == {"getIdentity", "registerNewIdentity"}
CallKind == {"getInfo", "store", "remove", "signOut", "verify"}
Completed == {"remove", "signOut"}    \* what waits for signon-ui first
Sent == [kind : CallKind \cup Registration, id : 0 .. MaxId]

\* A reply to a call, or a signal: own is set for what the object itself brought about
Message ==
  [type : {"registered", "done", "denied", "broken", "UnknownObject",
           "updated", "gone", "signedOut", "unregistered"},
   kind : CallKind \cup Registration \cup {None}, id : 0 .. MaxId, version : Version,
   own : BOOLEAN]

ImplType ==
  [state : State, id : 0 .. MaxId, cache : Version, infoQueried : BOOLEAN,
   methodsQueried : BOOLEAN, signOutRequested : BOOLEAN,
   sessions : [Method -> 0 .. MaxId \cup {None}]]

TypeOK ==
  /\ impl \in ImplType
  /\ proxy.path \in {"none", "live"}
  /\ proxy.queue \in Seq(CallKind) /\ proxy.outbox \in Seq(Sent)
  /\ proxy.path = "live" => proxy.queue = <<>>
  /\ inbox \in Seq(Message)
  /\ daemon \in [live : BOOLEAN, id : 0 .. MaxId, last : 0 .. MaxId, version : Version,
                 stored : BOOLEAN, busy : SUBSET Completed]
  /\ waiting \subseteq Query
  /\ calls \in 0 .. MaxCalls /\ news \in 0 .. MaxNews

World == [impl |-> impl, proxy |-> proxy]
Become(w) == impl' = w.impl /\ proxy' = w.proxy

-----------------------------------------------------------------------------
SendRegisterRequest(w) ==
  IF w.impl.state = "PendingRegistration" THEN w
  ELSE [w EXCEPT !.impl.state = "PendingRegistration",
          !.proxy.outbox = Append(@,
             [kind |-> IF w.impl.id = 0 THEN "registerNewIdentity" ELSE "getIdentity",
              id |-> w.impl.id])]

\* queueCall() of m_dbusProxy, with objectPathNeeded()
QueueCall(w, k) ==
  IF w.proxy.path = "live"
    THEN [w EXCEPT !.proxy.outbox = Append(@, [kind |-> k, id |-> 0])]
    ELSE SendRegisterRequest([w EXCEPT !.proxy.queue = Append(@, k)])

\* setObjectPath() of a path, where there must be none: the calls that waited are sent.
SetObjectPath(w) ==
  [w EXCEPT !.proxy.path = "live", !.proxy.queue = <<>>,
     !.proxy.outbox = @ \o [i \in 1 .. Len(w.proxy.queue) |->
                              [kind |-> w.proxy.queue[i], id |-> 0]]]

UpdateContents(w) == [QueueCall(w, "getInfo") EXCEPT !.impl.state = "PendingUpdate"]

UpdateState(w, s) ==
  IF s = "NeedsUpdate" THEN UpdateContents(w) ELSE [w EXCEPT !.impl.state = s]

\* updateCachedData(): the map has the identifier, too.
UpdateCachedData(w, m) == [w EXCEPT !.impl.id = m.id, !.impl.cache = m.version]

NoSessions == [m \in Method |-> None]

\* clearAuthSessionsCache(): every session is cancelled and forgotten.
ClearAuthSessionsCache(w) == [w EXCEPT !.impl.sessions = NoSessions]

-----------------------------------------------------------------------------
\* Identity::newIdentity() or existingIdentity()
Init ==
  \E known \in 0 .. 1 :
    LET w == SendRegisterRequest(
               [impl |-> [state |-> "NeedsRegistration", id |-> known, cache |-> 0,
                          infoQueried |-> TRUE, methodsQueried |-> FALSE,
                          signOutRequested |-> FALSE, sessions |-> NoSessions],
                proxy |-> [path |-> "none", queue |-> <<>>, outbox |-> <<>>]])
    IN /\ impl = w.impl
       /\ proxy = w.proxy
       /\ inbox = <<>>
       /\ daemon = [live |-> FALSE, id |-> 0, last |-> known, version |-> known,
                    stored |-> known = 1, busy |-> {}]
       /\ waiting = {}
       /\ calls = 0 /\ news = 0

Registrations ==
  Len(SelectSeq(proxy.outbox, LAMBDA c : c.kind \in Registration))
  + Len(SelectSeq(inbox, LAMBDA m : m.kind \in Registration))

InTransit(types) == \E i \in 1 .. Len(inbox) : inbox[i].type \in types

\* The application goes on unless an assertion of the library has failed.
Runs == impl.state # "Aborted"

\* A call that found the object gone will be queued again.
Repeated ==
  \/ InTransit({"UnknownObject"})
  \/ ~daemon.live /\ \E i \in 1 .. Len(proxy.outbox) : proxy.outbox[i].kind \in CallKind

\* The application makes a call; an eager one does while the object registers
\* for the sake of a query, or is about to.
Calls ==
  /\ Runs /\ calls < MaxCalls
  /\ calls' = calls + 1
  /\ Repeated \/ (Registrations > 0 /\ impl.state # "PendingRegistration") =>
       "eager" \in Interference
  /\ UNCHANGED <<inbox, daemon, news>>

\* A removal has been asked for and is not completed.
Removing ==
  \/ "remove" \in daemon.busy
  \/ \E i \in 1 .. Len(proxy.queue) : proxy.queue[i] = "remove"
  \/ \E i \in 1 .. Len(proxy.outbox) : proxy.outbox[i].kind = "remove"
  \/ \E i \in 1 .. Len(inbox) : inbox[i].kind = "remove"

\* Variant: a removed identity is asked all the same.
Unchecked == TRUE

CheckRemoved == impl.state # "Removed"

QueryInfo ==
  /\ CheckRemoved
  /\ Calls
  /\ \/ impl.state = "Ready" /\ UNCHANGED <<impl, proxy, waiting>>
     \/ /\ impl.state # "Ready"
        /\ Become(UpdateContents([World EXCEPT !.impl.infoQueried = TRUE]))
        /\ waiting' = waiting \cup {"info"}

QueryAvailableMethods ==
  /\ CheckRemoved
  /\ Calls
  /\ \/ impl.state = "Ready" /\ UNCHANGED <<impl, proxy, waiting>>
     \/ /\ impl.state # "Ready"
        /\ Become(UpdateContents([World EXCEPT !.impl.methodsQueried = TRUE]))
        /\ waiting' = waiting \cup {"methods"}

\* After a removal there is no data but what is given: without any, the store fails.
StoreCredentials ==
  /\ Removing => "removing" \in Interference
  /\ Calls
  /\ LET w == IF impl.state = "Removed" THEN UpdateState(World, "NeedsRegistration") ELSE World
     IN \/ Become(QueueCall(w, "store"))
        \/ impl.state = "Removed" /\ impl.id = 0 /\ Become(w)
  /\ UNCHANGED waiting

\* requestCredentialsUpdate(), which ends as a store does
RequestCredentialsUpdate ==
  /\ CheckRemoved
  /\ Removing => "removing" \in Interference
  /\ Calls
  /\ Become(QueueCall(World, "store"))
  /\ UNCHANGED waiting

Remove ==
  /\ impl.id # 0
  /\ Calls
  /\ Become(QueueCall(World, "remove"))
  /\ UNCHANGED waiting

\* addReference(), removeReference(), verifyUser(), verifySecret()
Verify ==
  /\ CheckRemoved
  /\ Calls
  /\ Become(QueueCall(World, "verify"))
  /\ UNCHANGED waiting

SignOut ==
  /\ CheckRemoved
  /\ InTransit({"signedOut"}) => "signouts" \in Interference
  /\ Calls
  /\ Become(ClearAuthSessionsCache(
       IF impl.id = 0 THEN World
       ELSE [QueueCall(World, "signOut") EXCEPT !.impl.signOutRequested = TRUE]))
  /\ UNCHANGED waiting

\* createSession() and destroySession()
CreateSession(m) ==
  /\ Runs /\ impl.sessions[m] = None
  /\ impl' = [impl EXCEPT !.sessions[m] = impl.id]
  /\ UNCHANGED <<proxy, inbox, daemon, waiting, calls, news>>

DestroySession(m) ==
  /\ Runs /\ impl.sessions[m] # None
  /\ impl' = [impl EXCEPT !.sessions[m] = None]
  /\ UNCHANGED <<proxy, inbox, daemon, waiting, calls, news>>

-----------------------------------------------------------------------------
\* The daemon

Signal(type, own) ==
  [type |-> type, kind |-> None, id |-> 0, version |-> 0, own |-> own]
Answer(type, k) ==
  [type |-> type, kind |-> k, id |-> daemon.id, version |-> daemon.version, own |-> TRUE]

\* getIdentity() and registerNewIdentity()
Registers(c) ==
  \/ /\ c.kind = "registerNewIdentity"
     /\ daemon' = [daemon EXCEPT !.live = TRUE, !.id = 0, !.stored = FALSE, !.version = 0]
     /\ inbox' = Append(inbox, [Answer("registered", c.kind) EXCEPT !.id = 0, !.version = 0])
  \/ /\ c.kind = "getIdentity" /\ daemon.stored
     /\ daemon' = [daemon EXCEPT !.live = TRUE, !.id = c.id]
     /\ inbox' = Append(inbox, [Answer("registered", c.kind) EXCEPT !.id = c.id])
  \/ /\ c.kind = "getIdentity"
     /\ ~daemon.stored \/ "refused" \in Interference
     /\ inbox' = Append(inbox, Answer("denied", c.kind))
     /\ UNCHANGED daemon
  \/ /\ "refused" \in Interference
     /\ inbox' = Append(inbox, Answer("broken", c.kind))
     /\ UNCHANGED daemon

Stores ==
  \/ LET id == IF daemon.stored THEN daemon.id ELSE daemon.last + 1
         d == [daemon EXCEPT !.id = id, !.last = IF daemon.stored THEN @ ELSE id,
                             !.version = @ + 1, !.stored = TRUE]
     IN /\ daemon' = d
        /\ inbox' = inbox \o <<Signal("updated", TRUE),
                               [Answer("done", "store") EXCEPT !.id = id]>>
  \/ inbox' = Append(inbox, Answer("denied", "store")) /\ UNCHANGED daemon

\* One call after another; remove() and signOut() are completed later.
Handle ==
  /\ proxy.outbox # <<>>
  /\ proxy' = [proxy EXCEPT !.outbox = Tail(@)]
  /\ LET c == Head(proxy.outbox)
     IN \/ c.kind \in Registration /\ Registers(c)
        \/ /\ c.kind \notin Registration /\ ~daemon.live
           /\ inbox' = Append(inbox, Answer("UnknownObject", c.kind))
           /\ UNCHANGED daemon
        \/ c.kind = "store" /\ daemon.live /\ Stores
        \/ /\ c.kind = "remove" /\ daemon.live /\ daemon.stored
           /\ daemon' = [daemon EXCEPT !.stored = FALSE, !.busy = @ \cup {"remove"}]
           /\ UNCHANGED inbox
        \/ /\ c.kind = "signOut" /\ daemon.live /\ daemon.stored
           /\ daemon' = [daemon EXCEPT !.busy = @ \cup {"signOut"}]
           /\ UNCHANGED inbox
        \/ /\ c.kind \in {"getInfo", "verify"} \/ (c.kind \in Completed /\ ~daemon.stored)
           /\ daemon.live
           /\ inbox' = Append(inbox, Answer(IF daemon.stored THEN "done" ELSE "denied", c.kind))
           /\ UNCHANGED daemon
  /\ UNCHANGED <<impl, waiting, calls, news>>

Complete(k) ==
  /\ k \in daemon.busy
  /\ daemon' = [daemon EXCEPT !.busy = @ \ {k}]
  /\ inbox' = inbox \o <<Signal(IF k = "remove" THEN "gone" ELSE "signedOut", TRUE),
                         Answer("done", k)>>
  /\ UNCHANGED <<impl, proxy, waiting, calls, news>>

News(signal) ==
  /\ news < MaxNews
  /\ news' = news + 1
  /\ inbox' = IF daemon.live THEN Append(inbox, Signal(signal, FALSE)) ELSE inbox
  /\ UNCHANGED <<impl, proxy, waiting, calls>>

\* Other clients, and the sessions, change the identity.
OtherStores ==
  /\ daemon.stored
  /\ daemon' = [daemon EXCEPT !.version = @ + 1]
  /\ News("updated")

OtherRemoves ==
  /\ "removed" \in Interference
  /\ daemon.stored
  /\ daemon' = [daemon EXCEPT !.stored = FALSE]
  /\ News("gone")

OtherSignsOut ==
  /\ daemon.stored /\ daemon.live
  /\ impl.signOutRequested => "signouts" \in Interference
  /\ UNCHANGED daemon
  /\ News("signedOut")

\* The object was idle for too long.
Disposed ==
  /\ daemon.live /\ daemon.busy = {}
  /\ Registrations > 0 => "overtaken" \in Interference
  /\ daemon.stored \/ daemon.id = 0 \/ {"disposed", "removed"} \cap Interference # {}
  /\ daemon' = [daemon EXCEPT !.live = FALSE]
  /\ News("unregistered")

-----------------------------------------------------------------------------
StoreCredentialsReply(w, m) ==
  [w EXCEPT !.impl.id = m.id,
     !.impl.sessions = IF m.id = w.impl.id THEN @
                       ELSE [s \in Method |-> IF @[s] = None THEN None ELSE m.id]]

RemoveReply(w) == UpdateState([w EXCEPT !.impl.id = 0, !.impl.cache = 0], "Removed")

GetInfoReply(w, m) ==
  UpdateState([UpdateCachedData(w, m) EXCEPT
                 !.impl.infoQueried = FALSE, !.impl.methodsQueried = FALSE], "Ready")

RegisterReply(w, m) ==
  IF w.proxy.path = "live" THEN [w EXCEPT !.impl.state = "Aborted"]
  ELSE UpdateState(SetObjectPath(IF m.kind = "getIdentity" THEN UpdateCachedData(w, m) ELSE w),
                   "Ready")

\* Variant: an update is only noted by an object that is ready.
InfoUpdatedIfPending(w, m) ==
  CASE m.type = "updated" -> IF w.impl.state = "Ready" THEN w ELSE UpdateState(w, "NeedsUpdate")
    [] m.type = "gone" -> UpdateState(w, "Removed")
    [] OTHER -> IF w.impl.signOutRequested THEN w ELSE ClearAuthSessionsCache(w)

InfoUpdated(w, m) ==
  CASE m.type = "updated" -> UpdateState(w, "NeedsUpdate")
    [] m.type = "gone" -> UpdateState(w, "Removed")
    [] OTHER -> IF w.impl.signOutRequested THEN w ELSE ClearAuthSessionsCache(w)

\* errorReply(): the daemon's own errors say nothing of the registration.
ErrorReply(w, m) ==
  IF m.type = "broken" /\ w.impl.state = "PendingRegistration"
    THEN UpdateState(w, "NeedsRegistration") ELSE w

RemoteObjectDestroyed(w) ==
  UpdateState([w EXCEPT !.proxy.path = "none"], "NeedsRegistration")

Done(w, m) ==
  CASE m.kind = "store" -> StoreCredentialsReply(w, m)
    [] m.kind = "remove" -> RemoveReply(w)
    [] m.kind = "getInfo" -> GetInfoReply(w, m)
    [] OTHER -> w

Deliver ==
  /\ Runs /\ inbox # <<>>
  /\ inbox' = Tail(inbox)
  /\ LET m == Head(inbox)
     IN /\ Become(CASE m.type = "registered" -> RegisterReply(World, m)
                    [] m.type = "done" -> Done(World, m)
                    [] m.type \in {"denied", "broken"} -> ErrorReply(World, m)
                    [] m.type = "UnknownObject" -> QueueCall(World, m.kind)
                    [] m.type = "unregistered" -> RemoteObjectDestroyed(World)
                    [] OTHER -> InfoUpdated(World, m))
        /\ waiting' = IF \/ m.kind = "getInfo" /\ m.type # "UnknownObject"
                         \/ m.kind \in Registration /\ m.type # "registered"
                        THEN {} ELSE waiting
  /\ UNCHANGED <<daemon, calls, news>>

Next ==
  \/ QueryInfo \/ QueryAvailableMethods \/ StoreCredentials \/ RequestCredentialsUpdate
  \/ Remove \/ Verify \/ SignOut
  \/ \E m \in Method : CreateSession(m) \/ DestroySession(m)
  \/ Handle \/ (\E k \in Completed : Complete(k)) \/ Deliver
  \/ OtherStores \/ OtherRemoves \/ OtherSignsOut \/ Disposed

\* The daemon handles its calls and signon-ui answers; messages are delivered.
Progress == Handle \/ Deliver \/ \E k \in Completed : Complete(k)

\* As long as there is anything of that to be done, some of it is.
Spec == Init /\ [][Next]_vars /\ WF_vars(Progress)

-----------------------------------------------------------------------------
\* Properties

\* What queryInfo() answers at once, from the object's own copy, is what is stored, unless
\* the news of a change is still on its way: no reply overtakes the signal that outdates it.
ReadyIsCurrent ==
  impl.state = "Ready" /\ daemon.stored =>
    impl.cache = daemon.version \/ InTransit({"updated", "unregistered"})

\* One registration at a time, and none beside a path (the assertion of
\* AsyncDBusProxy::setObjectPath()), however many calls wait or find the object gone. It is
\* claimed where no call is made while the object registers for the sake of a query.
OneRegistration ==
  /\ impl.state # "Aborted"
  /\ Registrations <= 1
  /\ Registrations = 1 => proxy.path = "none" \/ InTransit({"unregistered"})

\* The same of calls at any time. A query overwrites PendingRegistration (updateContents()):
\* the next call sends a second registration, and the assertion fails when both are
\* answered; that happens to an application that has made a query, and to no other.
OneUnlessQuerying ==
  \/ OneRegistration
  \/ waiting # {}
  \/ \E i \in 1 .. Len(proxy.queue) : proxy.queue[i] = "getInfo"
  \/ \E i \in 1 .. Len(proxy.outbox) : proxy.outbox[i].kind = "getInfo"

\* Calls wait only while a registration is on its way that will send them: PendingRegistration
\* never outlives it, and no call joins the queue behind the last one.
CallsServed ==
  (proxy.queue # <<>> \/ impl.state = "PendingRegistration") => Registrations > 0

\* The sessions made from an identity authenticate with it, also when it was stored, or
\* removed and stored again, after they were made.
SessionsFollow ==
  impl.id # 0 => \A m \in Method : impl.sessions[m] \in {None, 0, impl.id}

\* A removed identity stays removed until the application stores it again or hears that it
\* was stored: as long as it is not, no reply that was on its way, and no query, revives it.
RevivedByStore ==
  impl.state = "Removed" /\ ~daemon.stored /\ impl'.state # "Removed" =>
    \/ calls' # calls /\ impl'.state \in {"NeedsRegistration", "PendingRegistration"}
    \/ InTransit({"updated"}) /\ Head(inbox).type = "updated"
RemovedStays == [][RevivedByStore]_vars

\* When another client signs the identity out, this one's sessions are ended.
SignOutEndsSessions ==
  inbox # <<>> /\ inbox' = Tail(inbox) /\ Head(inbox).type = "signedOut"
    /\ ~Head(inbox).own => impl'.sessions = NoSessions
SignOutHeeded == [][SignOutEndsSessions]_vars

\* Every query is answered, by the data or an error, unless the assertion ends the program.
QueriesEnd == \A q \in Query : q \in waiting ~> q \notin waiting \/ ~Runs
=============================================================================
