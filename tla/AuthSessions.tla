---------------------------- MODULE AuthSessions ----------------------------
(***************************************************************************)
(* Authentication sessions on D-Bus: which core a session object belongs   *)
(* to, the two registries of cores, who may open, use and rename a session *)
(* and when a core and its sessions go.  The work of a request is in       *)
(* module SessionCore; here it begins and ends.  Each action is a handler  *)
(* of the daemon's event loop.                                             *)
(***************************************************************************)
EXTENDS AccessControl, Naturals, Sequences, SequencesExt

CONSTANTS
  Core,          \* SignonSessionCore objects; one may be used again once deleted
  Session,       \* SignonAuthSession objects
  Ids,           \* identifiers of stored identities
  Plugin,        \* methods that have a plug-in
  MaxQueue,      \* bound: requests in the queue of a core
  Infos,         \* bound: the lists an identity may have
  Null,
  Interferences  \* the sets of kinds of disorder that a run may allow

NewIdentity == 0                 \* SIGNOND_NEW_IDENTITY

InterferenceKinds == {"reassign", "waiting", "closed", "again", "late"}

ASSUME SessionsAssumption ==
  /\ Null \notin Core \cup Session \cup Client \cup (Ids \X Method)
  /\ NewIdentity \notin Ids
  /\ Method # {}
  /\ MaxQueue \in Nat \ {0}
  /\ Infos \subseteq AccessInfo
  /\ Plugin \subseteq Method
  /\ Interferences \subseteq SUBSET InterferenceKinds

VARIABLES
  core,        \* the cores and their members
  stored,      \* sessionsOfStoredCredentials
  nonStored,   \* sessionsOfNonStoredCredentials
  session,     \* the sessions: their parent and m_ownerPid
  lists,       \* the database: the lists of each identity
  request,     \* access requests that wait for the access control manager
  interference,  \* the kinds of disorder that are possible; it never changes
  opened       \* history: the session whose path the last handler replied with

vars == <<core, stored, nonStored, session, lists, request, interference, opened>>

Key == Ids \X Method
Request == [from : Session, words : (SUBSET Word) \ {{}}]

CoreMember == [status : {"none", "live", "doomed"}, id : Ids \cup {NewIdentity},
               method : Method, queue : Seq(Request), active : BOOLEAN,
               posted : BOOLEAN, autoDestruct : BOOLEAN, idle : BOOLEAN]
SessionMember == [status : {"none", "live", "doomed"}, core : Core \cup {Null},
                  owner : Client \cup {Null}]

TypeOK ==
  /\ core \in [Core -> CoreMember]
  /\ stored \in [Key -> Core \cup {Null}]
  /\ nonStored \subseteq Core
  /\ session \in [Session -> SessionMember]
  /\ lists \in [Ids -> Infos]
  /\ request \in [Client -> Key \cup {Null}]
  /\ interference \in Interferences
  /\ opened \in Session \cup {Null}
  /\ \A k \in Core : Len(core[k].queue) <= MaxQueue
  /\ \A k \in Core : core[k].active => core[k].queue # <<>>
  /\ \A s \in Session : session[s].status = "none" <=> session[s].core = Null

NoCore == [status |-> "none", id |-> NewIdentity,
           method |-> CHOOSE m \in Method : TRUE, queue |-> <<>>,
           active |-> FALSE, posted |-> FALSE, autoDestruct |-> TRUE, idle |-> FALSE]

NoSession == [status |-> "none", core |-> Null, owner |-> Null]

Init ==
  /\ core = [k \in Core |-> NoCore]
  /\ stored = [key \in Key |-> Null]
  /\ nonStored = {}
  /\ session = [s \in Session |-> NoSession]
  /\ lists \in [Ids -> Infos]
  /\ request = [c \in Client |-> Null]
  /\ interference \in Interferences
  /\ opened = Null

-----------------------------------------------------------------------------
\* Cores

NewCore(i, m) == [NoCore EXCEPT !.status = "live", !.id = i, !.method = m]

InUse(r) == [r EXCEPT !.idle = FALSE]

\* destroy(): off the registry and without its sessions at once, deleted later;
\* a core at work declines.
Destroyed(r) == IF r.active THEN InUse(r) ELSE [r EXCEPT !.status = "doomed"]

\* The state of cores, sessions and registries as one record
World == [core |-> core, stored |-> stored, nonStored |-> nonStored,
          session |-> session, opened |-> Null]

Become(w) ==
  /\ core' = w.core
  /\ stored' = w.stored
  /\ nonStored' = w.nonStored
  /\ session' = w.session
  /\ opened' = w.opened

Unused(w, k) ==
  w.core[k].status = "live" /\ w.core[k].autoDestruct /\ w.core[k].idle

Gone(w, k) == Unused(w, k) /\ ~w.core[k].active

\* Variant: cores go and stay in the registry.
DeregisteredNot(w) == w

\* destroy(): the registries without the cores that go
Deregistered(w) ==
  [w EXCEPT
     !.stored = [key \in Key |->
       IF \E k \in Core : Gone(w, k) /\ key = <<w.core[k].id, w.core[k].method>>
         THEN Null ELSE @[key]],
     !.nonStored = {k \in @ : ~Gone(w, k)}]

\* SignonDisposable::destroyUnused() over the cores
DestroyUnused(w) ==
  [Deregistered(w) EXCEPT
     !.core = [k \in Core |-> IF Unused(w, k) THEN Destroyed(@[k]) ELSE @[k]],
     !.session = [s \in Session |->
       IF @[s].core # Null /\ Gone(w, @[s].core) THEN NoSession ELSE @[s]]]

WithSession(w, k, s, c) ==
  [w EXCEPT !.session[s] = [status |-> "live", core |-> k, owner |-> c],
            !.opened = s]

Free(w) == {s \in Session : w.session[s].status = "none"}

\* sessionCore() of an identity that has one: it is not marked as used.
Joined(w, c, i, m) == {WithSession(w, w.stored[<<i, m>>], s, c) : s \in Free(w)}

\* A new core in its registry
WithCore(w, i, m, k) ==
  LET v == [w EXCEPT !.core[k] = NewCore(i, m)]
  IN IF i = NewIdentity THEN [v EXCEPT !.nonStored = @ \cup {k}]
                        ELSE [v EXCEPT !.stored[<<i, m>>] = k]

\* sessionCore() otherwise: a new one, unless there is no plug-in or it fails
Started(w, c, i, m) ==
  {w} \cup {WithSession(WithCore(w, i, m, k), k, s, c) :
              k \in {l \in Core : m \in Plugin /\ w.core[l].status = "none"}, s \in Free(w)}

\* getAuthSession(), createAuthSession()
Created(w, c, i, m) ==
  IF i = NewIdentity \/ (i \in Ids /\ w.stored[<<i, m>>] = Null)
    THEN Started(w, c, i, m) ELSE Joined(w, c, i, m)

-----------------------------------------------------------------------------
\* Opening a session, SignonDaemonAdaptor

AllowedId(c, i) == i = NewIdentity \/ (i \in Ids /\ PeerAllowed(c, lists[i]))

\* getAuthSessionObjectPath() by a peer that the lists admit
GetAuthSession(c, i, m) ==
  /\ request[c] = Null
  /\ AllowedId(c, i)
  /\ \E w \in Created(DestroyUnused(World), c, i, m) : Become(w)
  /\ UNCHANGED <<lists, request>>

\* The same by one that they do not admit: the access control manager is asked.
RequestAccess(c, i, m) ==
  /\ request[c] = Null
  /\ ~AllowedId(c, i)
  /\ request' = [request EXCEPT ![c] = <<i, m>>]
  /\ Become(DestroyUnused(World))
  /\ UNCHANGED lists

Declined(c) ==
  /\ request[c] # Null
  /\ request' = [request EXCEPT ![c] = Null]
  /\ Become(World)
  /\ UNCHANGED lists

StillAllowed(c, i) == AllowedId(c, i)

\* After a session was opened, not after an error
Replied(w) == IF w.opened = Null THEN w ELSE DestroyUnused(w)

\* onAuthSessionAccessReplyFinished() with an accepted request: the lists are
\* looked at again.
Accepted(c) ==
  /\ request[c] # Null
  /\ LET i == request[c][1]
         m == request[c][2]
     IN /\ StillAllowed(c, i)
        /\ stored[<<i, m>>] # Null /\ core[stored[<<i, m>>]].idle
             => "late" \in interference
        /\ \E w \in Created(World, c, i, m) : Become(Replied(w))
  /\ request' = [request EXCEPT ![c] = Null]
  /\ UNCHANGED lists

-----------------------------------------------------------------------------
\* Calls on a session by its owner, SignonAuthSessionAdaptor

Calls(c, s) == session[s].status = "live" /\ session[s].owner = c

Open(s) == \E j \in DOMAIN core[session[s].core].queue :
             core[session[s].core].queue[j].from = s

Enqueued(r, s, words) ==
  [r EXCEPT !.queue = Append(@, [from |-> s, words |-> words]), !.posted = TRUE]

\* What a request is left of the words of a mechanism: all of them if the identity is not
\* stored, or while the credentials system is closed.
Checked(k, words) ==
  {w \in {words} : core[k].id = NewIdentity \/ "closed" \in interference}
  \cup {Granted(lists[i], core[k].method, words) : i \in {core[k].id} \ {NewIdentity}}

\* process() with the words of a mechanism
Process(c, s, words) ==
  LET k == session[s].core
  IN /\ Calls(c, s)
     /\ Open(s) => "again" \in interference
     /\ Len(core[k].queue) < MaxQueue
     /\ \E granted \in Checked(k, words) :
          core' = [core EXCEPT ![k] =
            IF granted = {} THEN InUse(@) ELSE Enqueued(InUse(@), s, granted)]
     /\ opened' = Null
     /\ UNCHANGED <<stored, nonStored, session, lists, request>>

\* SignonSessionCore::cancel(): the first request of the session, which stays at
\* the head of the queue while the plug-in is at it
Withdrawn(r, s) ==
  LET mine == {j \in DOMAIN r.queue : r.queue[j].from = s}
      first == CHOOSE j \in mine : \A l \in mine : j <= l
  IN IF mine = {} \/ (first = 1 /\ r.active) THEN r
     ELSE [r EXCEPT !.queue = RemoveAt(@, first)]

\* queryAvailableMechanisms(), or a process() that is refused to another peer:
\* both have asked the core for its id or its method.
Query(s) ==
  /\ session[s].status = "live"
  /\ core' = [core EXCEPT ![session[s].core] = InUse(@)]
  /\ opened' = Null
  /\ UNCHANGED <<stored, nonStored, session, lists, request>>

Cancel(c, s) ==
  /\ Calls(c, s)
  /\ core' = [core EXCEPT ![session[s].core] = Withdrawn(@, s)]
  /\ opened' = Null
  /\ UNCHANGED <<stored, nonStored, session, lists, request>>

ObjectUnref(c, s) ==
  /\ Calls(c, s)
  /\ core' = [core EXCEPT ![session[s].core] = Withdrawn(@, s)]
  /\ session' = [session EXCEPT ![s].status = "doomed"]
  /\ opened' = Null
  /\ UNCHANGED <<stored, nonStored, lists, request>>

\* "attempt to assign existing id"
Assigned(i, m) == stored[<<i, m>>] # Null

\* setId(): to an identity that has a core, or to one that has none.  No peer is
\* allowed to use identity 0, which has neither an owner nor a list.
SetId(c, s, i) ==
  LET k == session[s].core
      m == core[k].method
  IN /\ Calls(c, s)
     /\ PeerAllowed(c, lists[i])
     /\ i # core[k].id /\ core[k].id # NewIdentity => "reassign" \in interference
     /\ i # core[k].id /\ core[k].queue # <<>> => "waiting" \in interference
     /\ \/ /\ i = core[k].id \/ Assigned(i, m)
           /\ core' = [core EXCEPT ![k] = InUse(@)]
           /\ UNCHANGED <<stored, nonStored>>
        \/ /\ i # core[k].id /\ ~Assigned(i, m)
           /\ nonStored' = nonStored \ {k}
           /\ stored' = [stored EXCEPT ![<<i, m>>] = k]
           /\ core' = [core EXCEPT ![k] = [InUse(@) EXCEPT !.id = i]]
     /\ opened' = Null
     /\ UNCHANGED <<session, lists, request>>

-----------------------------------------------------------------------------
\* Events

Begun(r) ==
  [r EXCEPT !.posted = FALSE,
            !.active = @ \/ r.queue # <<>>,
            !.autoDestruct = r.queue = <<>> \/ (r.active /\ @)]

\* The posted event: startNewRequest()
StartNewRequest(k) ==
  /\ core[k].status = "live" /\ core[k].posted
  /\ core' = [core EXCEPT ![k] = Begun(InUse(@))]
  /\ opened' = Null
  /\ UNCHANGED <<stored, nonStored, session, lists, request>>

Ended(r) == [r EXCEPT !.active = FALSE, !.queue = Tail(@), !.posted = TRUE]

\* requestDone()
RequestDone(k) ==
  /\ core[k].status = "live" /\ core[k].active
  /\ core' = [core EXCEPT ![k] = Ended(@)]
  /\ opened' = Null
  /\ UNCHANGED <<stored, nonStored, session, lists, request>>

Inactive(k) ==
  /\ core[k].status = "live" /\ ~core[k].idle /\ ~core[k].posted
  /\ core' = [core EXCEPT ![k].idle = TRUE]
  /\ opened' = Null
  /\ UNCHANGED <<stored, nonStored, session, lists, request>>

DisposeTimer ==
  /\ DestroyUnused(World) # World
  /\ Become(DestroyUnused(World))
  /\ UNCHANGED <<lists, request>>

\* Events of deleteLater(); a core takes the sessions it still has with it.
DeleteSession(s) ==
  /\ session[s].status = "doomed"
  /\ session' = [session EXCEPT ![s] = NoSession]
  /\ opened' = Null
  /\ UNCHANGED <<core, stored, nonStored, lists, request>>

DeleteCore(k) ==
  /\ core[k].status = "doomed"
  /\ core' = [core EXCEPT ![k] = NoCore]
  /\ session' = [s \in Session |-> IF session[s].core = k THEN NoSession ELSE session[s]]
  /\ opened' = Null
  /\ UNCHANGED <<stored, nonStored, lists, request>>

\* SignonIdentityAdaptor::store() of an identity with other lists
StoreLists(c, i, l) ==
  /\ MayChange(c, lists[i])
  /\ (\E k \in Core : core[k].id = i /\ core[k].queue # <<>>)
       => "waiting" \in interference
  /\ lists' = [lists EXCEPT ![i] = l]
  /\ opened' = Null
  /\ UNCHANGED <<core, stored, nonStored, session, request>>

\* The daemon ends, stopAllAuthSessions(), and is started again.
StopAll ==
  /\ core' = [k \in Core |-> NoCore]
  /\ session' = [s \in Session |-> NoSession]
  /\ stored' = [key \in Key |-> Null]
  /\ nonStored' = {}
  /\ request' = [c \in Client |-> Null]
  /\ opened' = Null
  /\ UNCHANGED lists

-----------------------------------------------------------------------------
Next ==
  /\ UNCHANGED interference
  /\ \/ \E c \in Client :
          \/ \E i \in Ids \cup {NewIdentity}, m \in Method :
               GetAuthSession(c, i, m) \/ RequestAccess(c, i, m)
          \/ Declined(c)
          \/ Accepted(c)
          \/ \E s \in Session :
               \/ \E words \in (SUBSET Word) \ {{}} : Process(c, s, words)
               \/ Cancel(c, s)
               \/ ObjectUnref(c, s)
               \/ \E i \in Ids : SetId(c, s, i)
          \/ \E i \in Ids, l \in Infos : StoreLists(c, i, l)
     \/ \E k \in Core :
          StartNewRequest(k) \/ RequestDone(k) \/ Inactive(k) \/ DeleteCore(k)
     \/ \E s \in Session : Query(s) \/ DeleteSession(s)
     \/ DisposeTimer
     \/ StopAll

Spec == Init /\ [][Next]_vars

-----------------------------------------------------------------------------
\* Properties

\* sessionsOfStoredCredentials and sessionsOfNonStoredCredentials list the cores
\* there are, each once and under the identity it has now, whatever setId() and
\* destroy() did to them.
RegistryIsFaithful ==
  /\ \A key \in Key : stored[key] # Null =>
       /\ core[stored[key]].status = "live"
       /\ key = <<core[stored[key]].id, core[stored[key]].method>>
  /\ \A k \in nonStored : core[k].status = "live"
  /\ \A k \in Core : core[k].status = "live" =>
       IF core[k].id = NewIdentity THEN k \in nonStored
       ELSE /\ k \notin nonStored
            /\ stored[<<core[k].id, core[k].method>>] = k

\* The requests of one identity and method wait in one queue: sessionCore() and
\* setId() never make two cores of them.
OneCorePerIdentity ==
  \A k, l \in Core :
    /\ core[k].status = "live" /\ core[l].status = "live"
    /\ core[k].id = core[l].id /\ core[k].id \in Ids
    /\ core[k].method = core[l].method
    => k = l

\* A session of a stored identity is opened only for a client that its lists admit
\* at that moment, also when the access control manager took its time to accept.
OpenedWhenAllowed ==
  opened # Null /\ session[opened].status = "live" /\ core[session[opened].core].id \in Ids
    => PeerAllowed(session[opened].owner, lists[core[session[opened].core].id])

\* The path that a client receives leads to a session that is still there.
HandedOutLive == opened # Null => session[opened].status = "live"

\* A request that waits belongs to a session that still exists: a client that
\* gives its session up leaves none behind.
NoOrphanRequests ==
  \A k \in Core : \A j \in DOMAIN core[k].queue :
    \/ j = 1 /\ core[k].active
    \/ LET s == core[k].queue[j].from
       IN session[s].status = "live" /\ session[s].core = k

\* All that holds of sessions in a state.  A core that setId() moves from one stored
\* identity to another stays under the old key, also when it has been deleted: nothing
\* is claimed then.
SessionsInv ==
  /\ TypeOK
  /\ "reassign" \notin interference =>
       /\ RegistryIsFaithful
       /\ OneCorePerIdentity
       /\ OpenedWhenAllowed
       /\ "late" \notin interference => HandedOutLive
       /\ "again" \notin interference => NoOrphanRequests

\* What a core starts for a stored identity is permitted by the identity's
\* methods, although it was checked when the request arrived, maybe for
\* another identity; as long as neither changes while a request waits, and requests
\* arrive while the credentials system is open.
PermittedIfStarted(k) ==
  ~core[k].active /\ core'[k].active /\ core'[k].id \in Ids =>
    LET methods == lists'[core'[k].id].methods
        m == core'[k].method
    IN DOMAIN methods # {} =>
         /\ m \in DOMAIN methods
         /\ methods[m] # {} => core'[k].queue[1].words \subseteq methods[m]
Unchecked == {"waiting", "closed"} \cap interference # {}
StartedAsPermitted ==
  [][(\A k \in Core : PermittedIfStarted(k)) \/ Unchecked]_vars
=============================================================================
