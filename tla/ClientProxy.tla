---------------------------- MODULE ClientProxy ----------------------------
(***************************************************************************)
(* The client library's way to the daemon: the ConnectionManager, the      *)
(* AsyncDBusProxy of a client object and the calls that wait for it or     *)
(* have been sent.  A registration goes through a proxy of its own, to the *)
(* daemon object, which has a fixed path; the path of the object it asks   *)
(* for belongs to the main proxy.  The operators take the world as a       *)
(* record, to which the modules of the client objects add their members.   *)
(***************************************************************************)
EXTENDS Naturals, FiniteSets

CONSTANTS
  Main,       \* the proxy of the client object
  Own,        \* PendingCall objects of the main proxy, each used once
  Reg,        \* those of registrations, each with its proxy
  None,
  MaxEnds,    \* bound: how often the daemon, or the object, ends
  Interferences  \* the sets of kinds of disorder that a run allows

(* ends        the daemon ends
   activation  the bus cannot start it
   refused     it answers a call with an error
   again       process() of a session that has cancelled one that is open *)
InterferenceKinds == {"ends", "activation", "refused", "again"}

ASSUME ProxyAssumption ==
  /\ Main \notin Reg /\ Own \cap Reg = {} /\ None \notin Own
  /\ MaxEnds \in Nat
  /\ Interferences \subseteq SUBSET InterferenceKinds

VARIABLE interference    \* what may interfere; it never changes

May(kind) == kind \in interference
Without(kinds) == interference \cap kinds = {}

Call == Own \cup Reg
Proxy == {Main} \cup Reg
ProxyOf(c) == IF c \in Reg THEN c ELSE Main

\* NoReply: the bus or the connection gave up.
Answer == {"success", "error", "NoReply", "UnknownObject", "Disconnected"}

\* The ConnectionManager, the connection and the daemon.  peerBus: there are peer-to-peer
\* connections; connection: m_connection, "down" when it is lost; lost: Disconnected is on
\* its way; activation: StartServiceByName; ends: how often anything may still end
ManagerType == [peerBus : BOOLEAN,
                connection : {"none", "peer", "bus", "down"}, lost : BOOLEAN,
                service : {"unknown", "activating", "activated"},
                activation : {"none", "asked", "done", "failed"},
                daemon : BOOLEAN, ends : 0 .. MaxEnds]

\* path: "dead" when the daemon no longer has the object; tried: m_watcher is set
ProxyType == [connected : BOOLEAN, path : {"none", "daemon", "live", "dead"},
              status : {"none", "Incomplete", "Ready", "Invalid"}]
CallType == [state : {"none", "queued", "failing", "sent", "done"}, tried : BOOLEAN,
             destroyed : BOOLEAN, answers : SUBSET Answer]

NoProxy == [connected |-> FALSE, path |-> "none", status |-> "none"]
NoCall == [state |-> "none", tried |-> FALSE, destroyed |-> FALSE, answers |-> {}]

-----------------------------------------------------------------------------
\* AsyncDBusProxy

Connected(w) == w.manager.connection \in {"peer", "bus"}
Existing(w) == {p \in Proxy : w.proxy[p].status # "none"}

\* doCall(): the answers that the peer may give to it
Sent(w, p) ==
  [state |-> "sent", tried |-> TRUE, destroyed |-> FALSE,
   answers |-> IF ~Connected(w) THEN {"Disconnected"}
               ELSE IF w.proxy[p].path = "dead" THEN {"UnknownObject"}
               ELSE {"success", "error"}]

\* update(), the status
Status(w, p) ==
  IF ~w.proxy[p].connected \/ w.proxy[p].path = "none" THEN "Incomplete"
  ELSE IF Connected(w) THEN "Ready" ELSE "Invalid"

\* update() and setStatus(): what becomes of a call of the proxies P
Updated(w, P, c) ==
  LET p == ProxyOf(c)
      r == w.call[c]
  IN IF p \in P /\ r.state = "queued" /\ Status(w, p) = "Ready" THEN Sent(w, p)
     ELSE IF p \in P /\ r.state = "sent" /\ w.proxy[p].status = "Ready"
       THEN [r EXCEPT !.destroyed = TRUE]
     ELSE r

Update(w, P) ==
  [w EXCEPT !.call = [c \in Call |-> Updated(w, P, c)],
            !.proxy = [p \in Proxy |-> IF p \in P THEN [@[p] EXCEPT !.status = Status(w, p)]
                                                  ELSE @[p]]]

SetObjectPath(w, path) == Update([w EXCEPT !.proxy[Main].path = path], {Main})

\* The signal connected(): setConnection() of every proxy
EmitConnected(w) ==
  LET P == Existing(w)
  IN Update([w EXCEPT !.proxy = [p \in Proxy |->
               IF p \in P THEN [@[p] EXCEPT !.connected = TRUE] ELSE @[p]]], P)

\* The signal disconnected(): setDisconnected() of every proxy
EmitDisconnected(w) ==
  LET P == Existing(w)
  IN Update([w EXCEPT !.proxy = [p \in Proxy |->
               IF p \in P THEN [@[p] EXCEPT !.connected = FALSE, !.path = "none"]
                          ELSE @[p]]], P)

-----------------------------------------------------------------------------
\* ConnectionManager

\* init() and setupSocketConnection(). A daemon that is gone is taken to have
\* left no socket file (FileNotFound); with a stale one the session bus is used.
Setup(w) ==
  IF w.manager.service = "activating" THEN w
  ELSE IF w.manager.peerBus /\ w.manager.daemon
    THEN EmitConnected([w EXCEPT !.manager.connection = "peer"])
  ELSE IF w.manager.peerBus /\ w.manager.service = "unknown"
    THEN [w EXCEPT !.manager.service = "activating", !.manager.activation = "asked"]
  ELSE EmitConnected([w EXCEPT !.manager.connection = "bus"])

\* connect()
Connect(w) == IF Connected(w) THEN EmitConnected(w) ELSE Setup(w)

\* enqueue(), without the request for an object path
Enqueue(w, c) ==
  LET v == [w EXCEPT !.call[c].state = "queued", !.call[c].destroyed = FALSE,
                        !.call[c].answers = {}]
  IN IF w.proxy[ProxyOf(c)].connected THEN v ELSE Connect(v)

\* queueCall()
QueueCall(w, c) ==
  IF w.proxy[ProxyOf(c)].status = "Ready" THEN [w EXCEPT !.call[c] = Sent(w, ProxyOf(c))]
  ELSE IF w.proxy[ProxyOf(c)].status = "Incomplete" THEN Enqueue(w, c)
  ELSE [w EXCEPT !.call[c].state = "failing"]

\* The proxy made for a registration, and the call through it
QueueRegistration(w, r) ==
  QueueCall([w EXCEPT !.proxy[r] =
               [connected |-> Connected(w), path |-> "daemon",
                status |-> IF Connected(w) THEN "Ready" ELSE "Incomplete"]], r)

\* onCallFinished(); deleteServiceProxy() for a registration
Finished(w, c) ==
  IF c \in Reg THEN [w EXCEPT !.call[c] = NoCall, !.proxy[c] = NoProxy]
  ELSE [w EXCEPT !.call[c] = [NoCall EXCEPT !.state = "done"]]

\* onFinished(): whether the call is to be tried again
Retried(w, c, answer) ==
  w.call[c].destroyed /\ answer \in {"UnknownObject", "Disconnected"}

\* A call may have this answer, in the order of the messages: what was refused at once, or
\* failed with its connection, before what was sent after it.
MayAnswer(w, c, answer) ==
  /\ w.call[c].state = "sent"
  /\ answer \in w.call[c].answers
  /\ c \in Reg /\ answer \notin {"UnknownObject", "Disconnected"} =>
       \A o \in Own : w.call[o].state = "sent" /\ w.call[o].destroyed =>
         w.call[o].answers \cap {"UnknownObject", "Disconnected"} = {}

-----------------------------------------------------------------------------
\* The daemon and the bus

\* An object goes: what was not yet answered may find it gone, unless it has failed with its
\* connection.
Lost(calls, C, answers) ==
  [c \in Call |->
     IF c \in C /\ calls[c].state = "sent" /\ calls[c].answers # {"Disconnected"}
       THEN [calls[c] EXCEPT !.answers = @ \cup answers] ELSE calls[c]]

\* The daemon ends or dies: a peer-to-peer connection is lost, the bus only tells
\* those that wait for an answer.
MayEnd(w) ==
  /\ May("ends") /\ w.manager.ends > 0
  /\ w.manager.daemon \/ w.manager.connection = "bus"

DaemonEnds(w) ==
  LET peer == w.manager.connection = "peer"
  IN [w EXCEPT
       !.manager.ends = @ - 1, !.manager.daemon = FALSE,
       !.manager.connection = IF peer THEN "down" ELSE @, !.manager.lost = @ \/ peer,
       !.call = Lost(@, Call, IF peer THEN {"NoReply", "Disconnected"} ELSE {"NoReply"}),
       !.proxy[Main].path = IF @ = "live" THEN "dead" ELSE @]

\* The bus answers StartServiceByName
MayActivate(w, ok) == w.manager.activation = "asked" /\ (ok \/ May("activation"))

Activated(w, ok) ==
  [w EXCEPT !.manager.activation = IF ok THEN "done" ELSE "failed",
            !.manager.daemon = @ \/ ok]

\* onActivationDone()
OnActivationDone(w) ==
  LET v == [w EXCEPT !.manager.activation = "none"]
  IN IF w.manager.activation = "done"
       THEN Setup([v EXCEPT !.manager.service = "activated"]) ELSE v

\* onDisconnected(): messages that were read before have been handled.
OnDisconnected(w) ==
  EmitDisconnected(
    [w EXCEPT !.manager.lost = FALSE, !.manager.service = "unknown",
              !.call = [c \in Call |->
                IF "Disconnected" \in @[c].answers
                  THEN [@[c] EXCEPT !.answers = {"Disconnected"}] ELSE @[c]]])

\* A fresh library: the first proxy made the ConnectionManager.
Fresh(peerBus, daemon, ends) ==
  Setup([manager |-> [peerBus |-> peerBus, connection |-> "none", lost |-> FALSE, service |-> "unknown",
                      activation |-> "none", daemon |-> daemon, ends |-> ends],
         proxy |-> [p \in Proxy |->
                      IF p = Main THEN [NoProxy EXCEPT !.status = "Incomplete"] ELSE NoProxy],
         call |-> [c \in Call |-> NoCall]])
=============================================================================
