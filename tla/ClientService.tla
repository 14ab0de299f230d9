--------------------------- MODULE ClientService ---------------------------
(***************************************************************************)
(* AuthServiceImpl: an application's view of the daemon object, whose path *)
(* is fixed.  The answer to queryMechanisms() does not say for which       *)
(* method it is: the methods wait in a queue of their own, and an answer   *)
(* is taken to be for the first.                                           *)
(*                                                                         *)
(* The proxy is never given a connection that is not connected, so that no *)
(* call is refused for that.                                               *)
(***************************************************************************)
EXTENDS ClientProxy, Sequences, SequencesExt

CONSTANT MechanismsQuery  \* queryMechanisms() calls, each for a method of its own

ASSUME ServiceAssumption == MechanismsQuery \subseteq Own /\ IsFiniteSet(MechanismsQuery)

VARIABLES
  service,   \* the world: the ConnectionManager, the proxies and the calls
  line,      \* the calls in m_operationsQueue or on the wire, in their order
  methods,   \* m_methodsForWhichMechsWereQueried
  heard,     \* history: how often the outcome of a call was reported
  named      \* history: the method in the report of an answer

serviceVars == <<interference, service, line, methods, heard, named>>

Underway(c) == service.call[c].state \in {"queued", "sent"}

ServiceTypeOK ==
  /\ interference \in Interferences
  /\ service \in [manager : ManagerType, proxy : [Proxy -> ProxyType], call : [Call -> CallType]]
  /\ line \in Seq(Own) /\ methods \in Seq(MechanismsQuery)
  /\ heard \in [Own -> Nat]
  /\ named \in [MechanismsQuery -> MechanismsQuery \cup {None}]
  /\ ToSet(line) = {c \in Own : Underway(c)}
  /\ \A c \in Own : service.call[c].state # "failing"
  /\ Len(methods) = Cardinality({q \in MechanismsQuery : Underway(q)})

-----------------------------------------------------------------------------
\* The constructor
Constructed(peerBus, daemon, ends) == SetObjectPath(Fresh(peerBus, daemon, ends), "daemon")

ServiceInit ==
  /\ interference \in Interferences
  /\ \E peerBus, daemon \in BOOLEAN, ends \in 0 .. MaxEnds :
       service = Constructed(peerBus, daemon, ends)
  /\ line = <<>> /\ methods = <<>>
  /\ heard = [c \in Own |-> 0]
  /\ named = [q \in MechanismsQuery |-> None]

\* queryMechanisms()
QueryMechanisms(q) ==
  /\ service.call[q].state = "none"
  /\ service' = QueueCall(service, q)
  /\ line' = Append(line, q)
  /\ methods' = Append(methods, q)
  /\ UNCHANGED <<heard, named>>

\* sendRequest(): queryMethods(), queryIdentities() and clear()
SendRequest(c) ==
  /\ service.call[c].state = "none"
  /\ service' = QueueCall(service, c)
  /\ line' = Append(line, c)
  /\ UNCHANGED <<methods, heard, named>>

-----------------------------------------------------------------------------
\* A peer answers in order; what fails with its connection fails in any order.
InTurn(c, answer) ==
  answer # "Disconnected" =>
    \A i \in DOMAIN line :
      service.call[line[i]].state = "sent" => \E j \in 1 .. i : line[j] = c

\* When a call has failed with its connection, no other is answered on it.
Heard(answer) ==
  [service EXCEPT !.call = [c \in Call |->
     IF answer = "Disconnected" /\ answer \in @[c].answers
       THEN [@[c] EXCEPT !.answers = {answer}] ELSE @[c]]]

\* queryMechanismsReply()
MechanismsReply(q) ==
  /\ named' = [named EXCEPT ![q] = IF methods # <<>> THEN Head(methods) ELSE None]
  /\ methods' = IF methods # <<>> THEN Tail(methods) ELSE methods

\* Variant: an error leaves the method in the queue.
MechanismsErrorKeeping == UNCHANGED methods

\* queryMechanismsError()
MechanismsError == methods' = IF methods # <<>> THEN Tail(methods) ELSE methods

\* onRequeueRequested(): nothing is connected to objectPathNeeded().
Requeue(w, c) ==
  /\ service' = Enqueue(w, c)
  /\ line' = Append(RemoveFirst(line, c), c)
  /\ UNCHANGED <<methods, heard, named>>

\* The call has ended, and its outcome is reported.
Ended(w, c) ==
  /\ service' = Finished(w, c)
  /\ line' = RemoveFirst(line, c)
  /\ heard' = [heard EXCEPT ![c] = @ + 1]

Failed(w, c) ==
  /\ Ended(w, c)
  /\ IF c \in MechanismsQuery THEN MechanismsError ELSE UNCHANGED methods
  /\ UNCHANGED named

ServiceSucceeded(w, c) ==
  /\ Ended(w, c)
  /\ IF c \in MechanismsQuery THEN MechanismsReply(c) ELSE UNCHANGED <<methods, named>>

ServiceReply(c, answer) ==
  /\ MayAnswer(service, c, answer)
  /\ InTurn(c, answer)
  /\ answer = "error" => May("refused")
  /\ \/ Retried(service, c, answer) /\ Requeue(Heard(answer), c)
     \/ ~Retried(service, c, answer) /\ answer # "success" /\ Failed(Heard(answer), c)
     \/ answer = "success" /\ ServiceSucceeded(service, c)

-----------------------------------------------------------------------------
Elsewhere == UNCHANGED <<line, methods, heard, named>>

ServiceEnds ==
  /\ MayEnd(service)
  /\ service' = DaemonEnds(service)
  /\ Elsewhere

ServiceActivated(ok) ==
  /\ MayActivate(service, ok)
  /\ service' = Activated(service, ok)
  /\ Elsewhere

ServiceActivationDone ==
  /\ service.manager.activation \in {"done", "failed"}
  /\ service' = OnActivationDone(service)
  /\ Elsewhere

ServiceDisconnected ==
  /\ service.manager.lost
  /\ service' = OnDisconnected(service)
  /\ Elsewhere

ServiceNext ==
  /\ UNCHANGED interference
  /\ \/ \E q \in MechanismsQuery : QueryMechanisms(q)
     \/ \E c \in Own \ MechanismsQuery : SendRequest(c)
     \/ \E c \in Own : \E answer \in Answer : ServiceReply(c, answer)
     \/ ServiceEnds \/ ServiceActivationDone \/ ServiceDisconnected
     \/ \E ok \in BOOLEAN : ServiceActivated(ok)

\* What happens without the application and without anything ending
ServiceProgress ==
  /\ UNCHANGED interference
  /\ \/ \E c \in Own : \E answer \in Answer : ServiceReply(c, answer)
     \/ ServiceActivationDone \/ ServiceDisconnected
     \/ \E ok \in BOOLEAN : ServiceActivated(ok)

\* As long as there is anything of that to be done, some of it is.
ServiceSpec == ServiceInit /\ [][ServiceNext]_serviceVars /\ WF_serviceVars(ServiceProgress)

-----------------------------------------------------------------------------
\* Properties

\* The mechanisms that the application is told are those of the method it is told.
MechanismsOfMethod == \A q \in MechanismsQuery : named[q] \in {None, q}

\* The application hears of each of its calls once, when it has ended: not when it is
\* going to be tried again.
HeardOnce ==
  \A c \in Own : heard[c] = IF service.call[c].state = "done" THEN 1 ELSE 0

\* Each call of the service is reported once, and mechanisms with the method asked for.
ServiceInv == ServiceTypeOK /\ HeardOnce /\ MechanismsOfMethod

\* Every call of the application ends, as for a session.
ServiceWaits(c) ==
  Underway(c) /\ Without({"activation"}) /\ (Without({"ends"}) \/ ~service.manager.peerBus)
ServiceCallsEnd == \A c \in Own : ServiceWaits(c) ~> ~ServiceWaits(c)
=============================================================================
