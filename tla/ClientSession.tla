--------------------------- MODULE ClientSession ---------------------------
(***************************************************************************)
(* AuthSessionImpl: an application's session object, which registers with  *)
(* the daemon when it has to, sends process(), cancel() and other calls    *)
(* through its proxy, and reports their outcome to the application.        *)
(***************************************************************************)
EXTENDS ClientProxy

CONSTANTS
  ProcessCall,   \* process() calls
  CancelCall     \* the messages of cancel() and setId(), whose success is not reported

ASSUME SessionAssumption ==
  /\ ProcessCall \cup CancelCall \subseteq Own
  /\ ProcessCall \cap CancelCall = {}
  /\ Reg # {}

VARIABLES
  manager, proxy, call,
  auth,          \* m_isAuthInProcessing
  processCall,   \* m_processCall
  gone,          \* unregistered() is on its way
  reports,       \* history: how often the outcome of a call was reported
  givenUp        \* history: the process() calls that were cancelled

sessionVars == <<interference, manager, proxy, call, auth, processCall, gone, reports, givenUp>>

SessionTypeOK ==
  /\ interference \in Interferences
  /\ manager \in ManagerType
  /\ proxy \in [Proxy -> ProxyType]
  /\ call \in [Call -> CallType]
  /\ auth \in BOOLEAN
  /\ processCall \in ProcessCall \cup {None}
  /\ gone \in BOOLEAN
  /\ reports \in [Own -> Nat]
  /\ givenUp \subseteq ProcessCall
  /\ \A c \in Call :
       /\ (call[c].state = "sent") = (call[c].answers # {})
       /\ call[c].state = "failing" => proxy[ProxyOf(c)].status # "none"

World ==
  [manager |-> manager, proxy |-> proxy, call |-> call, auth |-> auth,
   processCall |-> processCall, reports |-> reports]

Become(w) ==
  /\ manager' = w.manager
  /\ proxy' = w.proxy
  /\ call' = w.call
  /\ auth' = w.auth
  /\ processCall' = w.processCall
  /\ reports' = w.reports
  /\ gone' = (gone /\ w.proxy[Main].path = "dead")

-----------------------------------------------------------------------------
\* initInterface(): one registration at a time
Register(w) ==
  IF w.auth THEN w
  ELSE QueueRegistration([w EXCEPT !.auth = TRUE],
                         CHOOSE r \in Reg : w.call[r].state = "none")

\* Room for another registration, should one be needed: Reg is a bound, not the code's.
RegFree == auth \/ \E r \in Reg : call[r].state = "none"

NeedsPath(w, c) ==
  w.call[c].state = "queued" /\ w.proxy[ProxyOf(c)].path = "none"

\* send2interface(), and objectPathNeeded() of enqueue()
Send(w, c) ==
  LET v == QueueCall(w, c)
  IN IF NeedsPath(v, c) THEN Register(v) ELSE v

\* Signals response(), mechanismsAvailable() and error()
Report(w, C) ==
  [w EXCEPT !.reports = [c \in Own |-> IF c \in C THEN @[c] + 1 ELSE @[c]]]

Queued(w) == {c \in Own : w.call[c].state = "queued"}

\* setError(): the waiting calls end, and each is reported.
SetError(w) ==
  Report([w EXCEPT
    !.call = [c \in Call |-> IF c \in Queued(w) THEN [NoCall EXCEPT !.state = "done"]
                                                ELSE @[c]],
    !.proxy[Main].status = "Invalid"], Queued(w))

\* Variant: a registration that failed is taken to be under way.
ErrorSlotBusy(w, c) ==
  IF w.auth THEN SetObjectPath(SetError([w EXCEPT !.processCall = None]), "none")
  ELSE Report([w EXCEPT !.processCall = None], {c} \cap Own)

\* errorSlot(): while the session registers, any error is one of the registration.
ErrorSlot(w, c) ==
  LET v == [w EXCEPT !.processCall = None]
  IN IF v.auth THEN SetObjectPath(SetError([v EXCEPT !.auth = FALSE]), "none")
     ELSE Report(v, {c} \cap Own)

\* authenticationSlot() after the connection was lost: update() fails the waiting
\* calls; the first error is taken for one of the registration and fails them all,
\* and then update() goes on with the others.
AuthenticatedInVain(w) ==
  IF Queued(w) = {}
    THEN {[SetObjectPath(w, "dead") EXCEPT !.auth = FALSE]}
    ELSE {Report(ErrorSlot(w, first), Queued(w) \ {first}) : first \in Queued(w)}

\* authenticationSlot()
Authenticated(w) ==
  IF w.proxy[Main].connected /\ ~Connected(w)
    THEN AuthenticatedInVain(w)
    ELSE {[SetObjectPath(w, "live") EXCEPT !.auth = FALSE]}

-----------------------------------------------------------------------------
\* The constructor registers.
SessionInit ==
  \E peerBus, daemon \in BOOLEAN, ends \in 0 .. MaxEnds :
    LET f == Fresh(peerBus, daemon, ends)
        w == Register([manager |-> f.manager, proxy |-> f.proxy, call |-> f.call,
                       auth |-> FALSE, processCall |-> None,
                       reports |-> [c \in Own |-> 0]])
    IN /\ interference \in Interferences
       /\ manager = w.manager
       /\ proxy = w.proxy
       /\ call = w.call
       /\ auth = w.auth
       /\ processCall = None
       /\ reports = w.reports
       /\ gone = FALSE
       /\ givenUp = {}

Open(c) == call[c].state \in {"queued", "failing", "sent"}

\* process() by an application that is not refused as busy
Process(c) ==
  /\ call[c].state = "none" /\ RegFree
  /\ processCall = None
  /\ (\E p \in givenUp : Open(p)) => May("again")
  /\ Become([Send(World, c) EXCEPT !.processCall = c])
  /\ UNCHANGED givenUp

\* queryAvailableMechanisms() or setId()
Request(c) ==
  /\ call[c].state = "none" /\ RegFree
  /\ Become(Send(World, c))
  /\ UNCHANGED givenUp

\* Variant: a call that was tried is taken for one that waits.
CanceledAlways(w) == w.processCall # None

\* PendingCall::cancel(): it is not too late.
Canceled(w) == w.processCall # None /\ ~w.call[w.processCall].tried

\* cancel() of a call that was never sent; a failure that is posted still comes.
Withdraw ==
  /\ Canceled(World)
  /\ Become([Report(IF call[processCall].state = "queued"
                      THEN Finished(World, processCall) ELSE World,
                    {processCall}) EXCEPT !.processCall = None])
  /\ givenUp' = givenUp \cup {processCall}

\* cancel() otherwise
Cancel(c) ==
  /\ call[c].state = "none" /\ RegFree
  /\ ~Canceled(World)
  /\ Become([Send(World, c) EXCEPT !.processCall = None])
  /\ givenUp' = givenUp \cup ({processCall} \ {None})

-----------------------------------------------------------------------------
\* onRequeueRequested()
Requeued(w, c) ==
  LET v == Enqueue(w, c)
  IN IF c \in Own /\ NeedsPath(v, c) THEN Register(v) ELSE v

\* responseSlot() and mechanismsAvailableSlot()
Succeeded(w, c) ==
  LET v == [w EXCEPT !.processCall = IF c \in ProcessCall THEN None ELSE @]
  IN IF c \in CancelCall THEN v ELSE Report(v, {c})

SessionReply(c, answer) ==
  /\ MayAnswer(World, c, answer)
  /\ answer = "UnknownObject" => ~gone
  /\ answer = "error" /\ c \in Own \ ProcessCall => May("refused")
  /\ \/ /\ Retried(World, c, answer)
        /\ c \in Own => RegFree
        /\ Become(Requeued(World, c))
     \/ /\ ~Retried(World, c, answer) /\ answer # "success"
        /\ Become(Finished(ErrorSlot(World, c), c))
     \/ /\ answer = "success" /\ c \in Own
        /\ Become(Finished(Succeeded(World, c), c))
     \/ /\ answer = "success" /\ c \in Reg
        /\ \E w \in Authenticated(World) : Become(Finished(w, c))
  /\ UNCHANGED givenUp

\* The posted fail() of a call that was made while there was no connection
Fail(c) ==
  /\ call[c].state = "failing"
  /\ Become(Finished(ErrorSlot(World, c), c))
  /\ UNCHANGED givenUp

\* The daemon disposes of the session's object.
ObjectGone ==
  /\ proxy[Main].path = "live" /\ Connected(World)
  /\ manager.ends > 0
  /\ manager' = [manager EXCEPT !.ends = @ - 1]
  /\ proxy' = [proxy EXCEPT ![Main].path = "dead"]
  /\ call' = Lost(call, Own, {"UnknownObject"})
  /\ gone' = TRUE
  /\ UNCHANGED <<auth, processCall, reports, givenUp>>

\* What the object answered has been read.
AfterReading(w) ==
  [w EXCEPT !.call = [c \in Call |->
     IF c \in Own THEN [w.call[c] EXCEPT !.answers = @ \ {"success", "error"}]
                  ELSE w.call[c]]]

\* unregisteredSlot()
Unregistered ==
  /\ gone
  /\ Become(SetObjectPath(AfterReading(World), "none"))
  /\ UNCHANGED givenUp

\* The end of the daemon, which may tell its clients first
SessionEnds ==
  /\ MayEnd(World)
  /\ LET w == DaemonEnds(World)
     IN manager' = w.manager /\ proxy' = w.proxy /\ call' = w.call
  /\ gone' \in {gone, proxy[Main].path \in {"live", "dead"}}
  /\ UNCHANGED <<auth, processCall, reports, givenUp>>

SessionActivated(ok) ==
  /\ MayActivate(World, ok)
  /\ manager' = Activated(World, ok).manager
  /\ UNCHANGED <<proxy, call, auth, processCall, gone, reports, givenUp>>

SessionActivationDone ==
  /\ manager.activation \in {"done", "failed"}
  /\ Become(OnActivationDone(World))
  /\ UNCHANGED givenUp

SessionDisconnected ==
  /\ manager.lost
  /\ Become(OnDisconnected(World))
  /\ UNCHANGED givenUp

-----------------------------------------------------------------------------
SessionNext ==
  /\ UNCHANGED interference
  /\ \/ \E c \in ProcessCall : Process(c)
     \/ \E c \in Own \ ProcessCall : Request(c)
     \/ Withdraw
     \/ \E c \in CancelCall : Cancel(c)
     \/ \E c \in Call : Fail(c) \/ \E answer \in Answer : SessionReply(c, answer)
     \/ ObjectGone \/ Unregistered
     \/ SessionEnds \/ SessionActivationDone \/ SessionDisconnected
     \/ \E ok \in BOOLEAN : SessionActivated(ok)

\* What happens without the application and without anything ending
SessionProgress ==
  /\ UNCHANGED interference
  /\ \/ \E c \in Call : Fail(c) \/ \E answer \in Answer : SessionReply(c, answer)
     \/ Unregistered \/ SessionActivationDone \/ SessionDisconnected
     \/ \E ok \in BOOLEAN : SessionActivated(ok)

\* Events are delivered, the bus answers, and whoever has a call answers it: as long as
\* there is anything of that to be done, some of it is.
SessionSpec == SessionInit /\ [][SessionNext]_sessionVars /\ WF_sessionVars(SessionProgress)

-----------------------------------------------------------------------------
\* Properties

\* The application hears of each process() and query once, whichever way it ended:
\* by an answer, an error, cancel(), a lost connection or a registration that failed.
ReportedOnce ==
  \A c \in Own \ CancelCall :
    /\ reports[c] <= 1
    /\ call[c].state = "done" => reports[c] = 1

\* While a process() call that was not cancelled is open the next is refused as busy,
\* so that a response is that of the last process().
OneProcessAtATime ==
  \A c, d \in ProcessCall \ givenUp : Open(c) /\ Open(d) => c = d

\* m_isAuthInProcessing: the daemon is asked for one session object at a time, and
\* never while there is one.
OneRegistration ==
  /\ \A r, s \in Reg : call[r].state # "none" /\ call[s].state # "none" => r = s
  /\ (\E r \in Reg : call[r].state # "none") => proxy[Main].path = "none"

\* m_isAuthInProcessing never outlives the registration it stands for, whatever ends in
\* whichever order: the session would never ask for another and its calls would hang.
RegistrationUnderway == auth => \E r \in Reg : call[r].state # "none"

\* The session asks for one object as long as its daemon stays, and whoever waits for it waits
\* for a registration that is under way; each call is reported once as long as the daemon stays;
\* and there is one process() at a time as long as no call is refused besides.
SessionInv ==
  /\ SessionTypeOK /\ RegistrationUnderway
  /\ Without({"ends"}) => ReportedOnce /\ OneRegistration
  /\ Without({"ends", "refused", "again"}) => OneProcessAtATime

\* Nothing that the application asked for stays in a queue for ever, as long as the daemon can
\* be started and does not break a connection of the session's own.
SessionWaits(c) ==
  Open(c) /\ Without({"activation"}) /\ (Without({"ends"}) \/ ~manager.peerBus)
SessionCallsEnd == \A c \in Own : SessionWaits(c) ~> ~SessionWaits(c)
=============================================================================
