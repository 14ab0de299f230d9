------------------------------ MODULE SessionCore ------------------------------
(***************************************************************************)
(* One SignonSessionCore: the queue of authentication requests of all the  *)
(* sessions that share an identity and a method, the plug-in that serves   *)
(* them (PluginProxy) and the dialog service it may need (signon-ui).      *)
(*                                                                         *)
(* Everything runs on the daemon's event loop, one handler at a time:      *)
(* D-Bus calls (Process, Cancel), events posted to the core and delivered  *)
(* in order (StartNewRequest, QueryUiSlot), responses and the exit of the  *)
(* child process (ReadResponse, OnExit), and the disposal of idle objects  *)
(* (Destroy).  The handlers may run in any order that keeps posted events  *)
(* in theirs.                                                              *)
(***************************************************************************)
EXTENDS PluginProxy, FiniteSets

CONSTANTS
  Session,        \* AuthSession objects; their names are the cancel keys
  Owner,          \* the session a request is made on
  Cancellable,    \* sessions whose clients may cancel
  HasIdentity,    \* m_id is not 0: the credentials are stored
  StorageLocked,  \* identity validated, secrets storage not open
  InitiallyReady  \* was the credentials system ready from the start

ASSUME CoreAssumption ==
  /\ Owner \in [Req -> Session]
  /\ Cancellable \subseteq Session
  /\ HasIdentity \in BOOLEAN
  /\ StorageLocked \in BOOLEAN
  /\ InitiallyReady \in BOOLEAN

VARIABLES
  queue,           \* m_listOfRequests
  requestIsActive, \* m_requestIsActive
  canceled,        \* m_canceled
  watcher,         \* m_watcher: absent, pending, or holding signon-ui's reply
  uiDisplayed,     \* m_queryCredsUiDisplayed
  tmpCreds,        \* whose user name and password m_tmp* hold
  posted,          \* events posted to the core, in order
  autoDestruct,    \* SignonDisposable::autoDestruct
  alive,           \* the object exists
  credsReady       \* CredentialsAccessManager::isCredentialsSystemReady()

\* History variables, read by no guard of the code.
VARIABLES
  sent,            \* requests in the order in which they arrived
  cancelSent,      \* requests whose client has called cancel()
  started,         \* requests that have been given to the plug-in
  replies,         \* replies sent to each request, and what each came from
  uiFor,           \* the request the dialog behind the watcher is for
  openUi,          \* requests with a dialog not known to be closed
  storageEvents    \* requests answered with a secure storage event

coreVars == <<queue, requestIsActive, canceled, watcher, uiDisplayed,
              tmpCreds, posted, autoDestruct, alive, credsReady>>
ghostVars == <<sent, cancelSent, started, replies, uiFor, openUi,
               storageEvents>>
vars == <<proxyVars, coreVars, ghostVars>>

UiReply == {"accept", "refresh", "failed"}
Reply == [kind : {"result", "error", "canceled"}, of : Req \cup {NoReq}]

CoreTypeOK ==
  /\ queue \in Seq(Req)
  /\ requestIsActive \in BOOLEAN
  /\ canceled \in BOOLEAN
  /\ watcher \in {"none", "pending"} \cup UiReply
  /\ uiDisplayed \in BOOLEAN
  /\ tmpCreds \in Req \cup {NoReq}
  /\ posted \in Seq({"start", "ui"})
  /\ autoDestruct \in BOOLEAN
  /\ alive \in BOOLEAN
  /\ credsReady \in BOOLEAN

GhostTypeOK ==
  /\ sent \in Seq(Req)
  /\ cancelSent \subseteq Req
  /\ started \subseteq Req
  /\ replies \in [Req -> Seq(Reply)]
  /\ uiFor \in Req \cup {NoReq}
  /\ openUi \subseteq Req
  /\ storageEvents \subseteq Req

\* Every variable has its type; a watcher belongs to some request.
TypeOK ==
  /\ ProxyTypeOK
  /\ CoreTypeOK
  /\ GhostTypeOK
  /\ uiFor = NoReq <=> watcher = "none"

Init ==
  /\ ProxyInit
  /\ queue = <<>>
  /\ requestIsActive = FALSE
  /\ canceled = FALSE
  /\ watcher = "none"
  /\ uiDisplayed = FALSE
  /\ tmpCreds = NoReq
  /\ posted = <<>>
  /\ autoDestruct = TRUE
  /\ alive = TRUE
  /\ credsReady = InitiallyReady
  /\ sent = <<>>
  /\ cancelSent = {}
  /\ started = {}
  /\ replies = [r \in Req |-> <<>>]
  /\ uiFor = NoReq
  /\ openUi = {}
  /\ storageEvents = {}

-------------------------------------------------------------------------------
(* Helpers                                                                  *)

Answered(r) == replies[r] # <<>>

AddReply(r, kind, of) ==
  replies' = [replies EXCEPT ![r] = Append(@, [kind |-> kind, of |-> of])]

\* cancelUiRequest() names the dialog by the session's key.
DialogsOf(r) == {q \in openUi : Owner[q] = Owner[r]}

\* A session's client has one call of process() open at a time, and cancels
\* the last one it made (AuthSessionImpl::m_processCall).
LastOf(s, r) ==
  \E i \in DOMAIN sent :
    /\ sent[i] = r
    /\ Owner[r] = s
    /\ \A j \in DOMAIN sent : j > i => Owner[sent[j]] # s

SessionFree(s) ==
  \A q \in ToSet(sent) : Owner[q] = s => q \in cancelSent \/ Answered(q)

-------------------------------------------------------------------------------
(* D-Bus calls on the sessions                                              *)

\* Variant of posting after process(): the test inverted.
PostIfNotReady == IF credsReady THEN posted ELSE Append(posted, "start")

PostIfReady == IF credsReady THEN Append(posted, "start") ELSE posted

\* process(): enqueue, and start if the credentials system is ready.
Process(r) ==
  /\ alive
  /\ r \notin ToSet(sent)
  /\ SessionFree(Owner[r])
  /\ sent' = Append(sent, r)
  /\ queue' = Append(queue, r)
  /\ posted' = PostIfReady
  /\ UNCHANGED <<proxyVars, requestIsActive, canceled, watcher, uiDisplayed,
                 tmpCreds, autoDestruct, alive, credsReady, cancelSent, started,
                 replies, uiFor, openUi, storageEvents>>

\* The first request that was made with this cancel key.
Position(s) ==
  CHOOSE i \in DOMAIN queue :
    /\ Owner[queue[i]] = s
    /\ \A j \in 1 .. i - 1 : Owner[queue[j]] # s

\* Variant: the watcher is deleted and m_watcher keeps pointing to it.
CancelActiveDangling(i) ==
  /\ requestIsActive
  /\ i = 1
  /\ canceled' = TRUE
  /\ ProxyCancel(queue[i])
  /\ uiFor' = NoReq
  /\ openUi' = openUi \ DialogsOf(queue[i])
  /\ UNCHANGED <<queue, watcher>>

\* A request that is being processed stays in the queue until the plug-in
\* has answered; its dialog is closed at once.
CancelActive(i) ==
  /\ requestIsActive
  /\ i = 1
  /\ canceled' = TRUE
  /\ ProxyCancel(queue[i])
  /\ IF watcher = "pending"
     THEN /\ watcher' = "none"
          /\ uiFor' = NoReq
          /\ openUi' = openUi \ DialogsOf(queue[i])
     ELSE UNCHANGED <<watcher, uiFor, openUi>>
  /\ UNCHANGED queue

CancelQueued(i) ==
  /\ ~(requestIsActive /\ i = 1)
  /\ queue' = RemoveAt(queue, i)
  /\ UNCHANGED <<proxyVars, canceled, watcher, uiFor, openUi>>

\* cancel(): the client means r, the code looks for its session's key.
Cancel(r) ==
  /\ alive
  /\ Owner[r] \in Cancellable
  /\ LastOf(Owner[r], r)
  /\ r \notin cancelSent
  /\ cancelSent' = cancelSent \cup {r}
  /\ IF \E i \in DOMAIN queue : Owner[queue[i]] = Owner[r]
     THEN LET i == Position(Owner[r])
          IN  /\ CancelActive(i) \/ CancelQueued(i)
              /\ AddReply(queue[i], "canceled", NoReq)
     ELSE UNCHANGED <<proxyVars, queue, canceled, watcher, replies, uiFor, openUi>>
  /\ UNCHANGED <<requestIsActive, uiDisplayed, tmpCreds, posted, autoDestruct,
                 alive, credsReady, sent, started, storageEvents>>

\* credentialsSystemReady(), once the secrets can be read.
CredentialsSystemReady ==
  /\ ~credsReady
  /\ credsReady' = TRUE
  /\ posted' = IF alive THEN Append(posted, "start") ELSE posted
  /\ UNCHANGED <<proxyVars, queue, requestIsActive, canceled, watcher,
                 uiDisplayed, tmpCreds, autoDestruct, alive, ghostVars>>

-------------------------------------------------------------------------------
(* startNewRequest(), delivered from the event queue                        *)

NothingToStart ==
  /\ queue = <<>>
  /\ autoDestruct' = TRUE
  /\ UNCHANGED <<proxyVars, queue, requestIsActive, tmpCreds, started, replies>>
  /\ posted' = Tail(posted)

AlreadyBusy ==
  /\ queue # <<>>
  /\ requestIsActive \/ watcher = "pending"
  /\ posted' = Tail(posted)
  /\ UNCHANGED <<proxyVars, queue, requestIsActive, tmpCreds, autoDestruct,
                 started, replies>>

\* Variant: m_requestIsActive is not looked at.
StartProcessAnyway ==
  /\ queue # <<>>
  /\ watcher # "pending"
  /\ ProxyProcess(Head(queue))
  /\ requestIsActive' = TRUE
  /\ tmpCreds' = Head(queue)
  /\ started' = started \cup {Head(queue)}
  /\ autoDestruct' = FALSE
  /\ posted' = Tail(posted)
  /\ UNCHANGED <<queue, replies>>

\* Variant: setAutoDestruct(false) is forgotten.
StartProcessDisposable ==
  /\ queue # <<>>
  /\ ~requestIsActive
  /\ watcher # "pending"
  /\ ProxyProcess(Head(queue))
  /\ requestIsActive' = TRUE
  /\ tmpCreds' = Head(queue)
  /\ started' = started \cup {Head(queue)}
  /\ posted' = Tail(posted)
  /\ UNCHANGED <<queue, replies, autoDestruct>>

\* startProcess(), the plug-in taking the request
StartProcess ==
  /\ queue # <<>>
  /\ ~requestIsActive
  /\ watcher # "pending"
  /\ ProxyProcess(Head(queue))
  /\ requestIsActive' = TRUE
  /\ tmpCreds' = Head(queue)
  /\ started' = started \cup {Head(queue)}
  /\ autoDestruct' = FALSE
  /\ posted' = Tail(posted)
  /\ UNCHANGED <<queue, replies>>

\* Variant: the error is sent and the request stays.
StartFailsKeeping ==
  /\ queue # <<>>
  /\ ~requestIsActive
  /\ watcher # "pending"
  /\ RestartFails
  /\ AddReply(Head(queue), "error", NoReq)
  /\ tmpCreds' = Head(queue)
  /\ autoDestruct' = FALSE
  /\ posted' = Append(Tail(posted), "start")
  /\ UNCHANGED <<queue, requestIsActive, started>>

\* startProcess(), the plug-in process not running and not restarting
StartFails ==
  /\ queue # <<>>
  /\ ~requestIsActive
  /\ watcher # "pending"
  /\ RestartFails
  /\ AddReply(Head(queue), "error", NoReq)
  /\ tmpCreds' = Head(queue)
  /\ queue' = Tail(queue)
  /\ requestIsActive' = FALSE
  /\ autoDestruct' = FALSE
  /\ posted' = Append(Tail(posted), "start")
  /\ UNCHANGED started

\* Variant: a cancellation is never forgotten.
KeepCanceled == UNCHANGED canceled

ResetCanceled == canceled' = FALSE

StartNewRequest ==
  /\ alive
  /\ posted # <<>>
  /\ Head(posted) = "start"
  /\ ResetCanceled
  /\ NothingToStart \/ AlreadyBusy \/ StartProcess \/ StartFails
  /\ UNCHANGED <<watcher, uiDisplayed, alive, credsReady, sent, cancelSent,
                 uiFor, openUi, storageEvents>>

-------------------------------------------------------------------------------
(* Signals of the plug-in proxy, called directly from its handlers          *)

\* Variants: the newest request leaves, or the next one is not looked for.
RequestDoneNewest ==
  /\ queue' = Front(queue)
  /\ requestIsActive' = FALSE
  /\ posted' = Append(posted, "start")
RequestDoneSilently ==
  /\ queue' = Tail(queue)
  /\ requestIsActive' = FALSE
  /\ UNCHANGED posted

RequestDone ==
  /\ queue' = Tail(queue)
  /\ requestIsActive' = FALSE
  /\ posted' = Append(posted, "start")

\* Variant of the end of a request: signon-ui is not told.
CloseNothing == UNCHANGED openUi /\ uiDisplayed' = FALSE

CloseUi ==
  /\ openUi' = IF uiDisplayed THEN openUi \ DialogsOf(Head(queue)) ELSE openUi
  /\ uiDisplayed' = FALSE

\* Reply to the head, drop a dialog that is still pending, and tell signon-ui
\* that the request is done with if a dialog was shown.
Conclude(kind, of) ==
  /\ AddReply(Head(queue), kind, of)
  /\ IF watcher = "pending"
     THEN watcher' = "none" /\ uiFor' = NoReq
     ELSE UNCHANGED <<watcher, uiFor>>
  /\ CloseUi

NoReply == UNCHANGED <<replies, watcher, uiFor, openUi, uiDisplayed>>

\* The secrets could not be stored: ask for the storage to be opened, but only
\* after a dialog.
StorageEvent ==
  storageEvents' = IF HasIdentity /\ StorageLocked /\ uiDisplayed
                   THEN storageEvents \cup {Head(queue)}
                   ELSE storageEvents

ProcessResultReply(of) ==
  IF queue = <<>>
  THEN NoReply /\ UNCHANGED <<queue, requestIsActive, posted, tmpCreds, storageEvents>>
  ELSE /\ RequestDone
       /\ IF canceled
          THEN NoReply /\ UNCHANGED <<tmpCreds, storageEvents>>
          ELSE /\ StorageEvent
               /\ tmpCreds' = NoReq
               /\ Conclude("result", of)

ProcessError(of) ==
  /\ tmpCreds' = NoReq
  /\ IF queue = <<>>
     THEN NoReply /\ UNCHANGED <<queue, requestIsActive, posted>>
     ELSE /\ RequestDone
          /\ IF canceled THEN NoReply ELSE Conclude("error", of)
  /\ UNCHANGED storageEvents

ProcessStore ==
  /\ IF HasIdentity
     THEN /\ uiDisplayed' = FALSE
          /\ IF queue # <<>> THEN StorageEvent ELSE UNCHANGED storageEvents
     ELSE UNCHANGED <<uiDisplayed, storageEvents>>
  /\ UNCHANGED <<queue, requestIsActive, posted, tmpCreds, replies, watcher,
                 uiFor, openUi>>

\* processUiRequest() and processRefreshRequest(): a dialog for the head of
\* the queue; an older one is closed if it is still open, forgotten if not.
OpenDialog ==
  /\ IF canceled \/ queue = <<>>
     THEN UNCHANGED <<watcher, uiFor, openUi, uiDisplayed, posted>>
     ELSE /\ watcher' = "pending"
          /\ uiFor' = Head(queue)
          /\ openUi' = openUi \cup {Head(queue)}
          /\ uiDisplayed' = TRUE
          /\ posted' = RemoveFirst(posted, "ui")
  /\ UNCHANGED <<queue, requestIsActive, tmpCreds, replies, storageEvents>>

SignalIgnored ==
  UNCHANGED <<queue, requestIsActive, posted, tmpCreds, replies, watcher,
              uiFor, openUi, uiDisplayed, storageEvents>>

handlerFrame == <<canceled, autoDestruct, alive, credsReady, sent, cancelSent,
                  started>>

\* handlePluginResponse(), with the session core's slot for the signal.
ReadResponse ==
  /\ alive
  /\ fromPlugin # <<>>
  /\ LET resp == Head(fromPlugin)
     IN  \/ TakeFinal(resp) /\ isResultObtained /\ SignalIgnored
         \/ /\ TakeFinal(resp)
            /\ ~isResultObtained
            /\ \/ resp.kind = "result" /\ ProcessResultReply(resp.req)
               \/ resp.kind = "error" /\ ProcessError(resp.req)
         \/ /\ resp.kind \in {"store", "ui", "refreshed"}
            /\ isResultObtained
            /\ TakeOther(resp)
            /\ SignalIgnored
         \/ /\ ~isResultObtained
            /\ TakeOther(resp)
            /\ \/ resp.kind = "store" /\ ProcessStore
               \/ resp.kind = "ui" /\ uiPolicy /\ OpenDialog
               \/ resp.kind = "refreshed" /\ OpenDialog
         \/ /\ ~isResultObtained
            /\ resp.kind = "ui"
            /\ ~uiPolicy
            /\ RefuseUi(resp)
            /\ SignalIgnored
  /\ UNCHANGED handlerFrame

\* blobIOError()
BrokenResponse ==
  /\ alive
  /\ fromPlugin # <<>>
  /\ TakeBroken(Head(fromPlugin))
  /\ ProcessError(NoReq)
  /\ UNCHANGED handlerFrame

OnExit ==
  /\ alive
  /\ TakeExit
  /\ IF ExitIsError THEN ProcessError(NoReq) ELSE SignalIgnored
  /\ UNCHANGED handlerFrame

-------------------------------------------------------------------------------
(* The dialog                                                               *)

\* signon-ui replies: the watcher is finished, its slot is called by an event.
\* A refresh uses up one of the dialogs the bound allows.
SignonUiReplies(reply) ==
  /\ alive
  /\ watcher = "pending"
  /\ IF reply = "refresh"
     THEN dialogs < MaxUi /\ dialogs' = dialogs + 1
     ELSE UNCHANGED dialogs
  /\ watcher' = reply
  /\ posted' = Append(posted, "ui")
  /\ openUi' = IF reply = "failed" THEN openUi \ {uiFor} ELSE openUi
  /\ UNCHANGED <<isProcessing, isResultObtained, uiPolicy, process, toPlugin,
                 fromPlugin, plugin, faults, queue, requestIsActive, canceled,
                 uiDisplayed, tmpCreds, autoDestruct, alive, credsReady, sent,
                 cancelSent, started, replies, uiFor, storageEvents>>

\* queryUiSlot() with a request in the queue: its parameters are replaced by
\* the reply, which goes on to the plug-in unless the request was cancelled.
ForwardUiReply ==
  /\ queue # <<>>
  /\ uiDisplayed' = (uiDisplayed /\ watcher # "failed")
  /\ IF canceled
     THEN UNCHANGED <<proxyVars, tmpCreds>>
     ELSE /\ tmpCreds' = IF watcher = "failed" THEN Head(queue) ELSE uiFor
          /\ ProxyContinue(IF watcher = "refresh" THEN "refresh" ELSE "processUi",
                           uiFor)
  /\ UNCHANGED alive

\* Q_ASSERT_X: an empty queue ends the daemon.
AssertQueueNotEmpty ==
  /\ queue = <<>>
  /\ alive' = FALSE
  /\ UNCHANGED <<proxyVars, tmpCreds, uiDisplayed>>

QueryUiSlot ==
  /\ alive
  /\ posted # <<>>
  /\ Head(posted) = "ui"
  /\ ForwardUiReply \/ AssertQueueNotEmpty
  /\ watcher' = "none"
  /\ uiFor' = NoReq
  /\ posted' = Tail(posted)
  /\ UNCHANGED <<queue, requestIsActive, canceled, autoDestruct, credsReady,
                 sent, cancelSent, started, replies, openUi, storageEvents>>

-------------------------------------------------------------------------------
(* Disposal of an idle core                                                 *)

\* The inactivity timeout is far longer than the delivery of a posted event or
\* of the plug-in's output.
Destroy ==
  /\ alive
  /\ autoDestruct
  /\ posted = <<>>
  /\ fromPlugin = <<>>
  /\ process \in {"running", "stopped"}
  /\ ~requestIsActive
  /\ watcher = "none"
  /\ alive' = FALSE
  /\ UNCHANGED <<proxyVars, queue, requestIsActive, canceled, watcher,
                 uiDisplayed, tmpCreds, posted, autoDestruct, credsReady, ghostVars>>

-------------------------------------------------------------------------------
\* A posted event is delivered in the current or the next turn of the event
\* loop, sooner than the child can read an operation written meanwhile and
\* answer it; output that is already on its way may come first.
Turn == posted = <<>>

Child ==
  /\ alive
  /\ (Turn /\ ChildReads) \/ PluginAnswers \/ PluginAsksUser \/ ChildCrashes
  /\ UNCHANGED <<coreVars, ghostVars>>

Next ==
  \/ \E r \in Req : Process(r) \/ Cancel(r)
  \/ CredentialsSystemReady
  \/ StartNewRequest
  \/ ReadResponse
  \/ BrokenResponse
  \/ OnExit
  \/ \E reply \in UiReply : SignonUiReplies(reply)
  \/ QueryUiSlot
  \/ Destroy
  \/ Child

Spec == Init /\ [][Next]_vars

\* The event loop delivers what is posted, the child reads its input, the
\* plug-in and the user come to an answer.
ChildStep(A) == alive /\ A /\ UNCHANGED <<coreVars, ghostVars>>

Fairness ==
  /\ WF_vars(CredentialsSystemReady)
  /\ WF_vars(StartNewRequest)
  /\ WF_vars(QueryUiSlot)
  /\ WF_vars(ReadResponse)
  /\ WF_vars(OnExit)
  /\ WF_vars(\E reply \in UiReply : SignonUiReplies(reply))
  /\ WF_vars(ChildStep(Turn /\ ChildReads))
  /\ WF_vars(ChildStep(PluginAnswers))

FairSpec == Spec /\ Fairness

-------------------------------------------------------------------------------
(* Safety                                                                   *)

\* Once the credentials can be read, a queue with nothing being processed
\* always has a startNewRequest() on its way: no request is left waiting
\* for an event that will not come (process(), requestDone() and the early
\* returns of startNewRequest()).
NoStall ==
  alive /\ credsReady /\ queue # <<>> /\ ~requestIsActive
    => "start" \in ToSet(posted)

\* Once the credentials can be read, the disposal of idle objects never takes a core that
\* still holds requests (destroy() looks at m_requestIsActive and m_watcher, not at the
\* queue).
DestroyLosesNothing ==
  [][alive /\ ~alive' /\ credsReady => queue = <<>>]_vars

\* When destroyUnused() finds a core to dispose of, destroy() does not decline: it would
\* take it from its list all the same, and never look at it again.
DestroyNeverDeclines ==
  alive /\ autoDestruct /\ posted = <<>> => ~requestIsActive /\ watcher # "pending"

\* Nothing has failed and nobody has called cancel().
Undisturbed == faults = 0 /\ cancelSent = {}

\* No dialog is ever opened for a request whose policy forbids it, although
\* the policy is a member of the proxy that outlives the request.
UiPolicyRespected == Undisturbed => openUi \cap NoUi = {}

\* Nothing is given to the plug-in before the secrets can be read: requests
\* wait in the queue for credentialsSystemReady().
WaitsForCredentials == started # {} => credsReady

\* The result sent to a client is the one the plug-in made for its request, as long as
\* nothing fails and nothing is cancelled: responses carry no identifier and go to whatever
\* is at the head.
ResultFromOwnRequest ==
  Undisturbed => \A r \in Req : \A i \in DOMAIN replies[r] :
    replies[r][i].kind = "result" => replies[r][i].of = r

\* No request is answered twice (processResultReply(), processError(),
\* startProcess(), cancel()).
AnsweredOnce == \A r \in Req : Len(replies[r]) <= 1

\* The dialog behind the watcher was opened for the request being processed;
\* queryUiSlot() writes its reply over that request's parameters.
WatcherServesHead ==
  Undisturbed /\ watcher # "none" => requestIsActive /\ uiFor = Head(queue)

\* The user name and password kept for storing, once the plug-in accepts
\* them, are those of the request being processed.
CredsOfHead == Undisturbed /\ requestIsActive => tmpCreds \in {NoReq, Head(queue)}

\* Nothing of one request reaches another, as long as nothing has failed and nobody has
\* cancelled: not its result, its credentials, its dialog or its policy.
RequestsKeptApart ==
  ResultFromOwnRequest /\ CredsOfHead /\ WatcherServesHead /\ UiPolicyRespected

\* A core starts requests only once the credentials system is ready, and is asked to go only
\* when it does not decline.
CoreActsInTime == WaitsForCredentials /\ DestroyNeverDeclines

\* A secure storage event is posted only for a request that was preceded by a
\* dialog (the comment on m_queryCredsUiDisplayed): without one the user is
\* not bothered with opening the storage.
StorageEventAfterQuery ==
  [][Undisturbed => \A r \in storageEvents' \ storageEvents : r \in openUi]_vars

\* signon-ui is told to close the dialog of every request that has left the
\* queue.
UiClosedWhenDone == openUi \subseteq ToSet(queue)

\* queryUiSlot() finds a request in the queue (its Q_ASSERT_X).
UiReplyHasRequest == watcher \in UiReply => queue # <<>>

\* The next request is started only when the cancellation of the previous
\* one is over.
NextWaitsForCancellation ==
  requestIsActive =>
    \A i \in DOMAIN toPlugin :
      toPlugin[i].op = "cancel" => toPlugin[i].req = Head(queue)

\* Whoever cancels a request gets an answer to it.
CancelAnswersItsRequest == \A r \in cancelSent : Answered(r)

\* No dialog is opened for a request that has already been answered.
NoUiAfterCancel == [][\A r \in openUi' \ openUi : ~Answered(r)]_vars

-------------------------------------------------------------------------------
(* Liveness                                                                 *)

\* Every request that waits when the credentials can be read, or comes later, is answered
\* in the end.
EventuallyAnswered ==
  \A r \in Req : r \in ToSet(queue) /\ alive /\ credsReady ~> Answered(r)

-------------------------------------------------------------------------------
(* The core implements the queue it promises: one request at a time, in the *)
(* order of arrival, none twice.                                            *)
RQ == INSTANCE RequestQueue WITH
        waiting <- IF requestIsActive THEN Tail(queue) ELSE queue,
        running <- IF requestIsActive THEN Head(queue) ELSE NoReq,
        done    <- ToSet(sent) \ ToSet(queue)

\* Every step of the core is a step of RequestQueue or leaves it alone,
\* whatever is cancelled and whatever becomes of the plug-in process.
ImplementsRequestQueue == RQ!Spec
===============================================================================
