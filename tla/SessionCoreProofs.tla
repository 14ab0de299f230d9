--------------------------- MODULE SessionCoreProofs ---------------------------
(***************************************************************************)
(* What SessionCore guarantees for any requests, sessions and bounds:      *)
(*                                                                         *)
(*   TypeCorrect       the type invariant is inductive                     *)
(*   QueueCorrect      the queue: order, no repetition, the active request *)
(*                     at its head                                         *)
(*   QueueRefinement   the core implements RequestQueue                    *)
(*   NoSecondAnswer    no request is answered twice, if none is cancelled  *)
(*   NoRequestStalls   a waiting request has its start event on the way    *)
(*   DestroyIsSafe     no core is disposed of with requests in its queue   *)
(*   ActsInTime        nothing starts early, no disposal is declined       *)
(*   DialogsAreClosed  a request leaves with its dialog closed             *)
(*   KeptApart         nothing of one request reaches another              *)
(*                                                                         *)
(* The lemmas about types follow the code: what the proxy's operators do   *)
(* to its own members, then the slots of its signals, then each handler.   *)
(* Every step has one of five effects on the queue (QueueStep), and three  *)
(* theorems follow from that alone.                                        *)
(*                                                                         *)
(* The second half is about how the requests are served.  It needs to know *)
(* what keeps a request going once it has been started, and that the       *)
(* remains of a crash are quiet until the next one has started             *)
(* (ServingInv); KeptApart says where in the pipes, the plug-in and the    *)
(* dialog the one request at work is (Stage).                              *)
(***************************************************************************)
EXTENDS SessionCore, SeqLemmas

-------------------------------------------------------------------------------
(* Types                                                                    *)

\* The assumptions on the constants, as the proofs use them.
LEMMA ConstantFacts ==
  /\ NoReq \notin Req
  /\ Owner \in [Req -> Session]
  /\ InitiallyReady \in BOOLEAN
BY ProxyAssumption, CoreAssumption

\* A reply sent to a request is a reply.
LEMMA AddReplyType ==
  ASSUME replies \in [Req -> Seq(Reply)],
         NEW r \in Req, NEW kind \in {"result", "error", "canceled"},
         NEW of \in Req \cup {NoReq}, AddReply(r, kind, of)
  PROVE  replies' \in [Req -> Seq(Reply)]
<1> DEFINE reply == [kind |-> kind, of |-> of]
<1>1. reply \in Reply
  BY DEF Reply
<1> HIDE DEF reply
<1>2. Append(replies[r], reply) \in Seq(Reply)
  BY <1>1, AppendProperties
<1>3. replies' = [replies EXCEPT ![r] = Append(replies[r], reply)]
  BY DEF AddReply, reply
<1>4. QED
  BY <1>2, <1>3

\* cancel() finds a request of the session whose key it looks for.
LEMMA PositionProperties ==
  ASSUME queue \in Seq(Req), NEW s,
         \E i \in DOMAIN queue : Owner[queue[i]] = s
  PROVE  /\ Position(s) \in DOMAIN queue
         /\ Owner[queue[Position(s)]] = s
<1> DEFINE I == {i \in DOMAIN queue : Owner[queue[i]] = s}
<1>1. DOMAIN queue = 1 .. Len(queue) /\ Len(queue) \in Nat
  BY LenProperties
<1>2. PICK m \in I : \A j \in I : m <= j
  <2>1. I \in SUBSET Nat /\ I # {}
    BY <1>1
  <2> HIDE DEF I
  <2>2. QED
    BY <2>1, LeastNatural
<1>3. /\ m \in DOMAIN queue
      /\ Owner[queue[m]] = s
      /\ \A j \in 1 .. m - 1 : Owner[queue[j]] # s
  BY <1>1, <1>2
<1>4. QED
  BY <1>3 DEF Position

\* A core that has just been created is well typed.
LEMMA InitType == Init => TypeOK
<1> SUFFICES ASSUME Init PROVE TypeOK
  OBVIOUS
<1>1. ProxyTypeOK
  BY EmptySeq DEF Init, ProxyInit, ProxyTypeOK, Idle
<1>2. CoreTypeOK
  BY ConstantFacts, EmptySeq DEF Init, CoreTypeOK
<1>3. GhostTypeOK
  BY EmptySeq DEF Init, GhostTypeOK
<1>4. QED
  BY <1>1, <1>2, <1>3 DEF Init, TypeOK

\* An operation written to the plug-in is an operation, and a restarted
\* plug-in starts idle.
LEMMA WriteType ==
  ASSUME ProxyTypeOK, NEW r \in Req \cup {NoReq},
         NEW op \in {"process", "processUi", "refresh", "cancel", "stop"}
  PROVE  /\ Write(op, r) => toPlugin' \in Seq(Operation)
         /\ WriteRestarting(op, r) =>
              /\ toPlugin' \in Seq(Operation)
              /\ process' \in {"running", "exited", "crashed", "stopped"}
              /\ plugin' \in [req : Req \cup {NoReq},
                             doing : {"nothing", "working", "ui"}]
<1> DEFINE operation == [op |-> op, req |-> r]
<1>1. operation \in Operation
  BY DEF Operation
<1> HIDE DEF operation
<1>2. /\ Append(toPlugin, operation) \in Seq(Operation)
      /\ <<operation>> \in Seq(Operation)
  BY <1>1, AppendProperties DEF ProxyTypeOK
<1>3. Write(op, r) => toPlugin' \in Seq(Operation)
  BY <1>2 DEF Write, ProxyTypeOK, operation
<1>4. WriteRestarting(op, r) => toPlugin' \in Seq(Operation)
  BY <1>2, <1>3 DEF WriteRestarting, operation
<1>5. Idle \in [req : Req \cup {NoReq}, doing : {"nothing", "working", "ui"}]
  BY DEF Idle
<1>6. WriteRestarting(op, r) =>
        /\ process' \in {"running", "exited", "crashed", "stopped"}
        /\ plugin' \in [req : Req \cup {NoReq},
                       doing : {"nothing", "working", "ui"}]
  BY <1>5 DEF WriteRestarting, ProxyTypeOK
<1>7. QED
  BY <1>3, <1>4, <1>6

\* A response written by the plug-in is a response.
LEMMA EmitType ==
  ASSUME ProxyTypeOK, NEW r \in Req \cup {NoReq},
         NEW kind \in {"result", "error", "store", "ui", "refreshed"},
         Emit(kind, r)
  PROVE  fromPlugin' \in Seq(Response)
<1> DEFINE response == [kind |-> kind, req |-> r]
<1>1. response \in Response
  BY DEF Response
<1> HIDE DEF response
<1>2. Append(fromPlugin, response) \in Seq(Response)
  BY <1>1, AppendProperties DEF ProxyTypeOK
<1>3. QED
  BY <1>2 DEF Emit, response

\* The response read next is a response.
LEMMA HeadResponse ==
  ASSUME ProxyTypeOK, fromPlugin # <<>>
  PROVE  /\ Head(fromPlugin) \in Response
         /\ Head(fromPlugin).req \in Req \cup {NoReq}
         /\ Tail(fromPlugin) \in Seq(Response)
<1>1. Head(fromPlugin) \in Response /\ Tail(fromPlugin) \in Seq(Response)
  BY HeadTailProperties DEF ProxyTypeOK
<1>2. QED
  BY <1>1 DEF Response

\* The calls the core makes on the proxy keep the types of its members.
LEMMA CallsKeepProxyType ==
  ASSUME ProxyTypeOK, NEW r \in Req \cup {NoReq},
         NEW op \in {"processUi", "refresh"},
         \/ ProxyProcess(r) \/ ProxyContinue(op, r) \/ ProxyCancel(r)
         \/ RestartFails
  PROVE  ProxyTypeOK'
<1>1. CASE ProxyProcess(r)
  BY <1>1, WriteType DEF ProxyProcess, ProxyTypeOK
<1>2. CASE RestartFails
  BY <1>2 DEF RestartFails, Fault, ProxyTypeOK
<1>3. CASE ProxyContinue(op, r)
  BY <1>2, <1>3, WriteType DEF ProxyContinue, ProxyTypeOK
<1>4. CASE ProxyCancel(r)
  BY <1>4, WriteType DEF ProxyCancel, ProxyTypeOK
<1>5. QED
  BY <1>1, <1>2, <1>3, <1>4

\* So does the handling of a response, of broken data and of an exit.
LEMMA ResponsesKeepProxyType ==
  ASSUME ProxyTypeOK,
         \/ /\ fromPlugin # <<>>
            /\ \/ TakeFinal(Head(fromPlugin))
               \/ TakeOther(Head(fromPlugin))
               \/ RefuseUi(Head(fromPlugin))
               \/ TakeBroken(Head(fromPlugin))
         \/ TakeExit
  PROVE  ProxyTypeOK'
<1>1. CASE fromPlugin # <<>> /\ TakeFinal(Head(fromPlugin))
  BY <1>1, HeadResponse DEF TakeFinal, ProxyTypeOK
<1>2. CASE fromPlugin # <<>> /\ TakeOther(Head(fromPlugin))
  BY <1>2, HeadResponse DEF TakeOther, ProxyTypeOK
<1>3. CASE fromPlugin # <<>> /\ RefuseUi(Head(fromPlugin))
  BY <1>3, HeadResponse, WriteType DEF RefuseUi, ProxyTypeOK
<1>4. CASE fromPlugin # <<>> /\ TakeBroken(Head(fromPlugin))
  <2>1. fromPlugin' \in Seq(Response)
    BY <1>4, HeadResponse, EmptySeq DEF TakeBroken
  <2>2. toPlugin' \in Seq(Operation)
    BY <1>4, WriteType DEF TakeBroken
  <2>3. QED
    BY <1>4, <2>1, <2>2 DEF TakeBroken, Fault, ProxyTypeOK
<1>5. CASE TakeExit
  BY <1>5 DEF TakeExit, ProxyTypeOK
<1>6. QED
  BY <1>1, <1>2, <1>3, <1>4, <1>5

\* So does every step of the child process.
LEMMA ChildKeepsProxyType ==
  ASSUME ProxyTypeOK,
         ChildReads \/ PluginAnswers \/ PluginAsksUser \/ ChildCrashes
  PROVE  ProxyTypeOK'
<1>1. CASE ChildReads
  <2> /\ Head(toPlugin) \in Operation
      /\ Tail(toPlugin) \in Seq(Operation)
    BY <1>1, HeadTailProperties DEF ChildReads, ProxyTypeOK
  <2>1. Head(toPlugin).req \in Req \cup {NoReq}
    BY DEF Operation
  <2>2. /\ process' \in {"running", "exited", "crashed", "stopped"}
        /\ plugin' \in [req : Req \cup {NoReq}, doing : {"nothing", "working", "ui"}]
    BY <1>1, <2>1 DEF ChildReads, ChildWork, ChildRefresh, ChildCancel, ChildStop,
                      ProxyTypeOK, Idle
  <2>3. fromPlugin' \in Seq(Response)
    BY <1>1, <2>1, EmitType DEF ChildReads, ChildWork, ChildRefresh, ChildCancel,
                                ChildStop, ProxyTypeOK
  <2>4. QED
    BY <1>1, <2>1, <2>2, <2>3 DEF ChildReads, childFrame, ProxyTypeOK
<1>2. CASE PluginAnswers
  <2>1. plugin.req \in Req \cup {NoReq}
    BY DEF ProxyTypeOK
  <2>2. fromPlugin' \in Seq(Response)
    <3> DEFINE answer == <<[kind |-> "store", req |-> plugin.req],
                           [kind |-> "result", req |-> plugin.req]>>
    <3>1. answer \in Seq(Response)
      BY <2>1 DEF Response
    <3> HIDE DEF answer
    <3>2. fromPlugin \o answer \in Seq(Response)
      BY <3>1, ConcatProperties DEF ProxyTypeOK
    <3>3. QED
      BY <1>2, <2>1, <3>2, EmitType DEF PluginAnswers, answer
  <2>3. QED
    BY <1>2, <2>2 DEF PluginAnswers, childFrame, ProxyTypeOK, Idle
<1>3. CASE PluginAsksUser
  <2>1. fromPlugin' \in Seq(Response)
    BY <1>3, EmitType DEF PluginAsksUser, ProxyTypeOK
  <2>2. QED
    BY <1>3, <2>1 DEF PluginAsksUser, childFrame, ProxyTypeOK
<1>4. CASE ChildCrashes
  BY <1>4, EmptySeq DEF ChildCrashes, Fault, childFrame, ProxyTypeOK, Idle
<1>5. QED
  BY <1>1, <1>2, <1>3, <1>4

\* What the slots of the proxy's signals may change.
SlotTypeOK ==
  /\ queue \in Seq(Req)
  /\ requestIsActive \in BOOLEAN
  /\ watcher \in {"none", "pending"} \cup UiReply
  /\ uiDisplayed \in BOOLEAN
  /\ tmpCreds \in Req \cup {NoReq}
  /\ posted \in Seq({"start", "ui"})
  /\ replies \in [Req -> Seq(Reply)]
  /\ uiFor \in Req \cup {NoReq}
  /\ openUi \subseteq Req
  /\ storageEvents \subseteq Req
  /\ uiFor = NoReq <=> watcher = "none"

\* The part of the invariant the slots of the proxy's signals work on.
LEMMA SlotTypeFromType == TypeOK => SlotTypeOK
BY DEF TypeOK, CoreTypeOK, GhostTypeOK, SlotTypeOK

\* The head of the queue is a request.
LEMMA HeadOfQueue ==
  ASSUME TypeOK, queue # <<>>
  PROVE  /\ Head(queue) \in Req
         /\ Head(queue) # NoReq
         /\ Tail(queue) \in Seq(Req)
BY HeadTailProperties, ConstantFacts DEF TypeOK, CoreTypeOK

\* Events posted and delivered are events.
LEMMA PostType ==
  ASSUME TypeOK
  PROVE  /\ Append(posted, "start") \in Seq({"start", "ui"})
         /\ Append(posted, "ui") \in Seq({"start", "ui"})
         /\ posted # <<>> =>
              /\ Tail(posted) \in Seq({"start", "ui"})
              /\ Append(Tail(posted), "start") \in Seq({"start", "ui"})
<1>1. posted \in Seq({"start", "ui"})
  BY DEF TypeOK, CoreTypeOK
<1>2. QED
  BY <1>1, AppendProperties, HeadTailProperties

\* Sending a reply and closing the dialog keeps the types.
LEMMA ConcludeType ==
  ASSUME TypeOK, NEW of \in Req \cup {NoReq}, NEW kind \in {"result", "error"},
         queue # <<>>, Conclude(kind, of)
  PROVE  /\ replies' \in [Req -> Seq(Reply)]
         /\ watcher' \in {"none", "pending"} \cup UiReply
         /\ uiFor' \in Req \cup {NoReq}
         /\ uiFor' = NoReq <=> watcher' = "none"
         /\ openUi' \subseteq Req
         /\ uiDisplayed' \in BOOLEAN
<1>1. SlotTypeOK
  BY SlotTypeFromType
<1>2. replies' \in [Req -> Seq(Reply)]
  BY <1>1, HeadOfQueue, AddReplyType DEF Conclude, SlotTypeOK
<1>3. QED
  BY <1>1, <1>2 DEF SlotTypeOK, Conclude, CloseUi

\* The slots of the proxy's signals keep the types.
LEMMA SlotsKeepType ==
  ASSUME TypeOK, NEW of \in Req \cup {NoReq},
         \/ ProcessResultReply(of) \/ ProcessError(of) \/ ProcessStore
         \/ OpenDialog \/ SignalIgnored
  PROVE  SlotTypeOK'
<1>1. SlotTypeOK
  BY SlotTypeFromType
<1>2. StorageEvent /\ queue # <<>> => storageEvents' \subseteq Req
  BY <1>1, HeadOfQueue DEF StorageEvent, SlotTypeOK
<1>3. ASSUME RequestDone, queue # <<>>
      PROVE  /\ queue' \in Seq(Req)
             /\ requestIsActive' \in BOOLEAN
             /\ posted' \in Seq({"start", "ui"})
  BY <1>3, HeadOfQueue, PostType DEF RequestDone
<1>4. CASE ProcessResultReply(of)
  <2>1. CASE queue = <<>>
    BY <1>1, <1>4, <2>1 DEF ProcessResultReply, NoReply, SlotTypeOK
  <2>2. CASE queue # <<>> /\ canceled
    BY <1>1, <1>3, <1>4, <2>2 DEF ProcessResultReply, NoReply, SlotTypeOK
  <2>3. CASE queue # <<>> /\ ~canceled
    <3>1. RequestDone /\ StorageEvent /\ tmpCreds' = NoReq /\ Conclude("result", of)
      BY <1>4, <2>3 DEF ProcessResultReply
    <3>2. QED
      BY <1>2, <1>3, <2>3, <3>1, ConcludeType DEF SlotTypeOK
  <2>4. QED
    BY <2>1, <2>2, <2>3
<1>5. CASE ProcessError(of)
  <2>1. CASE queue = <<>>
    BY <1>1, <1>5, <2>1 DEF ProcessError, NoReply, SlotTypeOK
  <2>2. CASE queue # <<>> /\ canceled
    BY <1>1, <1>3, <1>5, <2>2 DEF ProcessError, NoReply, SlotTypeOK
  <2>3. CASE queue # <<>> /\ ~canceled
    <3>1. /\ RequestDone /\ tmpCreds' = NoReq /\ Conclude("error", of)
          /\ UNCHANGED storageEvents
      BY <1>5, <2>3 DEF ProcessError
    <3>2. QED
      BY <1>1, <1>3, <2>3, <3>1, ConcludeType DEF SlotTypeOK
  <2>4. QED
    BY <2>1, <2>2, <2>3
<1>6. CASE ProcessStore
  BY <1>1, <1>2, <1>6 DEF ProcessStore, SlotTypeOK
<1>7. CASE OpenDialog
  <2>1. RemoveFirst(posted, "ui") \in Seq({"start", "ui"})
    BY <1>1, RemoveFirstProperties DEF SlotTypeOK
  <2>2. QED
    BY <1>1, <1>7, <2>1, HeadOfQueue DEF OpenDialog, SlotTypeOK
<1>8. CASE SignalIgnored
  BY <1>1, <1>8 DEF SignalIgnored, SlotTypeOK
<1>9. QED
  BY <1>4, <1>5, <1>6, <1>7, <1>8

\* The handlers of the child's output and exit keep the type invariant.
LEMMA HandlersKeepType ==
  ASSUME TypeOK, ReadResponse \/ BrokenResponse \/ OnExit
  PROVE  TypeOK'
<1>1. ProxyTypeOK
  BY DEF TypeOK
<1>2. ProxyTypeOK'
  BY <1>1, ResponsesKeepProxyType DEF ReadResponse, BrokenResponse, OnExit
<1>3. SlotTypeOK'
  BY <1>1, HeadResponse, SlotsKeepType DEF ReadResponse, BrokenResponse, OnExit
<1>4. UNCHANGED handlerFrame
  BY DEF ReadResponse, BrokenResponse, OnExit
<1>5. QED
  BY <1>2, <1>3, <1>4
     DEF handlerFrame, SlotTypeOK, TypeOK, CoreTypeOK, GhostTypeOK

\* The D-Bus calls keep the type invariant.
LEMMA CallsKeepType ==
  ASSUME TypeOK, \E r \in Req : Process(r) \/ Cancel(r)
  PROVE  TypeOK'
<1>1. PICK r \in Req : Process(r) \/ Cancel(r)
  OBVIOUS
<1>2. CASE Process(r)
  <2>1. posted' \in Seq({"start", "ui"})
    BY <1>2, PostType DEF Process, PostIfReady, TypeOK, CoreTypeOK
  <2>2. sent' \in Seq(Req) /\ queue' \in Seq(Req)
    BY <1>2, AppendProperties DEF Process, TypeOK, CoreTypeOK, GhostTypeOK
  <2>3. ProxyTypeOK'
    BY <1>2 DEF Process, proxyVars, TypeOK, ProxyTypeOK
  <2>4. QED
    BY <1>2, <2>1, <2>2, <2>3 DEF Process, TypeOK, CoreTypeOK, GhostTypeOK
<1>3. CASE Cancel(r)
  <2> DEFINE i == Position(Owner[r])
  <2>1. CASE \E j \in DOMAIN queue : Owner[queue[j]] = Owner[r]
    <3>1. queue \in Seq(Req)
      BY DEF TypeOK, CoreTypeOK
    <3>2. i \in DOMAIN queue
      BY <2>1, <3>1, PositionProperties
    <3>3. queue[i] \in Req
      BY <3>1, <3>2, ElementOfSeq, LenProperties
    <3>4. /\ CancelActive(i) \/ CancelQueued(i)
          /\ AddReply(queue[i], "canceled", NoReq)
      BY <1>3, <2>1 DEF Cancel
    <3>5. replies' \in [Req -> Seq(Reply)]
      BY <3>3, <3>4, AddReplyType DEF TypeOK, GhostTypeOK
    <3> HIDE DEF i
    <3>6. queue' \in Seq(Req)
      BY <3>1, <3>2, <3>4, RemoveAtProperties DEF CancelActive, CancelQueued
    <3>7. /\ canceled' \in BOOLEAN
          /\ watcher' \in {"none", "pending"} \cup UiReply
          /\ uiFor' \in Req \cup {NoReq}
          /\ openUi' \subseteq Req
          /\ uiFor' = NoReq <=> watcher' = "none"
      BY <3>4 DEF CancelActive, CancelQueued, TypeOK, CoreTypeOK, GhostTypeOK
    <3>8. ProxyTypeOK'
      <4>1. CASE CancelActive(i)
        BY <3>3, <4>1, CallsKeepProxyType DEF CancelActive, TypeOK
      <4>2. CASE CancelQueued(i)
        BY <4>2 DEF CancelQueued, proxyVars, TypeOK, ProxyTypeOK
      <4>3. QED
        BY <3>4, <4>1, <4>2
    <3>9. QED
      BY <1>3, <3>5, <3>6, <3>7, <3>8 DEF Cancel, TypeOK, CoreTypeOK, GhostTypeOK
  <2>2. CASE ~\E j \in DOMAIN queue : Owner[queue[j]] = Owner[r]
    BY <1>3, <2>2 DEF Cancel, proxyVars, TypeOK, ProxyTypeOK, CoreTypeOK, GhostTypeOK
  <2>3. QED
    BY <2>1, <2>2
<1>4. QED
  BY <1>1, <1>2, <1>3

\* Starting a request keeps the type invariant.
LEMMA StartKeepsType ==
  ASSUME TypeOK, StartNewRequest
  PROVE  TypeOK'
<1>1. posted # <<>>
  BY DEF StartNewRequest
<1>2. CASE NothingToStart \/ AlreadyBusy
  <2>1. posted' \in Seq({"start", "ui"})
    BY <1>1, <1>2, PostType DEF NothingToStart, AlreadyBusy
  <2>2. /\ UNCHANGED <<queue, requestIsActive, tmpCreds, started, replies>>
        /\ autoDestruct' = TRUE \/ autoDestruct' = autoDestruct
    BY <1>2 DEF NothingToStart, AlreadyBusy
  <2>3. ProxyTypeOK'
    <3>1. UNCHANGED proxyVars
      BY <1>2 DEF NothingToStart, AlreadyBusy
    <3>2. QED
      BY <3>1 DEF proxyVars, TypeOK, ProxyTypeOK
  <2>4. CoreTypeOK'
    BY <2>1, <2>2 DEF StartNewRequest, ResetCanceled, TypeOK, CoreTypeOK
  <2>5. GhostTypeOK' /\ (uiFor = NoReq <=> watcher = "none")'
    BY <2>2 DEF StartNewRequest, TypeOK, GhostTypeOK
  <2>6. QED
    BY <2>3, <2>4, <2>5 DEF TypeOK
<1>3. CASE StartProcess
  <2>1. posted' \in Seq({"start", "ui"})
    BY <1>1, <1>3, PostType DEF StartProcess
  <2>2. Head(queue) \in Req
    BY <1>3, HeadOfQueue DEF StartProcess
  <2>3. ProxyTypeOK'
    BY <1>3, <2>2, CallsKeepProxyType DEF StartProcess, TypeOK
  <2>4. QED
    BY <1>3, <2>1, <2>2, <2>3
       DEF StartNewRequest, ResetCanceled, StartProcess, TypeOK, CoreTypeOK, GhostTypeOK
<1>4. CASE StartFails
  <2>1. posted' \in Seq({"start", "ui"})
    BY <1>1, <1>4, PostType DEF StartFails
  <2>2. Head(queue) \in Req /\ Tail(queue) \in Seq(Req)
    BY <1>4, HeadOfQueue DEF StartFails
  <2>3. ProxyTypeOK'
    BY <1>4, <2>2, CallsKeepProxyType DEF StartFails, TypeOK
  <2>4. replies' \in [Req -> Seq(Reply)]
    BY <1>4, <2>2, AddReplyType DEF StartFails, TypeOK, GhostTypeOK
  <2>5. QED
    BY <1>4, <2>1, <2>2, <2>3, <2>4
       DEF StartNewRequest, ResetCanceled, StartFails, TypeOK, CoreTypeOK, GhostTypeOK
<1>5. QED
  BY <1>2, <1>3, <1>4 DEF StartNewRequest

\* The reply to a dialog and its delivery keep the type invariant.
LEMMA DialogKeepsType ==
  ASSUME TypeOK,
         (\E reply \in UiReply : SignonUiReplies(reply)) \/ QueryUiSlot
  PROVE  TypeOK'
<1>1. ASSUME NEW reply \in UiReply, SignonUiReplies(reply)
      PROVE  TypeOK'
  <2>1. posted' \in Seq({"start", "ui"})
    BY <1>1, PostType DEF SignonUiReplies
  <2>2. dialogs' \in Nat
    <3>1. dialogs \in Nat
      BY DEF TypeOK, ProxyTypeOK
    <3>2. dialogs' = dialogs \/ dialogs' = dialogs + 1
      BY <1>1 DEF SignonUiReplies
    <3>3. QED
      BY <3>1, <3>2
  <2>3. uiFor' = NoReq <=> watcher' = "none"
    BY <1>1 DEF SignonUiReplies, UiReply, TypeOK
  <2>4. QED
    BY <1>1, <2>1, <2>2, <2>3
       DEF SignonUiReplies, TypeOK, ProxyTypeOK, CoreTypeOK, GhostTypeOK
<1>2. CASE QueryUiSlot
  <2>1. posted' \in Seq({"start", "ui"})
    BY <1>2, PostType DEF QueryUiSlot
  <2>2. CASE AssertQueueNotEmpty
    <3>1. ProxyTypeOK'
      BY <2>2 DEF AssertQueueNotEmpty, proxyVars, TypeOK, ProxyTypeOK
    <3>2. /\ tmpCreds' \in Req \cup {NoReq}
          /\ uiDisplayed' \in BOOLEAN
          /\ alive' \in BOOLEAN
      BY <2>2 DEF AssertQueueNotEmpty, TypeOK, CoreTypeOK
    <3>3. QED
      BY <1>2, <2>1, <3>1, <3>2 DEF QueryUiSlot, TypeOK, CoreTypeOK, GhostTypeOK
  <2>3. CASE ForwardUiReply
    <3>1. uiFor \in Req \cup {NoReq} /\ Head(queue) \in Req
      BY <2>3, HeadOfQueue DEF ForwardUiReply, TypeOK, GhostTypeOK
    <3>2. /\ tmpCreds' \in Req \cup {NoReq}
          /\ uiDisplayed' \in BOOLEAN
          /\ alive' \in BOOLEAN
      BY <2>3, <3>1 DEF ForwardUiReply, TypeOK, CoreTypeOK
    <3>3. ProxyTypeOK'
      <4>1. CASE canceled
        BY <2>3, <4>1 DEF ForwardUiReply, proxyVars, TypeOK, ProxyTypeOK
      <4>2. CASE ~canceled
        BY <2>3, <3>1, <4>2, CallsKeepProxyType DEF ForwardUiReply, TypeOK
      <4>3. QED
        BY <4>1, <4>2
    <3>4. QED
      BY <1>2, <2>1, <3>2, <3>3 DEF QueryUiSlot, TypeOK, CoreTypeOK, GhostTypeOK
  <2>4. QED
    BY <1>2, <2>2, <2>3 DEF QueryUiSlot
<1>3. QED
  BY <1>1, <1>2

\* The remaining actions keep the type invariant.
LEMMA OthersKeepType ==
  ASSUME TypeOK,
         CredentialsSystemReady \/ Destroy \/ Child \/ UNCHANGED vars
  PROVE  TypeOK'
<1>1. CASE CredentialsSystemReady
  <2>1. posted' \in Seq({"start", "ui"})
    BY <1>1, PostType DEF CredentialsSystemReady, TypeOK, CoreTypeOK
  <2>2. QED
    BY <1>1, <2>1
       DEF CredentialsSystemReady, proxyVars, ghostVars,
           TypeOK, ProxyTypeOK, CoreTypeOK, GhostTypeOK
<1>2. CASE Destroy
  <2>1. ProxyTypeOK'
    BY <1>2 DEF Destroy, proxyVars, TypeOK, ProxyTypeOK
  <2>2. CoreTypeOK'
    BY <1>2 DEF Destroy, TypeOK, CoreTypeOK
  <2>3. GhostTypeOK' /\ (uiFor = NoReq <=> watcher = "none")'
    BY <1>2 DEF Destroy, ghostVars, TypeOK, GhostTypeOK
  <2>4. QED
    BY <2>1, <2>2, <2>3 DEF TypeOK
<1>3. CASE Child
  <2>1. ProxyTypeOK'
    BY <1>3, ChildKeepsProxyType DEF Child, TypeOK
  <2>2. QED
    BY <1>3, <2>1 DEF Child, coreVars, ghostVars, TypeOK, CoreTypeOK, GhostTypeOK
<1>4. CASE UNCHANGED vars
  <2>1. ProxyTypeOK'
    BY <1>4 DEF vars, proxyVars, TypeOK, ProxyTypeOK
  <2>2. CoreTypeOK'
    BY <1>4 DEF vars, coreVars, TypeOK, CoreTypeOK
  <2>3. GhostTypeOK' /\ (uiFor = NoReq <=> watcher = "none")'
    BY <1>4 DEF vars, coreVars, ghostVars, TypeOK, GhostTypeOK
  <2>4. QED
    BY <2>1, <2>2, <2>3 DEF TypeOK
<1>5. QED
  BY <1>1, <1>2, <1>3, <1>4

\* Every step keeps the type invariant.
LEMMA NextType ==
  ASSUME TypeOK, [Next]_vars
  PROVE  TypeOK'
BY CallsKeepType, StartKeepsType, HandlersKeepType, DialogKeepsType, OthersKeepType
   DEF Next

\* Whatever is cancelled and whatever faults the plug-in process has, every
\* variable keeps its type, and a watcher always belongs to some request:
\* cancel(), the replies and queryUiSlot() drop the two together.
THEOREM TypeCorrect == Spec => []TypeOK
<1>1. Init => TypeOK
  BY InitType
<1>2. TypeOK /\ [Next]_vars => TypeOK'
  BY NextType
<1>3. QED
  BY <1>1, <1>2, PTL DEF Spec

-------------------------------------------------------------------------------
(* What a step does to the queue                                            *)

Untouched == UNCHANGED <<queue, requestIsActive, sent>>

Enqueued(r) ==
  /\ r \in Req
  /\ r \notin ToSet(sent)
  /\ queue' = Append(queue, r)
  /\ sent' = Append(sent, r)
  /\ UNCHANGED requestIsActive

Withdrawn(i) ==
  /\ i \in DOMAIN queue
  /\ ~(requestIsActive /\ i = 1)
  /\ queue' = RemoveAt(queue, i)
  /\ UNCHANGED <<requestIsActive, sent>>

Activated ==
  /\ queue # <<>>
  /\ ~requestIsActive
  /\ requestIsActive' = TRUE
  /\ UNCHANGED <<queue, sent>>

Dequeued ==
  /\ queue # <<>>
  /\ queue' = Tail(queue)
  /\ requestIsActive' = FALSE
  /\ UNCHANGED sent

QueueStep ==
  \/ Untouched
  \/ \E r \in Req : Enqueued(r)
  \/ \E i \in DOMAIN queue : Withdrawn(i)
  \/ Activated
  \/ Dequeued

\* The slots of the proxy's signals take at most the head from the queue.
LEMMA SlotsQueueStep ==
  ASSUME NEW of,
         \/ ProcessResultReply(of) \/ ProcessError(of) \/ ProcessStore
         \/ OpenDialog \/ SignalIgnored
  PROVE  \/ UNCHANGED <<queue, requestIsActive>>
         \/ /\ queue # <<>>
            /\ queue' = Tail(queue)
            /\ requestIsActive' = FALSE
BY DEF ProcessResultReply, ProcessError, ProcessStore, OpenDialog, SignalIgnored,
       NoReply, RequestDone

\* Every step has one of the effects of QueueStep on the queue.
LEMMA NextQueueStep ==
  ASSUME TypeOK, [Next]_vars
  PROVE  QueueStep
<1>1. ASSUME NEW r \in Req, Process(r)
      PROVE  QueueStep
  BY <1>1 DEF Process, QueueStep, Enqueued
<1>2. ASSUME NEW r \in Req, Cancel(r)
      PROVE  QueueStep
  <2> DEFINE i == Position(Owner[r])
  <2>1. CASE \E j \in DOMAIN queue : Owner[queue[j]] = Owner[r]
    <3>1. i \in DOMAIN queue
      BY <2>1, PositionProperties DEF TypeOK, CoreTypeOK
    <3>2. CancelActive(i) \/ CancelQueued(i)
      BY <1>2, <2>1 DEF Cancel
    <3>3. UNCHANGED <<requestIsActive, sent>>
      BY <1>2 DEF Cancel
    <3> HIDE DEF i
    <3>4. QED
      BY <3>1, <3>2, <3>3
         DEF CancelActive, CancelQueued, QueueStep, Untouched, Withdrawn
  <2>2. CASE ~\E j \in DOMAIN queue : Owner[queue[j]] = Owner[r]
    BY <1>2, <2>2 DEF Cancel, QueueStep, Untouched
  <2>3. QED
    BY <2>1, <2>2
<1>3. CASE CredentialsSystemReady
  BY <1>3 DEF CredentialsSystemReady, ghostVars, QueueStep, Untouched
<1>4. CASE StartNewRequest
  BY <1>4 DEF StartNewRequest, NothingToStart, AlreadyBusy, StartProcess, StartFails,
              QueueStep, Untouched, Activated, Dequeued
<1>5. CASE ReadResponse \/ BrokenResponse \/ OnExit
  <2>1. UNCHANGED sent
    BY <1>5 DEF ReadResponse, BrokenResponse, OnExit, handlerFrame
  <2>2. \E of : \/ ProcessResultReply(of) \/ ProcessError(of) \/ ProcessStore
                \/ OpenDialog \/ SignalIgnored
    BY <1>5 DEF ReadResponse, BrokenResponse, OnExit
  <2>3. QED
    BY <2>1, <2>2, SlotsQueueStep DEF QueueStep, Untouched, Dequeued
<1>6. ASSUME NEW reply \in UiReply, SignonUiReplies(reply)
      PROVE  QueueStep
  BY <1>6 DEF SignonUiReplies, QueueStep, Untouched
<1>7. CASE QueryUiSlot
  BY <1>7 DEF QueryUiSlot, QueueStep, Untouched
<1>8. CASE Destroy
  BY <1>8 DEF Destroy, ghostVars, QueueStep, Untouched
<1>9. CASE Child
  BY <1>9 DEF Child, coreVars, ghostVars, QueueStep, Untouched
<1>10. CASE UNCHANGED vars
  BY <1>10 DEF vars, coreVars, ghostVars, QueueStep, Untouched
<1>11. QED
  BY <1>1, <1>2, <1>3, <1>4, <1>5, <1>6, <1>7, <1>8, <1>9, <1>10 DEF Next

-------------------------------------------------------------------------------
(* The queue                                                                *)

QueueInv ==
  /\ requestIsActive => queue # <<>>
  /\ IsInjective(queue)
  /\ ToSet(queue) \subseteq ToSet(sent)

\* The empty queue satisfies the invariant.
LEMMA InitQueue == Init => QueueInv
BY DEF Init, QueueInv, IsInjective, ToSet

\* Each of the effects keeps it.
LEMMA StepQueue ==
  ASSUME TypeOK, QueueInv, QueueStep
  PROVE  QueueInv'
<1>1. queue \in Seq(Req) /\ sent \in Seq(Req) /\ requestIsActive \in BOOLEAN
  BY DEF TypeOK, CoreTypeOK, GhostTypeOK
<1>2. CASE Untouched
  BY <1>2 DEF Untouched, QueueInv, IsInjective, ToSet
<1>3. ASSUME NEW r \in Req, Enqueued(r)
      PROVE  QueueInv'
  <2>1. r \notin ToSet(queue)
    BY <1>3 DEF Enqueued, QueueInv
  <2>2. /\ ToSet(queue)' = ToSet(queue) \cup {r}
        /\ ToSet(sent)' = ToSet(sent) \cup {r}
        /\ IsInjective(queue)'
    BY <1>1, <1>3, <2>1, AppendToSet DEF Enqueued, QueueInv
  <2>3. queue' # <<>>
    BY <1>1, <1>3, AppendProperties DEF Enqueued
  <2>4. QED
    BY <2>2, <2>3 DEF QueueInv
<1>4. ASSUME NEW i \in DOMAIN queue, Withdrawn(i)
      PROVE  QueueInv'
  <2>1. ToSet(queue)' \subseteq ToSet(queue) /\ IsInjective(queue)'
    BY <1>1, <1>4, RemoveAtToSet DEF Withdrawn, QueueInv
  <2>2. requestIsActive => queue' # <<>>
    BY <1>1, <1>4, TailOfRemoveAt DEF Withdrawn
  <2>3. QED
    BY <1>4, <2>1, <2>2 DEF Withdrawn, QueueInv
<1>5. CASE Activated
  BY <1>5 DEF Activated, QueueInv, IsInjective, ToSet
<1>6. CASE Dequeued
  <2>1. queue' = RemoveAt(queue, 1) /\ 1 \in DOMAIN queue
    BY <1>1, <1>6, TailIsRemoveAt DEF Dequeued
  <2>2. ToSet(queue)' \subseteq ToSet(queue) /\ IsInjective(queue)'
    BY <1>1, <2>1, RemoveAtToSet DEF QueueInv
  <2>3. QED
    BY <1>6, <2>2 DEF Dequeued, QueueInv
<1>7. QED
  BY <1>2, <1>3, <1>4, <1>5, <1>6 DEF QueueStep

\* The queue holds every waiting request once, only requests that arrived,
\* and the request that is being processed.
THEOREM QueueCorrect == Spec => []QueueInv
<1>1. Init => QueueInv
  BY InitQueue
<1>2. TypeOK /\ TypeOK' /\ QueueInv /\ [Next]_vars => QueueInv'
  BY NextQueueStep, StepQueue
<1>3. QED
  BY <1>1, <1>2, TypeCorrect, PTL DEF Spec

-------------------------------------------------------------------------------
(* Refinement                                                               *)

Waiting == IF requestIsActive THEN Tail(queue) ELSE queue
Running == IF requestIsActive THEN Head(queue) ELSE NoReq
Done == ToSet(sent) \ ToSet(queue)

\* The actions of RequestQueue, in the terms of the refinement mapping.
LEMMA MappedSubmit ==
  ASSUME NEW r,
         r \notin Done \cup ToSet(Waiting) \cup {Running},
         Waiting' = Append(Waiting, r), Running' = Running, Done' = Done
  PROVE  RQ!Submit(r)
BY Zenon DEF RQ!Submit, RQ!ToSet, ToSet, Waiting, Running, Done

\* A request that leaves without having been started is a Withdraw.
LEMMA MappedWithdraw ==
  ASSUME NEW j,
         Done' = Done \cup {Waiting[j]}, Waiting' = RemoveAt(Waiting, j),
         Running' = Running
  PROVE  RQ!Withdraw(j)
BY Zenon DEF RQ!Withdraw, RQ!RemoveAt, RemoveAt, Waiting, Running, Done

\* The requests that leave the queue are done, and were sent before.
LEMMA DoneGrows ==
  ASSUME TypeOK, QueueInv, NEW i \in DOMAIN queue,
         queue' = RemoveAt(queue, i), UNCHANGED sent
  PROVE  Done' = Done \cup {queue[i]}
<1>1. ToSet(queue)' = ToSet(queue) \ {queue[i]}
  BY RemoveAtToSet DEF TypeOK, CoreTypeOK, QueueInv
<1>2. queue[i] \in ToSet(queue) /\ ToSet(sent)' = ToSet(sent)
  BY DEF ToSet
<1>3. QED
  BY <1>1, <1>2 DEF QueueInv, Done

\* Every effect on the queue is a step of RequestQueue, or none.
LEMMA MappedStep ==
  ASSUME TypeOK, QueueInv, TypeOK', QueueInv', QueueStep
  PROVE  [RQ!Next]_<<Waiting, Running, Done>>
<1>1. queue \in Seq(Req) /\ sent \in Seq(Req) /\ requestIsActive \in BOOLEAN
  BY DEF TypeOK, CoreTypeOK, GhostTypeOK
<1>2. CASE Untouched
  BY <1>2 DEF Untouched, Waiting, Running, Done, ToSet
<1>3. ASSUME NEW r \in Req, Enqueued(r)
      PROVE  RQ!Submit(r)
  <2>1. /\ ToSet(queue)' = ToSet(queue) \cup {r}
        /\ ToSet(sent)' = ToSet(sent) \cup {r}
        /\ r \notin ToSet(sent)
    BY <1>1, <1>3, AppendToSet DEF Enqueued
  <2>2. Done' = Done /\ r \notin Done /\ r \notin ToSet(queue)
    BY <2>1 DEF QueueInv, Done
  <2>3. ToSet(Waiting) \subseteq ToSet(queue) /\ r # Running
    <3>1. CASE requestIsActive
      <4>1. queue # <<>>
        BY <3>1 DEF QueueInv
      <4>2. /\ RemoveAt(queue, 1) = Tail(queue)
            /\ Head(queue) = queue[1]
            /\ 1 \in DOMAIN queue
        BY <1>1, <4>1, TailIsRemoveAt
      <4>3. ToSet(Tail(queue)) \subseteq ToSet(queue)
        <5>1. IsInjective(queue)
          BY DEF QueueInv
        <5>2. ToSet(RemoveAt(queue, 1)) = ToSet(queue) \ {queue[1]}
          BY <1>1, <4>2, <5>1, RemoveAtToSet
        <5>3. QED
          BY <4>2, <5>2
      <4>4. Head(queue) \in ToSet(queue)
        BY <4>2 DEF ToSet
      <4>5. QED
        BY <2>2, <3>1, <4>3, <4>4 DEF Waiting, Running
    <3>2. CASE ~requestIsActive
      BY <3>2, ConstantFacts DEF Waiting, Running
    <3>3. QED
      BY <3>1, <3>2
  <2>4. Waiting' = Append(Waiting, r) /\ Running' = Running
    <3>1. CASE requestIsActive
      BY <1>1, <1>3, <3>1, TailOfAppend DEF Enqueued, QueueInv, Waiting, Running
    <3>2. CASE ~requestIsActive
      BY <1>3, <3>2 DEF Enqueued, Waiting, Running
    <3>3. QED
      BY <3>1, <3>2
  <2>5. QED
    BY <2>2, <2>3, <2>4, MappedSubmit
<1>4. ASSUME NEW i \in DOMAIN queue, Withdrawn(i)
      PROVE  \E j \in DOMAIN Waiting : RQ!Withdraw(j)
  <2>1. Done' = Done \cup {queue[i]}
    BY <1>4, DoneGrows DEF Withdrawn
  <2>2. CASE requestIsActive
    <3>1. /\ i # 1
          /\ queue' = RemoveAt(queue, i)
          /\ requestIsActive' = requestIsActive
      BY <1>4, <2>2 DEF Withdrawn
    <3>2. /\ i - 1 \in DOMAIN Waiting
          /\ Waiting[i - 1] = queue[i]
          /\ Running' = Running
          /\ Waiting' = RemoveAt(Waiting, i - 1)
      BY <1>1, <2>2, <3>1, TailOfRemoveAt DEF Waiting, Running
    <3>3. RQ!Withdraw(i - 1)
      BY <2>1, <3>2, MappedWithdraw
    <3>4. QED
      BY <3>2, <3>3
  <2>3. CASE ~requestIsActive
    <3>1. /\ queue' = RemoveAt(queue, i)
          /\ requestIsActive' = requestIsActive
      BY <1>4 DEF Withdrawn
    <3>2. Waiting = queue /\ Waiting' = queue' /\ Running' = Running
      BY <2>3, <3>1 DEF Waiting, Running
    <3>3. RQ!Withdraw(i)
      BY <2>1, <3>1, <3>2, MappedWithdraw
    <3>4. QED
      BY <3>2, <3>3
  <2>4. QED
    BY <2>2, <2>3
<1>5. CASE Activated
  <2>1. Done' = Done
    BY <1>5 DEF Activated, Done, ToSet
  <2>2. RQ!Start
    BY <1>5, <2>1 DEF Activated, RQ!Start, Done
  <2>3. QED
    BY <2>2 DEF RQ!Next
<1>6. CASE Dequeued
  <2>1. /\ queue # <<>>
        /\ queue' = Tail(queue)
        /\ requestIsActive' = FALSE
        /\ UNCHANGED sent
    BY <1>6 DEF Dequeued
  <2>2. /\ 1 \in DOMAIN queue
        /\ Head(queue) = queue[1]
        /\ RemoveAt(queue, 1) = Tail(queue)
        /\ Head(queue) # NoReq
    BY <1>1, <2>1, TailIsRemoveAt, HeadOfQueue
  <2>3. Done' = Done \cup {Head(queue)}
    BY <2>1, <2>2, DoneGrows
  <2>4. CASE requestIsActive
    <3>1. RQ!Finish
      BY <2>1, <2>2, <2>3, <2>4 DEF RQ!Finish, Done
    <3>2. QED
      BY <3>1 DEF RQ!Next
  <2>5. CASE ~requestIsActive
    <3>1. Waiting = queue /\ Waiting' = queue' /\ Running' = Running
      BY <2>1, <2>5 DEF Waiting, Running
    <3>2. RQ!Withdraw(1)
      BY <2>1, <2>2, <2>3, <3>1, MappedWithdraw
    <3>3. QED
      BY <2>2, <3>1, <3>2 DEF RQ!Next, Waiting
  <2>6. QED
    BY <2>4, <2>5
<1>7. QED
  BY <1>2, <1>3, <1>4, <1>5, <1>6 DEF QueueStep, RQ!Next, Waiting

\* The session core serves the requests that share it one at a time, in their
\* order of arrival and none twice, whatever is cancelled and whatever becomes
\* of the plug-in: ImplementsRequestQueue, for any requests and sessions.
THEOREM QueueRefinement == Spec => ImplementsRequestQueue
<1>1. Init => RQ!Init
  BY DEF Init, RQ!Init, ToSet
<1>2. TypeOK /\ TypeOK' /\ QueueInv /\ QueueInv' /\ [Next]_vars
        => [RQ!Next]_RQ!queueVars
  BY NextQueueStep, MappedStep DEF RQ!queueVars, Waiting, Running, Done
<1>3. QED
  BY <1>1, <1>2, TypeCorrect, QueueCorrect, PTL
     DEF Spec, ImplementsRequestQueue, RQ!Spec

-------------------------------------------------------------------------------
(* Replies                                                                  *)

\* Done requests stay done; a dequeued head is among them.
LEMMA DoneStep ==
  ASSUME TypeOK, QueueInv, QueueStep
  PROVE  /\ Done \subseteq Done'
         /\ Dequeued => Done' = Done \cup {Head(queue)}
<1>1. queue \in Seq(Req) /\ sent \in Seq(Req)
  BY DEF TypeOK, CoreTypeOK, GhostTypeOK
<1>2. CASE Untouched \/ Activated
  BY <1>2 DEF Untouched, Activated, Dequeued, Done, ToSet
<1>3. ASSUME NEW r \in Req, Enqueued(r)
      PROVE  Done \subseteq Done' /\ ~Dequeued
  <2>1. /\ ToSet(queue)' = ToSet(queue) \cup {r}
        /\ ToSet(sent)' = ToSet(sent) \cup {r}
        /\ r \notin ToSet(sent)
    BY <1>1, <1>3, AppendToSet DEF Enqueued
  <2>2. Done \subseteq Done'
    BY <2>1 DEF Done
  <2>3. sent' # sent
    BY <2>1
  <2>4. QED
    BY <2>2, <2>3 DEF Dequeued
<1>4. ASSUME NEW i \in DOMAIN queue, Withdrawn(i)
      PROVE  Done \subseteq Done'
  BY <1>4, DoneGrows DEF Withdrawn
<1>5. Dequeued => Done' = Done \cup {Head(queue)}
  BY <1>1, TailIsRemoveAt, DoneGrows DEF Dequeued
<1>6. QED
  BY <1>2, <1>3, <1>4, <1>5 DEF QueueStep

\* A slot that replies takes the request it replies to from the queue.
LEMMA SlotsReply ==
  ASSUME NEW of,
         \/ ProcessResultReply(of) \/ ProcessError(of) \/ ProcessStore
         \/ OpenDialog \/ SignalIgnored
  PROVE  \/ UNCHANGED replies
         \/ /\ queue # <<>>
            /\ queue' = Tail(queue)
            /\ requestIsActive' = FALSE
            /\ \E kind : AddReply(Head(queue), kind, of)
BY DEF ProcessResultReply, ProcessError, ProcessStore, OpenDialog, SignalIgnored,
       NoReply, RequestDone, Conclude

\* Without cancellations, every reply goes to the head as it leaves.
LEMMA NextReply ==
  ASSUME Cancellable = {}, [Next]_vars
  PROVE  \/ UNCHANGED replies
         \/ Dequeued /\ \E kind, of : AddReply(Head(queue), kind, of)
<1>1. ASSUME NEW r \in Req, Process(r) \/ Cancel(r)
      PROVE  UNCHANGED replies
  BY <1>1 DEF Process, Cancel
<1>2. CASE StartNewRequest
  BY <1>2 DEF StartNewRequest, NothingToStart, AlreadyBusy, StartProcess, StartFails,
              Dequeued
<1>3. CASE ReadResponse \/ BrokenResponse \/ OnExit
  <2>1. UNCHANGED sent
    BY <1>3 DEF ReadResponse, BrokenResponse, OnExit, handlerFrame
  <2>2. \E of : \/ ProcessResultReply(of) \/ ProcessError(of) \/ ProcessStore
                \/ OpenDialog \/ SignalIgnored
    BY <1>3 DEF ReadResponse, BrokenResponse, OnExit
  <2>3. QED
    BY <2>1, <2>2, SlotsReply DEF Dequeued
<1>4. CASE CredentialsSystemReady \/ Destroy \/ Child
  BY <1>4 DEF CredentialsSystemReady, Destroy, Child, ghostVars
<1>5. CASE (\E reply \in UiReply : SignonUiReplies(reply)) \/ QueryUiSlot
  BY <1>5 DEF SignonUiReplies, QueryUiSlot
<1>6. CASE UNCHANGED vars
  BY <1>6 DEF vars, ghostVars
<1>7. QED
  BY <1>1, <1>2, <1>3, <1>4, <1>5, <1>6 DEF Next

\* Only requests that have left the queue have been answered.
AnswerInv ==
  /\ \A r \in Req : r \notin Done => replies[r] = <<>>
  /\ AnsweredOnce

\* Where no client cancels, no request is answered twice, whatever faults the
\* plug-in process has.
THEOREM NoSecondAnswer ==
  ASSUME Cancellable = {}
  PROVE  Spec => []AnsweredOnce
<1>1. Init => AnswerInv
  BY DEF Init, AnswerInv, AnsweredOnce
<1>2. ASSUME TypeOK, QueueInv, AnswerInv, [Next]_vars
      PROVE  AnswerInv'
  <2>1. Done \subseteq Done' /\ (Dequeued => Done' = Done \cup {Head(queue)})
    BY <1>2, NextQueueStep, DoneStep
  <2>2. CASE UNCHANGED replies
    BY <1>2, <2>1, <2>2 DEF AnswerInv, AnsweredOnce
  <2>3. ASSUME Dequeued, NEW kind, NEW of, AddReply(Head(queue), kind, of)
        PROVE  AnswerInv'
    <3>1. Head(queue) \in Req /\ Head(queue) \notin Done
      BY <1>2, <2>3, HeadOfQueue, TailIsRemoveAt
         DEF Dequeued, Done, ToSet, TypeOK, CoreTypeOK
    <3>2. replies[Head(queue)] = <<>>
      BY <1>2, <3>1 DEF AnswerInv
    <3>3. replies' = [replies EXCEPT ![Head(queue)] = <<[kind |-> kind, of |-> of]>>]
      BY <2>3, <3>2 DEF AddReply
    <3>4. QED
      BY <1>2, <2>1, <2>3, <3>1, <3>3 DEF AnswerInv, AnsweredOnce, TypeOK, GhostTypeOK
  <2>4. QED
    BY <1>2, <2>2, <2>3, NextReply
<1>3. AnswerInv => AnsweredOnce
  BY DEF AnswerInv
<1>4. QED
  BY <1>1, <1>2, <1>3, TypeCorrect, QueueCorrect, PTL DEF Spec

-------------------------------------------------------------------------------
(* The child process, where no data is broken                               *)

Ops == [op : {"process", "processUi", "refresh", "cancel"}, req : Req \cup {NoReq}]

\* The child is never told to stop; one that has crashed has left nothing behind.
ChildLives ==
  /\ Faults = {} => process = "running"
  /\ process # "exited"
  /\ process # "running" => toPlugin = <<>> /\ plugin = Idle
  /\ toPlugin \in Seq(Ops)

\* Which faults there are is up to the constant.
LEMMA FaultsNeeded ==
  ASSUME NEW kind, Fault(kind)
  PROVE  kind \in Faults
BY DEF Fault

\* A call on the plug-in process leaves it as it should be.
LEMMA LivesWrite ==
  ASSUME ChildLives, NEW r \in Req \cup {NoReq},
         NEW op \in {"process", "processUi", "refresh", "cancel"},
         WriteRestarting(op, r) \/ (Write(op, r) /\ UNCHANGED <<process, plugin>>)
  PROVE  ChildLives'
<1> DEFINE operation == [op |-> op, req |-> r]
<1>1. operation \in Ops
  BY DEF Ops
<1>2. toPlugin \in Seq(Ops)
  BY DEF ChildLives
<1> HIDE DEF operation
<1>3. Append(toPlugin, operation) \in Seq(Ops) /\ <<operation>> \in Seq(Ops)
  BY <1>1, <1>2, AppendProperties
<1>4. \/ UNCHANGED <<process, plugin, toPlugin>>
      \/ /\ process' = "running"
         /\ toPlugin' = Append(toPlugin, operation) \/ toPlugin' = <<operation>>
  BY DEF WriteRestarting, Write, operation
<1>5. CASE UNCHANGED <<process, plugin, toPlugin>>
  BY <1>5 DEF ChildLives
<1>6. CASE process' = "running" /\ toPlugin' \in Seq(Ops)
  BY <1>6 DEF ChildLives
<1>7. QED
  BY <1>3, <1>4, <1>5, <1>6

\* Only a crash, which the next step notices, makes the child silent.
LEMMA NextChildLives ==
  ASSUME "blob" \notin Faults, TypeOK, ChildLives, [Next]_vars
  PROVE  ChildLives'
<1>1. ASSUME UNCHANGED <<process, toPlugin, plugin>>
      PROVE  ChildLives'
  BY <1>1 DEF ChildLives
<1>2. ASSUME RestartFails
      PROVE  ChildLives'
  BY <1>2, FaultsNeeded DEF RestartFails, ChildLives
<1>3. ASSUME NEW r \in Req, Process(r) \/ Cancel(r)
      PROVE  ChildLives'
  <2>1. CASE Process(r)
    BY <1>1, <2>1 DEF Process, proxyVars
  <2> DEFINE i == Position(Owner[r])
  <2>2. CASE Cancel(r) /\ \E j \in DOMAIN queue : Owner[queue[j]] = Owner[r]
    <3>1. i \in DOMAIN queue /\ queue \in Seq(Req)
      BY <2>2, PositionProperties DEF TypeOK, CoreTypeOK
    <3>2. queue[i] \in Req
      BY <3>1, ElementOfSeq, LenProperties
    <3>3. CancelActive(i) \/ CancelQueued(i)
      BY <2>2 DEF Cancel
    <3> HIDE DEF i
    <3>4. CASE CancelQueued(i)
      BY <1>1, <3>4 DEF CancelQueued, proxyVars
    <3>5. CASE CancelActive(i)
      <4>1. Write("cancel", queue[i]) /\ UNCHANGED <<process, plugin>>
        BY <3>5 DEF CancelActive, ProxyCancel
      <4>2. QED
        BY <3>2, <4>1, LivesWrite
    <3>6. QED
      BY <3>3, <3>4, <3>5
  <2>3. CASE Cancel(r) /\ ~\E j \in DOMAIN queue : Owner[queue[j]] = Owner[r]
    BY <1>1, <2>3 DEF Cancel, proxyVars
  <2>4. QED
    BY <1>3, <2>1, <2>2, <2>3
<1>4. CASE StartNewRequest
  <2>1. CASE StartProcess
    <3>1. WriteRestarting("process", Head(queue)) /\ Head(queue) \in Req
      BY <2>1, HeadOfQueue DEF StartProcess, ProxyProcess
    <3>2. QED
      BY <3>1, LivesWrite
  <2>2. CASE NothingToStart \/ AlreadyBusy
    BY <1>1, <2>2 DEF NothingToStart, AlreadyBusy, proxyVars
  <2>3. QED
    BY <1>2, <1>4, <2>1, <2>2 DEF StartNewRequest, StartFails
<1>5. CASE ReadResponse
  <2>1. CASE UNCHANGED <<process, toPlugin, plugin>>
    BY <1>1, <2>1
  <2>2. CASE RefuseUi(Head(fromPlugin))
    <3>1. /\ WriteRestarting("processUi", Head(fromPlugin).req)
          /\ Head(fromPlugin).req \in Req \cup {NoReq}
      BY <1>5, <2>2, HeadResponse DEF ReadResponse, RefuseUi, TypeOK
    <3>2. QED
      BY <3>1, LivesWrite
  <2>3. QED
    BY <1>5, <2>1, <2>2 DEF ReadResponse, TakeFinal, TakeOther
<1>6. CASE QueryUiSlot
  <2>1. CASE UNCHANGED proxyVars
    BY <1>1, <2>1 DEF proxyVars
  <2>2. ASSUME NEW op \in {"processUi", "refresh"}, ProxyContinue(op, uiFor)
        PROVE  ChildLives'
    <3>1. uiFor \in Req \cup {NoReq}
      BY DEF TypeOK, GhostTypeOK
    <3>2. QED
      BY <1>2, <2>2, <3>1, LivesWrite DEF ProxyContinue
  <2>3. QED
    BY <1>6, <2>1, <2>2 DEF QueryUiSlot, ForwardUiReply, AssertQueueNotEmpty
<1>7. CASE Child
  <2>1. CASE ChildReads
    <3>1. Head(toPlugin) \in Ops /\ Tail(toPlugin) \in Seq(Ops)
      BY <2>1, HeadTailProperties DEF ChildReads, ChildLives
    <3>2. process' = process
      BY <2>1, <3>1 DEF ChildReads, ChildWork, ChildRefresh, ChildCancel, ChildStop, Ops
    <3>3. QED
      BY <2>1, <3>1, <3>2 DEF ChildReads, ChildLives
  <2>2. CASE PluginAnswers \/ PluginAsksUser
    BY <2>2 DEF PluginAnswers, PluginAsksUser, ChildLives
  <2>3. CASE ChildCrashes
    BY <2>3, FaultsNeeded, EmptySeq DEF ChildCrashes, ChildLives
  <2>4. QED
    BY <1>7, <2>1, <2>2, <2>3 DEF Child
<1>8. CASE OnExit
  BY <1>8 DEF OnExit, TakeExit, ChildLives
<1>9. CASE CredentialsSystemReady \/ Destroy \/ UNCHANGED vars
  BY <1>1, <1>9 DEF CredentialsSystemReady, Destroy, vars, proxyVars
<1>10. ASSUME NEW reply \in UiReply, SignonUiReplies(reply)
       PROVE  ChildLives'
  BY <1>1, <1>10 DEF SignonUiReplies
<1>11. ~BrokenResponse
  BY FaultsNeeded DEF BrokenResponse, TakeBroken
<1>12. QED
  BY <1>3, <1>4, <1>5, <1>6, <1>7, <1>8, <1>9, <1>10, <1>11 DEF Next

-------------------------------------------------------------------------------
(* Nothing is left waiting                                                  *)

StartIsLast == posted # <<>> => Last(posted) = "start"

\* What a request whose end was not its plug-in's answer leaves behind: at most a late
\* dialog reply, which the child does not read before the next request has started.
NothingLeft ==
  /\ fromPlugin = <<>>
  /\ plugin = Idle
  /\ toPlugin # <<>> => Cancellable = {} /\ queue # <<>> /\ "start" \in ToSet(posted)
  /\ Faults = {} => "ui" \notin ToSet(posted)

\* A dialog is pending only while a request is being processed that has not been
\* cancelled; whatever ends a request posts the next start after its dialog's reply.
ServingInv ==
  /\ watcher = "pending" => requestIsActive /\ ~canceled
  /\ ~requestIsActive => StartIsLast
  /\ ~requestIsActive /\ ~isResultObtained => NothingLeft
  /\ autoDestruct => ~requestIsActive

ServiceInv == ChildLives /\ ServingInv /\ NoStall

\* Posting and delivering events, as operations on the set of those posted.
LEMMA PostedSets ==
  ASSUME TypeOK
  PROVE  /\ ToSet(Append(posted, "start")) = ToSet(posted) \cup {"start"}
         /\ ToSet(Append(posted, "ui")) = ToSet(posted) \cup {"ui"}
         /\ posted # <<>> => ToSet(posted) = {Head(posted)} \cup ToSet(Tail(posted))
         /\ \A e : e = "start" /\ e \in ToSet(posted)
                  => e \in ToSet(RemoveFirst(posted, "ui"))
<1>1. posted \in Seq({"start", "ui"})
  BY DEF TypeOK, CoreTypeOK
<1>2. QED
  BY <1>1, AppendToSet, TailToSet, RemoveFirstProperties

\* The last event posted, and its place among the others.
LEMMA PostedLast ==
  ASSUME TypeOK
  PROVE  /\ Last(Append(posted, "start")) = "start"
         /\ posted # <<>> =>
              /\ Last(Append(Tail(posted), "start")) = "start"
              /\ Tail(posted) # <<>> => Last(Tail(posted)) = Last(posted)
              /\ Head(posted) # Last(posted) => Last(posted) \in ToSet(Tail(posted))
<1>1. posted \in Seq({"start", "ui"})
  BY DEF TypeOK, CoreTypeOK
<1>2. posted # <<>> => Tail(posted) \in Seq({"start", "ui"})
  BY <1>1, HeadTailProperties
<1>3. Last(Append(posted, "start")) = "start"
  BY <1>1, LastOfAppend
<1>4. posted # <<>> => Last(Append(Tail(posted), "start")) = "start"
  <2> DEFINE rest == Tail(posted)
             events == {"start", "ui"}
  <2>1. posted # <<>> => rest \in Seq(events)
    BY <1>2
  <2>2. "start" \in events
    OBVIOUS
  <2> HIDE DEF rest, events
  <2>3. rest \in Seq(events) => Last(Append(rest, "start")) = "start"
    BY <2>2, LastOfAppend
  <2>4. QED
    BY <2>1, <2>3 DEF rest
<1>5. QED
  BY <1>1, <1>3, <1>4, LastOfTail

\* What the slots of the proxy's signals do to a queue that is being served.
LEMMA SlotsServe ==
  ASSUME TypeOK, QueueInv, ServingInv, NoStall, NEW of,
         \/ ProcessResultReply(of) \/ ProcessError(of) \/ ProcessStore
         \/ (OpenDialog /\ requestIsActive) \/ SignalIgnored
  PROVE  /\ watcher' = "pending" => requestIsActive' /\ ~canceled
         /\ ~requestIsActive' => StartIsLast'
         /\ requestIsActive' => requestIsActive
         /\ alive /\ credsReady /\ queue' # <<>> /\ ~requestIsActive'
              => "start" \in ToSet(posted')
<1>1. CASE \/ ProcessStore \/ SignalIgnored \/ (queue = <<>> /\ OpenDialog)
           \/ (queue = <<>> /\ (ProcessResultReply(of) \/ ProcessError(of)))
  <2>1. UNCHANGED <<queue, requestIsActive, posted, watcher>>
    BY <1>1 DEF ProcessStore, SignalIgnored, OpenDialog, ProcessResultReply,
                ProcessError, NoReply
  <2>2. QED
    BY <2>1 DEF ServingInv, NoStall, StartIsLast
<1>2. CASE queue # <<>> /\ (ProcessResultReply(of) \/ ProcessError(of))
  <2>1. RequestDone /\ watcher' # "pending"
    BY <1>2 DEF ProcessResultReply, ProcessError, NoReply, Conclude, ServingInv
  <2>2. QED
    BY <2>1, PostedSets, PostedLast DEF RequestDone, StartIsLast
<1>3. CASE OpenDialog /\ requestIsActive /\ queue # <<>>
  <2>1. UNCHANGED requestIsActive
    BY <1>3 DEF OpenDialog
  <2>2. watcher' = "pending" => ~canceled
    BY <1>3 DEF OpenDialog, ServingInv
  <2>3. QED
    BY <1>3, <2>1, <2>2
<1>4. QED
  BY <1>1, <1>2, <1>3

\* The handling of a response keeps the invariant.
LEMMA ReadServes ==
  ASSUME TypeOK, QueueInv, ServingInv, NoStall, ReadResponse
  PROVE  ServingInv' /\ NoStall'
<1> DEFINE resp == Head(fromPlugin)
<1>1. UNCHANGED <<canceled, alive, credsReady, autoDestruct>> /\ fromPlugin # <<>>
  BY DEF ReadResponse, handlerFrame
<1>2. requestIsActive \/ isResultObtained
  BY <1>1 DEF ServingInv, NothingLeft
<1>3. \/ TakeFinal(resp) /\ (SignalIgnored \/ ProcessResultReply(resp.req) \/ ProcessError(resp.req))
      \/ TakeOther(resp) /\ (SignalIgnored \/ ProcessStore \/ (OpenDialog /\ ~isResultObtained))
      \/ RefuseUi(resp) /\ SignalIgnored
  BY DEF ReadResponse
<1>4. isResultObtained' = isResultObtained \/ isResultObtained'
  BY <1>3 DEF TakeFinal, TakeOther, RefuseUi
<1>5. /\ watcher' = "pending" => requestIsActive' /\ ~canceled
      /\ ~requestIsActive' => StartIsLast'
      /\ requestIsActive' => requestIsActive
      /\ alive /\ credsReady /\ queue' # <<>> /\ ~requestIsActive'
           => "start" \in ToSet(posted')
  BY <1>2, <1>3, SlotsServe
<1>6. requestIsActive' \/ isResultObtained'
  BY <1>2, <1>3, <1>4
     DEF TakeFinal, TakeOther, RefuseUi, SignalIgnored, ProcessStore, OpenDialog
<1>7. QED
  BY <1>1, <1>5, <1>6 DEF ServingInv, NoStall

\* The D-Bus calls keep it: process() posts, cancel() removes only requests
\* that wait or leaves the active one in place.
LEMMA CallsServe ==
  ASSUME TypeOK, QueueInv, ServingInv, NoStall,
         \E r \in Req : Process(r) \/ Cancel(r)
  PROVE  ServingInv' /\ NoStall'
<1>1. PICK r \in Req : Process(r) \/ Cancel(r)
  OBVIOUS
<1>2. CASE Process(r)
  <2>1. /\ UNCHANGED <<proxyVars, requestIsActive, canceled, watcher, alive, credsReady,
                       autoDestruct>>
        /\ queue' = Append(queue, r)
    BY <1>2 DEF Process
  <2>2. /\ ToSet(posted) \subseteq ToSet(posted')
        /\ ToSet(posted') \subseteq ToSet(posted) \cup {"start"}
        /\ credsReady => "start" \in ToSet(posted')
        /\ StartIsLast => StartIsLast'
    BY <1>2, PostedSets, PostedLast DEF Process, PostIfReady, StartIsLast
  <2>3. queue' # <<>>
    BY <2>1, AppendProperties DEF TypeOK, CoreTypeOK
  <2>4. QED
    BY <2>1, <2>2, <2>3 DEF proxyVars, ServingInv, NothingLeft, NoStall
<1>3. CASE Cancel(r)
  <2> DEFINE i == Position(Owner[r])
  <2>1. UNCHANGED <<requestIsActive, posted, alive, credsReady, autoDestruct>>
    BY <1>3 DEF Cancel
  <2>2. Cancellable # {}
    BY <1>3 DEF Cancel
  <2>3. CASE \E j \in DOMAIN queue : Owner[queue[j]] = Owner[r]
    <3>1. i \in DOMAIN queue /\ queue \in Seq(Req)
      BY <2>3, PositionProperties DEF TypeOK, CoreTypeOK
    <3>2. queue # <<>>
      BY <3>1
    <3>3. CancelActive(i) \/ CancelQueued(i)
      BY <1>3, <2>3 DEF Cancel
    <3> HIDE DEF i
    <3>4. CASE CancelActive(i)
      BY <2>1, <3>4 DEF CancelActive, ServingInv, NoStall
    <3>5. CASE CancelQueued(i)
      BY <2>1, <2>2, <3>2, <3>5
         DEF CancelQueued, proxyVars, ServingInv, NothingLeft, StartIsLast, NoStall
    <3>6. QED
      BY <3>3, <3>4, <3>5
  <2>4. CASE ~\E j \in DOMAIN queue : Owner[queue[j]] = Owner[r]
    BY <1>3, <2>1, <2>4
       DEF Cancel, proxyVars, ServingInv, NothingLeft, StartIsLast, NoStall
  <2>5. QED
    BY <2>3, <2>4
<1>4. QED
  BY <1>1, <1>2, <1>3

\* Starting a request keeps it: each early return has a reason.
LEMMA StartServes ==
  ASSUME TypeOK, QueueInv, ChildLives, ServingInv, NoStall, StartNewRequest
  PROVE  ServingInv' /\ NoStall'
<1>1. /\ posted # <<>>
      /\ ToSet(posted) = {Head(posted)} \cup ToSet(Tail(posted))
      /\ UNCHANGED <<watcher, alive, credsReady>>
      /\ ~canceled'
  BY PostedSets DEF StartNewRequest, ResetCanceled
<1>2. posted' = Tail(posted) /\ StartIsLast => StartIsLast'
  BY <1>1, PostedLast DEF StartIsLast
<1>3. CASE NothingToStart
  <2>1. /\ UNCHANGED <<proxyVars, queue, requestIsActive>>
        /\ posted' = Tail(posted)
        /\ queue = <<>>
        /\ ~requestIsActive
    BY <1>3 DEF NothingToStart, QueueInv
  <2>2. QED
    BY <1>1, <1>2, <2>1 DEF proxyVars, ServingInv, NothingLeft, NoStall
<1>4. CASE AlreadyBusy
  BY <1>1, <1>4 DEF AlreadyBusy, ServingInv, NoStall
<1>5. CASE StartProcess
  BY <1>1, <1>5 DEF StartProcess, ServingInv, NoStall
<1>6. CASE StartFails
  <2>1. /\ process = "stopped"
        /\ UNCHANGED <<isResultObtained, toPlugin, fromPlugin, plugin>>
        /\ Faults # {}
    BY <1>6, FaultsNeeded DEF StartFails, RestartFails
  <2>2. /\ posted' = Append(Tail(posted), "start")
        /\ watcher # "pending"
        /\ requestIsActive' = FALSE
        /\ ~requestIsActive
    BY <1>6 DEF StartFails
  <2>3. StartIsLast' /\ "start" \in ToSet(posted')
    <3>1. Tail(posted) \in Seq({"start", "ui"})
      BY <1>1, HeadTailProperties DEF TypeOK, CoreTypeOK
    <3>2. "start" \in ToSet(Append(Tail(posted), "start"))
      <4> DEFINE rest == Tail(posted)
                 events == {"start", "ui"}
      <4>1. rest \in Seq(events) /\ "start" \in events
        BY <3>1
      <4> HIDE DEF rest, events
      <4>2. ToSet(Append(rest, "start")) = ToSet(rest) \cup {"start"}
        BY <4>1, AppendToSet
      <4>3. QED
        BY <4>2 DEF rest
    <3>3. QED
      BY <1>1, <2>2, <3>2, PostedLast DEF StartIsLast
  <2>4. toPlugin = <<>>
    BY <2>1 DEF ChildLives
  <2>5. QED
    BY <1>1, <2>1, <2>2, <2>3, <2>4 DEF ServingInv, NothingLeft, NoStall
<1>7. QED
  BY <1>3, <1>4, <1>5, <1>6 DEF StartNewRequest

\* The delivery of a dialog's reply keeps it: a reply that comes after the end of its
\* request is written to the child, and the start of the next one follows.
LEMMA QueryUiServes ==
  ASSUME Faults = {} \/ Cancellable = {},
         TypeOK, QueueInv, ServingInv, NoStall, QueryUiSlot
  PROVE  ServingInv' /\ NoStall'
<1>1. /\ posted # <<>>
      /\ Head(posted) = "ui"
      /\ posted' = Tail(posted)
      /\ ToSet(posted) = {"ui"} \cup ToSet(posted')
      /\ watcher' = "none"
      /\ UNCHANGED <<queue, requestIsActive, credsReady, autoDestruct>>
      /\ alive' => alive
  BY PostedSets DEF QueryUiSlot
<1>2. StartIsLast => StartIsLast' /\ "start" \in ToSet(posted')
  BY <1>1, PostedLast DEF StartIsLast
<1>3. "ui" \in ToSet(posted)
  BY <1>1
<1>4. /\ UNCHANGED <<isResultObtained, fromPlugin>>
      /\ plugin' \in {plugin, Idle}
      /\ queue # <<>> \/ UNCHANGED toPlugin
  BY DEF QueryUiSlot, ForwardUiReply, AssertQueueNotEmpty, proxyVars, ProxyContinue,
         WriteRestarting, RestartFails
<1>5. ServingInv'
  BY <1>1, <1>2, <1>3, <1>4 DEF ServingInv, NothingLeft
<1>6. NoStall'
  BY <1>1 DEF NoStall
<1>7. QED
  BY <1>5, <1>6

\* The exit of the child ends the request that was being processed.
LEMMA ExitServes ==
  ASSUME TypeOK, QueueInv, ChildLives, ServingInv, NoStall, OnExit
  PROVE  ServingInv' /\ NoStall'
<1>1. /\ UNCHANGED <<canceled, alive, credsReady, autoDestruct>>
      /\ UNCHANGED <<isResultObtained, toPlugin, fromPlugin, plugin>>
      /\ fromPlugin = <<>>
      /\ process = "crashed"
  BY DEF OnExit, handlerFrame, TakeExit, ChildLives
<1>2. toPlugin = <<>> /\ plugin = Idle /\ Faults # {}
  BY <1>1 DEF ChildLives
<1>3. ProcessError(NoReq) \/ SignalIgnored
  BY DEF OnExit
<1>4. QED
  BY <1>1, <1>2, <1>3, SlotsServe DEF ServingInv, NothingLeft, NoStall

\* The remaining actions keep it.
LEMMA OthersServe ==
  ASSUME TypeOK, QueueInv, ServingInv, NoStall,
         \/ CredentialsSystemReady \/ Destroy \/ Child \/ UNCHANGED vars
         \/ \E reply \in UiReply : SignonUiReplies(reply)
  PROVE  ServingInv' /\ NoStall'
<1>1. CASE CredentialsSystemReady
  <2>1. /\ UNCHANGED <<proxyVars, queue, requestIsActive, canceled, watcher, autoDestruct, alive>>
        /\ posted' = IF alive THEN Append(posted, "start") ELSE posted
    BY <1>1 DEF CredentialsSystemReady
  <2>2. QED
    BY <2>1, PostedSets, PostedLast
       DEF proxyVars, ServingInv, NothingLeft, StartIsLast, NoStall
<1>2. CASE Destroy \/ UNCHANGED vars
  BY <1>2 DEF Destroy, vars, proxyVars, coreVars, ServingInv, NothingLeft, StartIsLast, NoStall
<1>3. CASE Child
  <2>1. UNCHANGED <<coreVars, isResultObtained>>
    BY <1>3 DEF Child, ChildReads, PluginAnswers, PluginAsksUser, ChildCrashes, childFrame
  <2>2. \/ toPlugin # <<>> /\ posted = <<>>
        \/ plugin.doing = "working"
        \/ toPlugin' = <<>> /\ plugin' = Idle /\ UNCHANGED fromPlugin
    BY <1>3 DEF Child, Turn, ChildReads, PluginAnswers, PluginAsksUser, ChildCrashes
  <2>3. posted = <<>> => "start" \notin ToSet(posted)
    BY DEF ToSet
  <2>4. ~requestIsActive /\ ~isResultObtained => NothingLeft'
    BY <2>1, <2>2, <2>3 DEF ServingInv, NothingLeft, Idle, coreVars
  <2>5. QED
    BY <2>1, <2>4 DEF coreVars, ServingInv, StartIsLast, NoStall
<1>4. ASSUME NEW reply \in UiReply, SignonUiReplies(reply)
      PROVE  ServingInv' /\ NoStall'
  <2>1. /\ requestIsActive /\ requestIsActive'
        /\ watcher' # "pending"
        /\ UNCHANGED autoDestruct
    BY <1>4 DEF SignonUiReplies, UiReply, ServingInv
  <2>2. QED
    BY <2>1 DEF ServingInv, NoStall
<1>5. QED
  BY <1>1, <1>2, <1>3, <1>4

\* A core that has just been created satisfies it.
LEMMA InitService == Init => ServiceInv
<1> SUFFICES ASSUME Init PROVE ServiceInv
  OBVIOUS
<1>1. ChildLives
  BY EmptySeq DEF Init, ProxyInit, ChildLives
<1>2. ServingInv
  BY DEF Init, ProxyInit, ServingInv, NothingLeft, StartIsLast, ToSet
<1>3. NoStall
  BY DEF Init, NoStall
<1>4. QED
  BY <1>1, <1>2, <1>3 DEF ServiceInv

\* Every step keeps it.
LEMMA NextService ==
  ASSUME "blob" \notin Faults, Faults = {} \/ Cancellable = {},
         TypeOK, QueueInv, ServiceInv, [Next]_vars
  PROVE  ServiceInv'
<1>1. ChildLives'
  BY NextChildLives DEF ServiceInv
<1>2. ~BrokenResponse
  BY FaultsNeeded DEF BrokenResponse, TakeBroken
<1>3. ServingInv' /\ NoStall'
  BY <1>2, CallsServe, StartServes, ReadServes, QueryUiServes, ExitServes, OthersServe
     DEF Next, ServiceInv
<1>4. QED
  BY <1>1, <1>3 DEF ServiceInv

\* A request that waits never waits for an event that will not come, as long as no data is
\* broken on its way: whatever crashes, if nobody cancels, and whatever is cancelled, if
\* nothing crashes.
THEOREM NoRequestStalls ==
  ASSUME "blob" \notin Faults, Faults = {} \/ Cancellable = {}
  PROVE  Spec => []NoStall
<1>1. TypeOK /\ QueueInv /\ ServiceInv /\ [Next]_vars => ServiceInv'
  BY NextService
<1>2. ServiceInv => NoStall
  BY DEF ServiceInv
<1>3. QED
  BY InitService, <1>1, <1>2, TypeCorrect, QueueCorrect, PTL DEF Spec

\* Under the same conditions no core whose credentials can be read is disposed of with
\* requests in its queue.
THEOREM DestroyIsSafe ==
  ASSUME "blob" \notin Faults, Faults = {} \/ Cancellable = {}
  PROVE  Spec => DestroyLosesNothing
<1>1. ASSUME TypeOK, ServiceInv, [Next]_vars, alive, ~alive', credsReady
      PROVE  queue = <<>>
  <2>1. CASE Destroy
    BY <1>1, <2>1 DEF Destroy, ServiceInv, NoStall, ToSet
  <2>2. CASE QueryUiSlot
    BY <1>1, <2>2 DEF QueryUiSlot, ForwardUiReply, AssertQueueNotEmpty
  <2>3. CASE ~Destroy /\ ~QueryUiSlot
    <3>1. UNCHANGED alive
      BY <1>1, <2>3
         DEF Next, Process, Cancel, CredentialsSystemReady, StartNewRequest,
             ReadResponse, BrokenResponse, OnExit, handlerFrame, SignonUiReplies,
             Child, vars, coreVars
    <3>2. QED
      BY <1>1, <3>1
  <2>4. QED
    BY <2>1, <2>2, <2>3
<1>2. TypeOK /\ ServiceInv /\ [Next]_vars
        => [alive /\ ~alive' /\ credsReady => queue = <<>>]_vars
  BY <1>1
<1>3. QED
  BY InitService, NextService, <1>2, TypeCorrect, QueueCorrect, PTL
     DEF Spec, DestroyLosesNothing

-------------------------------------------------------------------------------
(* Neither too early nor too late                                           *)

\* Before the credentials can be read nothing has been started.
EarlyInv ==
  ~credsReady => started = {} /\ posted = <<>> /\ ~requestIsActive /\ ~isResultObtained

\* Without faults it is credentialsSystemReady() that posts the first event.
LEMMA NextEarly ==
  ASSUME Faults = {}, ServiceInv, EarlyInv, [Next]_vars
  PROVE  EarlyInv'
<1> SUFFICES ASSUME ~credsReady'
             PROVE  started' = {} /\ posted' = <<>> /\ ~requestIsActive' /\ ~isResultObtained'
  BY DEF EarlyInv
<1>1. ~CredentialsSystemReady
  BY DEF CredentialsSystemReady
<1>2. UNCHANGED credsReady
  BY <1>1 DEF Next, Process, Cancel, StartNewRequest, ReadResponse, BrokenResponse, OnExit,
              handlerFrame, SignonUiReplies, QueryUiSlot, Destroy, Child, vars, coreVars
<1>3. /\ started = {} /\ posted = <<>> /\ ~requestIsActive /\ ~isResultObtained
      /\ NothingLeft
      /\ watcher # "pending"
  BY <1>2 DEF EarlyInv, ServiceInv, ServingInv
<1>4. ASSUME NEW r \in Req, Process(r)
      PROVE  UNCHANGED <<started, posted, requestIsActive, isResultObtained>>
  BY <1>2, <1>4 DEF Process, PostIfReady, proxyVars
<1>5. ASSUME NEW r \in Req, Cancel(r)
      PROVE  UNCHANGED <<started, posted, requestIsActive, isResultObtained>>
  BY <1>3, <1>5 DEF Cancel, CancelActive, CancelQueued, proxyVars
<1>6. ~StartNewRequest /\ ~QueryUiSlot /\ ~ReadResponse
  BY <1>3 DEF StartNewRequest, QueryUiSlot, ReadResponse, NothingLeft
<1>7. ~BrokenResponse /\ ~OnExit
  BY FaultsNeeded DEF BrokenResponse, TakeBroken, OnExit, TakeExit, ServiceInv, ChildLives
<1>8. ASSUME NEW reply \in UiReply
      PROVE  ~SignonUiReplies(reply)
  BY <1>3 DEF SignonUiReplies
<1>9. ASSUME Destroy \/ Child \/ UNCHANGED vars
      PROVE  UNCHANGED <<started, posted, requestIsActive, isResultObtained>>
  BY <1>9 DEF Destroy, Child, ChildReads, PluginAnswers, PluginAsksUser, ChildCrashes,
              childFrame, vars, proxyVars, coreVars, ghostVars
<1>10. QED
  BY <1>1, <1>3, <1>4, <1>5, <1>6, <1>7, <1>8, <1>9 DEF Next

\* Without faults of the plug-in's process a core starts requests only once the credentials
\* system is ready, and is asked to go only when it does not decline, whatever is cancelled.
THEOREM ActsInTime ==
  ASSUME Faults = {}
  PROVE  Spec => []CoreActsInTime
<1>1. Init => EarlyInv
  BY DEF Init, ProxyInit, EarlyInv
<1>2. TypeOK /\ QueueInv /\ ServiceInv /\ [Next]_vars => ServiceInv'
  BY NextService
<1>3. ServiceInv /\ EarlyInv /\ [Next]_vars => EarlyInv'
  BY NextEarly
<1>4. ServiceInv /\ EarlyInv => CoreActsInTime
  BY DEF ServiceInv, ServingInv, EarlyInv, CoreActsInTime, WaitsForCredentials,
         DestroyNeverDeclines
<1>5. QED
  BY InitService, <1>1, <1>2, <1>3, <1>4, TypeCorrect, QueueCorrect, PTL DEF Spec

-------------------------------------------------------------------------------
(* Dialogs of requests that are done                                        *)

\* A plug-in that stores nothing sends no such response.
StoresNothing ==
  fromPlugin \in Seq([kind : {"result", "error", "ui", "refreshed"},
                      req : Req \cup {NoReq}])

\* The one dialog that is open is that of the active request, and signon-ui will be told
\* when it is done.
DialogInv ==
  /\ ~canceled
  /\ openUi \subseteq (IF requestIsActive THEN {Head(queue)} ELSE {})
  /\ openUi # {} => uiDisplayed
  /\ watcher = "failed" => openUi = {}
  /\ watcher = "pending" => uiFor = Head(queue)

\* The pipe from the plug-in holds what the plug-in has put there.
LEMMA NextStoresNothing ==
  ASSUME ~PluginStores, "blob" \notin Faults, TypeOK, StoresNothing, [Next]_vars
  PROVE  StoresNothing'
<1> DEFINE Kinds == [kind : {"result", "error", "ui", "refreshed"}, req : Req \cup {NoReq}]
<1>1. fromPlugin \in Seq(Kinds)
  BY DEF StoresNothing
<1>2. ASSUME NEW kind \in {"result", "error", "ui", "refreshed"}, NEW r \in Req \cup {NoReq},
             Emit(kind, r)
      PROVE  fromPlugin' \in Seq(Kinds)
  <2> DEFINE response == [kind |-> kind, req |-> r]
  <2>1. response \in Kinds /\ fromPlugin' = Append(fromPlugin, response)
    BY <1>2 DEF Emit
  <2> HIDE DEF response, Kinds
  <2>2. QED
    BY <1>1, <2>1, AppendProperties
<1>3. ASSUME fromPlugin # <<>>, fromPlugin' = Tail(fromPlugin)
      PROVE  fromPlugin' \in Seq(Kinds)
  <2> HIDE DEF Kinds
  <2>1. QED
    BY <1>1, <1>3, HeadTailProperties
<1>4. CASE ReadResponse
  BY <1>3, <1>4 DEF ReadResponse, TakeFinal, TakeOther, RefuseUi, StoresNothing
<1>5. CASE Child
  <2>1. plugin.req \in Req \cup {NoReq}
    BY DEF TypeOK, ProxyTypeOK
  <2>2. CASE ChildReads
    <3>1. Head(toPlugin).req \in Req \cup {NoReq}
      <4>1. toPlugin \in Seq(Operation) /\ toPlugin # <<>>
        BY <2>2 DEF ChildReads, TypeOK, ProxyTypeOK
      <4>2. Head(toPlugin) \in Operation
        BY <4>1, HeadTailProperties
      <4>3. QED
        BY <4>2 DEF Operation
    <3>2. QED
      BY <1>1, <1>2, <2>2, <3>1
         DEF ChildReads, ChildWork, ChildRefresh, ChildCancel, ChildStop, StoresNothing
  <2>3. CASE PluginAnswers
    BY <1>2, <2>1, <2>3 DEF PluginAnswers, StoresNothing
  <2>4. CASE PluginAsksUser
    BY <1>2, <2>1, <2>4 DEF PluginAsksUser, StoresNothing
  <2>5. QED
    BY <1>5, <2>2, <2>3, <2>4 DEF Child, ChildCrashes, StoresNothing
<1>6. CASE OnExit
  BY <1>6 DEF OnExit, TakeExit, StoresNothing
<1>7. ASSUME NEW r \in Req, Process(r) \/ Cancel(r)
      PROVE  UNCHANGED fromPlugin
  BY <1>7 DEF Process, Cancel, CancelActive, CancelQueued, ProxyCancel, proxyVars
<1>8. CASE StartNewRequest \/ QueryUiSlot
  <2>1. UNCHANGED fromPlugin
    BY <1>8 DEF StartNewRequest, NothingToStart, AlreadyBusy, StartProcess, StartFails,
                ProxyProcess, RestartFails, QueryUiSlot, ForwardUiReply,
                AssertQueueNotEmpty, ProxyContinue, proxyVars
  <2>2. QED
    BY <2>1 DEF StoresNothing
<1>9. CASE CredentialsSystemReady \/ Destroy \/ UNCHANGED vars
  BY <1>9 DEF CredentialsSystemReady, Destroy, vars, proxyVars, StoresNothing
<1>10. ASSUME NEW reply \in UiReply, SignonUiReplies(reply)
       PROVE  UNCHANGED fromPlugin
  BY <1>10 DEF SignonUiReplies
<1>11. ~BrokenResponse
  BY FaultsNeeded DEF BrokenResponse, TakeBroken
<1>12. QED
  BY <1>4, <1>5, <1>6, <1>7, <1>8, <1>9, <1>10, <1>11 DEF Next, StoresNothing

\* A request that ends has its dialog closed, and the one that is opened is its own.
LEMMA SlotsClose ==
  ASSUME TypeOK, QueueInv, DialogInv, UNCHANGED canceled, NEW of,
         \/ ProcessResultReply(of) \/ ProcessError(of)
         \/ (OpenDialog /\ requestIsActive) \/ SignalIgnored
  PROVE  DialogInv'
<1>1. CASE \/ SignalIgnored \/ (queue = <<>> /\ OpenDialog)
           \/ (queue = <<>> /\ (ProcessResultReply(of) \/ ProcessError(of)))
  BY <1>1 DEF SignalIgnored, OpenDialog, ProcessResultReply, ProcessError, NoReply, DialogInv
<1>2. CASE queue # <<>> /\ (ProcessResultReply(of) \/ ProcessError(of))
  <2>1. /\ requestIsActive' = FALSE
        /\ watcher' # "pending"
        /\ watcher' = "failed" => watcher = "failed"
        /\ openUi' = IF uiDisplayed THEN openUi \ DialogsOf(Head(queue)) ELSE openUi
    BY <1>2 DEF ProcessResultReply, ProcessError, RequestDone, Conclude, CloseUi, DialogInv
  <2>2. Head(queue) \in openUi => Head(queue) \in DialogsOf(Head(queue))
    BY DEF DialogsOf
  <2>3. openUi' = {}
    BY <2>1, <2>2 DEF DialogInv
  <2>4. QED
    BY <2>1, <2>3 DEF DialogInv
<1>3. CASE OpenDialog /\ requestIsActive /\ queue # <<>>
  BY <1>3 DEF OpenDialog, DialogInv
<1>4. QED
  BY <1>1, <1>2, <1>3

\* Every step keeps the dialogs and the queue in step.
LEMMA NextDialog ==
  ASSUME Cancellable = {}, ~PluginStores, "blob" \notin Faults,
         TypeOK, QueueInv, ServiceInv, StoresNothing, DialogInv, [Next]_vars
  PROVE  DialogInv'
<1>1. ASSUME NEW r \in Req, Process(r)
      PROVE  DialogInv'
  <2>1. UNCHANGED <<canceled, openUi, requestIsActive, uiDisplayed, watcher, uiFor>>
    BY <1>1 DEF Process
  <2>2. requestIsActive => Head(queue') = Head(queue)
    BY <1>1, AppendProperties, HeadTailProperties DEF Process, QueueInv, TypeOK, CoreTypeOK
  <2>3. watcher = "pending" => requestIsActive
    BY DEF ServiceInv, ServingInv
  <2>4. QED
    BY <2>1, <2>2, <2>3 DEF DialogInv
<1>2. ASSUME NEW r \in Req
      PROVE  ~Cancel(r)
  BY DEF Cancel
<1>3. CASE StartNewRequest
  <2>1. /\ UNCHANGED <<openUi, uiDisplayed, watcher, uiFor>>
        /\ ~canceled'
    BY <1>3 DEF StartNewRequest, ResetCanceled
  <2>2. \/ UNCHANGED <<queue, requestIsActive>>
        \/ ~requestIsActive /\ watcher # "pending"
    BY <1>3 DEF StartNewRequest, NothingToStart, AlreadyBusy, StartProcess, StartFails
  <2>3. QED
    BY <2>1, <2>2 DEF DialogInv
<1>4. CASE ReadResponse
  <2>1. fromPlugin # <<>> /\ UNCHANGED canceled
    BY <1>4 DEF ReadResponse, handlerFrame
  <2>2. requestIsActive \/ isResultObtained
    BY <2>1 DEF ServiceInv, ServingInv, NothingLeft
  <2>3. Head(fromPlugin).kind # "store"
    <3> DEFINE Kinds == [kind : {"result", "error", "ui", "refreshed"}, req : Req \cup {NoReq}]
    <3>1. fromPlugin \in Seq(Kinds)
      BY DEF StoresNothing
    <3>2. Head(fromPlugin) \in Kinds
      <4> HIDE DEF Kinds
      <4>1. QED
        BY <2>1, <3>1, HeadTailProperties
    <3>3. QED
      BY <3>2
  <2>4. \E of : \/ ProcessResultReply(of) \/ ProcessError(of)
                \/ (OpenDialog /\ requestIsActive) \/ SignalIgnored
    BY <1>4, <2>2, <2>3 DEF ReadResponse
  <2>5. QED
    BY <2>1, <2>4, SlotsClose
<1>5. CASE OnExit
  <2>1. UNCHANGED canceled /\ (ProcessError(NoReq) \/ SignalIgnored)
    BY <1>5 DEF OnExit, handlerFrame
  <2>2. QED
    BY <2>1, SlotsClose
<1>6. ASSUME NEW reply \in UiReply, SignonUiReplies(reply)
      PROVE  DialogInv'
  <2>1. /\ UNCHANGED <<canceled, requestIsActive, queue, uiDisplayed, uiFor>>
        /\ watcher = "pending" /\ watcher' = reply /\ reply # "pending"
        /\ openUi' = IF reply = "failed" THEN openUi \ {uiFor} ELSE openUi
    BY <1>6 DEF SignonUiReplies, UiReply
  <2>2. QED
    BY <2>1 DEF DialogInv
<1>7. CASE QueryUiSlot
  <2>1. /\ UNCHANGED <<canceled, requestIsActive, queue, openUi>>
        /\ watcher' = "none"
        /\ uiDisplayed' = (uiDisplayed /\ watcher # "failed") \/ UNCHANGED uiDisplayed
    BY <1>7 DEF QueryUiSlot, ForwardUiReply, AssertQueueNotEmpty
  <2>2. QED
    BY <2>1 DEF DialogInv
<1>8. CASE CredentialsSystemReady \/ Destroy \/ Child \/ UNCHANGED vars
  BY <1>8 DEF CredentialsSystemReady, Destroy, Child, vars, coreVars, ghostVars, DialogInv
<1>9. ~BrokenResponse
  BY FaultsNeeded DEF BrokenResponse, TakeBroken
<1>10. QED
  BY <1>1, <1>2, <1>3, <1>4, <1>5, <1>6, <1>7, <1>8, <1>9 DEF Next

\* Where nobody cancels, no data is broken and the plug-in stores nothing, signon-ui has
\* been told to close the dialog of every request that has left the queue, whatever
\* crashes and however often the user is asked.
THEOREM DialogsAreClosed ==
  ASSUME Cancellable = {}, ~PluginStores, "blob" \notin Faults
  PROVE  Spec => []UiClosedWhenDone
<1>1. Init => StoresNothing /\ DialogInv
  BY EmptySeq DEF Init, ProxyInit, StoresNothing, DialogInv
<1>2. TypeOK /\ QueueInv /\ ServiceInv /\ [Next]_vars => ServiceInv'
  BY NextService
<1>3. TypeOK /\ StoresNothing /\ [Next]_vars => StoresNothing'
  BY NextStoresNothing
<1>4. TypeOK /\ QueueInv /\ ServiceInv /\ StoresNothing /\ DialogInv /\ [Next]_vars
        => DialogInv'
  BY NextDialog
<1>5. TypeOK /\ QueueInv /\ DialogInv => UiClosedWhenDone
  <2> SUFFICES ASSUME TypeOK, QueueInv, DialogInv, requestIsActive
               PROVE  Head(queue) \in ToSet(queue)
    BY DEF DialogInv, UiClosedWhenDone
  <2>1. QED
    BY TailToSet DEF QueueInv, TypeOK, CoreTypeOK
<1>6. QED
  BY InitService, <1>1, <1>2, <1>3, <1>4, <1>5, TypeCorrect, QueueCorrect, PTL DEF Spec

-------------------------------------------------------------------------------
(* Where the request is that is being processed                             *)

Op(op, r) == [op |-> op, req |-> r]
Resp(kind, r) == [kind |-> kind, req |-> r]

NoDialog == watcher = "none" /\ "ui" \notin ToSet(posted)

\* No two replies of dialogs are on their way.
OneUi == \A i, j \in DOMAIN posted : posted[i] = "ui" /\ posted[j] = "ui" => i = j

\* The stages of a request r: written to the child, worked on, answered, waiting for a
\* dialog, shown to the user, replied to, and written to the child again.
Given(r) ==
  /\ NoDialog
  /\ plugin = Idle
  /\ toPlugin = <<Op("process", r)>>
  /\ fromPlugin = <<>>

Working(r) ==
  /\ NoDialog
  /\ plugin = [req |-> r, doing |-> "working"]
  /\ toPlugin = <<>>
  /\ fromPlugin = <<>>

Finished(r) ==
  /\ NoDialog
  /\ plugin = Idle
  /\ toPlugin = <<>>
  /\ \/ \E kind \in {"result", "error"} : fromPlugin = <<Resp(kind, r)>>
     \/ fromPlugin = <<Resp("store", r), Resp("result", r)>>

Asking(r) ==
  /\ NoDialog
  /\ plugin = [req |-> r, doing |-> "ui"]
  /\ toPlugin = <<>>
  /\ fromPlugin = <<Resp("ui", r)>> \/ (fromPlugin = <<Resp("refreshed", r)>> /\ r \notin NoUi)

Shown(r) ==
  /\ watcher = "pending" /\ "ui" \notin ToSet(posted)
  /\ uiFor = r /\ r \notin NoUi
  /\ plugin = [req |-> r, doing |-> "ui"]
  /\ toPlugin = <<>>
  /\ fromPlugin = <<>>

Replied(r) ==
  /\ watcher \in UiReply /\ OneUi
  /\ uiFor = r /\ r \notin NoUi
  /\ plugin = [req |-> r, doing |-> "ui"]
  /\ toPlugin = <<>>
  /\ fromPlugin = <<>>

Resumed(r) ==
  /\ NoDialog
  /\ plugin = [req |-> r, doing |-> "ui"]
  /\ toPlugin = <<Op("processUi", r)>> \/ (toPlugin = <<Op("refresh", r)>> /\ r \notin NoUi)
  /\ fromPlugin = <<>>

Stage(r) ==
  \/ Given(r) \/ Working(r) \/ Finished(r) \/ Asking(r) \/ Shown(r) \/ Replied(r)
  \/ Resumed(r)

\* Between two requests there is nothing anywhere.
AtRest == NoDialog /\ plugin = Idle /\ toPlugin = <<>> /\ fromPlugin = <<>>

\* The active request is in one place, and whatever is there is its own.
Serving ==
  IF requestIsActive
  THEN /\ ~isResultObtained
       /\ uiPolicy = (Head(queue) \notin NoUi)
       /\ tmpCreds \in {NoReq, Head(queue)}
       /\ Stage(Head(queue))
  ELSE AtRest

ApartInv ==
  Undisturbed =>
    /\ process = "running"
    /\ ~canceled
    /\ openUi \cap NoUi = {}
    /\ ResultFromOwnRequest
    /\ Serving

\* What has been disturbed remains so.
LEMMA UndisturbedStep ==
  ASSUME TypeOK, [Next]_vars, Undisturbed'
  PROVE  /\ Undisturbed
         /\ \A kind : ~Fault(kind)
         /\ \A r \in Req : ~Cancel(r)
<1>1. cancelSent \subseteq cancelSent'
  BY DEF Next, Process, Cancel, CredentialsSystemReady, StartNewRequest, ReadResponse,
         BrokenResponse, OnExit, handlerFrame, SignonUiReplies, QueryUiSlot, Destroy, Child,
         vars, ghostVars
<1>2. \A r \in Req : ~Cancel(r)
  BY DEF Cancel, Undisturbed
<1>3. faults \in Nat
  BY DEF TypeOK, ProxyTypeOK
<1>4. faults' = faults /\ \A kind : ~Fault(kind)
  <2>1. \A kind : ~Fault(kind)
    BY <1>3 DEF Fault, Undisturbed
  <2>3. CASE ReadResponse \/ OnExit
    BY <2>1, <2>3 DEF ReadResponse, OnExit, TakeFinal, TakeOther, RefuseUi, TakeExit
  <2>4. CASE StartNewRequest \/ QueryUiSlot
    BY <2>1, <2>4
       DEF StartNewRequest, NothingToStart, AlreadyBusy, StartProcess, StartFails,
           ProxyProcess, RestartFails, QueryUiSlot, ForwardUiReply, AssertQueueNotEmpty,
           ProxyContinue, proxyVars
  <2>5. CASE Child
    BY <2>1, <2>5 DEF Child, ChildReads, PluginAnswers, PluginAsksUser, ChildCrashes
  <2>6. CASE \E r \in Req : Process(r)
    BY <2>1, <2>6 DEF Process, proxyVars
  <2>7. CASE \E reply \in UiReply : SignonUiReplies(reply)
    BY <2>1, <2>7 DEF SignonUiReplies
  <2>8. CASE CredentialsSystemReady \/ Destroy \/ UNCHANGED vars
    BY <2>1, <2>8 DEF CredentialsSystemReady, Destroy, vars, proxyVars
  <2>9. ~BrokenResponse
    BY <2>1 DEF BrokenResponse, TakeBroken
  <2>10. QED
    BY <1>2, <2>1, <2>3, <2>4, <2>5, <2>6, <2>7, <2>8, <2>9 DEF Next
<1>5. QED
  BY <1>1, <1>2, <1>4 DEF Undisturbed

\* How the posted events change as far as replies of dialogs are concerned.
LEMMA UiEvents ==
  ASSUME TypeOK
  PROVE  /\ posted' = posted \/ posted' = Append(posted, "start")
              => (OneUi => OneUi') /\ ("ui" \notin ToSet(posted) => "ui" \notin ToSet(posted)')
         /\ posted' = Append(posted, "ui") /\ "ui" \notin ToSet(posted) => OneUi'
         /\ posted # <<>> /\ posted' = Tail(posted)
              => /\ OneUi => OneUi'
                 /\ "ui" \notin ToSet(posted) => "ui" \notin ToSet(posted)'
                 /\ Head(posted) = "ui" /\ OneUi => "ui" \notin ToSet(posted)'
         /\ posted' = RemoveFirst(posted, "ui") /\ "ui" \notin ToSet(posted)
              => "ui" \notin ToSet(posted)'
<1>1. posted \in Seq({"start", "ui"}) /\ DOMAIN posted = 1 .. Len(posted) /\ Len(posted) \in Nat
  BY LenProperties DEF TypeOK, CoreTypeOK
<1>2. posted' = posted => (OneUi => OneUi') /\ ("ui" \notin ToSet(posted) => "ui" \notin ToSet(posted)')
  BY DEF OneUi, ToSet
<1>3. ASSUME NEW e \in {"start", "ui"}, posted' = Append(posted, e)
      PROVE  /\ DOMAIN posted' = 1 .. Len(posted) + 1
             /\ \A i \in 1 .. Len(posted) : posted'[i] = posted[i]
             /\ posted'[Len(posted) + 1] = e
  BY <1>1, <1>3, AppendProperties, LenProperties
<1>4. ASSUME posted' = Append(posted, "start")
      PROVE  (OneUi => OneUi') /\ ("ui" \notin ToSet(posted) => "ui" \notin ToSet(posted)')
  <2>1. /\ DOMAIN posted' = 1 .. Len(posted) + 1
        /\ \A i \in 1 .. Len(posted) : posted'[i] = posted[i]
        /\ posted'[Len(posted) + 1] = "start"
    BY <1>3, <1>4
  <2>2. \A i \in DOMAIN posted' : posted'[i] = "ui" => i \in DOMAIN posted /\ posted[i] = "ui"
    BY <1>1, <2>1
  <2>3. OneUi => OneUi'
    BY <2>2 DEF OneUi
  <2>4. "ui" \notin ToSet(posted) => "ui" \notin ToSet(posted)'
    BY <2>2 DEF ToSet
  <2>5. QED
    BY <2>3, <2>4
<1>5. posted' = Append(posted, "ui") /\ "ui" \notin ToSet(posted) => OneUi'
  <2> SUFFICES ASSUME posted' = Append(posted, "ui"), "ui" \notin ToSet(posted)
               PROVE  OneUi'
    OBVIOUS
  <2>1. /\ DOMAIN posted' = 1 .. Len(posted) + 1
        /\ \A i \in 1 .. Len(posted) : posted'[i] = posted[i]
    BY <1>3
  <2>2. \A i \in DOMAIN posted' : posted'[i] = "ui" => i = Len(posted) + 1
    BY <1>1, <2>1 DEF ToSet
  <2>3. QED
    BY <2>2 DEF OneUi
<1>6. posted # <<>> /\ posted' = Tail(posted)
        => /\ OneUi => OneUi'
           /\ "ui" \notin ToSet(posted) => "ui" \notin ToSet(posted)'
           /\ Head(posted) = "ui" /\ OneUi => "ui" \notin ToSet(posted)'
  <2> SUFFICES ASSUME posted # <<>>, posted' = Tail(posted)
               PROVE  /\ OneUi => OneUi'
                      /\ "ui" \notin ToSet(posted) => "ui" \notin ToSet(posted)'
                      /\ Head(posted) = "ui" /\ OneUi => "ui" \notin ToSet(posted)'
    OBVIOUS
  <2>1. /\ Len(posted) # 0
        /\ Head(posted) = posted[1]
        /\ DOMAIN posted' = 1 .. Len(posted) - 1
        /\ \A i \in 1 .. Len(posted) - 1 : posted'[i] = posted[i + 1]
    BY <1>1, EmptySeq, HeadTailProperties, LenProperties
  <2>2. \A i \in DOMAIN posted' :
          i + 1 \in DOMAIN posted /\ posted'[i] = posted[i + 1] /\ i \in Nat \ {0}
    BY <1>1, <2>1
  <2>3. OneUi => OneUi'
    BY <2>2 DEF OneUi
  <2>4. "ui" \notin ToSet(posted) => "ui" \notin ToSet(posted)'
    BY <2>2 DEF ToSet
  <2>5. ASSUME Head(posted) = "ui", OneUi, NEW i \in DOMAIN posted', posted'[i] = "ui"
        PROVE  FALSE
    <3>1. 1 \in DOMAIN posted /\ i + 1 \in DOMAIN posted /\ i + 1 # 1
      BY <1>1, <2>1, <2>2
    <3>2. posted[1] = "ui" /\ posted[i + 1] = "ui"
      BY <2>1, <2>2, <2>5
    <3>3. QED
      BY <2>5, <3>1, <3>2 DEF OneUi
  <2>6. QED
    BY <2>3, <2>4, <2>5 DEF ToSet
<1>7. posted' = RemoveFirst(posted, "ui") /\ "ui" \notin ToSet(posted)
        => "ui" \notin ToSet(posted)'
  BY <1>1, RemoveFirstProperties
<1>8. QED
  BY <1>2, <1>4, <1>5, <1>6, <1>7

\* A step that touches neither pipe, plug-in nor dialog leaves the request where it is.
LEMMA StageKept ==
  ASSUME NEW r, Stage(r), UNCHANGED <<toPlugin, fromPlugin, plugin, watcher, uiFor>>,
         OneUi => OneUi', "ui" \notin ToSet(posted) => "ui" \notin ToSet(posted)'
  PROVE  Stage(r)'
<1>1. NoDialog => NoDialog'
  BY DEF NoDialog
<1>2. QED
  BY <1>1 DEF Stage, Given, Working, Finished, Asking, Shown, Replied, Resumed

\* A result goes to the request it was made for.
LEMMA OwnResult ==
  ASSUME TypeOK, queue # <<>>, ResultFromOwnRequest, Undisturbed, NEW kind, NEW of,
         kind = "result" => of = Head(queue), AddReply(Head(queue), kind, of)
  PROVE  ResultFromOwnRequest'
<1> DEFINE h == Head(queue)
           reply == [kind |-> kind, of |-> of]
<1>1. h \in Req /\ replies \in [Req -> Seq(Reply)]
  BY HeadOfQueue DEF TypeOK, GhostTypeOK
<1>2. \A r \in Req : r # h => replies'[r] = replies[r]
  BY <1>1 DEF AddReply
<1>3. replies'[h] = Append(replies[h], reply) /\ replies[h] \in Seq(Reply)
  BY <1>1 DEF AddReply
<1>4. \A i \in DOMAIN replies'[h] :
        \/ replies'[h][i] = reply
        \/ i \in DOMAIN replies[h] /\ replies'[h][i] = replies[h][i]
  <2> DEFINE s == replies[h]
  <2>1. s \in Seq(Reply) /\ replies'[h] = Append(s, reply)
    BY <1>3
  <2> HIDE DEF s, reply, h
  <2>2. DOMAIN Append(s, reply) = 1 .. Len(s) + 1 /\ DOMAIN s = 1 .. Len(s)
    BY <2>1, AppendProperties, LenProperties
  <2>3. QED
    BY <2>1, <2>2, AppendProperties, LenProperties DEF s
<1>5. reply.kind = "result" => reply.of = h
  OBVIOUS
<1> HIDE DEF h, reply
<1>6. QED
  BY <1>2, <1>4, <1>5 DEF ResultFromOwnRequest

\* The plug-in's answer ends the request, and leaves nothing behind.
LEMMA FinalApart ==
  ASSUME TypeOK, queue # <<>>, Undisturbed, ~canceled, openUi \cap NoUi = {},
         ResultFromOwnRequest, NEW of, NEW kind \in {"result", "error"},
         Finished(Head(queue)), fromPlugin = <<Resp(kind, Head(queue))>>,
         TakeFinal(Head(fromPlugin)),
         \/ kind = "result" /\ ProcessResultReply(Head(fromPlugin).req)
         \/ kind = "error" /\ ProcessError(Head(fromPlugin).req)
  PROVE  openUi' \cap NoUi = {} /\ ResultFromOwnRequest' /\ Serving'
<1>1. Head(fromPlugin).req = Head(queue) /\ Tail(fromPlugin) = <<>>
  BY DEF Resp
<1>2. RequestDone /\ Conclude(kind, Head(queue))
  BY <1>1 DEF ProcessResultReply, ProcessError
<1>3. openUi' \subseteq openUi
  BY <1>2 DEF Conclude, CloseUi
<1>4. ResultFromOwnRequest'
  BY <1>2, OwnResult DEF Conclude
<1>5. AtRest'
  <2>1. UNCHANGED <<toPlugin, plugin>> /\ fromPlugin' = <<>>
    BY <1>1 DEF TakeFinal
  <2>2. toPlugin = <<>> /\ plugin = Idle /\ NoDialog
    BY DEF Finished
  <2>3. watcher' = "none"
    BY <1>2, <2>2 DEF Conclude, NoDialog
  <2>4. "ui" \notin ToSet(posted)'
    BY <1>2, <2>2, UiEvents DEF RequestDone, NoDialog
  <2>5. QED
    BY <2>1, <2>2, <2>3, <2>4 DEF AtRest, NoDialog, Idle
<1>6. QED
  BY <1>2, <1>3, <1>4, <1>5 DEF Serving, RequestDone

\* A dialog is for the request that asked for it, and one that may have it.
LEMMA DialogApart ==
  ASSUME TypeOK, queue # <<>>, ~canceled, OpenDialog, Asking(Head(queue)),
         Head(queue) \notin NoUi, TakeOther(Head(fromPlugin)), openUi \cap NoUi = {}
  PROVE  openUi' \cap NoUi = {} /\ Stage(Head(queue))' /\ UNCHANGED tmpCreds
<1>1. /\ UNCHANGED <<queue, toPlugin, plugin, tmpCreds>>
      /\ fromPlugin' = Tail(fromPlugin)
      /\ watcher' = "pending"
      /\ uiFor' = Head(queue)
      /\ openUi' = openUi \cup {Head(queue)}
      /\ posted' = RemoveFirst(posted, "ui")
  BY DEF OpenDialog, TakeOther
<1>2. "ui" \notin ToSet(posted)'
  BY <1>1, UiEvents DEF Asking, NoDialog
<1>3. fromPlugin' = <<>>
  BY <1>1 DEF Asking, Resp
<1>4. Shown(Head(queue))'
  BY <1>1, <1>2, <1>3 DEF Shown, Asking
<1>5. QED
  BY <1>1, <1>4 DEF Stage

\* What the core does with a response while a request is served.
LEMMA ReadApart ==
  ASSUME TypeOK, QueueInv, Undisturbed, ApartInv, ReadResponse
  PROVE  process' = "running" /\ openUi' \cap NoUi = {} /\ ResultFromOwnRequest' /\ Serving'
<1> DEFINE h == Head(queue)
           resp == Head(fromPlugin)
<1>1. process = "running" /\ ~canceled /\ openUi \cap NoUi = {} /\ ResultFromOwnRequest /\ Serving
  BY DEF ApartInv
<1>2. fromPlugin # <<>>
  BY DEF ReadResponse
<1>3. /\ requestIsActive /\ queue # <<>>
      /\ ~isResultObtained
      /\ uiPolicy = (h \notin NoUi)
      /\ tmpCreds \in {NoReq, h}
      /\ Finished(h) \/ Asking(h)
  BY <1>1, <1>2
     DEF Serving, AtRest, QueueInv, Stage, Given, Working, Shown, Replied, Resumed
<1>4. process' = "running"
  BY <1>1 DEF ReadResponse, TakeFinal, TakeOther, RefuseUi, WriteRestarting
<1>5. ASSUME NEW kind \in {"result", "error"}, Finished(h), fromPlugin = <<Resp(kind, h)>>
      PROVE  openUi' \cap NoUi = {} /\ ResultFromOwnRequest' /\ Serving'
  <2>1. resp.kind = kind
    BY <1>5 DEF Resp
  <2>2. /\ TakeFinal(resp)
        /\ \/ kind = "result" /\ ProcessResultReply(resp.req)
           \/ kind = "error" /\ ProcessError(resp.req)
    BY <1>3, <2>1 DEF ReadResponse
  <2>3. QED
    BY <1>1, <1>3, <1>5, <2>2, FinalApart
<1>6. CASE Finished(h) /\ fromPlugin = <<Resp("store", h), Resp("result", h)>>
  <2>1. resp.kind = "store" /\ Tail(fromPlugin) = <<Resp("result", h)>>
    BY <1>6 DEF Resp
  <2>2. TakeOther(resp) /\ ProcessStore
    BY <1>3, <2>1 DEF ReadResponse, TakeFinal
  <2>3. /\ UNCHANGED <<isResultObtained, uiPolicy, toPlugin, plugin, queue, requestIsActive,
                       posted, tmpCreds, replies, watcher, uiFor, openUi>>
        /\ fromPlugin' = <<Resp("result", h)>>
    BY <2>1, <2>2 DEF TakeOther, ProcessStore
  <2>4. Finished(h)'
    BY <1>6, <2>3 DEF Finished, NoDialog
  <2>5. Serving'
    BY <1>3, <2>3, <2>4 DEF Serving, Stage
  <2>6. ResultFromOwnRequest'
    BY <1>1, <2>3 DEF ResultFromOwnRequest
  <2>7. QED
    BY <1>1, <1>4, <2>3, <2>5, <2>6
<1>7. CASE Asking(h) /\ fromPlugin = <<Resp("ui", h)>> /\ h \in NoUi
  <2>1. resp.kind = "ui" /\ resp.req = h /\ Tail(fromPlugin) = <<>>
    BY <1>7 DEF Resp
  <2>2. RefuseUi(resp) /\ SignalIgnored
    BY <1>3, <1>7, <2>1 DEF ReadResponse, TakeFinal
  <2>3. toPlugin = <<>> /\ plugin = [req |-> h, doing |-> "ui"] /\ NoDialog
    BY <1>7 DEF Asking
  <2>4. /\ fromPlugin' = <<>>
        /\ toPlugin' = <<Op("processUi", h)>>
        /\ UNCHANGED plugin
    BY <1>1, <2>1, <2>2, <2>3 DEF RefuseUi, WriteRestarting, Write, Op
  <2>5. /\ UNCHANGED <<isResultObtained, uiPolicy, queue, requestIsActive, posted, tmpCreds,
                       replies, watcher, openUi>>
    BY <2>2 DEF RefuseUi, SignalIgnored
  <2>6. Resumed(h)'
    BY <2>3, <2>4, <2>5 DEF Resumed, NoDialog
  <2>7. Serving'
    BY <1>3, <2>5, <2>6 DEF Serving, Stage
  <2>8. ResultFromOwnRequest'
    BY <1>1, <2>5 DEF ResultFromOwnRequest
  <2>9. QED
    BY <1>1, <1>4, <2>5, <2>7, <2>8
<1>8. CASE Asking(h) /\ h \notin NoUi
  <2>1. resp.kind \in {"ui", "refreshed"}
    BY <1>8 DEF Asking, Resp
  <2>2. TakeOther(resp) /\ OpenDialog
    BY <1>3, <1>8, <2>1 DEF ReadResponse, TakeFinal
  <2>3. openUi' \cap NoUi = {} /\ Stage(h)' /\ UNCHANGED tmpCreds
    BY <1>1, <1>3, <1>8, <2>2, DialogApart
  <2>4. UNCHANGED <<isResultObtained, uiPolicy, queue, requestIsActive, replies>>
    BY <2>2 DEF TakeOther, OpenDialog
  <2>5. Serving'
    BY <1>3, <2>3, <2>4 DEF Serving
  <2>6. ResultFromOwnRequest'
    BY <1>1, <2>4 DEF ResultFromOwnRequest
  <2>7. QED
    BY <1>4, <2>3, <2>5, <2>6
<1>9. QED
  BY <1>3, <1>4, <1>5, <1>6, <1>7, <1>8 DEF Finished, Asking

\* What the child and the plug-in do with the request they have.
LEMMA ChildApart ==
  ASSUME TypeOK, Undisturbed, ApartInv, Child, \A kind : ~Fault(kind)
  PROVE  process' = "running" /\ Serving'
<1> DEFINE h == Head(queue)
<1>1. process = "running" /\ Serving /\ UNCHANGED <<coreVars, uiFor>>
  BY DEF ApartInv, Child, ghostVars
<1>2. UNCHANGED <<isResultObtained, uiPolicy, queue, requestIsActive, tmpCreds, watcher, posted>>
  BY <1>1 DEF Child, coreVars, ChildReads, PluginAnswers, PluginAsksUser, ChildCrashes, childFrame
<1>3. NoDialog => NoDialog'
  BY <1>2 DEF NoDialog, ToSet
<1>4. requestIsActive
  BY <1>1 DEF Serving, AtRest, Idle, Child, ChildReads, PluginAnswers, PluginAsksUser, ChildCrashes
<1>5. Stage(h)
  BY <1>1, <1>4 DEF Serving
<1>6. CASE ChildReads
  <2>1. toPlugin # <<>>
    BY <1>6 DEF ChildReads
  <2>2. Given(h) \/ Resumed(h)
    BY <1>5, <2>1 DEF Stage, Working, Finished, Asking, Shown, Replied
  <2>3. CASE Given(h) \/ (Resumed(h) /\ toPlugin = <<Op("processUi", h)>>)
    <3>1. /\ Head(toPlugin).op \in {"process", "processUi"} /\ Head(toPlugin).req = h
          /\ Tail(toPlugin) = <<>>
      <4>1. PICK op \in {"process", "processUi"} : toPlugin = <<Op(op, h)>>
        BY <2>3 DEF Given
      <4>2. Op(op, h).op = op /\ Op(op, h).req = h
        BY DEF Op
      <4>3. QED
        BY <4>1, <4>2
    <3>2. ChildWork
      BY <1>6, <3>1 DEF ChildReads, ChildRefresh, ChildCancel, ChildStop
    <3>3. /\ process' = "running" /\ toPlugin' = <<>> /\ UNCHANGED fromPlugin
          /\ plugin' = [req |-> h, doing |-> "working"]
      BY <1>1, <1>6, <3>1, <3>2 DEF ChildReads, ChildWork
    <3>4. Working(h)'
      BY <1>2, <1>3, <2>3, <3>3 DEF Given, Resumed, Working
    <3>5. QED
      BY <1>1, <1>2, <1>4, <3>3, <3>4 DEF Serving, Stage
  <2>4. CASE Resumed(h) /\ toPlugin = <<Op("refresh", h)>> /\ h \notin NoUi
    <3>1. Head(toPlugin).op = "refresh" /\ Head(toPlugin).req = h /\ Tail(toPlugin) = <<>>
      BY <2>4 DEF Op
    <3>2. ChildRefresh
      BY <1>6, <3>1 DEF ChildReads, ChildWork, ChildCancel, ChildStop
    <3>3. /\ process' = "running" /\ toPlugin' = <<>> /\ UNCHANGED plugin
          /\ fromPlugin' = <<Resp("refreshed", h)>>
      BY <1>1, <1>6, <2>4, <3>1, <3>2 DEF ChildReads, ChildRefresh, Emit, Resumed, Resp
    <3>4. Asking(h)'
      BY <1>2, <1>3, <2>4, <3>3 DEF Resumed, Asking
    <3>5. QED
      BY <1>1, <1>2, <1>4, <3>3, <3>4 DEF Serving, Stage
  <2>5. QED
    BY <2>2, <2>3, <2>4 DEF Resumed
<1>7. CASE PluginAnswers \/ PluginAsksUser
  <2>1. plugin.doing = "working"
    BY <1>7 DEF PluginAnswers, PluginAsksUser
  <2>2. Working(h) /\ plugin.req = h
    BY <1>5, <2>1 DEF Stage, Given, Working, Finished, Asking, Shown, Replied, Resumed, Idle
  <2>3. CASE PluginAnswers
    <3>1. process' = "running" /\ plugin' = Idle /\ UNCHANGED toPlugin
      BY <1>1, <2>3 DEF PluginAnswers
    <3>2. \/ \E kind \in {"result", "error"} : fromPlugin' = <<Resp(kind, h)>>
          \/ fromPlugin' = <<Resp("store", h), Resp("result", h)>>
      BY <2>2, <2>3 DEF PluginAnswers, Emit, Resp, Working
    <3>3. Finished(h)'
      BY <1>2, <1>3, <2>2, <3>1, <3>2 DEF Working, Finished, Idle
    <3>4. QED
      BY <1>1, <1>2, <1>4, <3>1, <3>3 DEF Serving, Stage
  <2>4. CASE PluginAsksUser
    <3>1. /\ process' = "running" /\ UNCHANGED toPlugin
          /\ fromPlugin' = <<Resp("ui", h)>>
          /\ plugin' = [req |-> h, doing |-> "ui"]
      BY <1>1, <2>2, <2>4 DEF PluginAsksUser, Emit, Resp, Working
    <3>2. Asking(h)'
      BY <1>2, <1>3, <2>2, <3>1 DEF Working, Asking
    <3>3. QED
      BY <1>1, <1>2, <1>4, <3>1, <3>2 DEF Serving, Stage
  <2>5. QED
    BY <1>7, <2>3, <2>4
<1>8. QED
  BY <1>6, <1>7 DEF Child, ChildCrashes

\* The reply of a dialog reaches the request that asked for it.
LEMMA QueryUiApart ==
  ASSUME TypeOK, QueueInv, Undisturbed, ApartInv, QueryUiSlot, \A kind : ~Fault(kind)
  PROVE  process' = "running" /\ Serving'
<1> DEFINE h == Head(queue)
<1>1. process = "running" /\ ~canceled /\ Serving
  BY DEF ApartInv
<1>2. /\ posted # <<>> /\ Head(posted) = "ui" /\ posted' = Tail(posted)
      /\ watcher' = "none"
      /\ UNCHANGED <<queue, requestIsActive>>
  BY DEF QueryUiSlot
<1>3. "ui" \in ToSet(posted)
  BY <1>2, PostedSets
<1>4. requestIsActive /\ queue # <<>>
  BY <1>1, <1>3 DEF Serving, AtRest, NoDialog, QueueInv
<1>5. Replied(h)
  BY <1>1, <1>3, <1>4
     DEF Serving, Stage, Given, Working, Finished, Asking, Shown, Resumed, NoDialog
<1>6. NoDialog'
  BY <1>2, <1>5, UiEvents DEF Replied, NoDialog
<1>7. PICK op \in {"refresh", "processUi"} : ProxyContinue(op, uiFor)
  BY <1>1, <1>4 DEF QueryUiSlot, ForwardUiReply, AssertQueueNotEmpty
<1>8. tmpCreds' \in {uiFor, h}
  BY <1>1, <1>4 DEF QueryUiSlot, ForwardUiReply, AssertQueueNotEmpty
<1>9. /\ process' = "running"
      /\ toPlugin' = <<Op(op, h)>>
      /\ UNCHANGED <<plugin, isResultObtained, uiPolicy, fromPlugin>>
  BY <1>1, <1>5, <1>7 DEF ProxyContinue, RestartFails, WriteRestarting, Write, Op, Replied
<1>10. Resumed(h)'
  BY <1>2, <1>5, <1>6, <1>9 DEF Replied, Resumed
<1>11. QED
  BY <1>1, <1>2, <1>4, <1>5, <1>8, <1>9, <1>10 DEF Serving, Stage, Replied

\* Every step keeps requests apart.
LEMMA NextApart ==
  ASSUME TypeOK, QueueInv, ApartInv, [Next]_vars
  PROVE  ApartInv'
<1> SUFFICES ASSUME Undisturbed'
             PROVE  /\ process' = "running"
                    /\ ~canceled'
                    /\ openUi' \cap NoUi = {}
                    /\ ResultFromOwnRequest'
                    /\ Serving'
  BY DEF ApartInv
<1>1. Undisturbed /\ (\A kind : ~Fault(kind)) /\ (\A r \in Req : ~Cancel(r))
  BY UndisturbedStep
<1>2. process = "running" /\ ~canceled /\ openUi \cap NoUi = {} /\ ResultFromOwnRequest /\ Serving
  BY <1>1 DEF ApartInv
<1>3. ASSUME UNCHANGED replies
      PROVE  ResultFromOwnRequest'
  BY <1>1, <1>2, <1>3 DEF ResultFromOwnRequest
<1>4. ASSUME NEW r \in Req, Process(r)
      PROVE  ApartInv'
  <2>1. /\ UNCHANGED <<proxyVars, requestIsActive, canceled, watcher, tmpCreds, replies, uiFor, openUi>>
        /\ queue' = Append(queue, r)
        /\ posted' = posted \/ posted' = Append(posted, "start")
    BY <1>4 DEF Process, PostIfReady
  <2>2. (OneUi => OneUi') /\ ("ui" \notin ToSet(posted) => "ui" \notin ToSet(posted)')
    BY <2>1, UiEvents
  <2>3. requestIsActive => Head(queue') = Head(queue)
    BY <2>1, AppendProperties, HeadTailProperties DEF QueueInv, TypeOK, CoreTypeOK
  <2>4. CASE requestIsActive
    <3>1. Stage(Head(queue))
      BY <1>2, <2>4 DEF Serving
    <3> DEFINE h == Head(queue)
    <3>2. Stage(h) /\ h' = h
      BY <2>3, <2>4, <3>1
    <3> HIDE DEF h
    <3>3. Stage(h)'
      BY <2>1, <2>2, <3>2, StageKept DEF proxyVars
    <3>4. Serving'
      BY <1>2, <2>1, <2>3, <2>4, <3>3 DEF Serving, proxyVars, h
    <3>5. QED
      BY <1>2, <1>3, <2>1, <3>4 DEF ApartInv, proxyVars
  <2>5. CASE ~requestIsActive
    <3>1. Serving'
      BY <1>2, <2>1, <2>2, <2>5 DEF Serving, AtRest, NoDialog, proxyVars
    <3>2. QED
      BY <1>2, <1>3, <2>1, <3>1 DEF ApartInv, proxyVars
  <2>6. QED
    BY <2>4, <2>5
<1>5. CASE StartNewRequest
  <2>1. /\ UNCHANGED <<watcher, uiFor, openUi>> /\ ~canceled'
        /\ posted # <<>>
    BY <1>5 DEF StartNewRequest, ResetCanceled
  <2>2. ~StartFails
    BY <1>1 DEF StartFails, RestartFails
  <2>3. UNCHANGED replies /\ posted' = Tail(posted) /\ UNCHANGED queue
    BY <1>5, <2>2 DEF StartNewRequest, NothingToStart, AlreadyBusy, StartProcess
  <2>4. (OneUi => OneUi') /\ ("ui" \notin ToSet(posted) => "ui" \notin ToSet(posted)')
    BY <2>1, <2>3, UiEvents
  <2>5. CASE NothingToStart \/ AlreadyBusy
    <3>1. UNCHANGED <<proxyVars, requestIsActive, tmpCreds>>
      BY <2>5 DEF NothingToStart, AlreadyBusy
    <3>2. CASE requestIsActive
      <4>1. Stage(Head(queue)) /\ UNCHANGED queue
        BY <1>2, <2>3, <3>2 DEF Serving
      <4> DEFINE h == Head(queue)
      <4>2. Stage(h) /\ h' = h
        BY <4>1
      <4> HIDE DEF h
      <4>3. Stage(h)'
        BY <2>1, <2>4, <3>1, <4>2, StageKept DEF proxyVars
      <4>4. Serving'
        BY <1>2, <2>3, <3>1, <3>2, <4>3 DEF Serving, proxyVars, h
      <4>5. QED
        BY <1>2, <1>3, <2>1, <2>3, <3>1, <4>4 DEF proxyVars
    <3>3. CASE ~requestIsActive
      <4>1. Serving'
        BY <1>2, <2>1, <2>4, <3>1, <3>3 DEF Serving, AtRest, NoDialog, proxyVars
      <4>2. QED
        BY <1>2, <1>3, <2>1, <2>3, <3>1, <4>1 DEF proxyVars
    <3>4. QED
      BY <3>2, <3>3
  <2>6. CASE StartProcess
    <3> DEFINE h == Head(queue)
    <3>1. AtRest
      BY <1>2, <2>6 DEF StartProcess, Serving
    <3>2. /\ requestIsActive' = TRUE /\ tmpCreds' = h
          /\ isResultObtained' = FALSE /\ uiPolicy' = (h \notin NoUi)
          /\ UNCHANGED fromPlugin
      BY <2>6 DEF StartProcess, ProxyProcess
    <3>3. /\ process' = "running" /\ UNCHANGED plugin
          /\ toPlugin' = <<Op("process", h)>>
      BY <1>2, <2>6, <3>1
         DEF StartProcess, ProxyProcess, WriteRestarting, Write, AtRest, Op
    <3>4. NoDialog'
      BY <2>1, <2>4, <3>1 DEF AtRest, NoDialog
    <3>5. Given(h)'
      BY <2>3, <3>1, <3>2, <3>3, <3>4 DEF Given, AtRest, Idle
    <3>6. Serving'
      BY <2>3, <3>2, <3>5 DEF Serving, Stage
    <3>7. QED
      BY <1>2, <1>3, <2>1, <2>3, <3>3, <3>6
  <2>7. QED
    BY <1>5, <2>2, <2>5, <2>6 DEF StartNewRequest
<1>6. CASE ReadResponse
  <2>1. UNCHANGED canceled
    BY <1>6 DEF ReadResponse, handlerFrame
  <2>2. QED
    BY <1>1, <1>2, <1>6, <2>1, ReadApart
<1>7. CASE Child
  <2>1. UNCHANGED <<canceled, openUi, replies>>
    BY <1>7 DEF Child, coreVars, ghostVars
  <2>2. QED
    BY <1>1, <1>2, <1>3, <1>7, <2>1, ChildApart
<1>8. CASE QueryUiSlot
  <2>1. UNCHANGED <<canceled, openUi, replies>>
    BY <1>8 DEF QueryUiSlot
  <2>2. QED
    BY <1>1, <1>2, <1>3, <1>8, <2>1, QueryUiApart
<1>9. ASSUME NEW reply \in UiReply, SignonUiReplies(reply)
      PROVE  ApartInv'
  <2>1. /\ UNCHANGED <<isResultObtained, uiPolicy, process, toPlugin, fromPlugin, plugin, queue,
                       requestIsActive, canceled, tmpCreds, replies, uiFor>>
        /\ watcher = "pending" /\ watcher' = reply
        /\ posted' = Append(posted, "ui")
        /\ openUi' \subseteq openUi
    BY <1>9 DEF SignonUiReplies
  <2>2. requestIsActive /\ Shown(Head(queue))
    BY <1>2, <2>1
       DEF Serving, AtRest, NoDialog, Stage, Given, Working, Finished, Asking, Replied,
           Resumed, UiReply
  <2>3. OneUi'
    BY <2>1, <2>2, UiEvents DEF Shown
  <2>4. Replied(Head(queue))'
    BY <1>9, <2>1, <2>2, <2>3 DEF Shown, Replied
  <2>5. Serving'
    BY <1>2, <2>1, <2>2, <2>4 DEF Serving, Stage
  <2>6. QED
    BY <1>2, <1>3, <2>1, <2>5 DEF ApartInv
<1>10. CASE CredentialsSystemReady
  <2>1. /\ UNCHANGED <<proxyVars, queue, requestIsActive, canceled, watcher, tmpCreds, replies,
                       uiFor, openUi>>
        /\ posted' = posted \/ posted' = Append(posted, "start")
    BY <1>10 DEF CredentialsSystemReady, ghostVars
  <2>2. (OneUi => OneUi') /\ ("ui" \notin ToSet(posted) => "ui" \notin ToSet(posted)')
    BY <2>1, UiEvents
  <2>3. requestIsActive => Stage(Head(queue))'
    <3> DEFINE h == Head(queue)
    <3>1. h' = h /\ (requestIsActive => Stage(h))
      BY <1>2, <2>1 DEF Serving
    <3> HIDE DEF h
    <3>2. requestIsActive => Stage(h)'
      BY <2>1, <2>2, <3>1, StageKept DEF proxyVars
    <3>3. QED
      BY <3>2 DEF h
  <2>4. Serving'
    BY <1>2, <2>1, <2>2, <2>3 DEF Serving, AtRest, NoDialog, proxyVars
  <2>5. QED
    BY <1>2, <1>3, <2>1, <2>4 DEF proxyVars
<1>11. CASE Destroy \/ UNCHANGED vars
  <2>1. UNCHANGED <<proxyVars, queue, requestIsActive, canceled, watcher, tmpCreds, posted,
                    replies, uiFor, openUi>>
    BY <1>11 DEF Destroy, vars, coreVars, ghostVars
  <2>2. (OneUi => OneUi') /\ ("ui" \notin ToSet(posted) => "ui" \notin ToSet(posted)')
    BY <2>1, UiEvents
  <2>3. requestIsActive => Stage(Head(queue))'
    <3> DEFINE h == Head(queue)
    <3>1. h' = h /\ (requestIsActive => Stage(h))
      BY <1>2, <2>1 DEF Serving
    <3> HIDE DEF h
    <3>2. requestIsActive => Stage(h)'
      BY <2>1, <2>2, <3>1, StageKept DEF proxyVars
    <3>3. QED
      BY <3>2 DEF h
  <2>4. Serving'
    BY <1>2, <2>1, <2>2, <2>3 DEF Serving, AtRest, NoDialog, proxyVars
  <2>5. QED
    BY <1>2, <1>3, <2>1, <2>4 DEF proxyVars
<1>12. ~BrokenResponse /\ ~OnExit
  BY <1>1, <1>2 DEF BrokenResponse, TakeBroken, OnExit, TakeExit
<1>13. ASSUME ApartInv'
       PROVE  /\ process' = "running"
              /\ ~canceled'
              /\ openUi' \cap NoUi = {}
              /\ ResultFromOwnRequest'
              /\ Serving'
  BY <1>13 DEF ApartInv
<1>14. QED
  BY <1>1, <1>4, <1>5, <1>6, <1>7, <1>8, <1>9, <1>10, <1>11, <1>12, <1>13 DEF Next

\* As long as nothing has failed and nobody has cancelled, nothing of one request reaches
\* another: not its result, its credentials, its dialog or its policy, however many
\* requests, sessions and dialogs there are, and whether or not the plug-in stores data.
THEOREM KeptApart == Spec => []RequestsKeptApart
<1>1. Init => ApartInv
  BY DEF Init, ProxyInit, ApartInv, ResultFromOwnRequest, Serving, AtRest, NoDialog, ToSet
<1>2. TypeOK /\ QueueInv /\ [Next]_vars /\ ApartInv => ApartInv'
  BY NextApart
<1>3. TypeOK /\ ApartInv => RequestsKeptApart
  <2> SUFFICES ASSUME TypeOK, ApartInv, Undisturbed
               PROVE  RequestsKeptApart
    BY DEF RequestsKeptApart, ResultFromOwnRequest, CredsOfHead, WatcherServesHead,
           UiPolicyRespected
  <2>1. openUi \cap NoUi = {} /\ ResultFromOwnRequest /\ Serving
    BY DEF ApartInv
  <2>2. CredsOfHead
    BY <2>1 DEF Serving, CredsOfHead
  <2>3. WatcherServesHead
    BY <2>1
       DEF Serving, AtRest, Stage, Given, Working, Finished, Asking, Shown, Replied, Resumed,
           NoDialog, WatcherServesHead
  <2>4. QED
    BY <2>1, <2>2, <2>3 DEF RequestsKeptApart, UiPolicyRespected
<1>4. QED
  BY <1>1, <1>2, <1>3, TypeCorrect, QueueCorrect, PTL DEF Spec
===============================================================================
