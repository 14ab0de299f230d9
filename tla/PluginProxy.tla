------------------------------ MODULE PluginProxy ------------------------------
(***************************************************************************)
(* The plug-in side of an authentication session: PluginProxy in signond,  *)
(* the signonpluginprocess child it talks to over two pipes, and the       *)
(* plug-in loaded in it.  The operators describe what one call or one step *)
(* does to this state; SessionCore composes them with the request queue,   *)
(* because PluginProxy's signals are delivered by direct calls.            *)
(*                                                                         *)
(* Operations and responses carry the request they were made for.  The     *)
(* pipes carry no such field: it is a history variable that no guard       *)
(* reads, there for the properties to speak about.                         *)
(***************************************************************************)
EXTENDS Naturals, Sequences, SequencesExt

CONSTANTS
  Req,                  \* calls of AuthSession.process()
  NoReq,                \* "no request"
  NoUi,                 \* requests whose UI policy forbids the dialog
  Faults,               \* which of FaultKinds may happen
  MaxFaults,            \* bound: how many faults in a behaviour
  MaxUi,                \* bound: how many dialogs in a behaviour
  PluginStores,         \* does the plug-in ask signond to store data
  PluginAnswersCancel   \* does the plug-in answer cancel() with an error

FaultKinds == {"crash", "restart", "blob"}

ASSUME ProxyAssumption ==
  /\ NoReq \notin Req
  /\ NoUi \subseteq Req
  /\ Faults \subseteq FaultKinds
  /\ MaxFaults \in Nat
  /\ MaxUi \in Nat
  /\ PluginStores \in BOOLEAN
  /\ PluginAnswersCancel \in BOOLEAN

VARIABLES
  isProcessing,      \* PluginProxy::m_isProcessing
  isResultObtained,  \* PluginProxy::m_isResultObtained
  uiPolicy,          \* PluginProxy::m_uiPolicy: may a dialog be opened
  process,           \* the child: running, dead and not yet noticed, stopped
  toPlugin,          \* operations written to the child's stdin
  fromPlugin,        \* responses written to its stdout
  plugin,            \* the plug-in: the request it has, what it is doing
  faults,            \* faults so far, bounded by MaxFaults
  dialogs            \* dialogs asked for so far, bounded by MaxUi

proxyVars == <<isProcessing, isResultObtained, uiPolicy, process,
               toPlugin, fromPlugin, plugin, faults, dialogs>>

Operation == [op : {"process", "processUi", "refresh", "cancel", "stop"},
              req : Req \cup {NoReq}]
Response  == [kind : {"result", "error", "store", "ui", "refreshed"},
              req : Req \cup {NoReq}]

ProxyTypeOK ==
  /\ isProcessing \in BOOLEAN
  /\ isResultObtained \in BOOLEAN
  /\ uiPolicy \in BOOLEAN
  /\ process \in {"running", "exited", "crashed", "stopped"}
  /\ toPlugin \in Seq(Operation)
  /\ fromPlugin \in Seq(Response)
  /\ plugin \in [req : Req \cup {NoReq}, doing : {"nothing", "working", "ui"}]
  /\ faults \in Nat
  /\ dialogs \in Nat

Idle == [req |-> NoReq, doing |-> "nothing"]

\* createNewPluginProxy() has started the child and read its greeting.
ProxyInit ==
  /\ isProcessing = FALSE
  /\ isResultObtained = FALSE
  /\ uiPolicy = TRUE
  /\ process = "running"
  /\ toPlugin = <<>>
  /\ fromPlugin = <<>>
  /\ plugin = Idle
  /\ faults = 0
  /\ dialogs = 0

Fault(kind) ==
  /\ kind \in Faults
  /\ faults < MaxFaults
  /\ faults' = faults + 1

-------------------------------------------------------------------------------
(* Calls that signond makes on the proxy.                                  *)

\* A write reaches the child only while it lives; QProcess does not know of
\* its death until it has delivered finished().
Write(op, r) ==
  toPlugin' = IF process = "running"
              THEN Append(toPlugin, [op |-> op, req |-> r])
              ELSE toPlugin

\* restartIfRequired() succeeds, and the operation is written. After a start
\* it succeeds only if the greeting of the new process was not taken by
\* onReadStandardOutput() before (BlobIO.ProcessRestarting); what is taken and
\* what is not is left open here, in which both this and RestartFails are
\* allowed whatever was connected.
WriteRestarting(op, r) ==
  \/ /\ process # "stopped"
     /\ Write(op, r)
     /\ UNCHANGED <<process, plugin>>
  \/ /\ process = "stopped"
     /\ process' = "running"
     /\ plugin' = Idle
     /\ toPlugin' = <<[op |-> op, req |-> r]>>

\* restartIfRequired() fails: the child could not be started, or it was
\* started but its greeting could not be read.
RestartFails ==
  /\ process = "stopped"
  /\ Fault("restart")
  /\ process' \in {"stopped", "running"}
  /\ UNCHANGED <<isProcessing, isResultObtained, uiPolicy,
                 toPlugin, fromPlugin, plugin, dialogs>>

ProxyProcess(r) ==
  /\ WriteRestarting("process", r)
  /\ isResultObtained' = FALSE
  /\ uiPolicy' = (r \notin NoUi)
  /\ isProcessing' = TRUE
  /\ UNCHANGED <<fromPlugin, faults, dialogs>>

\* processUi() and processRefresh(); the caller ignores a failed restart.
ProxyContinue(op, r) ==
  \/ /\ WriteRestarting(op, r)
     /\ isProcessing' = TRUE
     /\ UNCHANGED <<isResultObtained, uiPolicy, fromPlugin, faults, dialogs>>
  \/ RestartFails

ProxyCancel(r) ==
  /\ Write("cancel", r)
  /\ UNCHANGED <<isProcessing, isResultObtained, uiPolicy, process,
                 fromPlugin, plugin, faults, dialogs>>

-------------------------------------------------------------------------------
(* What the proxy does with a response, apart from the signal it emits.     *)

\* A result or an error is forwarded when it is the first one since process();
\* it ends the processing in any case.
TakeFinal(resp) ==
  /\ resp.kind \in {"result", "error"}
  /\ fromPlugin' = Tail(fromPlugin)
  /\ isProcessing' = FALSE
  /\ isResultObtained' = TRUE
  /\ UNCHANGED <<uiPolicy, process, toPlugin, plugin, faults, dialogs>>

\* Any other response, forwarded to the session core or dropped.
TakeOther(resp) ==
  /\ fromPlugin' = Tail(fromPlugin)
  /\ UNCHANGED <<isProcessing, isResultObtained, uiPolicy, process,
                 toPlugin, plugin, faults, dialogs>>

\* The policy of the request forbids the dialog: the proxy answers in the
\* user's place, without telling the session core.
RefuseUi(resp) ==
  /\ fromPlugin' = Tail(fromPlugin)
  /\ WriteRestarting("processUi", resp.req)
  /\ isProcessing' = TRUE
  /\ UNCHANGED <<isResultObtained, uiPolicy, faults, dialogs>>

\* The data of a response did not arrive whole: the child is told to stop and
\* what follows may be flushed with the remains.  Neither flag is touched.
TakeBroken(resp) ==
  /\ Fault("blob")
  /\ resp.kind # "error"
  /\ fromPlugin' \in {Tail(fromPlugin), <<>>}
  /\ Write("stop", NoReq)
  /\ UNCHANGED <<isProcessing, isResultObtained, uiPolicy, process,
                 plugin, dialogs>>

\* finished() is delivered after everything the child wrote has been read.
TakeExit ==
  /\ process \in {"exited", "crashed"}
  /\ fromPlugin = <<>>
  /\ process' = "stopped"
  /\ isProcessing' = FALSE
  /\ UNCHANGED <<isResultObtained, uiPolicy, toPlugin, fromPlugin, plugin,
                 faults, dialogs>>

\* Variant: only an exit in the middle of an operation is reported, and only
\* a regular one.
ExitIsErrorIfRegular == isProcessing /\ process = "exited"

ExitIsError == isProcessing \/ process = "crashed"

-------------------------------------------------------------------------------
(* Steps of the child process: RemotePluginProcess and the plug-in in it.   *)

childFrame == <<isProcessing, isResultObtained, uiPolicy>>

Emit(kind, r) == fromPlugin' = Append(fromPlugin, [kind |-> kind, req |-> r])

\* process() and userActionFinished() hand the plug-in something to work on.
ChildWork ==
  /\ Head(toPlugin).op \in {"process", "processUi"}
  /\ plugin' = [req |-> Head(toPlugin).req, doing |-> "working"]
  /\ UNCHANGED <<process, fromPlugin>>

ChildRefresh ==
  /\ Head(toPlugin).op = "refresh"
  /\ Emit("refreshed", Head(toPlugin).req)
  /\ UNCHANGED <<process, plugin>>

\* The plug-ins answer a cancellation at once, whatever they were doing; one
\* that keeps the empty AuthPluginInterface::cancel() goes on as before.
ChildCancel ==
  /\ Head(toPlugin).op = "cancel"
  /\ IF PluginAnswersCancel
     THEN /\ Emit("error", Head(toPlugin).req)
          /\ plugin' = Idle
     ELSE UNCHANGED <<fromPlugin, plugin>>
  /\ UNCHANGED process

ChildStop ==
  /\ Head(toPlugin).op = "stop"
  /\ process' = "exited"
  /\ plugin' = Idle
  /\ UNCHANGED fromPlugin

ChildReads ==
  /\ process = "running"
  /\ toPlugin # <<>>
  /\ ChildWork \/ ChildRefresh \/ ChildCancel \/ ChildStop
  /\ toPlugin' = IF process' = "running" THEN Tail(toPlugin) ELSE <<>>
  /\ UNCHANGED <<childFrame, faults, dialogs>>

\* The plug-in completes the authentication, storing data first if it does so.
PluginAnswers ==
  /\ process = "running"
  /\ plugin.doing = "working"
  /\ \/ Emit("result", plugin.req)
     \/ Emit("error", plugin.req)
     \/ /\ PluginStores
        /\ fromPlugin' = fromPlugin \o <<[kind |-> "store", req |-> plugin.req],
                                        [kind |-> "result", req |-> plugin.req]>>
  /\ plugin' = Idle
  /\ UNCHANGED <<childFrame, process, toPlugin, faults, dialogs>>

\* The plug-in asks for a dialog and waits for userActionFinished().
PluginAsksUser ==
  /\ process = "running"
  /\ plugin.doing = "working"
  /\ dialogs < MaxUi
  /\ dialogs' = dialogs + 1
  /\ Emit("ui", plugin.req)
  /\ plugin' = [plugin EXCEPT !.doing = "ui"]
  /\ UNCHANGED <<childFrame, process, toPlugin, faults>>

ChildCrashes ==
  /\ process = "running"
  /\ Fault("crash")
  /\ process' = "crashed"
  /\ toPlugin' = <<>>
  /\ plugin' = Idle
  /\ UNCHANGED <<childFrame, fromPlugin, dialogs>>
===============================================================================
