----------------------------- MODULE DaemonLife -----------------------------
(***************************************************************************)
(* The life of the daemon and of its disposable objects.  Identities and   *)
(* session cores are disposed of when they have not been used for a while, *)
(* and the daemon ends when there have been none for a while; two static   *)
(* timers see to it.  Signals, the loss of the bus and the end by timeout  *)
(* all work through events posted to the main loop: deleteLater(), init(), *)
(* quit().                                                                 *)
(*                                                                         *)
(* Time passes in seconds, and a timer may fire late.  The objects are     *)
(* here only as things that are used; Identities and SessionCore say how.  *)
(***************************************************************************)
EXTENDS Integers, Sequences, FiniteSets

CONSTANTS
  Object,        \* SignonDisposable objects; one may be made again once deleted
  Setting,       \* [ObjectTimeouts] in signond.conf: seconds, or Unset
  Environment,   \* SSO_..._TIMEOUT: seconds, or Unset
  Unset, Off,    \* no value; a timer that is not active
  MaxCalls,      \* bound: calls of clients
  MaxSignals,    \* bound: signals sent to the process
  Disorders      \* the sets of kinds of disorder that a run allows

(* unfound  calls for identities and methods that there are not
   asked    calls that wait for the user's consent
   early    signals before the daemon can take them
   hangup   SIGHUP *)
DisorderKinds == {"unfound", "asked", "early", "hangup"}
Kind == {"Identity", "AuthSession"}

ASSUME DaemonLifeAssumption ==
  /\ \A k \in Kind \cup {"Daemon"} : Setting[k] \in Nat \cup {Unset}
                                       /\ Environment[k] \in Int \cup {Unset}
  /\ Unset \notin Int /\ Off \notin Int
  /\ MaxCalls \in Nat /\ MaxSignals \in Nat
  /\ Disorders \subseteq SUBSET DisorderKinds

VARIABLES
  disorder,     \* what may be out of order; it never changes
  object,       \* the disposable objects
  timers,       \* disposeTimer and notifyTimer; the first has an interval
  posted,       \* events posted to the main loop
  daemon,       \* the SignonDaemon instances
  sigFd,        \* the instance whose socket pair is open, or 0, and what is in it
  asked,        \* a call waits for the user to grant access to an identity
  process,      \* "running", or "ended"
  calls, signals,                 \* counted for the bounds
  used, terminated, hungUp, why   \* history: an object was made; signals sent; why it ends

history == <<calls, signals, used, terminated, hungUp, why>>
lifeVars == <<disorder, object, timers, posted, daemon, sigFd, asked, process, history>>

Disordered(kind) == kind \in disorder

Instance == 1 .. 2     \* bound: a SIGHUP makes a second one

-----------------------------------------------------------------------------
\* SignonDaemonConfiguration::load(): what the environment has goes first if it is positive.
Timeout(kind, default) ==
  IF Environment[kind] # Unset /\ Environment[kind] > 0 THEN Environment[kind]
  ELSE IF Setting[kind] # Unset THEN Setting[kind] ELSE default

DaemonTimeout == Timeout("Daemon", 0)
MaxInactivity(kind) == Timeout(kind, 300)

\* bound: an age beyond this one makes no difference
MaxAge == 1 + CHOOSE n \in {MaxInactivity(k) : k \in Kind} : \A k \in Kind : MaxInactivity(k) <= n

Slack == 2     \* "a couple of seconds" added to the interval of disposeTimer

NoTimers == [made |-> FALSE, interval |-> 0, dispose |-> Off, notify |-> Off]

NoObject == [status |-> "none", kind |-> "Identity", listed |-> FALSE,
             autoDestruct |-> TRUE, busy |-> FALSE, age |-> 0]

LifeTypeOK ==
  /\ disorder \in Disorders
  /\ object \in [Object -> [status : {"none", "live", "doomed"}, kind : Kind, listed : BOOLEAN,
                            autoDestruct : BOOLEAN, busy : BOOLEAN, age : 0 .. MaxAge]]
  /\ timers \in [made : BOOLEAN, interval : Nat, dispose : Nat \cup {Off}, notify : Nat \cup {Off}]
  /\ timers.dispose \in 0 .. timers.interval \cup {Off}
  /\ timers.notify \in 0 .. DaemonTimeout \cup {Off}
  /\ timers.notify # Off \/ timers.dispose # Off => timers.made
  /\ posted \in Seq([name : {"init", "delete", "quit"}, of : Instance \cup {0}])
  /\ daemon \in [Instance -> {"none", "new", "running", "deleted"}]
  /\ sigFd \in [of : Instance \cup {0}, pipe : Seq({"SIGTERM", "SIGHUP"})]
  /\ asked \in BOOLEAN /\ process \in {"running", "ended"}
  /\ calls \in 0 .. MaxCalls /\ signals \in 0 .. MaxSignals
  /\ used \in BOOLEAN /\ terminated \in BOOLEAN /\ hungUp \in BOOLEAN

Exists(o) == object[o].status # "none"
Live(o) == object[o].status = "live"
Listed(obj) == {o \in Object : obj[o].listed}

-----------------------------------------------------------------------------
\* The main loop's events

Event(name, i) == [name |-> name, of |-> i]

\* deleteLater() of an object that waits to be deleted is one event.
Queued(events, e) == IF \E k \in DOMAIN events : events[k] = e THEN events ELSE Append(events, e)

Post(e) == posted' = Queued(posted, e)
PostBoth(e, f) == posted' = Queued(Queued(posted, e), f)

-----------------------------------------------------------------------------
\* Disposable objects: s has the objects and the timers.

State == [obj |-> object, t |-> timers]
Take(s) == object' = s.obj /\ timers' = s.t

KeepInUse(s, o) ==
  [obj |-> [s.obj EXCEPT ![o].age = 0],
   t |-> IF s.t.made THEN [s.t EXCEPT !.notify = Off, !.dispose = s.t.interval] ELSE s.t]

\* Variant: autoDestruct is never cleared.
SetAutoDestructTrue(s, o, value) == KeepInUse(s, o)

SetAutoDestruct(s, o, value) ==
  KeepInUse([s EXCEPT !.obj[o].autoDestruct = value], o)

\* Variant: the timer fires when the object is as old as it may be.
IntervalFor(max) == max

Interval(max) == max + Slack

\* The constructor
Made(s, o, kind) ==
  LET new == [NoObject EXCEPT !.status = "live", !.kind = kind, !.listed = TRUE]
      interval == Interval(MaxInactivity(kind))
      t == IF s.t.made /\ interval > s.t.interval THEN [s.t EXCEPT !.interval = interval]
           ELSE s.t
  IN KeepInUse([obj |-> [s.obj EXCEPT ![o] = new], t |-> t], o)

\* destroy(): a core that has a request declines; one that is destroyed is deleted later.
Declines(s, o) == s.obj[o].kind = "AuthSession" /\ s.obj[o].busy

Destroy(s, o) ==
  IF Declines(s, o) THEN KeepInUse(s, o) ELSE [s EXCEPT !.obj[o].status = "doomed"]

\* Variant: the notification timer is left alone.
DestroyOnly(s) ==
  LET unused == {o \in Listed(s.obj) : s.obj[o].autoDestruct
                                         /\ s.obj[o].age > MaxInactivity(s.obj[o].kind)}
  IN [s EXCEPT !.obj = [o \in Object |->
        IF o \in unused THEN [Destroy(s, o).obj[o] EXCEPT !.listed = FALSE] ELSE s.obj[o]]]

DestroyUnused(s) ==
  LET unused == {o \in Listed(s.obj) : s.obj[o].autoDestruct
                                         /\ s.obj[o].age > MaxInactivity(s.obj[o].kind)}
      t == IF \E o \in unused : Declines(s, o) /\ s.t.made
             THEN [s.t EXCEPT !.notify = Off, !.dispose = s.t.interval] ELSE s.t
      obj == [o \in Object |->
        IF o \in unused THEN [Destroy(s, o).obj[o] EXCEPT !.listed = FALSE] ELSE s.obj[o]]
  IN [obj |-> obj,
      t |-> IF Listed(obj) = {} /\ t.made THEN [t EXCEPT !.notify = DaemonTimeout] ELSE t]

\* invokeOnIdle(): the notification timer is not started.
InvokeOnIdle(obj) ==
  LET kinds == {obj[o].kind : o \in Listed(obj)}
      max == IF kinds = {} THEN 0
             ELSE CHOOSE n \in {MaxInactivity(k) : k \in kinds} :
                    \A k \in kinds : MaxInactivity(k) <= n
  IN [made |-> TRUE, interval |-> Interval(max), dispose |-> Off, notify |-> Off]

\* The event loop deletes the object.
DeleteObject(o) ==
  /\ process = "running"
  /\ object[o].status = "doomed"
  /\ object' = [object EXCEPT ![o] = NoObject]
  /\ UNCHANGED <<timers, posted, daemon, sigFd, asked, process, history>>

-----------------------------------------------------------------------------
LifeInit ==
  /\ disorder \in Disorders
  /\ object = [o \in Object |-> NoObject]
  /\ timers = NoTimers
  /\ posted = <<Event("init", 1)>>
  /\ daemon = [i \in Instance |-> IF i = 1 THEN "new" ELSE "none"]
  /\ sigFd = [of |-> 0, pipe |-> <<>>]
  /\ asked = FALSE
  /\ process = "running"
  /\ calls = 0 /\ signals = 0
  /\ used = FALSE /\ terminated = FALSE /\ hungUp = FALSE /\ why = "none"

\* SignonDaemon::init()
InitDaemon(i) ==
  /\ daemon' = [daemon EXCEPT ![i] = "running"]
  /\ sigFd' = [of |-> i, pipe |-> <<>>]
  /\ timers' = IF DaemonTimeout > 0 THEN InvokeOnIdle(object) ELSE timers
  /\ posted' = Tail(posted)
  /\ UNCHANGED <<object, asked, process, history>>

\* ~SignonDaemon(), which asks the application to quit, and the children it has
DeleteDaemon(i) ==
  /\ daemon' = [daemon EXCEPT ![i] = "deleted"]
  /\ sigFd' = [of |-> 0, pipe |-> <<>>]
  /\ object' = [o \in Object |-> NoObject]
  /\ timers' = NoTimers
  /\ posted' = Append(Tail(posted), Event("quit", 0))
  /\ UNCHANGED <<asked, process, history>>

\* exec() returns, and ~QCoreApplication() deletes what is left.
Quit ==
  /\ process' = "ended"
  /\ daemon' = [i \in Instance |-> IF daemon[i] = "none" THEN "none" ELSE "deleted"]
  /\ sigFd' = [of |-> 0, pipe |-> <<>>]
  /\ object' = [o \in Object |-> NoObject]
  /\ timers' = NoTimers
  /\ posted' = <<>>
  /\ UNCHANGED <<asked, history>>

Deliver ==
  /\ process = "running" /\ posted # <<>>
  /\ LET e == Head(posted)
     IN \/ e.name = "init" /\ InitDaemon(e.of)
        \/ e.name = "delete" /\ DeleteDaemon(e.of)
        \/ e.name = "quit" /\ Quit

-----------------------------------------------------------------------------
\* Signals

\* deleteLater() and quit()
EndGently(i) == PostBoth(Event("delete", i), Event("quit", 0))

\* signalHandler(): without a socket pair the signal is written elsewhere.
Signal(signal) ==
  /\ process = "running" /\ signals < MaxSignals
  /\ sigFd.of = 0 => Disordered("early")
  /\ signal = "SIGHUP" => Disordered("hangup") /\ daemon[2] = "none" /\ ~hungUp
  /\ signals' = signals + 1
  /\ sigFd' = IF sigFd.of = 0 THEN sigFd ELSE [sigFd EXCEPT !.pipe = Append(@, signal)]
  /\ terminated' = (terminated \/ signal = "SIGTERM")
  /\ hungUp' = (hungUp \/ signal = "SIGHUP")
  /\ UNCHANGED <<object, timers, posted, daemon, asked, process, calls, used, why>>

\* handleUnixSignal()
HandleUnixSignal ==
  /\ process = "running" /\ sigFd.of # 0 /\ sigFd.pipe # <<>>
  /\ sigFd' = [sigFd EXCEPT !.pipe = Tail(@)]
  /\ \/ /\ Head(sigFd.pipe) = "SIGTERM"
        /\ EndGently(sigFd.of)
        /\ UNCHANGED daemon
     \/ /\ Head(sigFd.pipe) = "SIGHUP"
        /\ PostBoth(Event("delete", sigFd.of), Event("init", 2))
        /\ daemon' = [daemon EXCEPT ![2] = "new"]
  /\ why' = "signal"
  /\ UNCHANGED <<object, timers, asked, process, calls, signals, used, terminated, hungUp>>

\* onDisconnected()
OnDisconnected(i) ==
  /\ process = "running" /\ daemon[i] = "running"
  /\ signals < MaxSignals /\ signals' = signals + 1
  /\ EndGently(i)
  /\ why' = "disconnected"
  /\ UNCHANGED <<object, timers, daemon, sigFd, asked, process, calls, used, terminated, hungUp>>

-----------------------------------------------------------------------------
\* Calls of clients

Calls ==
  /\ process = "running" /\ calls < MaxCalls
  /\ \E i \in Instance : daemon[i] = "running"
  /\ calls' = calls + 1
  /\ UNCHANGED <<posted, daemon, sigFd, process, signals, terminated, hungUp, why>>

\* registerNewIdentity(), getIdentity()
GetIdentity(o) ==
  /\ Calls
  /\ \/ ~Exists(o) /\ Take(DestroyUnused(Made(State, o, "Identity")))
     \/ /\ Live(o) /\ object[o].kind = "Identity"
        /\ Take(DestroyUnused(KeepInUse(State, o)))
  /\ used' = TRUE
  /\ UNCHANGED asked

\* getAuthSessionObjectPath(): a core that is still there gets another session.
GetAuthSession(o) ==
  LET s == DestroyUnused(State)
  IN /\ Calls
     /\ \/ ~Exists(o) /\ Take(Made(s, o, "AuthSession"))
        \/ /\ s.obj[o].status = "live" /\ object[o].kind = "AuthSession"
           /\ Take(KeepInUse(s, o))
     /\ used' = TRUE
     /\ UNCHANGED asked

\* getIdentity() of an identity that there is not: the object is destroyed.
GetIdentityUnfound(o) ==
  /\ Disordered("unfound")
  /\ Calls /\ ~Exists(o)
  /\ Take(Destroy(Made(State, o, "Identity"), o))
  /\ used' = TRUE
  /\ UNCHANGED asked

\* getAuthSessionObjectPath() with an unknown method: the core is deleted at once.
GetAuthSessionUnknown(o) ==
  /\ Disordered("unfound")
  /\ Calls /\ ~Exists(o)
  /\ LET s == DestroyUnused(State)
     IN Take([s EXCEPT !.t = Made(s, o, "AuthSession").t])
  /\ used' = TRUE
  /\ UNCHANGED asked

\* A call that needs the consent of the user; that for a session disposes first.
Ask ==
  /\ Disordered("asked") /\ ~asked
  /\ Calls
  /\ Take(State) \/ Take(DestroyUnused(State))
  /\ asked' = TRUE
  /\ UNCHANGED used

\* onIdentityAccessReplyFinished(), onAuthSessionAccessReplyFinished()
AccessReplyFinished ==
  /\ process = "running" /\ asked
  /\ \E i \in Instance : daemon[i] = "running"
  /\ asked' = FALSE
  /\ \/ UNCHANGED <<object, timers, used>>
     \/ \E o \in Object, kind \in Kind :
          ~Exists(o) /\ Take(DestroyUnused(Made(State, o, kind))) /\ used' = TRUE
  /\ UNCHANGED <<posted, daemon, sigFd, process, calls, signals, terminated, hungUp, why>>

\* A dialog is opened, or a request started.
Begin(o) ==
  /\ Calls /\ Live(o) /\ ~object[o].busy
  /\ LET s == SetAutoDestruct(State, o, FALSE)
     IN Take([s EXCEPT !.obj[o].busy = TRUE])
  /\ UNCHANGED <<asked, used>>

End(o) ==
  /\ process = "running" /\ Live(o) /\ object[o].busy
  /\ LET s == SetAutoDestruct(State, o, TRUE)
     IN Take([s EXCEPT !.obj[o].busy = FALSE])
  /\ UNCHANGED <<posted, daemon, sigFd, asked, process, history>>

\* Any other call keeps the object in use.
Use(o) ==
  /\ Calls /\ Live(o)
  /\ Take(KeepInUse(State, o))
  /\ UNCHANGED <<asked, used>>

\* childEvent(): a session object of the core is deleted.
ChildRemoved(o) ==
  /\ Calls /\ Live(o) /\ object[o].kind = "AuthSession"
  /\ Take(DestroyUnused(State))
  /\ UNCHANGED <<asked, used>>

-----------------------------------------------------------------------------
\* Time

OneLess(left) == IF left = Off THEN Off ELSE IF left = 0 THEN 0 ELSE left - 1

Tick ==
  /\ process = "running"
  /\ object' = [o \in Object |-> IF Exists(o) /\ object[o].age < MaxAge
                                   THEN [object[o] EXCEPT !.age = @ + 1] ELSE object[o]]
  /\ timers' = [timers EXCEPT !.dispose = OneLess(@), !.notify = OneLess(@)]
  /\ UNCHANGED <<posted, daemon, sigFd, asked, process, history>>

\* disposeTimer: the objects are its receivers, and call the static destroyUnused().
DisposeTimeout ==
  /\ process = "running" /\ timers.dispose = 0
  /\ LET s == [State EXCEPT !.t.dispose = Off]
     IN Take(IF \E o \in Object : Exists(o) THEN DestroyUnused(s) ELSE s)
  /\ UNCHANGED <<posted, daemon, sigFd, asked, process, history>>

\* notifyTimer: the daemon's deleteLater()
NotifyTimeout ==
  /\ process = "running" /\ timers.notify = 0
  /\ timers' = [timers EXCEPT !.notify = Off]
  /\ \E i \in Instance : daemon[i] = "running" /\ Post(Event("delete", i))
  /\ why' = "timeout"
  /\ UNCHANGED <<object, daemon, sigFd, asked, process, calls, signals, used, terminated, hungUp>>

-----------------------------------------------------------------------------
LifeNext ==
  /\ UNCHANGED disorder
  /\ \/ Deliver \/ HandleUnixSignal
     \/ \E signal \in {"SIGTERM", "SIGHUP"} : Signal(signal)
     \/ \E i \in Instance : OnDisconnected(i)
     \/ Ask \/ AccessReplyFinished
     \/ \E o \in Object :
          \/ GetIdentity(o) \/ GetAuthSession(o)
          \/ GetIdentityUnfound(o) \/ GetAuthSessionUnknown(o)
          \/ Begin(o) \/ End(o) \/ Use(o) \/ ChildRemoved(o) \/ DeleteObject(o)
     \/ Tick \/ DisposeTimeout \/ NotifyTimeout

\* The main loop delivers what is posted and its timers fire; time passes; requests, dialogs
\* and the user's consent come to an end.
LifeStep(A) == UNCHANGED disorder /\ A
LifeFairness ==
  /\ WF_lifeVars(LifeStep(Deliver)) /\ WF_lifeVars(LifeStep(HandleUnixSignal))
  /\ WF_lifeVars(LifeStep(AccessReplyFinished))
  /\ WF_lifeVars(LifeStep(Tick))
  /\ WF_lifeVars(LifeStep(DisposeTimeout)) /\ WF_lifeVars(LifeStep(NotifyTimeout))
  /\ \A o \in Object : WF_lifeVars(LifeStep(End(o))) /\ WF_lifeVars(LifeStep(DeleteObject(o)))

LifeSpec == LifeInit /\ [][LifeNext]_lifeVars /\ LifeFairness

-----------------------------------------------------------------------------
\* Properties

\* An object that may be disposed of is not forgotten: when the check for unused objects
\* runs it is old enough, or another check is scheduled.
DisposalScheduled ==
  timers.made => \A o \in Object :
    Live(o) /\ object[o].listed /\ object[o].autoDestruct => timers.dispose # Off

\* The daemon counts down to its end only while there are no objects, whichever way the
\* last one went and the next one is made.
CountsDownAlone ==
  timers.notify # Off => \A o \in Object : ~Live(o)

LifeInv == LifeTypeOK /\ DisposalScheduled /\ CountsDownAlone

\* "Invoke the specified method when there are no disposable objects": a daemon that has
\* been used, by clients that register identities that exist, and is left alone ends.
EndsAfterUse ==
  disorder = {} /\ used /\ DaemonTimeout > 0 ~> process = "ended"

\* A daemon that is asked to end while its main loop runs ends.
EndsWhenTold ==
  disorder = {} /\ terminated ~> process = "ended"

\* What has been disposed of was not busy: no request or dialog goes with an object.
BusyLive ==
  \A o \in Object : Live(o) /\ object[o].busy /\ process' = "running"
    /\ daemon' = daemon => object'[o].status = "live"
BusyStay == [][BusyLive]_lifeVars

\* The daemon ends when it is due, and nothing that is busy goes before.
EndsWhenDue == EndsAfterUse /\ EndsWhenTold /\ BusyStay

\* The daemon does not end for want of objects while a call waits for its reply.
NoCallLeftBehind ==
  why = "timeout" /\ asked => \E i \in Instance : daemon[i] = "running"

\* A SIGHUP restarts the daemon: only a request to end ends the process.
RestartsOnHangup ==
  process = "ended" /\ why = "signal" => terminated
=============================================================================
