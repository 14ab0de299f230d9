---------------------------- MODULE MCProcesses ----------------------------
(***************************************************************************)
(* The life of the daemon's process and the pipe from a plug-in's process, *)
(* each with what may be out of order in it, in behaviours of its own.     *)
(***************************************************************************)
EXTENDS BlobIO, DaemonLife, TLC

CONSTANTS o1, o2

VARIABLE instance    \* "life" or "pipe": which of the two goes on; it never changes

vars == <<instance, lifeVars, pipeVars>>

MCObject == {o1, o2}

\* Timeouts of a second or two: the identity's from signond.conf, the session's from the
\* environment, which has a value of the daemon's that is not positive and does not count.
MCSetting == [Identity |-> 1, AuthSession |-> 3, Daemon |-> 1]
MCEnvironment == [Identity |-> Unset, AuthSession |-> 2, Daemon |-> 0]

MCDisorders == {{}, DisorderKinds}

\* Large answers that arrive at once; answers in parts; a plug-in that answers twice.
MCInterferences == {{"big", "exit"}, {"torn", "exit"}, {"exit", "twice"}}

\* What does not go on is at its beginning, with nothing in its way.
Init ==
  /\ LifeInit /\ PipeInit
  /\ \/ instance = "life" /\ interference = {"exit", "twice"}
     \/ instance = "pipe" /\ disorder = {}

OfLife == UNCHANGED <<instance, pipeVars>>
OfPipe == UNCHANGED <<instance, lifeVars>>

Next ==
  \/ instance = "life" /\ LifeNext /\ OfLife
  \/ instance = "pipe" /\ PipeNext /\ OfPipe

\* The fairness of DaemonLife, where an end is promised
OnLife(A) == instance = "life" /\ disorder = {} /\ LifeStep(A) /\ OfLife
MCLifeFairness ==
  /\ WF_vars(OnLife(Deliver)) /\ WF_vars(OnLife(HandleUnixSignal))
  /\ WF_vars(OnLife(AccessReplyFinished))
  /\ WF_vars(OnLife(Tick))
  /\ WF_vars(OnLife(DisposeTimeout)) /\ WF_vars(OnLife(NotifyTimeout))
  /\ \A o \in Object : WF_vars(OnLife(End(o))) /\ WF_vars(OnLife(DeleteObject(o)))

\* That of BlobIO, where answers are
PipeFairness == WF_vars(instance = "pipe" /\ Without({"big"}) /\ Progress /\ OfPipe)

Spec == Init /\ [][Next]_vars /\ MCLifeFairness /\ PipeFairness
=============================================================================
