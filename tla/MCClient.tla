------------------------------ MODULE MCClient ------------------------------
(***************************************************************************)
(* The objects of the client library, each on small instances of its own.  *)
(*                                                                         *)
(* "session": a session over a peer-to-peer connection whose daemon        *)
(* stays, over the bus with calls that are refused and a daemon that ends, *)
(* and over a peer-to-peer connection with everything going wrong.         *)
(* "service": the service likewise.                                        *)
(* "identity", "eager", "news": an identity, one whose application makes   *)
(* calls while it registers for the sake of a query, and one that other    *)
(* clients change and the daemon refuses.                                  *)
(***************************************************************************)
EXTENDS ClientSession, ClientService, TLC

CONSTANTS p1, p2, m1, x1, r1, r2, password

VARIABLES
  instance,            \* which of the objects is looked at; it never changes
  impl, calling, inbox, daemon, waiting, calls, news

identityVars == <<impl, calling, inbox, daemon, waiting, calls, news>>
vars == <<instance, sessionVars, serviceVars, identityVars>>

\* Two calls of process(), a query and a cancel(); for the service three queryMechanisms()
\* and another
TheCalls == {p1, p2, m1, x1}
TheProcessCalls == {p1, p2}
TheCancelCalls == {x1}
TheQueries == {p1, p2, m1}
TheRegistrations == {r1, r2}

Everything == {"again", "refused", "activation", "ends"}
TheInterferences ==
  {{}, {"refused"}, {"refused", "ends"}, {"again", "refused", "ends"}, Everything}

Identity == INSTANCE ClientIdentity WITH
  Method <- {password}, MaxCalls <- 3, MaxNews <- 1, Interference <- {"overtaken"},
  proxy <- calling
Eager == INSTANCE ClientIdentity WITH
  Method <- {password}, MaxCalls <- 3, MaxNews <- 1, Interference <- {"eager"},
  proxy <- calling
News == INSTANCE ClientIdentity WITH
  Method <- {password}, MaxCalls <- 2, MaxNews <- 2,
  Interference <- {"overtaken", "refused", "removed", "disposed", "signouts"},
  proxy <- calling

ASSUME IdentityAssumptions ==
  Identity!IdentityAssumption /\ Eager!IdentityAssumption /\ News!IdentityAssumption

\* What may go wrong, by the connections and how often anything may end
SessionInstances ==
  {<<{}, TRUE, 2>>, <<{"again", "refused", "ends"}, FALSE, 1>>, <<Everything, TRUE, 1>>}
ServiceInstances ==
  {<<{"refused"}, TRUE, 1>>, <<{"refused", "ends"}, FALSE, 1>>, <<Everything, TRUE, 1>>}

\* What an instance leaves alone is at rest.
SessionAtRest == ~manager.peerBus /\ manager.daemon /\ manager.ends = 0
ServiceAtRest ==
  ~service.manager.peerBus /\ service.manager.daemon /\ service.manager.ends = 0
NoIdentity ==
  /\ impl = None /\ calling = None /\ inbox = None /\ daemon = None
  /\ waiting = None /\ calls = None /\ news = None

Init ==
  /\ SessionInit /\ ServiceInit
  /\ \/ /\ instance = "session" /\ ServiceAtRest /\ NoIdentity
        /\ <<interference, manager.peerBus, manager.ends>> \in SessionInstances
     \/ /\ instance = "service" /\ SessionAtRest /\ NoIdentity
        /\ <<interference, service.manager.peerBus, service.manager.ends>>
             \in ServiceInstances
     \/ /\ SessionAtRest /\ ServiceAtRest /\ interference = {}
        /\ \/ instance = "identity" /\ Identity!Init
           \/ instance = "eager" /\ Eager!Init
           \/ instance = "news" /\ News!Init

OfSession == UNCHANGED <<instance, serviceVars, identityVars>>
OfService == UNCHANGED <<instance, sessionVars, identityVars>>
OfIdentity == UNCHANGED <<instance, sessionVars, serviceVars>>

Next ==
  \/ instance = "session" /\ SessionNext /\ OfSession
  \/ instance = "service" /\ ServiceNext /\ OfService
  \/ instance = "identity" /\ Identity!Next /\ OfIdentity
  \/ instance = "eager" /\ Eager!Next /\ OfIdentity
  \/ instance = "news" /\ News!Next /\ OfIdentity

\* Only where calls are claimed to end
Progress ==
  \/ instance = "session" /\ Without({"activation"}) /\ SessionProgress /\ OfSession
  \/ instance = "service" /\ Without({"activation"}) /\ ServiceProgress /\ OfService
  \/ instance = "identity" /\ Identity!Progress /\ OfIdentity
  \/ instance = "eager" /\ Eager!Progress /\ OfIdentity

Spec == Init /\ [][Next]_vars /\ WF_vars(Progress)

-----------------------------------------------------------------------------
\* An identity registers once at a time where the application makes no call while it registers
\* for the sake of a query, and elsewhere as long as no query waits. In both cases what it
\* believes current is what the daemon has, its sessions have its identifier, and its calls are
\* served as long as its registrations are answered: also after a second registration, which
\* ends the program in a build with assertions.
IdentityInv ==
  /\ instance = "identity" => Identity!TypeOK /\ Identity!CallsServed
  /\ instance = "eager" =>
       /\ Eager!TypeOK /\ Eager!CallsServed /\ Eager!OneUnlessQuerying
       /\ Eager!ReadyIsCurrent /\ Eager!SessionsFollow
  /\ instance = "news" => News!TypeOK
  /\ instance \in {"identity", "news"} =>
       Identity!OneRegistration /\ Identity!ReadyIsCurrent /\ Identity!SessionsFollow

\* What an identity hears changes what it believes: one that is removed comes back only by a
\* call of its own or a later update (RevivedByStore), and a sign-out ends its sessions
\* (SignOutEndsSessions). It is claimed where no other client removes it or signs it out at the
\* same time, where no call is made while it registers for the sake of a query, and where the
\* daemon does not dispose of the object of a removed identity, whose "unregistered" signal
\* makes it NeedsRegistration, removed or not (identityimpl.cpp:574-578).
NewsHeeded ==
  [][instance = "identity" =>
       Identity!RevivedByStore /\ Identity!SignOutEndsSessions]_vars

\* Every call ends, of sessions and the service over the bus or over a peer-to-peer connection that
\* stays up (CallsEnd), and every query of an identity whose registrations are answered (QueriesEnd),
\* unless the assertion about its registrations ends the program.
Waits(c) ==
  \/ c \in Own /\ instance = "session" /\ SessionWaits(c)
  \/ c \in Own /\ instance = "service" /\ ServiceWaits(c)
  \/ /\ c \in {"info", "methods"} /\ instance \in {"identity", "eager"}
     /\ c \in waiting /\ Identity!Runs
CallsEnd == \A c \in Own \cup {"info", "methods"} : Waits(c) ~> ~Waits(c)
=============================================================================
