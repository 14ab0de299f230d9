----------------------------- MODULE RequestQueue -----------------------------
(***************************************************************************)
(* What a SignonSessionCore promises to the authentication sessions that   *)
(* share it: requests for one identity and method are served one at a      *)
(* time, in the order in which they arrived.  A request that has not been  *)
(* started may be withdrawn (cancelled by its client, or refused because   *)
(* its plug-in cannot be run); a started one stays until it is finished,   *)
(* and no request is ever served twice.                                    *)
(***************************************************************************)
EXTENDS Naturals, Sequences, SequencesExt

CONSTANTS
  Req,     \* calls of AuthSession.process()
  NoReq    \* "no request"

VARIABLES
  waiting, \* requests that have not been started, oldest first
  running, \* the request being served, or NoReq
  done     \* requests that have left the queue

queueVars == <<waiting, running, done>>

Init ==
  /\ waiting = <<>>
  /\ running = NoReq
  /\ done = {}

\* A request that was never seen before joins at the end.
Submit(r) ==
  /\ r \notin done \cup ToSet(waiting) \cup {running}
  /\ waiting' = Append(waiting, r)
  /\ UNCHANGED <<running, done>>

\* Only the oldest request starts, and only when nothing else is running.
Start ==
  /\ running = NoReq
  /\ waiting # <<>>
  /\ running' = Head(waiting)
  /\ waiting' = Tail(waiting)
  /\ UNCHANGED done

Finish ==
  /\ running # NoReq
  /\ done' = done \cup {running}
  /\ running' = NoReq
  /\ UNCHANGED waiting

\* A request leaves without having been started.
Withdraw(i) ==
  /\ done' = done \cup {waiting[i]}
  /\ waiting' = RemoveAt(waiting, i)
  /\ UNCHANGED running

Next ==
  \/ \E r \in Req : Submit(r)
  \/ Start
  \/ Finish
  \/ \E i \in DOMAIN waiting : Withdraw(i)

Spec == Init /\ [][Next]_queueVars
===============================================================================
